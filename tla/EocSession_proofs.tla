-------------------------- MODULE EocSession_proofs --------------------------
(***************************************************************************)
(* What the session with the management centre (EocSession), and the work  *)
(* it is for (EocWork), promise for every bound on heartbeats, queue,      *)
(* buffer, failures and orders, every number of tables, files and packages.*)
(*                                                                         *)
(* The safety properties have one inductive invariant each.                *)
(*   - Phases: what ThreadEOCCom has passed, it has waited for.  Only then *)
(*     is it a restart and not an overlap of two sessions.                 *)
(*   - LoginFresh: as long as the centre has not accepted a login, no      *)
(*     acceptance is anywhere on its way: ring buffer, queue, proPkgs.     *)
(*   - Counted: heartFlag counts every unanswered heartbeat, except those  *)
(*     intervalPro holds in its hand, and those of a session it is about   *)
(*     to leave.                                                           *)
(*   - StoredSoFar: while proPkgs stores a configuration and nothing has   *)
(*     failed, what lies before the part it is at is of that configuration.*)
(***************************************************************************)
EXTENDS EocSession, EocWork, SequenceTheorems, TLAPS

(* Every variable keeps its type; the ring buffer and the queue of         *)
(* messages stay within their bounds, heartFlag within HeartMax.           *)
THEOREM TypeCorrect == Spec => []TypeOK
<1>1. Init => TypeOK
  <2> SUFFICES ASSUME Init PROVE TypeOK
    OBVIOUS
  <2>1. <<>> \in Seq(Messages) /\ Len(<<>>) = 0
    OBVIOUS
  <2>2. /\ rb \in Seq(Messages) /\ Len(rb) <= RbMax
        /\ held \in Seq(Messages) /\ Len(held) <= 1
    BY <2>1, EocSessionAssumption DEF Init
  <2>3. pkgs \in Seq(Messages) /\ Len(pkgs) <= PkgMax
    BY <2>1, EocSessionAssumption DEF Init
  <2>4. /\ heartFlag \in 0 .. HeartMax /\ seen \in 0 .. HeartMax
        /\ faults \in 0 .. MaxFaults /\ orders \in 0 .. MaxOrders
        /\ silence \in Nat
    BY EocSessionAssumption DEF Init
  <2> QED
    BY <2>2, <2>3, <2>4 DEF Init, TypeOK
<1>2. TypeOK /\ [Next]_vars => TypeOK'
  <2> SUFFICES ASSUME TypeOK, [Next]_vars PROVE TypeOK'
    OBVIOUS
  <2> USE EocSessionAssumption DEF TypeOK, threadVars, dataVars, centreVars, boundVars,
                                   historyVars
  <2>0. <<>> \in Seq(Messages) /\ Len(<<>>) = 0
    OBVIOUS
  <2>1. CASE KeeperLook
    BY <2>1 DEF KeeperLook
  <2>2. ASSUME Crash, UNCHANGED boundVars PROVE TypeOK'
    <3>1. /\ rb' \in Seq(Messages) /\ Len(rb') <= RbMax
          /\ held' \in Seq(Messages) /\ Len(held') <= 1
          /\ pkgs' \in Seq(Messages) /\ Len(pkgs') <= PkgMax
      BY <2>0, <2>2 DEF Crash
    <3>2. heartFlag' \in 0 .. HeartMax /\ seen' \in 0 .. HeartMax /\ silence' \in Nat
      BY <2>2 DEF Crash
    <3>3. /\ isLive' \in BOOLEAN /\ isLogIn' \in BOOLEAN
          /\ dump' \in BOOLEAN /\ accepted' \in BOOLEAN
      BY <2>2, Zenon DEF Crash
    <3> QED
      BY <2>2, <3>1, <3>2, <3>3 DEF Crash
  <2>3. CASE KeeperFree
    <3>1. CASE ~ Crash
      <4>1. /\ ssl' = "null" /\ rb' = <<>> /\ keeper' = "wait"
            /\ UNCHANGED <<isLive, isLogIn, heartFlag, held, pkgs, threadVars, centreVars,
                           historyVars, boundVars>>
        BY <2>3, <3>1, Zenon DEF KeeperFree
      <4> QED
        BY <2>0, <4>1
    <3> QED
      BY <2>2, <2>3, <3>1 DEF KeeperFree
  <2>4. CASE KeeperWait
    BY <2>4 DEF KeeperWait
  <2>5. CASE KeeperFails
    <3>1. pkgs' \in Seq(Messages) /\ Len(pkgs') <= PkgMax
      BY <2>0, <2>5 DEF KeeperFails, AtOpen
    <3> QED
      BY <2>5, <3>1 DEF KeeperFails
  <2>6. CASE KeeperOpens
    <3>1. /\ rb' \in Seq(Messages) /\ Len(rb') <= RbMax
          /\ held' \in Seq(Messages) /\ Len(held') <= 1
          /\ pkgs' \in Seq(Messages) /\ Len(pkgs') <= PkgMax
      BY <2>0, <2>6 DEF KeeperOpens, AtOpen
    <3>2. heartFlag' \in 0 .. HeartMax /\ silence' \in Nat
      BY <2>6 DEF KeeperOpens
    <3>3. /\ isLive' \in BOOLEAN /\ isLogIn' \in BOOLEAN
          /\ dump' \in BOOLEAN /\ accepted' \in BOOLEAN
      BY <2>6, Zenon DEF KeeperOpens
    <3> QED
      BY <2>6, <3>1, <3>2, <3>3 DEF KeeperOpens
  <2>7. CASE DumpFails
    <3>1. isLive' \in BOOLEAN
      BY <2>7, Zenon DEF DumpFails
    <3> QED
      BY <2>7, <3>1 DEF DumpFails
  <2>8. CASE DumpExits
    <3>1. dump' \in BOOLEAN
      BY <2>8, Zenon DEF DumpExits
    <3> QED
      BY <2>0, <2>8, <3>1 DEF DumpExits
  <2>9. ASSUME NEW m \in Messages, Arrives(m)
        PROVE  /\ rb' \in Seq(Messages) /\ Len(rb') <= RbMax
               /\ held' \in Seq(Messages) /\ Len(held') <= 1
    BY <2>9 DEF Arrives
  <2>10. CASE AnswerBeat
    BY <2>9, <2>10 DEF AnswerBeat, Arrives, Messages
  <2>11. CASE AnswerLogin
    BY <2>9, <2>11 DEF AnswerLogin, Arrives, Messages
  <2>12. CASE RefuseLogin
    BY <2>9, <2>12 DEF RefuseLogin, Arrives, Messages
  <2>13. CASE Order
    BY <2>9, <2>13 DEF Order, Arrives, Messages
  <2>14. CASE CutLooks
    BY <2>14 DEF CutLooks
  <2>15. CASE CutReads
    <3>1. CASE rb = <<>>
      BY <2>15, <3>1 DEF CutReads
    <3>2. CASE rb # <<>>
      <4>1. /\ Head(rb) \in Messages
            /\ Tail(rb) \in Seq(Messages) /\ Len(Tail(rb)) <= RbMax
        BY <3>2
      <4>2. /\ rb' = Tail(rb)
            /\ pkgs' = IF HasRoom THEN Append(pkgs, Head(rb)) ELSE pkgs
            /\ UNCHANGED <<keeper, isLive, isLogIn, heartFlag, ssl, held, threadVars,
                           centreVars, boundVars, historyVars>>
        BY <2>15, <3>2, Zenon DEF CutReads
      <4>3. pkgs' \in Seq(Messages) /\ Len(pkgs') <= PkgMax
        BY <4>1, <4>2 DEF HasRoom
      <4> QED
        BY <4>1, <4>2, <4>3
    <3> QED
      BY <3>1, <3>2
  <2>16. CASE CutFalls
    BY <2>2, <2>16 DEF CutFalls
  <2>17. CASE ProLooks
    BY <2>17 DEF ProLooks
  <2>18. CASE ProPops
    <3>1. CASE pkgs = <<>>
      BY <2>18, <3>1 DEF ProPops
    <3>2. CASE pkgs # <<>>
      <4>1. /\ Head(pkgs) \in Messages
            /\ Tail(pkgs) \in Seq(Messages) /\ Len(Tail(pkgs)) <= PkgMax
        BY <3>2
      <4>2. pro' = Head(pkgs) /\ pkgs' = Tail(pkgs)
        BY <2>18, <3>2, Zenon DEF ProPops
      <4> QED
        BY <2>18, <4>1, <4>2 DEF ProPops
    <3> QED
      BY <3>1, <3>2
  <2>19. CASE ProcessR100
    BY <2>19 DEF ProcessR100
  <2>20. CASE ProcessR101
    BY <2>20 DEF ProcessR101
  <2>21. CASE ProcessOrder
    <3>1. CASE Crash
      BY <2>2, <2>21, <3>1 DEF ProcessOrder
    <3>2. CASE ~ Crash
      <4>1. /\ pro' = "look"
            /\ UNCHANGED <<keeper, isLive, ssl, dump, cut, beat, seen, dataVars, centreVars,
                           historyVars, boundVars>>
        BY <2>21, <3>2, Zenon DEF ProcessOrder
      <4> QED
        BY <4>1
    <3> QED
      BY <3>1, <3>2
  <2>22. CASE BeatLooks
    BY <2>22 DEF BeatLooks
  <2>23. CASE BeatWakes
    BY <2>23 DEF BeatWakes
  <2>24. ASSUME NEW m \in SUBSET {"S100", "S101"}, Sends(m)
         PROVE  isLive' \in BOOLEAN /\ requests' \subseteq {"S100", "S101"}
    BY <2>24 DEF Sends, Written
  <2>25. CASE Login
    BY <2>24, <2>25 DEF Login
  <2>26. CASE Report
    <3>1. isLive' \in BOOLEAN /\ requests' \subseteq {"S100", "S101"}
      <4>1. CASE Sends({})
        BY <2>24, <4>1
      <4>2. CASE UNCHANGED <<isLive, requests>>
        BY <4>2
      <4> QED
        BY <2>26, <4>1, <4>2 DEF Report
    <3> QED
      BY <2>26, <3>1 DEF Report
  <2>27. CASE Continue
    BY <2>27 DEF Continue
  <2>28. CASE HeartNotDue
    BY <2>28 DEF HeartNotDue
  <2>29. CASE Heartbeat
    BY <2>24, <2>29 DEF Heartbeat
  <2>30. CASE HeartCount
    BY <2>30 DEF HeartCount, TooSilent
  <2>31. CASE BeatFalls
    BY <2>2, <2>31 DEF BeatFalls
  <2>32. CASE LinkFails
    BY <2>32 DEF LinkFails
  <2>33. CASE UNCHANGED vars
    BY <2>33 DEF vars
  <2>34. CASE Rest
    BY <2>34 DEF Rest
  <2> QED
    BY <2>1, <2>3, <2>4, <2>5, <2>6, <2>7, <2>8, <2>10, <2>11, <2>12, <2>13, <2>14, <2>15,
       <2>16, <2>17, <2>18, <2>19, <2>20, <2>21, <2>22, <2>23, <2>25, <2>26, <2>27, <2>28,
       <2>29, <2>30, <2>31, <2>32, <2>33, <2>34
       DEF Next, ThreadEOCCom, ThreadDump, Centre, getPkgs, proPkgs, intervalPro
<1> QED
  BY <1>1, <1>2, PTL DEF Spec

-----------------------------------------------------------------------------
(* What ThreadEOCCom has passed it has waited for: it sees the loss of the *)
(* session before it closes, the end of ThreadDump before it frees, and    *)
(* the end of the other three before it opens again.                       *)
Phases ==
  /\ LiveIsOpen
  /\ keeper # "sleep" => ~isLive
  /\ keeper = "wait" => ~dump

LEMMA PhasesStep == TypeOK /\ Phases /\ [Next]_vars => Phases'
<1> SUFFICES ASSUME TypeOK, Phases, [Next]_vars PROVE Phases'
  OBVIOUS
<1> USE DEF Phases, LiveIsOpen, threadVars, dataVars, centreVars, boundVars, historyVars
<1>1. CASE KeeperLook
  BY <1>1 DEF KeeperLook
<1>2. CASE KeeperFree
  BY <1>2 DEF KeeperFree, Crash
<1>3. CASE KeeperWait
  BY <1>3 DEF KeeperWait, AllGone
<1>4. CASE KeeperFails
  BY <1>4 DEF KeeperFails, AtOpen
<1>5. CASE KeeperOpens
  BY <1>5 DEF KeeperOpens, AtOpen
<1>6. CASE DumpFails
  BY <1>6 DEF DumpFails
<1>7. CASE DumpExits
  BY <1>7 DEF DumpExits
<1>8. CASE AnswerBeat
  BY <1>8 DEF AnswerBeat, Arrives
<1>9. CASE AnswerLogin
  BY <1>9 DEF AnswerLogin, Arrives
<1>10. CASE RefuseLogin
  BY <1>10 DEF RefuseLogin, Arrives
<1>11. CASE Order
  BY <1>11 DEF Order, Arrives
<1>12. CASE CutLooks
  BY <1>12 DEF CutLooks
<1>13. CASE CutReads
  BY <1>13 DEF CutReads
<1>14. CASE CutFalls
  BY <1>14 DEF CutFalls, Crash
<1>15. CASE ProLooks
  BY <1>15 DEF ProLooks
<1>16. CASE ProPops
  <2>1. pro' # "gone"
    <3>1. CASE pkgs = <<>>
      BY <1>16, <3>1, Zenon DEF ProPops
    <3>2. CASE pkgs # <<>>
      <4>1. pro' = Head(pkgs)
        BY <1>16, <3>2, Zenon DEF ProPops
      <4> QED
        BY <3>2, <4>1 DEF TypeOK, Messages
    <3> QED
      BY <3>1, <3>2
  <2> QED
    BY <1>16, <2>1 DEF ProPops
<1>17. CASE ProcessR100
  BY <1>17 DEF ProcessR100
<1>18. CASE ProcessR101
  BY <1>18 DEF ProcessR101
<1>19. CASE ProcessOrder
  BY <1>19 DEF ProcessOrder, Crash
<1>20. CASE BeatLooks
  BY <1>20 DEF BeatLooks
<1>21. CASE BeatWakes
  BY <1>21 DEF BeatWakes
<1>22. CASE Login
  BY <1>22 DEF Login, Sends
<1>23. CASE Report
  <2>1. isLive' => isLive
    BY <1>23 DEF Report, Sends
  <2>2. beat' # "gone" /\ UNCHANGED <<keeper, ssl, dump, cut, pro>> /\ keeper # "open"
    BY <1>23 DEF Report
  <2> QED
    BY <2>1, <2>2
<1>24. CASE Continue
  BY <1>24 DEF Continue
<1>25. CASE HeartNotDue
  BY <1>25 DEF HeartNotDue
<1>26. CASE Heartbeat
  BY <1>26 DEF Heartbeat, Sends
<1>27. CASE HeartCount
  BY <1>27 DEF HeartCount, TooSilent
<1>28. CASE BeatFalls
  BY <1>28 DEF BeatFalls, Crash
<1>29. CASE LinkFails
  BY <1>29 DEF LinkFails
<1>30. CASE UNCHANGED vars
  BY <1>30 DEF vars
<1>31. CASE Rest
  BY <1>31 DEF Rest
<1> QED
  BY <1>1, <1>2, <1>3, <1>4, <1>5, <1>6, <1>7, <1>8, <1>9, <1>10, <1>11, <1>12, <1>13, <1>14,
     <1>15, <1>16, <1>17, <1>18, <1>19, <1>20, <1>21, <1>22, <1>23, <1>24, <1>25, <1>26, <1>27,
     <1>28, <1>29, <1>30, <1>31
     DEF Next, ThreadEOCCom, ThreadDump, Centre, getPkgs, proPkgs, intervalPro

(* A session is live only on what it has opened, with all its threads, and *)
(* the threads of the session before are gone when it begins: KeeperFree   *)
(* and KeeperWait wait for them.                                           *)
THEOREM LiveIsOpenHolds == Spec => []LiveIsOpen
<1>1. Init => Phases
  BY DEF Init, Phases, LiveIsOpen
<1> QED
  BY <1>1, TypeCorrect, PhasesStep, PTL DEF Spec, Phases

(* A step that takes the process with it.                                  *)
ProcessFalls == (KeeperFree \/ CutFalls \/ ProcessOrder \/ BeatFalls) /\ Crash

(* The process only ever falls, on something freed or never made, when the *)
(* session has been lost: a session that works never ends it.              *)
THEOREM FallsOnlyAfterLoss == Spec => [][ProcessFalls => ~isLive]_vars
<1>1. Init => Phases
  BY DEF Init, Phases, LiveIsOpen
<1>2. ASSUME Phases, ProcessFalls PROVE ~isLive
  <2>1. CASE KeeperFree
    BY <1>2, <2>1 DEF KeeperFree, Phases
  <2>2. CASE CutFalls \/ BeatFalls
    BY <1>2, <2>2 DEF CutFalls, BeatFalls, Phases, LiveIsOpen
  <2>3. CASE ProcessOrder
    BY <1>2, <2>3 DEF ProcessOrder, ProcessFalls, Crash, Phases, LiveIsOpen
  <2> QED
    BY <1>2, <2>1, <2>2, <2>3 DEF ProcessFalls
<1>3. Phases /\ [Next]_vars => [ProcessFalls => ~isLive]_vars
  BY <1>2
<1> QED
  BY <1>1, <1>3, TypeCorrect, PhasesStep, PTL DEF Spec

-----------------------------------------------------------------------------
(* Before the centre has accepted a login of this session, no acceptance   *)
(* is on its way to isLogIn: not with SSL or in the ring buffer, which     *)
(* TlsClient::Open makes anew, not in the queue, which EOCCom::Open        *)
(* clears, and not in the hands of proPkgs, which EOCCom::Close has waited *)
(* for.                                                                    *)
Fresh == Messages \ {"R101ok"}
LoginFresh ==
  ~accepted => /\ ~isLogIn
               /\ held \in Seq(Fresh) /\ rb \in Seq(Fresh) /\ pkgs \in Seq(Fresh)
               /\ pro # "R101ok"

LEMMA LoginFreshStep == TypeOK /\ LoginFresh /\ [Next]_vars => LoginFresh'
<1> SUFFICES ASSUME TypeOK, LoginFresh, [Next]_vars PROVE LoginFresh'
  OBVIOUS
<1> USE DEF LoginFresh, threadVars, dataVars, centreVars, boundVars, historyVars
<1>0. ASSUME Crash PROVE LoginFresh'
  BY <1>0 DEF Crash
<1>1. CASE KeeperLook
  BY <1>1 DEF KeeperLook
<1>2. CASE KeeperFree
  <2>1. CASE ~ Crash
    <3>1. rb' = <<>> /\ UNCHANGED <<isLogIn, held, pkgs, pro, accepted>>
      BY <1>2, <2>1, Zenon DEF KeeperFree
    <3> QED
      BY <3>1
  <2> QED
    BY <1>0, <2>1
<1>3. CASE KeeperWait
  BY <1>3 DEF KeeperWait
<1>4. CASE KeeperFails
  BY <1>4 DEF KeeperFails, AtOpen
<1>5. CASE KeeperOpens
  BY <1>5 DEF KeeperOpens, AtOpen
<1>6. CASE DumpFails
  BY <1>6 DEF DumpFails
<1>7. CASE DumpExits
  BY <1>7 DEF DumpExits
<1>8. CASE AnswerBeat
  <2>1. /\ rb' = rb \o held /\ held' = <<"R100">>
        /\ UNCHANGED <<isLogIn, pkgs, pro, accepted>>
    BY <1>8 DEF AnswerBeat, Arrives
  <2>2. "R100" \in Fresh
    BY DEF Fresh, Messages
  <2> QED
    BY <2>1, <2>2
<1>9. CASE AnswerLogin
  BY <1>9 DEF AnswerLogin, Arrives
<1>10. CASE RefuseLogin
  <2>1. /\ rb' = rb \o held /\ held' = <<"R101no">>
        /\ UNCHANGED <<isLogIn, pkgs, pro, accepted>>
    BY <1>10 DEF RefuseLogin, Arrives
  <2>2. "R101no" \in Fresh
    BY DEF Fresh, Messages
  <2> QED
    BY <2>1, <2>2
<1>11. CASE Order
  <2>1. /\ rb' = rb \o held /\ held' = <<"order">>
        /\ UNCHANGED <<isLogIn, pkgs, pro, accepted>>
    BY <1>11 DEF Order, Arrives
  <2>2. "order" \in Fresh
    BY DEF Fresh, Messages
  <2> QED
    BY <2>1, <2>2
<1>12. CASE CutLooks
  BY <1>12 DEF CutLooks
<1>13. CASE CutReads
  <2>1. CASE rb = <<>>
    BY <1>13, <2>1, Zenon DEF CutReads
  <2>2. CASE rb # <<>>
    <3>1. /\ rb' = Tail(rb)
          /\ pkgs' = IF HasRoom THEN Append(pkgs, Head(rb)) ELSE pkgs
          /\ UNCHANGED <<isLogIn, held, pro, accepted>>
      BY <1>13, <2>2, Zenon DEF CutReads, historyVars
    <3> QED
      BY <2>2, <3>1
  <2> QED
    BY <2>1, <2>2
<1>14. CASE CutFalls
  BY <1>0, <1>14 DEF CutFalls
<1>15. CASE ProLooks
  BY <1>15 DEF ProLooks
<1>16. CASE ProPops
  <2>1. CASE pkgs = <<>>
    BY <1>16, <2>1, Zenon DEF ProPops, historyVars
  <2>2. CASE pkgs # <<>>
    <3>1. pro' = Head(pkgs) /\ pkgs' = Tail(pkgs) /\ UNCHANGED <<isLogIn, held, rb, accepted>>
      BY <1>16, <2>2, Zenon DEF ProPops, historyVars
    <3>2. ~accepted => Head(pkgs) \in Fresh
      BY <2>2
    <3> QED
      BY <2>2, <3>1, <3>2 DEF Fresh
  <2> QED
    BY <2>1, <2>2
<1>17. CASE ProcessR100
  BY <1>17 DEF ProcessR100
<1>18. CASE ProcessR101
  BY <1>18 DEF ProcessR101
<1>19. CASE ProcessOrder
  <2>1. CASE ~ Crash
    <3>1. pro' = "look" /\ UNCHANGED <<isLogIn, held, rb, pkgs, accepted>>
      BY <1>19, <2>1, Zenon DEF ProcessOrder, dataVars, historyVars
    <3> QED
      BY <3>1
  <2> QED
    BY <1>0, <2>1
<1>20. CASE BeatLooks
  BY <1>20 DEF BeatLooks
<1>21. CASE BeatWakes
  BY <1>21 DEF BeatWakes
<1>22. CASE Login
  BY <1>22 DEF Login, Sends
<1>23. CASE Report
  BY <1>23 DEF Report, Sends
<1>24. CASE Continue
  BY <1>24 DEF Continue
<1>25. CASE HeartNotDue
  BY <1>25 DEF HeartNotDue
<1>26. CASE Heartbeat
  BY <1>26 DEF Heartbeat, Sends
<1>27. CASE HeartCount
  BY <1>27 DEF HeartCount, TooSilent
<1>28. CASE BeatFalls
  BY <1>0, <1>28 DEF BeatFalls
<1>29. CASE LinkFails
  BY <1>29 DEF LinkFails
<1>30. CASE UNCHANGED vars
  BY <1>30 DEF vars
<1>31. CASE Rest
  BY <1>31 DEF Rest
<1> QED
  BY <1>1, <1>2, <1>3, <1>4, <1>5, <1>6, <1>7, <1>8, <1>9, <1>10, <1>11, <1>12, <1>13, <1>14,
     <1>15, <1>16, <1>17, <1>18, <1>19, <1>20, <1>21, <1>22, <1>23, <1>24, <1>25, <1>26, <1>27,
     <1>28, <1>29, <1>30, <1>31
     DEF Next, ThreadEOCCom, ThreadDump, Centre, getPkgs, proPkgs, intervalPro

(* isLogIn never rests on a login of an earlier session, whatever of that  *)
(* session was still in the queue or with proPkgs when it was lost.        *)
THEOREM LoggedInThisSessionHolds == Spec => []LoggedInThisSession
<1>1. Init => LoginFresh
  BY DEF Init, LoginFresh
<1>2. LoginFresh => LoggedInThisSession
  BY DEF LoginFresh, LoggedInThisSession
<1> QED
  BY <1>1, <1>2, TypeCorrect, LoginFreshStep, PTL DEF Spec

-----------------------------------------------------------------------------
(* heartFlag has counted every heartbeat that went unanswered.  Two things *)
(* are outside it: the one intervalPro has sent and not counted yet, which *)
(* its own copy of heartFlag covers even if proPkgs clears heartFlag in    *)
(* between; and, in a session that is lost, what intervalPro has counted   *)
(* in the round after which it leaves.                                     *)
Counted ==
  /\ silence <= HeartMax + 1
  /\ beat = "count" => silence <= seen + 1
  /\ (isLive /\ beat # "count") \/ beat \in {"sleep", "login", "query", "heart"}
       => silence <= heartFlag

LEMMA CountedStep == TypeOK /\ Counted /\ [Next]_vars => Counted'
<1> SUFFICES ASSUME TypeOK, Counted, [Next]_vars PROVE Counted'
  OBVIOUS
<1> USE EocSessionAssumption DEF TypeOK, Counted, threadVars, dataVars, centreVars, boundVars, historyVars
<1>0. ASSUME Crash PROVE Counted'
  BY <1>0 DEF Crash
<1>1. CASE KeeperLook
  BY <1>1 DEF KeeperLook
<1>2. CASE KeeperFree
  BY <1>0, <1>2 DEF KeeperFree
<1>3. CASE KeeperWait
  BY <1>3 DEF KeeperWait
<1>4. CASE KeeperFails
  BY <1>4 DEF KeeperFails, AtOpen
<1>5. CASE KeeperOpens
  BY <1>5 DEF KeeperOpens, AtOpen
<1>6. CASE DumpFails
  BY <1>6 DEF DumpFails
<1>7. CASE DumpExits
  BY <1>7 DEF DumpExits
<1>8. CASE AnswerBeat
  BY <1>8 DEF AnswerBeat, Arrives
<1>9. CASE AnswerLogin
  BY <1>9 DEF AnswerLogin, Arrives
<1>10. CASE RefuseLogin
  BY <1>10 DEF RefuseLogin, Arrives
<1>11. CASE Order
  BY <1>11 DEF Order, Arrives
<1>12. CASE CutLooks
  BY <1>12 DEF CutLooks
<1>13. CASE CutReads
  BY <1>13 DEF CutReads
<1>14. CASE CutFalls
  BY <1>0, <1>14 DEF CutFalls
<1>15. CASE ProLooks
  BY <1>15 DEF ProLooks
<1>16. CASE ProPops
  BY <1>16 DEF ProPops
<1>17. CASE ProcessR100
  BY <1>17 DEF ProcessR100
<1>18. CASE ProcessR101
  BY <1>18 DEF ProcessR101
<1>19. CASE ProcessOrder
  BY <1>0, <1>19 DEF ProcessOrder
<1>20. CASE BeatLooks
  BY <1>20 DEF BeatLooks
<1>21. CASE BeatWakes
  BY <1>21 DEF BeatWakes
<1>22. CASE Login
  BY <1>22 DEF Login, Sends
<1>23. CASE Report
  <2>1. isLive' => isLive
    BY <1>23 DEF Report, Sends
  <2>2. /\ beat \in {"query", "rest"}
        /\ beat' = IF beat = "query" THEN "heart" ELSE "look"
        /\ UNCHANGED <<heartFlag, seen, silence>>
    BY <1>23 DEF Report
  <2> QED
    BY <2>1, <2>2
<1>24. CASE Continue
  BY <1>24 DEF Continue
<1>25. CASE HeartNotDue
  BY <1>25 DEF HeartNotDue
<1>26. CASE Heartbeat
  BY <1>26 DEF Heartbeat, Sends
<1>27. CASE HeartCount
  BY <1>27 DEF HeartCount, TooSilent
<1>28. CASE BeatFalls
  BY <1>0, <1>28 DEF BeatFalls
<1>29. CASE LinkFails
  BY <1>29 DEF LinkFails
<1>30. CASE UNCHANGED vars
  BY <1>30 DEF vars
<1>31. CASE Rest
  BY <1>31 DEF Rest
<1> QED
  BY <1>1, <1>2, <1>3, <1>4, <1>5, <1>6, <1>7, <1>8, <1>9, <1>10, <1>11, <1>12, <1>13, <1>14,
     <1>15, <1>16, <1>17, <1>18, <1>19, <1>20, <1>21, <1>22, <1>23, <1>24, <1>25, <1>26, <1>27,
     <1>28, <1>29, <1>30, <1>31
     DEF Next, ThreadEOCCom, ThreadDump, Centre, getPkgs, proPkgs, intervalPro

(* A session is given up at the latest with the heartbeat after HeartMax   *)
(* unanswered ones, though proPkgs may clear heartFlag between the load    *)
(* and the store of intervalPro.                                           *)
THEOREM SilenceBoundedHolds == Spec => []SilenceBounded
<1>1. Init => Counted
  BY EocSessionAssumption DEF Init, Counted
<1>2. TypeOK /\ Counted => SilenceBounded
  BY EocSessionAssumption DEF TypeOK, Counted, SilenceBounded
<1> QED
  BY <1>1, <1>2, TypeCorrect, CountedStep, PTL DEF Spec
-----------------------------------------------------------------------------
(* What the session is for, EocWork: configurations, downloads, restarts.  *)

(* The messages of downloads_msg.                                          *)
Downloads == [pkg : Packages, status : {"idle", "finished", "failed"}]

(* Setting the status of a message leaves the number of messages as it is. *)
WithStatus(d, i, s) == IF i \in DOMAIN d THEN [d EXCEPT ![i].status = s] ELSE d

LEMMA StatusSet ==
  ASSUME NEW d \in Seq(Downloads), NEW i, NEW s \in {"idle", "finished", "failed"}
  PROVE  WithStatus(d, i, s) \in Seq(Downloads) /\ Len(WithStatus(d, i, s)) = Len(d)
<1> USE DEF WithStatus
<1>1. CASE i \in DOMAIN d
  <2>1. i \in 1 .. Len(d) /\ d[i] \in Downloads
    BY <1>1
  <2>2. [d[i] EXCEPT !.status = s] \in Downloads
    BY <2>1 DEF Downloads
  <2>3. WithStatus(d, i, s) = [d EXCEPT ![i] = [d[i] EXCEPT !.status = s]]
    BY <1>1
  <2> QED
    BY <2>1, <2>2, <2>3
<1>2. CASE i \notin DOMAIN d
  BY <1>2
<1> QED
  BY <1>1, <1>2

(* Erasing one makes the list shorter by one.                              *)
LEMMA OneErased ==
  ASSUME NEW d \in Seq(Downloads), NEW i \in DOMAIN d
  PROVE  /\ RemoveAt(d, i) \in Seq(Downloads)
         /\ Len(RemoveAt(d, i)) = Len(d) - 1
<1> DEFINE a == SubSeq(d, 1, i - 1)
           b == SubSeq(d, i + 1, Len(d))
<1>1. i \in 1 .. Len(d) /\ Len(d) \in Nat /\ \A j \in 1 .. Len(d) : d[j] \in Downloads
  OBVIOUS
<1>2. a \in Seq(Downloads) /\ Len(a) = i - 1
  <2>1. \A j \in 1 .. i - 1 : d[j] \in Downloads
    BY <1>1
  <2>2. a \in Seq(Downloads) /\ Len(a) = (IF 1 <= i - 1 THEN i - 1 - 1 + 1 ELSE 0)
    BY <1>1, <2>1, SubSeqProperties
  <2> HIDE DEF a
  <2> QED
    BY <1>1, <2>2
<1>3. b \in Seq(Downloads) /\ Len(b) = Len(d) - i
  <2>1. \A j \in i + 1 .. Len(d) : d[j] \in Downloads
    BY <1>1
  <2>2. b \in Seq(Downloads) /\ Len(b) = (IF i + 1 <= Len(d) THEN Len(d) - (i + 1) + 1 ELSE 0)
    BY <1>1, <2>1, SubSeqProperties
  <2> HIDE DEF b
  <2> QED
    BY <1>1, <2>2
<1> HIDE DEF a, b
<1>4. a \o b \in Seq(Downloads) /\ Len(a \o b) = Len(a) + Len(b)
  BY <1>2, <1>3, ConcatProperties
<1>5. RemoveAt(d, i) = a \o b
  BY Zenon DEF RemoveAt, a, b
<1> QED
  BY <1>1, <1>2, <1>3, <1>4, <1>5

(* A thread that finds its URL finds it at a place of the list.            *)
LEMMA PlaceInList ==
  ASSUME WorkTypeOK, NEW p \in Packages, p \in Urls
  PROVE  PlaceOf(p) \in 1 .. Len(downloads)
<1>1. PICK i \in DOMAIN downloads : downloads[i].pkg = p
  BY DEF Urls
<1>2. PlaceOf(p) \in DOMAIN downloads
  BY <1>1 DEF PlaceOf
<1> QED
  BY <1>2 DEF WorkTypeOK

(* The parts a storing goes through, in numbers.                           *)
LEMMA PartNumbers ==
  /\ Version \in Nat /\ Version >= 2 /\ Parts = 1 .. Version
  /\ Equips \in Parts /\ Version \notin Files \cup {Equips}
  /\ Parts = Tables \cup {Equips} \cup Files \cup {Version}
  /\ LastPart \in {Version - 1, Version}
BY EocWorkAssumption DEF Version, Parts, Tables, Equips, Files, LastPart

(* The start of the process anew, which may leave devices half inserted.   *)
LEMMA RestartTyped ==
  ASSUME WorkTypeOK, Restart, failures' \in 0 .. MaxFailures
  PROVE  WorkTypeOK'
<1> USE DEF WorkTypeOK, Restart
<1>1. downloads' \in Seq(Downloads) /\ Len(downloads') = 0
  BY DEF Downloads
<1>2. asked' \in BOOLEAN /\ cached' \in BOOLEAN
  BY Zenon
<1>3. part' \in 1 .. LastPart' /\ storing' \in 0 .. MaxConfigs
  BY EocWorkAssumption DEF LastPart, Version
<1>4. db' \in [Parts -> SUBSET (0 .. MaxConfigs)] /\ lacking' \subseteq Parts
  BY PartNumbers, EocWorkAssumption DEF SomeInserted, Torn
<1>5. /\ cursor' \in 0 .. Len(downloads') + 1 /\ tasks' \in 0 .. 2
      /\ capacity' \in Nat /\ Len(downloads') <= capacity'
  BY <1>1
<1>6. /\ fetch' \in [Packages -> {"none", "start", "run", "spoilt"}]
      /\ hold' \in [Packages -> 0 .. capacity']
  OBVIOUS
<1> QED
  BY <1>1, <1>2, <1>3, <1>4, <1>5, <1>6 DEF Downloads

(* ... with the database the centre's configurations are stored in ...     *)
LEMMA NextPartTyped ==
  ASSUME WorkTypeOK, NextPart, storing' = storing
  PROVE  job' \in {"clear", "answer"} /\ part' \in 1 .. LastPart'
<1>1. part \in 1 .. LastPart /\ LastPart' = LastPart /\ LastPart \in Nat \ {0}
  BY PartNumbers DEF WorkTypeOK, LastPart
<1> QED
  BY <1>1 DEF NextPart

LEMMA StoringTyped ==
  ASSUME WorkTypeOK, R102 \/ R104 \/ Storing
  PROVE  WorkTypeOK'
<1> USE DEF WorkTypeOK, roundVars, loadVars, countVars
<1>1. ASSUME NEW c, Store(c) PROVE part' \in 1 .. LastPart' /\ job' = "clear"
  BY <1>1, PartNumbers, EocWorkAssumption DEF Store, LastPart, Version
<1>2. Fault => failures' \in 0 .. MaxFailures
  BY EocWorkAssumption DEF Fault
<1>3. CASE R102
  <2>1. wanted' \in 1 .. MaxConfigs /\ storing' \in 0 .. MaxConfigs
    BY <1>3, EocWorkAssumption DEF R102, Store
  <2> QED
    BY <1>1, <1>3, <2>1 DEF R102, Store
<1>4. CASE R104
  <2>1. asked' \in BOOLEAN
    BY <1>4, Zenon DEF R104
  <2>2. storing' \in 0 .. MaxConfigs
    BY <1>4 DEF R104, Store
  <2> QED
    BY <1>1, <1>4, <2>1, <2>2 DEF R104, Store
<1>5. CASE Clear
  <2>0. part \in Parts /\ UNCHANGED storing
    BY <1>5, PartNumbers DEF Clear
  <2>1. CASE db' = [db EXCEPT ![part] = {}] /\ job' = "fill" /\ UNCHANGED <<part, lacking, countVars>>
    <3>1. db' \in [Parts -> SUBSET (0 .. MaxConfigs)] /\ LastPart' = LastPart
      BY <2>0, <2>1 DEF LastPart
    <3> QED
      BY <1>5, <2>1, <3>1 DEF Clear
  <2>2. CASE /\ Fault
             /\ IF part \in Files THEN NextPart /\ lacking' = lacking \cup {part}
                                 ELSE job' = "fill" /\ UNCHANGED <<part, lacking>>
             /\ UNCHANGED <<db, upgrades>>
    <3>1. job' \in {"clear", "answer", "fill"} /\ part' \in 1 .. LastPart'
      BY <2>0, <2>2, NextPartTyped DEF LastPart
    <3>2. lacking' \subseteq Parts
      BY <2>0, <2>2
    <3> QED
      BY <1>2, <1>5, <2>2, <3>1, <3>2 DEF Clear
  <2> QED
    BY <1>5, <2>1, <2>2 DEF Clear
<1>6. CASE Fill
  <2>0. part \in Parts /\ UNCHANGED storing
    BY <1>6, PartNumbers DEF Fill
  <2>1. db' \in [Parts -> SUBSET (0 .. MaxConfigs)]
    BY <1>6, <2>0, PartNumbers, EocWorkAssumption DEF Fill, SomeInserted, Torn
  <2>2. lacking' \subseteq Parts
    BY <1>6, <2>0 DEF Fill
  <2>3. failures' \in 0 .. MaxFailures /\ upgrades' \in 0 .. MaxUpgrades
    BY <1>2, <1>6 DEF Fill
  <2>4. job' \in {"clear", "answer"} /\ part' \in 1 .. LastPart'
    BY <1>6, <2>0, NextPartTyped DEF Fill
  <2> QED
    BY <1>6, <2>1, <2>2, <2>3, <2>4 DEF Fill
<1>7. CASE AddTask
  <2>1. tasks' \in 0 .. 2 /\ storing' \in 0 .. MaxConfigs
    BY <1>7, EocWorkAssumption DEF AddTask
  <2>2. part' \in 1 .. LastPart'
    BY <1>7, PartNumbers, EocWorkAssumption DEF AddTask, LastPart, Version
  <2> QED
    BY <1>7, <2>1, <2>2 DEF AddTask
<1>8. CASE Extract
  <2>1. file' \in Packages \cup {None, Partial}
    BY <1>8 DEF Extract
  <2>2. failures' \in 0 .. MaxFailures /\ upgrades' \in 0 .. MaxUpgrades
    BY <1>2, <1>8 DEF Extract
  <2>3. UNCHANGED <<part, storing>> /\ LastPart' = LastPart
    BY <1>8 DEF Extract, configVars, LastPart
  <2> QED
    BY <1>8, <2>1, <2>2, <2>3 DEF Extract, configVars
<1> QED
  BY <1>3, <1>4, <1>5, <1>6, <1>7, <1>8 DEF Storing

(* ... with the downloads, wherever push_back moves the list to ...        *)
LEMMA OrderTyped ==
  ASSUME WorkTypeOK, NEW p \in Packages, R106(p) \/ R107(p)
  PROVE  WorkTypeOK'
<1> USE DEF WorkTypeOK, LastPart, configVars, roundVars, loadVars
<1>1. CASE R107(p)
  BY <1>1, EocWorkAssumption DEF R107
<1>2. CASE R106(p)
  <2>1. upgrades' \in 0 .. MaxUpgrades
    BY <1>2, EocWorkAssumption DEF R106
  <2>2. capacity \in Nat
    OBVIOUS
  <2>3. CASE ~ (file = None /\ p \notin Urls)
    BY <1>2, <2>1, <2>3 DEF R106
  <2>4. CASE file = None /\ p \notin Urls
    <3>1. /\ downloads' = Append(downloads, [pkg |-> p, status |-> "idle"])
          /\ fetch' = [fetch EXCEPT ![p] = "start"]
      BY <1>2, <2>4 DEF R106
    <3>2. [pkg |-> p, status |-> "idle"] \in Downloads
      BY DEF Downloads
    <3>3. downloads' \in Seq(Downloads) /\ Len(downloads') = Len(downloads) + 1
      BY <3>1, <3>2 DEF Downloads
    <3>4. fetch' \in [Packages -> {"none", "start", "run", "spoilt"}]
      BY <3>1
    <3>5. CASE Len(downloads) = capacity
      <4>1. /\ capacity' = IF capacity = 0 THEN 1 ELSE 2 * capacity
            /\ hold' = [q \in Packages |-> 0]
            /\ cursor' = IF round = "report" THEN 0 ELSE cursor
        BY <1>2, <2>4, <3>5 DEF R106
      <4>2. capacity' \in Nat /\ Len(downloads') <= capacity'
        BY <2>2, <3>3, <3>5, <4>1
      <4>3. hold' \in [Packages -> 0 .. capacity']
        BY <4>1, <4>2
      <4>4. cursor' \in 0 .. Len(downloads') + 1
        BY <3>3, <4>1
      <4> QED
        BY <1>2, <2>1, <3>3, <3>4, <4>2, <4>3, <4>4 DEF R106, Downloads
    <3>6. CASE Len(downloads) # capacity
      <4>1. UNCHANGED <<capacity, hold, cursor>>
        BY <1>2, <2>4, <3>6 DEF R106
      <4>2. Len(downloads') <= capacity' /\ cursor' \in 0 .. Len(downloads') + 1
        BY <2>2, <3>3, <3>6, <4>1
      <4> QED
        BY <1>2, <2>1, <3>3, <3>4, <4>1, <4>2 DEF R106, Downloads
    <3> QED
      BY <3>5, <3>6
  <2> QED
    BY <2>3, <2>4
<1> QED
  BY <1>1, <1>2

LEMMA DownloadTyped ==
  ASSUME WorkTypeOK, NEW p \in Packages, ThreadDownload(p)
  PROVE  WorkTypeOK'
<1> USE DEF WorkTypeOK, LastPart, configVars, roundVars, countVars
<1>0. Fault => failures' \in 0 .. MaxFailures
  BY EocWorkAssumption DEF Fault
<1>1. downloads \in Seq(Downloads)
  BY DEF Downloads
<1>2. ASSUME NEW i, NEW s \in {"finished", "failed"}, SetStatus(i, s)
      PROVE  downloads' \in Seq(Downloads) /\ Len(downloads') = Len(downloads)
  <2>1. s \in {"idle", "finished", "failed"}
    OBVIOUS
  <2>2. downloads' = WithStatus(downloads, i, s)
    BY <1>2 DEF SetStatus, WithStatus
  <2>3. /\ WithStatus(downloads, i, s) \in Seq(Downloads)
        /\ Len(WithStatus(downloads, i, s)) = Len(downloads)
    BY <1>1, <2>1, StatusSet, Zenon
  <2> QED
    BY <2>2, <2>3
<1>3. CASE DownloadStarts(p)
  <2>1. CASE p \in Urls /\ Opens(p) /\ UNCHANGED countVars
    <3>1. PlaceOf(p) \in 1 .. Len(downloads)
      BY <2>1, PlaceInList
    <3>2. hold' \in [Packages -> 0 .. capacity]
      BY <1>1, <2>1, <3>1 DEF Opens
    <3>3. fetch' \in [Packages -> {"none", "start", "run", "spoilt"}]
      BY <2>1 DEF Opens
    <3> QED
      BY <1>3, <2>1, <3>2, <3>3 DEF DownloadStarts, Opens
  <2>2. CASE /\ p \in Urls => Fault /\ SetStatus(PlaceOf(p), "failed")
             /\ p \notin Urls => UNCHANGED <<downloads, failures>>
             /\ fetch' = [fetch EXCEPT ![p] = "none"]
             /\ UNCHANGED <<file, hold, upgrades>>
    <3>1. downloads' \in Seq(Downloads) /\ Len(downloads') = Len(downloads)
      BY <1>1, <1>2, <2>2
    <3>2. failures' \in 0 .. MaxFailures
      BY <1>0, <2>2
    <3> QED
      BY <1>3, <2>2, <3>1, <3>2 DEF DownloadStarts, Downloads
  <2> QED
    BY <1>3, <2>1, <2>2 DEF DownloadStarts
<1>4. CASE DownloadEnds(p)
  <2>1. downloads' \in Seq(Downloads) /\ Len(downloads') = Len(downloads)
    BY <1>2, <1>4 DEF DownloadEnds
  <2>2. failures' \in 0 .. MaxFailures /\ upgrades' \in 0 .. MaxUpgrades
    BY <1>0, <1>4 DEF DownloadEnds
  <2>3. file' \in Packages \cup {None, Partial}
    BY <1>4 DEF DownloadEnds
  <2>4. /\ fetch' \in [Packages -> {"none", "start", "run", "spoilt"}]
        /\ hold' \in [Packages -> 0 .. capacity]
    BY <1>4 DEF DownloadEnds
  <2> QED
    BY <1>4, <2>1, <2>2, <2>3, <2>4 DEF DownloadEnds, Downloads
<1> QED
  BY <1>3, <1>4 DEF ThreadDownload

(* ... and with the rounds of intervalPro, which end with the process or   *)
(* the session at any time.                                                *)
LEMMA RoundTyped ==
  ASSUME WorkTypeOK, Round \/ SessionBreaks \/ Falls
  PROVE  WorkTypeOK'
<1> USE DEF WorkTypeOK, LastPart, configVars, loadVars, countVars
<1>0. Fault => failures' \in 0 .. MaxFailures
  BY EocWorkAssumption DEF Fault
<1>1. ASSUME NEW due \in BOOLEAN, Query(due) PROVE WorkTypeOK'
  <2>1. cached' \in BOOLEAN /\ asked' \in BOOLEAN
    BY <1>1, Zenon DEF Query, Reads
  <2>2. cursor' \in 0 .. Len(downloads') + 1
    BY <1>1 DEF Query
  <2> QED
    BY <1>1, <2>1, <2>2 DEF Query
<1>2. CASE ReportNext
  <2>1. cursor \in DOMAIN downloads /\ downloads \in Seq(Downloads)
    BY <1>2 DEF ReportNext, Downloads
  <2>2. CASE cursor' = cursor + 1 /\ UNCHANGED downloads
    BY <1>2, <2>1, <2>2 DEF ReportNext
  <2>3. CASE downloads' = RemoveAt(downloads, cursor) /\ UNCHANGED cursor
    <3>1. downloads' \in Seq(Downloads) /\ Len(downloads') = Len(downloads) - 1
      <4>1. /\ RemoveAt(downloads, cursor) \in Seq(Downloads)
            /\ Len(RemoveAt(downloads, cursor)) = Len(downloads) - 1
        BY <2>1, OneErased, Zenon
      <4> QED
        BY <2>3, <4>1
    <3>2. cursor' \in 0 .. Len(downloads') + 1 /\ Len(downloads') <= capacity
      BY <2>1, <2>3, <3>1
    <3> QED
      BY <1>2, <3>1, <3>2 DEF ReportNext, Downloads
  <2> QED
    BY <1>2, <2>2, <2>3 DEF ReportNext
<1>3. CASE ReportEnds
  BY <1>3 DEF ReportEnds
<1>4. CASE ReportLost
  <2>1. CASE Restart /\ UNCHANGED failures
    BY <2>1, RestartTyped
  <2>2. CASE /\ round' = "task" /\ cursor' = 1
             /\ UNCHANGED <<configVars, asked, job, cached, tasks, loadVars,
                            countVars>>
    BY <2>2
  <2> QED
    BY <1>4, <2>1, <2>2 DEF ReportLost
<1>5. CASE NoTask
  BY <1>5 DEF NoTask
<1>6. CASE SysReboot
  BY <1>6 DEF SysReboot
<1>7. CASE Exit
  BY <1>7, RestartTyped DEF Exit
<1>8. CASE SessionBreaks
  <2>1. cached' \in BOOLEAN /\ asked' \in BOOLEAN
    BY <1>8, Zenon DEF SessionBreaks
  <2> QED
    BY <1>0, <1>8, <2>1 DEF SessionBreaks
<1>9. CASE Falls
  BY <1>0, <1>9, RestartTyped DEF Falls
<1> QED
  BY <1>1, <1>2, <1>3, <1>4, <1>5, <1>6, <1>7, <1>8, <1>9 DEF Round

(* Every variable keeps its type: what intervalPro and the downloads take  *)
(* for their places in downloads_msg are places of the vector, or known to *)
(* have been moved; no part beyond the version is stored.                  *)
THEOREM WorkTypeCorrect == WorkSpec => []WorkTypeOK
<1>1. WorkInit => WorkTypeOK
  <2> SUFFICES ASSUME WorkInit PROVE WorkTypeOK
    OBVIOUS
  <2>1. downloads \in Seq(Downloads) /\ Len(downloads) = 0
    BY DEF WorkInit, Downloads
  <2>2. asked \in BOOLEAN /\ cached \in BOOLEAN
    BY Zenon DEF WorkInit
  <2>3. /\ db \in [Parts -> SUBSET (0 .. MaxConfigs)] /\ wanted \in 1 .. MaxConfigs
        /\ part \in 1 .. LastPart /\ storing \in 0 .. MaxConfigs
        /\ lacking \subseteq Parts
    BY EocWorkAssumption DEF WorkInit, Version, LastPart
  <2>4. /\ cursor \in 0 .. Len(downloads) + 1 /\ tasks \in 0 .. 2
        /\ capacity \in Nat /\ Len(downloads) <= capacity
        /\ failures \in 0 .. MaxFailures /\ upgrades \in 0 .. MaxUpgrades
    BY <2>1, EocWorkAssumption DEF WorkInit
  <2>5. /\ fetch \in [Packages -> {"none", "start", "run", "spoilt"}]
        /\ hold \in [Packages -> 0 .. capacity]
        /\ file \in Packages \cup {None, Partial}
    BY DEF WorkInit
  <2> QED
    BY <2>1, <2>2, <2>3, <2>4, <2>5 DEF WorkInit, WorkTypeOK, Downloads
<1>2. WorkTypeOK /\ [WorkNext]_workVars => WorkTypeOK'
  <2> SUFFICES ASSUME WorkTypeOK, [WorkNext]_workVars PROVE WorkTypeOK'
    OBVIOUS
  <2>1. CASE UNCHANGED workVars
    BY <2>1 DEF WorkTypeOK, workVars, configVars, roundVars, loadVars, countVars, LastPart
  <2> QED
    BY <2>1, StoringTyped, OrderTyped, DownloadTyped, RoundTyped DEF WorkNext
<1> QED
  BY <1>1, <1>2, PTL DEF WorkSpec

(* Nothing is newer than the centre's newest configuration; while proPkgs  *)
(* stores that one, the parts before the one it is at are of it, unless    *)
(* they were stored badly, and a file that is being written is empty.      *)
StoredSoFar ==
  /\ \A k \in Parts : db[k] \subseteq 0 .. wanted
  /\ job \in {"clear", "fill"} =>
       /\ storing = wanted
       /\ \A k \in Parts \ lacking : k < part => ReadsFrom(k, wanted)
  /\ job = "fill" /\ part \in Files => db[part] = {}

(* What is of a configuration counts for the ones before it.               *)
LEMMA ReadsEarlier ==
  ASSUME NEW k, NEW v \in Nat, NEW w \in Nat, v <= w, db[k] \subseteq Nat, ReadsFrom(k, w)
  PROVE  ReadsFrom(k, v)
BY DEF ReadsFrom

(* What does not store leaves both alone.                                  *)
LEMMA StoredAside ==
  ASSUME StoredSoFar, VersionNotAhead, UNCHANGED <<db, wanted, lacking>>,
         \/ UNCHANGED <<job, part, storing>>
         \/ {job, job'} \cap {"clear", "fill"} = {}
  PROVE  StoredSoFar' /\ VersionNotAhead'
BY DEF StoredSoFar, VersionNotAhead, ReadsFrom

(* So does the end of the process; a part it cuts short is one stored      *)
(* badly.                                                                  *)
LEMMA StoredCut ==
  ASSUME WorkTypeOK, StoredSoFar, VersionNotAhead, Restart
  PROVE  StoredSoFar' /\ VersionNotAhead'
<1> USE PartNumbers
<1>1. /\ \A k \in Parts \ lacking' : db'[k] = db[k]
      /\ \A k \in Parts : db'[k] \subseteq db[k] \cup {0}
      /\ db'[Version] = db[Version]
  <2>1. CASE UNCHANGED db
    BY <2>1
  <2>2. CASE job = "fill" /\ SomeInserted
    <3>1. part = Equips /\ db' = [db EXCEPT ![Equips] = @ \cup {0}] /\ DOMAIN db = Parts
      BY <2>2 DEF SomeInserted, Torn, WorkTypeOK
    <3>2. \A k \in Parts : db'[k] = IF k = Equips THEN db[k] \cup {0} ELSE db[k]
      BY <3>1
    <3>3. Equips \in lacking' /\ Version # Equips /\ Version \in Parts
      BY <2>2, <3>1 DEF Restart
    <3> QED
      BY <3>2, <3>3
  <2> QED
    BY <2>1, <2>2 DEF Restart
<1>2. /\ lacking \subseteq lacking' /\ wanted' = wanted /\ job' = "idle"
      /\ job = "fill" => part \in lacking'
  BY DEF Restart
<1>3. StoredSoFar'
  BY <1>1, <1>2 DEF StoredSoFar, WorkTypeOK
<1>4. VersionNotAhead'
  BY <1>1, <1>2 DEF VersionNotAhead, ReadsFrom
<1> QED
  BY <1>3, <1>4

(* The next part is the one behind it, until the last.                     *)
LEMMA NextPartIs ==
  ASSUME WorkTypeOK, NextPart
  PROVE  \/ job' = "answer" /\ part = LastPart
         \/ job' = "clear" /\ part' = part + 1
BY DEF NextPart

LEMMA ClearStored ==
  ASSUME WorkTypeOK, StoredSoFar, VersionNotAhead, Clear
  PROVE  StoredSoFar' /\ VersionNotAhead'
<1> USE PartNumbers
<1>0. part \in Parts /\ job = "clear" /\ UNCHANGED <<wanted, storing>>
  BY DEF Clear, WorkTypeOK
<1>1. CASE db' = [db EXCEPT ![part] = {}] /\ job' = "fill" /\ UNCHANGED <<part, lacking>>
  <2>1. db'[part] = {} /\ \A k \in Parts \ {part} : db'[k] = db[k]
    BY <1>0, <1>1 DEF WorkTypeOK
  <2>2. StoredSoFar'
    BY <1>0, <1>1, <2>1 DEF StoredSoFar, ReadsFrom
  <2>3. VersionNotAhead'
    BY <1>0, <1>1, <2>1 DEF VersionNotAhead, ReadsFrom
  <2> QED
    BY <2>2, <2>3
<1>2. CASE part \notin Files /\ job' = "fill" /\ UNCHANGED <<db, part, lacking>>
  BY <1>0, <1>2 DEF StoredSoFar, VersionNotAhead, ReadsFrom
<1>3. CASE NextPart /\ lacking' = lacking \cup {part} /\ UNCHANGED db
  <2>1. StoredSoFar'
    <3>1. job' = "clear" => \A k \in Parts \ lacking' : k < part' => k \in Parts \ lacking /\ k < part
      BY <1>0, <1>3, NextPartIs
    <3> QED
      BY <1>0, <1>3, <3>1, NextPartIs DEF StoredSoFar, ReadsFrom
  <2>2. VersionNotAhead'
    BY <1>0, <1>3 DEF VersionNotAhead, ReadsFrom
  <2> QED
    BY <2>1, <2>2
<1> QED
  BY <1>1, <1>2, <1>3 DEF Clear

LEMMA FillStored ==
  ASSUME WorkTypeOK, StoredSoFar, VersionNotAhead, Fill
  PROVE  StoredSoFar' /\ VersionNotAhead'
<1> USE PartNumbers
<1>0. /\ part \in Parts /\ job = "fill" /\ UNCHANGED <<wanted, storing>> /\ NextPart
      /\ storing = wanted /\ wanted \in Nat
      /\ job' # "fill"
  BY NextPartIs DEF Fill, WorkTypeOK, StoredSoFar
<1>1. /\ \A k \in Parts \ {part} : db'[k] = db[k]
      /\ part \notin lacking' => db'[part] = db[part] \cup {wanted}
      /\ part \notin lacking' /\ part = Equips => db[part] = {}
      /\ lacking \ {part} \subseteq lacking' /\ lacking' \subseteq lacking \cup {part}
      /\ db'[part] \subseteq db[part] \cup {0, wanted}
      /\ part = Version /\ part \in lacking' => db'[part] = db[part]
  BY <1>0 DEF Fill, SomeInserted, Torn, WorkTypeOK
<1>2. \A k \in Parts : db[k] \subseteq 0 .. wanted /\ db'[k] \subseteq 0 .. wanted
  BY <1>0, <1>1 DEF StoredSoFar
<1>3. \A k \in Parts \ lacking' : k = part /\ k # Version => ReadsFrom(k, wanted)'
  <2> SUFFICES ASSUME NEW k \in Parts \ lacking', k = part, k # Version
               PROVE  ReadsFrom(k, wanted)'
    OBVIOUS
  <2>1. db'[k] = db[k] \cup {wanted}
    BY <1>1
  <2>2. k \in Tables \/ db[k] = {}
    BY <1>0, <1>1 DEF StoredSoFar
  <2>3. CASE k \in Tables
    <3>1. wanted \in db'[k] /\ wanted >= wanted
      BY <1>0, <2>1
    <3> QED
      BY <1>0, <2>3, <3>1 DEF ReadsFrom
  <2>4. CASE k \notin Tables
    <3>1. db'[k] = {wanted} /\ wanted >= wanted
      BY <1>0, <2>1, <2>2, <2>4
    <3>2. db'[k] # {} /\ \A c \in db'[k] : c >= wanted
      BY <3>1
    <3> QED
      BY <1>0, <2>4, <3>2, Zenon DEF ReadsFrom
  <2> QED
    BY <2>3, <2>4
<1>4. \A k \in Parts \ lacking' : k < part => ReadsFrom(k, wanted)'
  <2> SUFFICES ASSUME NEW k \in Parts \ lacking', k < part PROVE ReadsFrom(k, wanted)'
    OBVIOUS
  <2>1. k \in Parts \ lacking /\ db'[k] = db[k]
    BY <1>0, <1>1
  <2> QED
    BY <1>0, <2>1 DEF StoredSoFar, ReadsFrom
<1>5. StoredSoFar'
  <2>1. job' = "clear" => \A k \in Parts \ lacking' : k < part' => ReadsFrom(k, wanted)'
    <3>1. job' = "clear" => part # Version /\ part' = part + 1
      BY <1>0 DEF WorkTypeOK, NextPart
    <3>2. \A k \in Parts : k < part + 1 => k < part \/ k = part
      BY <1>0
    <3> QED
      BY <1>3, <1>4, <3>1, <3>2
  <2> QED
    BY <1>0, <1>2, <2>1 DEF StoredSoFar
<1>6. VersionNotAhead'
  <2> SUFFICES ASSUME NEW v \in db'[Version], \A w \in db'[Version] : v <= w,
                      NEW k \in Parts \ lacking'
               PROVE  ReadsFrom(k, v)'
    BY DEF VersionNotAhead
  <2>1. v \in Nat /\ v <= wanted /\ db'[k] \subseteq Nat
    BY <1>0, <1>2
  <2>2. ReadsFrom(k, wanted)' => ReadsFrom(k, v)'
    BY <1>0, <2>1 DEF ReadsFrom
  <2>3. CASE k = Version
    BY <2>3 DEF ReadsFrom, Tables, Version
  <2>4. CASE k # Version /\ k = part
    BY <1>3, <2>2, <2>4
  <2>5. CASE k # part /\ k # Version /\ v \in db[Version]
    <3>1. \A w \in db[Version] : v <= w
      BY <1>1, <2>1, <1>0
    <3>2. k \in Parts \ lacking /\ db'[k] = db[k]
      BY <1>1, <2>5
    <3> QED
      BY <2>5, <3>1, <3>2 DEF VersionNotAhead, ReadsFrom
  <2>6. CASE k # part /\ k # Version /\ v \notin db[Version]
    <3>1. part = Version
      BY <1>1, <2>6
    <3> QED
      BY <1>4, <2>2, <2>6, <3>1
  <2> QED
    BY <2>3, <2>4, <2>5, <2>6
<1> QED
  BY <1>5, <1>6

LEMMA StoredStep ==
  ASSUME WorkTypeOK, StoredSoFar, VersionNotAhead, [WorkNext]_workVars
  PROVE  StoredSoFar' /\ VersionNotAhead'
<1>1. CASE R102 \/ R104
  <2>1. /\ job = "idle" /\ job' = "clear" /\ part' = 1 /\ storing' = wanted'
        /\ wanted' \in {wanted, wanted + 1} /\ wanted \in Nat
        /\ UNCHANGED <<db, lacking>>
    BY <1>1 DEF R102, R104, Store, WorkTypeOK
  <2>2. StoredSoFar'
    BY <2>1, PartNumbers DEF StoredSoFar
  <2>3. VersionNotAhead'
    BY <2>1 DEF VersionNotAhead, ReadsFrom
  <2> QED
    BY <2>2, <2>3
<1>2. CASE AddTask \/ Extract \/ \E p \in Packages : R107(p)
  <2>1. {job, job'} \cap {"clear", "fill"} = {} /\ UNCHANGED <<db, wanted, lacking>>
    BY <1>2 DEF AddTask, Extract, R107, configVars
  <2> QED
    BY <2>1, StoredAside
<1>3. CASE \E p \in Packages : R106(p) \/ ThreadDownload(p)
  <2>1. UNCHANGED <<db, wanted, lacking, job, part, storing>>
    BY <1>3 DEF R106, ThreadDownload, DownloadStarts, DownloadEnds, configVars
  <2> QED
    BY <2>1, StoredAside
<1>4. CASE Round \/ SessionBreaks \/ Falls
  <2>1. CASE Restart
    BY <2>1, StoredCut
  <2>2. CASE ~ Restart
    <3>1. UNCHANGED <<db, wanted, lacking, job, part, storing>>
      BY <1>4, <2>2 DEF Round, Query, ReportNext, ReportEnds, ReportLost, NoTask, SysReboot,
                        Exit, SessionBreaks, Falls, configVars
    <3> QED
      BY <3>1, StoredAside
  <2> QED
    BY <2>1, <2>2
<1>5. CASE UNCHANGED workVars
  <2>1. UNCHANGED <<db, wanted, lacking, job, part, storing>>
    BY <1>5 DEF workVars, configVars
  <2> QED
    BY <2>1, StoredAside
<1> QED
  BY <1>1, <1>2, <1>3, <1>4, <1>5, ClearStored, FillStored DEF WorkNext, Storing

(* The version in the database never stands for more than there is: every   *)
(* part is of that configuration or a later one, through falls between two  *)
(* parts, deletions and insertions that fail unnoticed and configurations   *)
(* that have no version.  Only a part whose own storing failed is not; the  *)
(* version says so of none.                                                 *)
THEOREM VersionNotAheadHolds == WorkSpec => []VersionNotAhead
<1>1. WorkInit => StoredSoFar /\ VersionNotAhead
  BY PartNumbers DEF WorkInit, StoredSoFar, VersionNotAhead
<1>2. WorkTypeOK /\ StoredSoFar /\ VersionNotAhead /\ [WorkNext]_workVars
        => StoredSoFar' /\ VersionNotAhead'
  BY StoredStep
<1>3. WorkSpec => []WorkTypeOK
  BY WorkTypeCorrect
<1> QED
  BY <1>1, <1>2, <1>3, PTL DEF WorkSpec
=============================================================================
