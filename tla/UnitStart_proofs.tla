--------------------------- MODULE UnitStart_proofs ---------------------------
(***************************************************************************)
(* What holds of the windows and of the measured rate while a unit starts, *)
(* for every number of connections, devices, windows and timestamps.       *)
(*                                                                         *)
(* Three invariants, one on another: Distinct until threads race (the      *)
(* names in unOrder), Own until anything goes wrong (who is behind a name),*)
(* and Measured and Counted for what is left when init has emptied places: *)
(* the rate is complete by then, and refusals stay accounted for.          *)
(***************************************************************************)
EXTENDS UnitStart, FiniteSetTheorems, TLAPS

(* The place a search from the front finds is one of those it looks for.   *)
LEMMA FirstIsOne ==
  ASSUME NEW S, S \subseteq Places, S # {}
  PROVE  First(S) \in S
<1> DEFINE R == OpToRel(<, Nat)
<1>1. S \subseteq Nat
  BY UnitStartAssumption DEF Places
<1>2. R = {ss \in Nat \X Nat : ss[1] < ss[2]}
  BY DEF OpToRel
<1>3. IsWellFoundedOn(R, Nat)
  BY NatLessThanWellFounded
<1> HIDE DEF R
<1>4. PICK p \in S : \A q \in S : ~(<<q, p>> \in R)
  BY <1>1, <1>3, WFMin
<1>5. ASSUME NEW q \in S PROVE p <= q
  <2>1. <<q, p>> \in Nat \X Nat /\ <<q, p>>[1] = q /\ <<q, p>>[2] = p
    BY <1>1
  <2>2. ~(q < p)
    BY <1>2, <1>4, <2>1, Zenon
  <2> QED
    BY <1>1, <2>2
<1> QED
  BY <1>5 DEF First

-----------------------------------------------------------------------------
(* The parts of TypeOK; while init clears there is a place left to clear.  *)

PcSet == {"idle", "stopped", "look", "take", "update", "start", "push"}
WithPlace == {"take", "update", "start", "push"}
ThreadOK ==
  /\ device \in Assignments
  /\ pc \in [Threads -> PcSet]
  /\ index \in [Threads -> 0 .. N]
  /\ \A t \in Threads : pc[t] \in WithPlace => index[t] \in Places
RateOK ==
  /\ lates \in 0 .. MaxLate
  /\ dataIndex \in 0 .. N
  /\ from \in Seq(Devices) /\ Len(from) <= Caches
  /\ dataIndex = NoPlace <=> from = <<>>
  /\ isSetInterval <=> Len(from) = Caches
InitOK ==
  /\ isStartTask \in BOOLEAN
  /\ init \in {"none", "spawned", "clearing", "done"}
  /\ isStartTask <=> init # "none"
  /\ cleared \in 0 .. N /\ (init \in {"none", "spawned"} => cleared = 0)
  /\ init = "clearing" => cleared < N
  /\ caller \in Threads \cup {Nobody}
  /\ alive \in BOOLEAN
NameOK == unOrder \in [Places -> Devices \cup {NoName, Garbled}]
HistoryOK ==
  /\ owners \in [Places -> SUBSET Devices]
  /\ trouble \in {"neither", "emptied", "raced"}
  /\ refused \in SUBSET Devices

Types == ThreadOK /\ RateOK /\ InitOK /\ NameOK /\ HistoryOK

LEMMA TypesAreOK == Types => TypeOK
  BY DEF Types, ThreadOK, RateOK, InitOK, NameOK, HistoryOK, TypeOK, PcSet, WithPlace

LEMMA DeviceOf == ASSUME ThreadOK PROVE device \in [Threads -> Devices]
  BY UnitStartAssumption DEF ThreadOK

LEMMA ThreadGoes ==
  ASSUME ThreadOK, NEW t \in Threads, NEW place \in PcSet, Goes(t, place), UNCHANGED device,
         NEW i \in 0 .. N, index' = [index EXCEPT ![t] = i], place \in WithPlace => i \in Places
  PROVE  ThreadOK'
<1>1. pc' \in [Threads -> PcSet] /\ pc'[t] = place /\ \A u \in Threads \ {t} : pc'[u] = pc[u]
  BY DEF ThreadOK, Goes
<1>2. /\ index' \in [Threads -> 0 .. N] /\ index'[t] = i
      /\ \A u \in Threads \ {t} : index'[u] = index[u]
  BY DEF ThreadOK
<1> QED
  BY <1>1, <1>2 DEF ThreadOK

LEMMA ThreadGoesOn ==
  ASSUME ThreadOK, NEW t \in Threads, NEW place \in PcSet, Goes(t, place),
         UNCHANGED <<device, index>>, place \in WithPlace => pc[t] \in WithPlace
  PROVE  ThreadOK'
<1>1. index[t] \in 0 .. N /\ index' = [index EXCEPT ![t] = index[t]]
  BY DEF ThreadOK
<1>2. place \in WithPlace => index[t] \in Places
  BY DEF ThreadOK
<1> QED
  BY <1>1, <1>2, ThreadGoes

LEMMA NotesKeep ==
  ASSUME HistoryOK, NEW what \in {"neither", "emptied", "raced"},
         NEW own \in [Places -> SUBSET Devices], NEW ref \in SUBSET Devices,
         Notes(what, own, ref)
  PROVE  HistoryOK'
<1>1. trouble' \in {"neither", "emptied", "raced"}
  BY DEF HistoryOK, Notes
<1>2. [p \in Places |-> {}] \in [Places -> SUBSET Devices]
  OBVIOUS
<1>3. owners' = own \/ owners' = [p \in Places |-> {}]
  BY DEF Notes
<1>4. refused' = ref \/ refused' = {}
  BY DEF Notes
<1> QED
  BY <1>1, <1>2, <1>3, <1>4 DEF HistoryOK

LEMMA SameHistory == ASSUME HistoryOK, UNCHANGED history PROVE HistoryOK'
  BY DEF HistoryOK, history

LEMMA SameRate == ASSUME RateOK, UNCHANGED <<lates, rateVars>> PROVE RateOK'
  BY DEF RateOK, rateVars

LEMMA SameInit == ASSUME InitOK, UNCHANGED <<initVars, alive>> PROVE InitOK'
  BY DEF InitOK, initVars

LEMMA NameGiven ==
  ASSUME NameOK, NEW p \in Places, NEW name \in Devices \cup {NoName, Garbled},
         unOrder' = [unOrder EXCEPT ![p] = name]
  PROVE  NameOK'
  BY DEF NameOK

LEMMA FrameTypes ==
  ASSUME Types, NEW t \in Threads, Frame(t)
  PROVE  Types'
<1> DEFINE own == Named(device[t])
<1>1. own \subseteq Places
  BY DEF Named
<1>2. CASE own # {} /\ Goes(t, "update") /\ index' = [index EXCEPT ![t] = First(own)]
  <2>1. First(own) \in Places
    BY <1>1, <1>2, FirstIsOne
  <2>2. First(own) \in 0 .. N
    BY <2>1, UnitStartAssumption DEF Places
  <2> HIDE DEF own
  <2> QED
    BY <1>2, <2>1, <2>2, ThreadGoes, SameHistory, SameRate, SameInit
       DEF Frame, Types, NameOK, PcSet
<1>3. CASE Goes(t, "look") /\ UNCHANGED index
  BY <1>3, ThreadGoesOn, SameHistory, SameRate, SameInit
     DEF Frame, Types, NameOK, PcSet, WithPlace
<1> QED
  BY <1>2, <1>3 DEF Frame

LEMMA LookTypes ==
  ASSUME Types, NEW t \in Threads, Look(t)
  PROVE  Types'
<1>1. Free \subseteq Places
  BY DEF Free, Named
<1>2. CASE Free # {}
  <2>1. First(Free) \in Places
    BY <1>1, <1>2, FirstIsOne
  <2>2. First(Free) \in 0 .. N
    BY <2>1, UnitStartAssumption DEF Places
  <2>3. Goes(t, "take") /\ index' = [index EXCEPT ![t] = First(Free)] /\ UNCHANGED history
    BY <1>2 DEF Look
  <2> QED
    BY <2>1, <2>2, <2>3, ThreadGoes, SameHistory, SameRate, SameInit
       DEF Look, Types, NameOK, PcSet
<1>3. CASE Free = {}
  <2>1. /\ UNCHANGED index /\ Goes(t, "idle")
        /\ Notes(trouble, owners, refused \cup {device[t]})
    BY <1>3 DEF Look
  <2>2. HistoryOK'
    BY <2>1, DeviceOf, NotesKeep DEF Types, HistoryOK
  <2> QED
    BY <2>1, <2>2, ThreadGoesOn, SameRate, SameInit DEF Look, Types, NameOK, PcSet, WithPlace
<1> QED
  BY <1>2, <1>3

LEMMA TakeTypes ==
  ASSUME Types, NEW t \in Threads, Take(t)
  PROVE  Types'
<1> DEFINE p == index[t]
<1>1. p \in Places /\ device[t] \in Devices
  BY DeviceOf DEF Take, At, Types, ThreadOK, WithPlace
<1>2. NameOK'
  <2>1. PICK name \in {unOrder[p], device[t], Garbled} :
               unOrder' = [unOrder EXCEPT ![p] = name]
    BY DEF Take
  <2>2. name \in Devices \cup {NoName, Garbled}
    BY <1>1, <2>1 DEF Types, NameOK
  <2> QED
    BY <1>1, <2>1, <2>2, NameGiven DEF Types
<1>3. alive' \in BOOLEAN
  BY DEF Take, Types, InitOK
<1>4. InitOK'
  BY <1>3 DEF Take, Types, InitOK, initVars
<1>5. HistoryOK'
  BY NotesKeep DEF Take, Types, HistoryOK
<1> QED
  BY <1>2, <1>4, <1>5, ThreadGoesOn, SameRate DEF Take, At, Types, PcSet, WithPlace

LEMMA UpdateTypes ==
  ASSUME Types, NEW t \in Threads, Update(t)
  PROVE  Types'
<1> DEFINE p == index[t]
<1>1. p \in Places /\ device[t] \in Devices
  BY DeviceOf DEF Update, At, Types, ThreadOK, WithPlace
<1>2. ThreadOK'
  BY ThreadGoesOn DEF Update, At, Types, PcSet, WithPlace
<1>3. RateOK'
  <2>1. isSetInterval' <=> (isSetInterval \/ Len(from') = Caches)
    BY Zenon DEF Update
  <2>2. CASE UNCHANGED <<dataIndex, from, lates>>
    BY <2>1, <2>2 DEF Types, RateOK
  <2>3. CASE ~isSetInterval /\ dataIndex' = p /\ from' = <<device[t]>> /\ UNCHANGED lates
    <3>1. from' \in Seq(Devices) /\ Len(from') = 1 /\ from' # <<>>
      BY <1>1, <2>3
    <3>2. p # NoPlace /\ p \in 0 .. N /\ 1 <= Caches
      BY <1>1, UnitStartAssumption DEF Places, NoPlace
    <3> QED
      BY <2>1, <2>3, <3>1, <3>2 DEF Types, RateOK
  <2>4. CASE ~isSetInterval /\ Late
    <3>1. lates' \in 0 .. MaxLate /\ dataIndex' = NoPlace /\ from' = <<>>
      BY <2>4, UnitStartAssumption DEF Late, Types, RateOK
    <3>2. from' \in Seq(Devices) /\ Len(from') = 0 /\ NoPlace \in 0 .. N
      BY <3>1, UnitStartAssumption DEF NoPlace
    <3> QED
      BY <2>1, <2>4, <3>1, <3>2, UnitStartAssumption DEF RateOK
  <2>5. CASE ~isSetInterval /\ dataIndex # NoPlace /\ Keep(t)
    <3>1. from' = Append(from, device[t]) /\ UNCHANGED <<dataIndex, lates>>
      BY <2>5 DEF Keep
    <3>2. from' \in Seq(Devices) /\ Len(from') = Len(from) + 1 /\ from' # <<>>
      BY <1>1, <3>1 DEF Types, RateOK
    <3>3. Len(from') <= Caches
      BY <2>5, <3>2, UnitStartAssumption DEF Types, RateOK
    <3> QED
      BY <2>1, <2>5, <3>1, <3>2, <3>3 DEF Types, RateOK
  <2> QED
    BY <2>2, <2>3, <2>4, <2>5 DEF Update, Rebind
<1> QED
  BY <1>2, <1>3, SameHistory, SameInit DEF Update, Types, NameOK

LEMMA StartTypes ==
  ASSUME Types, NEW t \in Threads, Start(t)
  PROVE  Types'
<1>1. ThreadOK'
  BY ThreadGoesOn DEF Start, At, Types, PcSet, WithPlace
<1>2. InitOK'
  <2>1. CASE Starts
    <3>1. isStartTask' = TRUE /\ caller' = t /\ init' = "spawned"
      BY <2>1 DEF Start
    <3>2. cleared' = 0 /\ UNCHANGED alive
      BY <2>1 DEF Start, Starts, Types, InitOK
    <3> QED
      BY <3>1, <3>2, UnitStartAssumption DEF Types, InitOK
  <2>2. CASE ~Starts
    BY <2>2, SameInit DEF Start, Types, initVars
  <2> QED
    BY <2>1, <2>2
<1> QED
  BY <1>1, <1>2, SameHistory, SameRate DEF Start, Types, NameOK

LEMMA PushTypes ==
  ASSUME Types, NEW t \in Threads, Push(t)
  PROVE  Types'
<1>1. index[t] \in Places /\ device[t] \in Devices
  BY DeviceOf DEF Push, At, Types, ThreadOK, WithPlace
<1>2. ThreadOK'
  <2>1. NoPlace \in 0 .. N
    BY UnitStartAssumption DEF NoPlace
  <2> QED
    BY <2>1, ThreadGoes DEF Push, Types, PcSet, WithPlace
<1>3. HistoryOK'
  <2> DEFINE own == [owners EXCEPT ![index[t]] = @ \cup {device[t]}]
  <2>1. own \in [Places -> SUBSET Devices]
    BY <1>1 DEF Types, HistoryOK
  <2>2. Notes(trouble, own, refused)
    BY DEF Push
  <2> HIDE DEF own
  <2> QED
    BY <2>1, <2>2, NotesKeep DEF Types, HistoryOK
<1>4. InitOK'
  BY DEF Push, Types, InitOK
<1> QED
  BY <1>2, <1>3, <1>4, SameRate DEF Push, Types, NameOK

LEMMA InitTypes ==
  ASSUME Types, InitThread
  PROVE  Types'
<1>1. CASE InitBegins
  <2>1. alive' \in BOOLEAN
    BY <1>1 DEF InitBegins
  <2>2. InitOK'
    BY <1>1, <2>1, UnitStartAssumption DEF InitBegins, Types, InitOK
  <2> QED
    BY <1>1, <2>2, SameHistory, SameRate
       DEF InitBegins, Types, ThreadOK, NameOK, threadVars
<1>2. CASE InitClears
  <2>1. cleared \in Places /\ cleared' = cleared + 1
    <3>1. cleared \in 0 .. N /\ cleared < N
      BY <1>2 DEF InitClears, Types, InitOK
    <3> QED
      BY <1>2, <3>1, UnitStartAssumption DEF InitClears, Places
  <2>2. InitOK'
    BY <1>2, <2>1, UnitStartAssumption DEF InitClears, Types, InitOK, Places
  <2>3. NameOK'
    BY <1>2, <2>1, NameGiven DEF InitClears, Types
  <2>4. HistoryOK'
    BY <1>2, NotesKeep DEF InitClears, Types, HistoryOK
  <2> QED
    BY <1>2, <2>2, <2>3, <2>4, SameRate DEF InitClears, Types, ThreadOK, threadVars
<1> QED
  BY <1>1, <1>2 DEF InitThread

LEMMA TypesCorrect == Spec => []Types
<1>1. Init => Types
  <2> SUFFICES ASSUME Init PROVE Types
    OBVIOUS
  <2> USE UnitStartAssumption
  <2>1. ThreadOK
    BY DEF Init, ThreadOK, PcSet, WithPlace, NoPlace
  <2>2. RateOK
    BY DEF Init, RateOK, NoPlace
  <2>3. InitOK
    <3>1. isStartTask \in BOOLEAN /\ alive \in BOOLEAN
      BY Zenon DEF Init
    <3> QED
      BY <3>1 DEF Init, InitOK
  <2>4. NameOK /\ HistoryOK
    BY DEF Init, NameOK, HistoryOK
  <2> QED
    BY <2>1, <2>2, <2>3, <2>4 DEF Types
<1>2. Types /\ [Next]_vars => Types'
  <2> SUFFICES ASSUME Types, [Next]_vars PROVE Types'
    OBVIOUS
  <2>1. ASSUME NEW t \in Threads, Stop(t) PROVE Types'
    BY <2>1, ThreadGoesOn, SameHistory, SameRate, SameInit
       DEF Stop, Types, NameOK, PcSet, WithPlace
  <2>2. CASE UNCHANGED vars
    BY <2>2, SameHistory, SameRate, SameInit DEF vars, Types, ThreadOK, NameOK, threadVars
  <2> QED
    BY <2>1, <2>2, FrameTypes, LookTypes, TakeTypes, UpdateTypes, StartTypes, PushTypes,
       InitTypes DEF Next, Handler
<1> QED
  BY <1>1, <1>2, PTL DEF Spec

(* Whatever the threads of the connections and of init do, the variables   *)
(* keep their types.                                                       *)
THEOREM TypeCorrect == Spec => []TypeOK
  BY TypesCorrect, TypesAreOK, PTL

-----------------------------------------------------------------------------
(* While no two threads have raced, a thread that is about to take a place *)
(* has an empty one, of a device that has none, and every place that is    *)
(* taken has the name of another device that is connected.                 *)
Placing == {"look", "take"}
Distinct ==
  trouble # "raced" =>
    /\ \A t \in Threads : pc[t] = "take" => unOrder[index[t]] = NoName
    /\ \A t \in Threads, p \in Places : pc[t] \in Placing => unOrder[p] # device[t]
    /\ \A p, q \in Places : unOrder[p] = unOrder[q] /\ unOrder[p] # NoName => p = q
    /\ \A p \in Places : unOrder[p] \in Connected \cup {NoName}

(* A step that takes no thread to its search leaves that as it is.         *)
LEMMA DistinctStays ==
  ASSUME Distinct, UNCHANGED <<device, unOrder>>, trouble' # "raced" => trouble # "raced",
         \A t \in Threads : pc'[t] \in Placing => pc'[t] = pc[t] /\ index'[t] = index[t]
  PROVE  Distinct'
<1>1. Connected' = Connected
  BY DEF Connected
<1> QED
  BY <1>1 DEF Distinct, Placing

LEMMA Moves ==
  ASSUME Types, NEW t \in Threads, NEW place, Goes(t, place)
  PROVE  pc'[t] = place /\ \A u \in Threads \ {t} : pc'[u] = pc[u]
  BY DEF Types, ThreadOK, Goes

LEMMA Finds ==
  ASSUME Types, NEW t \in Threads, NEW p, index' = [index EXCEPT ![t] = p]
  PROVE  index'[t] = p /\ \A u \in Threads \ {t} : index'[u] = index[u]
  BY DEF Types, ThreadOK

LEMMA NotesTell ==
  ASSUME NEW what, NEW own, NEW ref, Notes(what, own, ref)
  PROVE  /\ trouble' # "raced" => trouble # "raced" /\ trouble' = what /\ refused' = ref
         /\ trouble' = "neither" => what = "neither" /\ trouble # "raced" /\ owners' = own
         /\ trouble' # "neither" => owners' = [p \in Places |-> {}]
         /\ trouble' = "raced" => refused' = {}
  BY DEF Notes

LEMMA DistinctStep ==
  ASSUME Types, Distinct, [Next]_vars
  PROVE  Distinct'
<1>1. ASSUME NEW t \in Threads, Frame(t) PROVE Distinct'
  <2> DEFINE own == Named(device[t])
  <2>1. UNCHANGED <<device, unOrder, trouble>> /\ Connected' = Connected
    BY <1>1 DEF Frame, history, Connected
  <2>2. CASE own # {} /\ Goes(t, "update") /\ index' = [index EXCEPT ![t] = First(own)]
    BY <2>1, <2>2, Moves, Finds, DistinctStays DEF Placing
  <2>3. CASE own = {} /\ Goes(t, "look") /\ UNCHANGED index
    <3>1. \A p \in Places : unOrder[p] # device[t]
      BY <2>3 DEF Named
    <3>2. pc'[t] = "look" /\ \A u \in Threads \ {t} : pc'[u] = pc[u]
      BY <2>3, Moves
    <3> QED
      BY <2>1, <2>3, <3>1, <3>2 DEF Distinct, Placing
  <2> QED
    BY <1>1, <2>2, <2>3 DEF Frame
<1>2. ASSUME NEW t \in Threads, Look(t) PROVE Distinct'
  <2>1. UNCHANGED <<device, unOrder>> /\ pc[t] = "look" /\ Connected' = Connected
    BY <1>2 DEF Look, At, Connected
  <2>2. CASE Free = {}
    <3>1. UNCHANGED index /\ Goes(t, "idle") /\ (trouble' # "raced" => trouble # "raced")
      BY <1>2, <2>2, NotesTell DEF Look
    <3> QED
      BY <2>1, <3>1, Moves, DistinctStays DEF Placing
  <2>3. CASE Free # {}
    <3>1. /\ index' = [index EXCEPT ![t] = First(Free)] /\ Goes(t, "take")
          /\ UNCHANGED trouble
      BY <1>2, <2>3 DEF Look, history
    <3>2. First(Free) \in Free
      BY <2>3, FirstIsOne DEF Free, Named
    <3>3. unOrder[First(Free)] = NoName
      BY <3>2 DEF Free, Named
    <3>4. pc'[t] = "take" /\ \A u \in Threads \ {t} : pc'[u] = pc[u]
      BY <3>1, Moves
    <3>5. index'[t] = First(Free) /\ \A u \in Threads \ {t} : index'[u] = index[u]
      BY <3>1, Finds
    <3> QED
      BY <2>1, <3>1, <3>3, <3>4, <3>5 DEF Distinct, Placing
  <2> QED
    BY <2>2, <2>3
<1>3. ASSUME NEW t \in Threads, Take(t) PROVE Distinct'
  <2> DEFINE p == index[t]
  <2>1. /\ UNCHANGED <<device, index>> /\ pc[t] = "take" /\ Connected' = Connected
        /\ p \in Places /\ device[t] \in Connected
    BY <1>3 DEF Take, At, Connected, Types, ThreadOK, WithPlace
  <2>2. pc'[t] = "update" /\ \A u \in Threads \ {t} : pc'[u] = pc[u]
    BY <1>3, Moves DEF Take
  <2> SUFFICES ASSUME trouble' # "raced" PROVE Distinct'
    BY DEF Distinct
  <2>3. trouble # "raced" /\ \A u \in Threads \ {t} : ~Races(t, u)
    BY <1>3, NotesTell DEF Take
  <2>4. unOrder[p] = NoName
    BY <2>1, <2>3 DEF Distinct
  <2>5. unOrder' = [unOrder EXCEPT ![p] = device[t]]
    BY <1>3, <2>4 DEF Take
  <2>6. unOrder'[p] = device[t] /\ \A q \in Places \ {p} : unOrder'[q] = unOrder[q]
    BY <2>1, <2>5 DEF Types, NameOK
  <2>7. ASSUME NEW u \in Threads, pc'[u] \in Placing
        PROVE  /\ pc[u] = pc'[u] /\ device[u] # device[t]
               /\ pc[u] = "take" => index[u] # p
    BY <2>2, <2>3, <2>7 DEF Races, Placing
  <2>8. \A u \in Threads : pc'[u] = "take" => unOrder'[index'[u]] = NoName
    <3> SUFFICES ASSUME NEW u \in Threads, pc'[u] = "take"
                 PROVE  unOrder'[index[u]] = NoName
      BY <2>1
    <3>1. index[u] # p /\ pc[u] = "take"
      BY <2>7 DEF Placing
    <3>2. index[u] \in Places
      BY <3>1 DEF Types, ThreadOK, WithPlace
    <3> QED
      BY <2>3, <2>6, <3>1, <3>2 DEF Distinct
  <2>9. \A u \in Threads, q \in Places : pc'[u] \in Placing => unOrder'[q] # device'[u]
    BY <2>1, <2>3, <2>6, <2>7 DEF Distinct
  <2>10. \A q \in Places \ {p} : unOrder[q] # device[t]
    BY <2>1, <2>3 DEF Distinct, Placing
  <2>11. \A q, r \in Places : unOrder'[q] = unOrder'[r] /\ unOrder'[q] # NoName => q = r
    BY <2>3, <2>6, <2>10 DEF Distinct
  <2>12. \A q \in Places : unOrder'[q] \in Connected' \cup {NoName}
    BY <2>1, <2>3, <2>6 DEF Distinct
  <2> QED
    BY <2>8, <2>9, <2>11, <2>12 DEF Distinct
<1>4. ASSUME NEW t \in Threads, Update(t) \/ Start(t) \/ Stop(t) PROVE Distinct'
  BY <1>4, Moves, DistinctStays DEF Update, Start, Stop, Placing, history
<1>5. ASSUME NEW t \in Threads, Push(t) PROVE Distinct'
  BY <1>5, Moves, Finds, NotesTell, DistinctStays DEF Push, Placing
<1>6. CASE InitBegins \/ UNCHANGED vars
  BY <1>6, DistinctStays DEF InitBegins, vars, threadVars, history
<1>7. CASE InitClears
  <2>1. /\ UNCHANGED <<device, pc, index>> /\ Connected' = Connected
        /\ trouble' # "raced" => trouble # "raced"
    BY <1>7, NotesTell DEF InitClears, threadVars, Connected
  <2>2. /\ \A q \in Places : unOrder'[q] = unOrder[q] \/ unOrder'[q] = NoName
        /\ \A t \in Threads : pc[t] = "take" => index[t] \in Places
    BY <1>7 DEF InitClears, Types, NameOK, ThreadOK, WithPlace
  <2>3. \A t \in Threads : device[t] # NoName
    BY UnitStartAssumption, DeviceOf DEF Types
  <2> QED
    BY <2>1, <2>2, <2>3 DEF Distinct
<1> QED
  BY <1>1, <1>2, <1>3, <1>4, <1>5, <1>6, <1>7 DEF Next, Handler, InitThread

-----------------------------------------------------------------------------
(* Before init empties a place, a thread that has found one finds its own  *)
(* device's name there, only that device has pushed into it, and only that *)
(* device is measured.                                                     *)
Settled == {"update", "start", "push"}
Own ==
  trouble = "neither" =>
    /\ \A t \in Threads : pc[t] \in Settled => unOrder[index[t]] = device[t]
    /\ \A p \in Places : owners[p] \subseteq {unOrder[p]}
    /\ \A k \in DOMAIN from : from[k] = unOrder[dataIndex]

LEMMA OwnStays ==
  ASSUME Own, trouble' = "neither" => trouble = "neither" /\ UNCHANGED <<unOrder, owners>>,
         UNCHANGED <<device, dataIndex, from>>,
         \A t \in Threads : pc'[t] \in Settled => pc[t] \in Settled /\ index'[t] = index[t]
  PROVE  Own'
  BY DEF Own

LEMMA OwnStep ==
  ASSUME Types, Distinct, Own, [Next]_vars
  PROVE  Own'
<1>1. ASSUME NEW t \in Threads, Frame(t) PROVE Own'
  <2> DEFINE own == Named(device[t])
  <2>1. UNCHANGED <<device, unOrder, owners, trouble, dataIndex, from>>
    BY <1>1 DEF Frame, history, rateVars
  <2>2. CASE own # {} /\ Goes(t, "update") /\ index' = [index EXCEPT ![t] = First(own)]
    <3>1. First(own) \in own
      BY <2>2, FirstIsOne DEF Named
    <3>2. unOrder[First(own)] = device[t]
      BY <3>1 DEF Named
    <3>3. pc'[t] = "update" /\ \A u \in Threads \ {t} : pc'[u] = pc[u]
      BY <2>2, Moves
    <3>4. index'[t] = First(own) /\ \A u \in Threads \ {t} : index'[u] = index[u]
      BY <2>2, Finds
    <3> QED
      BY <2>1, <3>2, <3>3, <3>4 DEF Own, Settled
  <2>3. CASE Goes(t, "look") /\ UNCHANGED index
    BY <2>1, <2>3, Moves, OwnStays DEF Settled
  <2> QED
    BY <1>1, <2>2, <2>3 DEF Frame
<1>2. ASSUME NEW t \in Threads, Look(t) PROVE Own'
  <2>1. UNCHANGED <<device, unOrder, dataIndex, from>>
    BY <1>2 DEF Look, rateVars
  <2>2. trouble' = "neither" => trouble = "neither" /\ UNCHANGED owners
    BY <1>2, NotesTell DEF Look, history
  <2>3. Goes(t, "take") \/ Goes(t, "idle")
    BY <1>2 DEF Look
  <2>4. \A u \in Threads \ {t} : pc'[u] = pc[u] /\ index'[u] = index[u]
    BY <1>2, Moves, Finds DEF Look
  <2>5. pc'[t] \in {"take", "idle"}
    BY <2>3, Moves
  <2> QED
    BY <2>1, <2>2, <2>4, <2>5, OwnStays DEF Settled
<1>3. ASSUME NEW t \in Threads, Take(t) PROVE Own'
  <2> DEFINE p == index[t]
  <2>1. /\ UNCHANGED <<device, index, dataIndex, from>> /\ pc[t] = "take"
        /\ p \in Places /\ device[t] \in Devices
    BY <1>3, DeviceOf DEF Take, At, rateVars, Types, ThreadOK, WithPlace
  <2>2. pc'[t] = "update" /\ \A u \in Threads \ {t} : pc'[u] = pc[u]
    BY <1>3, Moves DEF Take
  <2> SUFFICES ASSUME trouble' = "neither" PROVE Own'
    BY DEF Own
  <2>3. trouble = "neither" /\ UNCHANGED owners
    BY <1>3, NotesTell DEF Take
  <2>4. unOrder[p] = NoName
    BY <2>1, <2>3 DEF Distinct
  <2>5. unOrder' = [unOrder EXCEPT ![p] = device[t]]
    BY <1>3, <2>4 DEF Take
  <2>6. unOrder'[p] = device[t] /\ \A q \in Places \ {p} : unOrder'[q] = unOrder[q]
    BY <2>1, <2>5 DEF Types, NameOK
  <2>7. NoName \notin Devices
    BY UnitStartAssumption
  <2>8. \A u \in Threads : pc'[u] \in Settled => unOrder'[index[u]] = device[u]
    <3>1. ASSUME NEW u \in Threads \ {t}, pc'[u] \in Settled
          PROVE  unOrder'[index[u]] = device[u]
      <4>1. index[u] \in Places /\ device[u] \in Devices /\ unOrder[index[u]] = device[u]
        BY <2>2, <2>3, <3>1, DeviceOf DEF Own, Types, ThreadOK, Settled, WithPlace
      <4> QED
        BY <2>4, <2>6, <2>7, <4>1
    <3> QED
      BY <2>6, <3>1
  <2>9. \A q \in Places : owners'[q] \subseteq {unOrder'[q]}
    <3>1. owners[p] \subseteq {NoName} /\ owners[p] \subseteq Devices
      BY <2>1, <2>3, <2>4 DEF Own, Types, HistoryOK
    <3>2. owners[p] = {}
      BY <2>7, <3>1
    <3> QED
      BY <2>3, <2>6, <3>2 DEF Own
  <2>10. \A k \in DOMAIN from : from[k] = unOrder'[dataIndex]
    <3> SUFFICES ASSUME NEW k \in DOMAIN from PROVE from[k] = unOrder'[dataIndex]
      OBVIOUS
    <3>1. from[k] \in Devices /\ from # <<>>
      BY DEF Types, RateOK
    <3>2. dataIndex \in Places
      BY <3>1, UnitStartAssumption DEF Types, RateOK, NoPlace, Places
    <3>3. from[k] = unOrder[dataIndex]
      BY <2>3 DEF Own
    <3> QED
      BY <2>4, <2>6, <2>7, <3>1, <3>2, <3>3
  <2> QED
    BY <2>1, <2>8, <2>9, <2>10 DEF Own
<1>4. ASSUME NEW t \in Threads, Update(t) PROVE Own'
  <2> DEFINE p == index[t]
  <2>1. UNCHANGED <<device, index, unOrder, trouble, owners>> /\ pc[t] = "update"
    BY <1>4 DEF Update, At, history
  <2>2. \A u \in Threads : pc'[u] \in Settled => pc[u] \in Settled
    BY <1>4, <2>1, Moves DEF Update, Settled
  <2> SUFFICES ASSUME trouble = "neither"
               PROVE  \A k \in DOMAIN from' : from'[k] = unOrder[dataIndex']
    BY <2>1, <2>2 DEF Own
  <2>3. unOrder[p] = device[t]
    BY <2>1 DEF Own, Settled
  <2>4. from \in Seq(Devices)
    BY DEF Types, RateOK
  <2>5. CASE UNCHANGED <<dataIndex, from>>
    BY <2>5 DEF Own
  <2>6. CASE dataIndex' = p /\ from' = <<device[t]>>
    BY <2>3, <2>6
  <2>7. CASE from' = <<>>
    BY <2>7
  <2>8. CASE dataIndex = p /\ Keep(t)
    BY <2>3, <2>4, <2>8 DEF Keep, Own
  <2> QED
    BY <1>4, <2>5, <2>6, <2>7, <2>8 DEF Update, Late, Counts
<1>5. ASSUME NEW t \in Threads, Push(t) PROVE Own'
  <2> DEFINE p == index[t]
             own == [owners EXCEPT ![p] = @ \cup {device[t]}]
  <2>1. UNCHANGED <<device, unOrder, dataIndex, from>> /\ pc[t] = "push" /\ p \in Places
    BY <1>5 DEF Push, At, rateVars, Types, ThreadOK, WithPlace
  <2>2. Notes(trouble, own, refused)
    BY <1>5 DEF Push
  <2>3. trouble' = "neither" => trouble = "neither" /\ owners' = own
    BY <2>2, NotesTell
  <2>4. /\ pc'[t] = "idle"
        /\ \A u \in Threads \ {t} : pc'[u] = pc[u] /\ index'[u] = index[u]
    BY <1>5, Moves, Finds DEF Push
  <2>5. own[p] = owners[p] \cup {device[t]} /\ \A q \in Places \ {p} : own[q] = owners[q]
    BY <2>1 DEF Types, HistoryOK
  <2> HIDE DEF own
  <2> SUFFICES ASSUME trouble' = "neither" PROVE Own'
    BY DEF Own
  <2>6. unOrder[p] = device[t]
    BY <2>1, <2>3 DEF Own, Settled
  <2>7. \A q \in Places : owners'[q] \subseteq {unOrder[q]}
    BY <2>3, <2>5, <2>6 DEF Own
  <2> QED
    BY <2>1, <2>3, <2>4, <2>7 DEF Own, Settled
<1>6. ASSUME NEW t \in Threads, Start(t) \/ Stop(t) PROVE Own'
  <2>1. pc'[t] \in Settled => pc[t] \in Settled
    BY <1>6, Moves DEF Start, Stop, At, Settled
  <2>2. \A u \in Threads \ {t} : pc'[u] = pc[u]
    BY <1>6, Moves DEF Start, Stop
  <2> QED
    BY <1>6, <2>1, <2>2, OwnStays DEF Start, Stop, history, rateVars
<1>7. CASE InitBegins \/ UNCHANGED vars
  BY <1>7, OwnStays DEF InitBegins, vars, threadVars, history, rateVars
<1>8. CASE InitClears
  <2>1. UNCHANGED <<device, pc, index, dataIndex, from>>
    BY <1>8 DEF InitClears, threadVars, rateVars
  <2>2. ASSUME trouble' = "neither" PROVE trouble = "neither" /\ UNCHANGED <<unOrder, owners>>
    <3>1. /\ trouble # "raced" /\ owners' = owners
          /\ (IF trouble = "neither" /\ unOrder[cleared] # NoName THEN "emptied" ELSE trouble)
               = "neither"
      BY <1>8, <2>2, NotesTell DEF InitClears
    <3>2. trouble = "neither" /\ unOrder[cleared] = NoName
      BY <3>1
    <3>3. unOrder' = unOrder
      BY <1>8, <3>2 DEF InitClears, Types, NameOK
    <3> QED
      BY <3>1, <3>2, <3>3
  <2> QED
    BY <2>1, <2>2, OwnStays
<1> QED
  BY <1>1, <1>2, <1>3, <1>4, <1>5, <1>6, <1>7, <1>8 DEF Next, Handler, InitThread

-----------------------------------------------------------------------------
(* init runs, and places are emptied, when the rate is already measured:   *)
(* nothing is measured any more.                                           *)
Measured ==
  /\ init # "none" => isSetInterval
  /\ trouble = "emptied" => isSetInterval
  /\ trouble # "raced" => \A k \in DOMAIN from : from[k] = from[1]

LEMMA TroubleStays ==
  ASSUME [Next]_vars, trouble = "raced"
  PROVE  trouble' = "raced"
<1>1. ASSUME NEW t \in Threads, Handler(t) \/ Stop(t) PROVE trouble' = "raced"
  BY <1>1 DEF Handler, Frame, Look, Take, Update, Start, Push, Stop, Notes, history
<1>2. CASE InitThread \/ UNCHANGED vars
  BY <1>2 DEF InitThread, InitBegins, InitClears, Notes, vars, history
<1> QED
  BY <1>1, <1>2 DEF Next

LEMMA MeasuredStep ==
  ASSUME Types, Types', Own', Measured, [Next]_vars
  PROVE  Measured'
<1>1. isSetInterval => isSetInterval' /\ from' = from
  <2>1. ASSUME NEW t \in Threads, Update(t), isSetInterval
        PROVE  isSetInterval' /\ from' = from
    BY <2>1, Zenon DEF Update
  <2>2. ASSUME NEW t \in Threads, Frame(t) \/ Look(t) \/ Take(t) \/ Start(t) \/ Push(t) \/ Stop(t)
        PROVE  UNCHANGED rateVars
    BY <2>2 DEF Frame, Look, Take, Start, Push, Stop
  <2>3. CASE InitThread \/ UNCHANGED vars
    BY <2>3 DEF InitThread, InitBegins, InitClears, vars, rateVars
  <2> QED
    BY <2>1, <2>2, <2>3 DEF Next, Handler, rateVars
<1>2. init' # "none" => init # "none" \/ isSetInterval
  <2>1. ASSUME NEW t \in Threads, Start(t) PROVE init' = init \/ isSetInterval
    BY <2>1 DEF Start, Starts
  <2>2. ASSUME NEW t \in Threads, Frame(t) \/ Look(t) \/ Take(t) \/ Update(t) \/ Push(t) \/ Stop(t)
        PROVE  init' = init
    BY <2>2 DEF Frame, Look, Take, Update, Push, Stop, initVars
  <2>3. CASE InitThread \/ UNCHANGED vars
    BY <2>3 DEF InitThread, InitBegins, InitClears, vars, initVars
  <2> QED
    BY <2>1, <2>2, <2>3 DEF Next, Handler
<1>3. trouble' = "emptied" => trouble = "emptied" \/ init # "none"
  <2>1. ASSUME NEW t \in Threads, Look(t) \/ Push(t) PROVE trouble' = trouble
    BY <2>1, NotesTell DEF Look, Push, Notes, history
  <2>2. ASSUME NEW t \in Threads, Take(t) PROVE trouble' \in {trouble, "raced"}
    BY <2>2 DEF Take, Notes
  <2>3. ASSUME NEW t \in Threads, Frame(t) \/ Update(t) \/ Start(t) \/ Stop(t)
        PROVE  trouble' = trouble
    BY <2>3 DEF Frame, Update, Start, Stop, history
  <2>4. CASE InitThread \/ UNCHANGED vars
    BY <2>4 DEF InitThread, InitBegins, InitClears, vars, history
  <2> QED
    BY <2>1, <2>2, <2>3, <2>4 DEF Next, Handler
<1>4. (init' # "none" => isSetInterval') /\ (trouble' = "emptied" => isSetInterval')
  BY <1>1, <1>2, <1>3 DEF Measured
<1>5. ASSUME trouble' # "raced" PROVE \A k \in DOMAIN from' : from'[k] = from'[1]
  <2>1. CASE trouble' = "neither"
    <3>1. \A k \in DOMAIN from' : from'[k] = unOrder'[dataIndex']
      BY <2>1 DEF Own
    <3>2. from' \in Seq(Devices)
      BY DEF Types, RateOK
    <3>3. ASSUME NEW k \in DOMAIN from' PROVE 1 \in DOMAIN from'
      BY <3>2
    <3> QED
      BY <3>1, <3>3
  <2>2. CASE trouble' = "emptied"
    <3>1. isSetInterval
      BY <1>3, <2>2 DEF Measured
    <3>2. trouble # "raced"
      BY <2>2, TroubleStays
    <3> QED
      BY <1>1, <3>1, <3>2 DEF Measured
  <2> QED
    BY <1>5, <2>1, <2>2 DEF Types, HistoryOK
<1> QED
  BY <1>4, <1>5 DEF Measured

(* What the histories of the windows hold, and why a device is refused.    *)
Counted ==
  /\ trouble # "neither" => \A p \in Places : owners[p] = {}
  /\ refused # {} => Cardinality(Connected) > N

LEMMA ConnectedFinite ==
  ASSUME Types
  PROVE  IsFiniteSet(Connected) /\ Cardinality(Connected) \in Nat
<1>1. device \in Surjection(Threads, Connected)
  BY DeviceOf DEF Types, Connected, Surjection
<1> QED
  BY <1>1, UnitStartAssumption, FS_Surjection, FS_CardinalityType

(* When every place has the name of another connected device, a device     *)
(* without one is one too many.                                            *)
LEMMA NoneFree ==
  ASSUME Types, Distinct, trouble # "raced", Free = {}, NEW t \in Threads, pc[t] = "look"
  PROVE  Cardinality(Connected) > N
<1> DEFINE others == Connected \ {device[t]}
<1>1. /\ IsFiniteSet(others)
      /\ Cardinality(others) = Cardinality(Connected) - 1
      /\ Cardinality(Connected) \in Nat
  <2>1. device[t] \in Connected
    BY DEF Connected
  <2>2. IsFiniteSet(Connected) /\ Cardinality(Connected) \in Nat
    BY ConnectedFinite
  <2> QED
    BY <2>1, <2>2, FS_RemoveElement, Zenon
<1>2. \A p \in Places : unOrder[p] # NoName
  BY DEF Free, Named
<1>3. unOrder \in Injection(Places, others)
  <2>1. unOrder \in [Places -> others]
    BY <1>2 DEF Types, NameOK, Distinct, Placing
  <2>2. \A p, q \in Places : unOrder[p] = unOrder[q] => p = q
    BY <1>2 DEF Distinct
  <2> HIDE DEF others
  <2> QED
    BY <2>1, <2>2 DEF Injection, IsInjective
<1>4. Cardinality(Places) = N
  BY FS_Interval, UnitStartAssumption DEF Places
<1> HIDE DEF others
<1>5. Cardinality(Places) <= Cardinality(others)
  BY <1>1, <1>3, FS_Injection
<1> QED
  BY <1>1, <1>4, <1>5, UnitStartAssumption

LEMMA CountedStep ==
  ASSUME Types, Distinct, Counted, [Next]_vars
  PROVE  Counted'
<1>1. Connected' = Connected
  BY DEF Connected, Next, Handler, Frame, Look, Take, Update, Start, Push, Stop,
         InitThread, InitBegins, InitClears, vars
<1>2. ASSUME NEW what, NEW own, NEW ref, Notes(what, own, ref),
             ref # {} /\ trouble' # "raced" => Cardinality(Connected) > N
      PROVE  Counted'
  <2>1. trouble' # "neither" => \A p \in Places : owners'[p] = {}
    BY <1>2, NotesTell
  <2>2. refused' # {} => ref # {} /\ trouble' # "raced"
    BY <1>2 DEF Notes
  <2> QED
    BY <1>1, <1>2, <2>1, <2>2 DEF Counted
<1>3. CASE UNCHANGED history
  BY <1>1, <1>3 DEF Counted, history
<1>4. ASSUME NEW t \in Threads, Look(t), Free = {} PROVE Counted'
  <2>1. Notes(trouble, owners, refused \cup {device[t]}) /\ pc[t] = "look"
    BY <1>4 DEF Look, At
  <2>2. trouble' # "raced" => trouble # "raced"
    BY <2>1, NotesTell
  <2>3. trouble' # "raced" => Cardinality(Connected) > N
    BY <1>4, <2>1, <2>2, NoneFree
  <2> QED
    BY <1>2, <2>1, <2>3
<1>5. ASSUME NEW t \in Threads, Take(t) \/ Push(t) PROVE Counted'
  <2>1. PICK what, own : Notes(what, own, refused)
    BY <1>5 DEF Take, Push
  <2> QED
    BY <1>2, <2>1 DEF Counted
<1>6. CASE InitClears
  <2>1. PICK what, own : Notes(what, own, refused)
    BY <1>6 DEF InitClears
  <2> QED
    BY <1>2, <2>1 DEF Counted
<1>7. ASSUME NEW t \in Threads,
             \/ Frame(t) \/ Update(t) \/ Start(t) \/ Stop(t)
             \/ Look(t) /\ Free # {}
      PROVE  UNCHANGED history
  BY <1>7 DEF Frame, Look, Update, Start, Stop
<1>8. CASE InitBegins \/ UNCHANGED vars
  BY <1>3, <1>8 DEF InitBegins, vars
<1> QED
  BY <1>3, <1>4, <1>5, <1>6, <1>7, <1>8 DEF Next, Handler, InitThread

-----------------------------------------------------------------------------
LEMMA WindowsCorrect == Spec => [](Types /\ Distinct /\ Own /\ Measured /\ Counted)
<1>1. Init => Distinct /\ Own /\ Measured /\ Counted
  <2> SUFFICES ASSUME Init PROVE Distinct /\ Own /\ Measured /\ Counted
    OBVIOUS
  <2>1. \A t \in Threads : device[t] # NoName
    BY UnitStartAssumption DEF Init
  <2>2. Distinct
    BY <2>1 DEF Init, Distinct, Placing
  <2>3. Own
    BY DEF Init, Own, Settled
  <2>4. Measured /\ Counted
    BY DEF Init, Measured, Counted
  <2> QED
    BY <2>2, <2>3, <2>4
<1>2. /\ Types /\ Types' /\ Distinct /\ Own /\ Measured /\ Counted
      /\ [Next]_vars
      => Distinct' /\ Own' /\ Measured' /\ Counted'
  BY DistinctStep, OwnStep, MeasuredStep, CountedStep
<1> QED
  BY <1>1, <1>2, TypesCorrect, PTL DEF Spec

(* The rate a unit starts with is the rate of one device, unless two       *)
(* threads took places at once.                                            *)
THEOREM RateOfOneDeviceHolds == Spec => []RateOfOneDevice
<1>1. Measured => RateOfOneDevice
  BY DEF Measured, RateOfOneDevice
<1> QED
  BY <1>1, WindowsCorrect, PTL

(* Until threads race or init empties places in use, every window has the  *)
(* frames of one device, every device one window, and only a device too    *)
(* many is refused.                                                        *)
THEOREM OwnWindowHolds == Spec => []OwnWindow
<1>1. Types /\ Distinct /\ Own /\ Counted => OwnWindow
  <2> SUFFICES ASSUME Types, Distinct, Own, Counted PROVE OwnWindow
    OBVIOUS
  <2>1. trouble # "neither" => \A p \in Places : owners[p] = {}
    BY DEF Counted
  <2>2. trouble = "neither" => \A p \in Places : owners[p] \subseteq {unOrder[p]}
    BY DEF Own
  <2>3. \A p \in Places : owners[p] \subseteq Devices
    BY DEF Types, HistoryOK
  <2>4. ASSUME NEW p \in Places PROVE Cardinality(owners[p]) <= 1
    <3>1. owners[p] \subseteq {unOrder[p]}
      BY <2>1, <2>2 DEF Types, HistoryOK
    <3>2. owners[p] = {} \/ owners[p] = {unOrder[p]}
      BY <3>1
    <3>3. Cardinality({}) = 0 /\ Cardinality({unOrder[p]}) = 1
      BY FS_EmptySet, FS_Singleton, Zenon
    <3> QED
      BY <3>2, <3>3
  <2>5. ASSUME NEW p \in Places, NEW q \in Places, p # q
        PROVE  owners[p] \cap owners[q] = {}
    <3>1. ASSUME NEW d \in owners[p] \cap owners[q] PROVE FALSE
      <4>1. trouble = "neither" /\ unOrder[p] = d /\ unOrder[q] = d /\ d \in Devices
        BY <2>1, <2>2, <2>3, <2>5, <3>1 DEF Types, HistoryOK
      <4> QED
        BY <2>5, <4>1, UnitStartAssumption DEF Distinct
    <3> QED
      BY <3>1
  <2> QED
    BY <2>4, <2>5 DEF OwnWindow, Counted
<1> QED
  BY <1>1, WindowsCorrect, PTL
=============================================================================
