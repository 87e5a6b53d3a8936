----------------------------- MODULE EocSession -----------------------------
(***************************************************************************)
(* The session with the management centre (EOC): the thread that opens and *)
(* restarts it (ThreadEOCCom), the one that receives (ThreadDump), the one *)
(* that cuts what came into messages (getPkgs), the one that obeys them    *)
(* (proPkgs) and the one that logs in and sends heartbeats (intervalPro).  *)
(*                                                                         *)
(* Whoever sees the session fail clears isLive.  Each of the four threads  *)
(* looks at it once a round; TlsClient::Close frees ring buffer and TLS    *)
(* session when the receiving thread is gone, EOCCom::Close waits for the  *)
(* other three only after that.  A thread that still uses what is freed    *)
(* ends the process, which the machine starts anew.                        *)
(*                                                                         *)
(* What an order does (configuration, download, upgrade) is left out: it   *)
(* answers, which is what it does to the session.                          *)
(***************************************************************************)
EXTENDS Integers, Sequences

CONSTANTS
  HeartMax,       \* heartbeats that may stay unanswered (10)
  PkgMax,         \* pkgs.setMax: messages kept for proPkgs (10)
  RbMax,          \* BOUND: messages the ring buffer holds
  MaxFaults,      \* BOUND: failures of network, centre, opening and reading
  MaxOrders       \* BOUND: orders the centre sends

ASSUME EocSessionAssumption ==
  /\ HeartMax \in Nat \ {0} /\ PkgMax \in Nat \ {0} /\ RbMax \in Nat \ {0}
  /\ MaxFaults \in Nat /\ MaxOrders \in Nat

VARIABLES
  keeper,         \* where ThreadEOCCom is
  isLive,
  isLogIn,
  heartFlag,
  ssl,            \* ssl and rb: junk (never set), null (freed) or set
  held,           \* the message whose rest SSL holds back, if any
  rb,             \* what is in the ring buffer
  pkgs,
  dump,           \* whether ThreadDump runs
  cut,            \* where getPkgs is
  pro,            \* where proPkgs is, or the message it obeys
  beat,           \* where intervalPro is
  seen,           \* the heartFlag intervalPro has loaded to increase it
  link,           \* the connection: good, hung, reset or closed
  requests,       \* what the centre has been asked in this session
  faults, orders, \* what the bounds count
  accepted,       \* HISTORY: the centre has accepted a login of this session
  silence         \* HISTORY: heartbeats since a reply to one was obeyed

threadVars == <<dump, cut, pro, beat, seen>>
dataVars == <<isLogIn, heartFlag, held, rb, pkgs>>
centreVars == <<link, requests>>
boundVars == <<faults, orders>>
historyVars == <<accepted, silence>>
vars == <<keeper, isLive, ssl, threadVars, dataVars, centreVars, boundVars, historyVars>>

Messages == {"R100", "R101ok", "R101no", "order"}

(* new EOCCom; nothing has been opened.  ssl and ctx are not initialised.  *)
Init ==
  /\ keeper = "open"
  /\ isLive = FALSE /\ isLogIn = FALSE /\ heartFlag = 0
  /\ ssl = "junk" /\ held = <<>> /\ rb = <<>> /\ pkgs = <<>>
  /\ dump = FALSE /\ cut = "gone" /\ pro = "gone" /\ beat = "gone" /\ seen = 0
  /\ link = "closed" /\ requests = {}
  /\ faults = 0 /\ orders = 0
  /\ accepted = FALSE /\ silence = 0

(* The process ends and is started again.                                  *)
Crash ==
  /\ keeper' = "open"
  /\ isLive' = FALSE /\ isLogIn' = FALSE /\ heartFlag' = 0
  /\ ssl' = "junk" /\ held' = <<>> /\ rb' = <<>> /\ pkgs' = <<>>
  /\ dump' = FALSE /\ cut' = "gone" /\ pro' = "gone" /\ beat' = "gone" /\ seen' = 0
  /\ link' = "closed" /\ requests' = {}
  /\ accepted' = FALSE /\ silence' = 0

(* TlsClient::Write: what it may return.  SSL_write fails on a socket that *)
(* is closed, and on a connection that is reset once the system knows.     *)
Written == IF link = "closed" THEN {FALSE}
           ELSE IF link = "reset" THEN BOOLEAN ELSE {TRUE}

-----------------------------------------------------------------------------
(* ThreadEOCCom, EOCCom::Open, Run and Close.                              *)

(* Every ten seconds it looks at isLive.  Close begins with the socket.    *)
KeeperLook ==
  /\ keeper = "sleep"
  /\ ~isLive
  /\ link' = "closed" /\ requests' = {}
  /\ keeper' = "close"
  /\ UNCHANGED <<isLive, ssl, threadVars, dataVars, boundVars, historyVars>>

(* TlsClient::Close waits for ThreadDump, then frees ring buffer, ssl and  *)
(* ctx, the last two even if they hold what was in memory before.          *)
KeeperFree ==
  /\ keeper = "close"
  /\ ~dump
  /\ \/ /\ ssl' = "null" /\ rb' = <<>>
        /\ keeper' = "wait"
        /\ UNCHANGED <<isLive, isLogIn, heartFlag, held, pkgs, threadVars, centreVars, historyVars>>
     \/ ssl = "junk" /\ Crash
  /\ UNCHANGED boundVars

MutAllGone == cut = "gone" /\ beat = "gone"
AllGone == cut = "gone" /\ pro = "gone" /\ beat = "gone"

(* EOCCom::Close waits for the other three.                                *)
KeeperWait ==
  /\ keeper = "wait"
  /\ AllGone
  /\ keeper' = "open"
  /\ UNCHANGED <<isLive, ssl, threadVars, dataVars, centreVars, boundVars, historyVars>>

(* EOCCom::Open clears the queue whatever TlsClient::Open returns.         *)
MutAtOpen == pkgs
AtOpen == <<>>

(* Open fails: before or after ssl has been made.                          *)
KeeperFails ==
  /\ keeper = "open"
  /\ faults < MaxFaults
  /\ faults' = faults + 1
  /\ ssl' \in {ssl, "set"}
  /\ pkgs' = AtOpen
  /\ keeper' = "sleep"
  /\ UNCHANGED <<isLive, isLogIn, heartFlag, held, rb, threadVars, centreVars, orders, historyVars>>

(* Open succeeds and Run starts the four threads.  The first thing proPkgs *)
(* does is to clear isLogIn, the first thing intervalPro does to clear     *)
(* heartFlag; both do before intervalPro has slept its first ten seconds.  *)
MutKeeperOpens ==
  /\ keeper = "open"
  /\ ssl' = "set" /\ held' = <<>> /\ rb' = <<>> /\ pkgs' = AtOpen
  /\ link' = "good" /\ requests' = {}
  /\ isLogIn' = FALSE /\ heartFlag' = 0
  /\ accepted' = FALSE /\ silence' = 0
  /\ keeper' = "sleep"
  /\ UNCHANGED <<isLive, threadVars, boundVars>>
KeeperOpens ==
  /\ keeper = "open"
  /\ ssl' = "set" /\ held' = <<>> /\ rb' = <<>> /\ pkgs' = AtOpen
  /\ link' = "good" /\ requests' = {}
  /\ isLive' = TRUE /\ isLogIn' = FALSE /\ heartFlag' = 0
  /\ dump' = TRUE /\ cut' = "look" /\ pro' = "look" /\ beat' = "look"
  /\ accepted' = FALSE /\ silence' = 0
  /\ keeper' = "sleep"
  /\ UNCHANGED <<seen, boundVars>>

-----------------------------------------------------------------------------
(* ThreadDump.  It uses nothing that is freed while it runs.               *)

(* SSL_read is given room for eight bytes, and what SSL holds of a record  *)
(* does not make the socket readable: the rest of a message, and with it   *)
(* its end, is handed over when the next one comes.                        *)
Arrives(m) ==
  /\ dump /\ isLive /\ link = "good" /\ Len(rb) + Len(held) <= RbMax
  /\ rb' = rb \o held
  /\ held' = <<m>>
  /\ UNCHANGED <<keeper, isLive, isLogIn, heartFlag, ssl, pkgs, threadVars, link>>

(* The centre answers a login or a heartbeat, or sends an order.           *)
AnswerBeat ==
  /\ "S100" \in requests
  /\ requests' = requests \ {"S100"}
  /\ Arrives("R100")
  /\ UNCHANGED <<boundVars, historyVars>>

AnswerLogin ==
  /\ "S101" \in requests
  /\ requests' = requests \ {"S101"}
  /\ Arrives("R101ok")
  /\ accepted' = TRUE
  /\ UNCHANGED <<boundVars, silence>>

RefuseLogin ==
  /\ "S101" \in requests
  /\ faults < MaxFaults
  /\ faults' = faults + 1
  /\ requests' = requests \ {"S101"}
  /\ Arrives("R101no")
  /\ UNCHANGED <<orders, historyVars>>

Order ==
  /\ orders < MaxOrders
  /\ orders' = orders + 1
  /\ Arrives("order")
  /\ UNCHANGED <<requests, faults, historyVars>>

(* So it is when anything else makes the socket readable: a reset, or the  *)
(* first piece of a record.                                                *)
Rest ==
  /\ dump /\ isLive /\ held # <<>> /\ Len(rb) < RbMax
  /\ rb' = rb \o held
  /\ held' = <<>>
  /\ UNCHANGED <<keeper, isLive, isLogIn, heartFlag, ssl, pkgs, threadVars, centreVars, boundVars,
                 historyVars>>

(* SSL_read fails, when it has handed over everything: on a reset          *)
(* connection, or because a record has not come whole in thirty seconds.   *)
(* (That it returns 0 goes unnoticed.)                                     *)
DumpFails ==
  /\ dump /\ isLive /\ held = <<>>
  /\ \/ link = "reset" /\ UNCHANGED faults
     \/ link # "reset" /\ faults < MaxFaults /\ faults' = faults + 1
  /\ isLive' = FALSE
  /\ UNCHANGED <<keeper, ssl, threadVars, dataVars, centreVars, orders, historyVars>>

(* What SSL still holds nobody will read any more.                         *)
DumpExits ==
  /\ dump /\ ~isLive
  /\ dump' = FALSE /\ held' = <<>>
  /\ UNCHANGED <<keeper, isLive, isLogIn, heartFlag, ssl, rb, pkgs, cut, pro, beat, seen, centreVars,
                 boundVars, historyVars>>

(* The centre falls silent, or the connection breaks.                      *)
LinkFails ==
  /\ link = "good"
  /\ faults < MaxFaults
  /\ faults' = faults + 1
  /\ link' \in {"hung", "reset"} /\ requests' = {}
  /\ UNCHANGED <<keeper, isLive, ssl, threadVars, dataVars, orders, historyVars>>

-----------------------------------------------------------------------------
(* getPkgs.                                                                *)

CutLooks ==
  /\ cut = "look"
  /\ cut' = IF isLive THEN "read" ELSE "gone"
  /\ UNCHANGED <<keeper, isLive, ssl, dump, pro, beat, seen, dataVars, centreVars, boundVars,
                 historyVars>>

MutHasRoom == Len(pkgs) <= PkgMax
MutHasLessRoom == Len(pkgs) < PkgMax - 1
HasRoom == Len(pkgs) < PkgMax

(* The inner loop: it reads until the ring buffer is empty; a full queue   *)
(* drops the message.                                                      *)
CutReads ==
  /\ cut = "read"
  /\ ssl = "set"
  /\ IF rb = <<>>
     THEN cut' = "look" /\ UNCHANGED <<rb, pkgs>>
     ELSE /\ rb' = Tail(rb)
          /\ pkgs' = IF HasRoom THEN Append(pkgs, Head(rb)) ELSE pkgs
          /\ UNCHANGED cut
  /\ UNCHANGED <<keeper, isLive, isLogIn, heartFlag, ssl, held, dump, pro, beat, seen, centreVars,
                 boundVars, historyVars>>

CutFalls == cut = "read" /\ ssl = "null" /\ Crash /\ UNCHANGED boundVars

-----------------------------------------------------------------------------
(* proPkgs.                                                                *)

ProLooks ==
  /\ pro = "look"
  /\ pro' = IF isLive THEN "pop" ELSE "gone"
  /\ UNCHANGED <<keeper, isLive, ssl, dump, cut, beat, seen, dataVars, centreVars, boundVars,
                 historyVars>>

ProPops ==
  /\ pro = "pop"
  /\ IF pkgs = <<>> THEN pro' = "look" /\ UNCHANGED pkgs
                    ELSE pro' = Head(pkgs) /\ pkgs' = Tail(pkgs)
  /\ UNCHANGED <<keeper, isLive, isLogIn, heartFlag, ssl, held, rb, dump, cut, beat, seen, centreVars,
                 boundVars, historyVars>>

ProcessR100 ==
  /\ pro = "R100"
  /\ heartFlag' = 0 /\ silence' = 0
  /\ pro' = "look"
  /\ UNCHANGED <<keeper, isLive, isLogIn, ssl, held, rb, pkgs, dump, cut, beat, seen, centreVars,
                 boundVars, accepted>>

ProcessR101 ==
  /\ pro \in {"R101ok", "R101no"}
  /\ isLogIn' = (isLogIn \/ pro = "R101ok")
  /\ pro' = "look"
  /\ UNCHANGED <<keeper, isLive, heartFlag, ssl, held, rb, pkgs, dump, cut, beat, seen, centreVars,
                 boundVars, historyVars>>

(* R102, R104, R106 and R107 answer; that Write fails is only logged.      *)
ProcessOrder ==
  /\ pro = "order"
  /\ \/ ssl = "set" /\ pro' = "look"
        /\ UNCHANGED <<keeper, isLive, ssl, dump, cut, beat, seen, dataVars, centreVars,
                       historyVars>>
     \/ ssl = "null" /\ Crash
  /\ UNCHANGED boundVars

-----------------------------------------------------------------------------
(* intervalPro.                                                            *)

(* It looks at isLive and then sleeps for ten seconds.                     *)
BeatLooks ==
  /\ beat = "look"
  /\ beat' = IF isLive THEN "sleep" ELSE "gone"
  /\ UNCHANGED <<keeper, isLive, ssl, dump, cut, pro, seen, dataVars, centreVars, boundVars,
                 historyVars>>

BeatWakes ==
  /\ beat = "sleep"
  /\ beat' = IF isLogIn THEN "query" ELSE "login"
  /\ UNCHANGED <<keeper, isLive, ssl, dump, cut, pro, seen, dataVars, centreVars, boundVars,
                 historyVars>>

(* A message goes to the centre, which is good for an answer as long as    *)
(* the link is, or isLive is cleared.                                      *)
Sends(m) ==
  \E ok \in Written :
     /\ isLive' = (isLive /\ ok)
     /\ requests' = IF link = "good" THEN requests \cup m ELSE requests

(* Not logged in: S101, at every round.                                    *)
Login ==
  /\ beat = "login"
  /\ ssl = "set"
  /\ Sends({"S101"})
  /\ beat' = "look"
  /\ UNCHANGED <<keeper, ssl, dump, cut, pro, seen, dataVars, link, boundVars, historyVars>>

(* S104 before the heartbeat, S105, S103 and S106 behind it, when due.     *)
Report ==
  /\ beat \in {"query", "rest"}
  /\ \/ UNCHANGED <<isLive, requests>>
     \/ ssl = "set" /\ Sends({})
  /\ beat' = IF beat = "query" THEN "heart" ELSE "look"
  /\ UNCHANGED <<keeper, ssl, dump, cut, pro, seen, dataVars, link, boundVars, historyVars>>

(* The number of the device, which S101 and S104 carry, cannot be read:    *)
(* the round is over.                                                      *)
Continue ==
  /\ beat \in {"login", "query"}
  /\ faults < MaxFaults
  /\ faults' = faults + 1
  /\ beat' = "look"
  /\ UNCHANGED <<keeper, isLive, ssl, dump, cut, pro, seen, dataVars, centreVars, orders,
                 historyVars>>

(* Less than thirty seconds since the last heartbeat.                      *)
HeartNotDue ==
  /\ beat = "heart"
  /\ beat' = "rest"
  /\ UNCHANGED <<keeper, isLive, ssl, dump, cut, pro, seen, dataVars, centreVars, boundVars,
                 historyVars>>

(* S100 is sent and heartFlag loaded ...                                   *)
Heartbeat ==
  /\ beat = "heart"
  /\ ssl = "set"
  /\ Sends({"S100"})
  /\ seen' = heartFlag
  /\ silence' = silence + 1
  /\ beat' = "count"
  /\ UNCHANGED <<keeper, ssl, dump, cut, pro, dataVars, link, boundVars, accepted>>

MutTooSilent(n) == n > HeartMax + 1
TooSilent(n) == n > HeartMax

(* ... and stored, one higher: proPkgs may have cleared it in between.     *)
HeartCount ==
  /\ beat = "count"
  /\ heartFlag' = IF TooSilent(seen + 1) THEN 0 ELSE seen + 1
  /\ isLive' = (isLive /\ ~TooSilent(seen + 1))
  /\ beat' = "rest"
  /\ seen' = 0
  /\ UNCHANGED <<keeper, isLogIn, ssl, held, rb, pkgs, dump, cut, pro, centreVars, boundVars, historyVars>>

BeatFalls ==
  /\ beat \in {"login", "query", "heart", "rest"}
  /\ ssl = "null"
  /\ Crash
  /\ UNCHANGED boundVars

-----------------------------------------------------------------------------
ThreadEOCCom == KeeperLook \/ KeeperFree \/ KeeperWait \/ KeeperFails \/ KeeperOpens
ThreadDump == (link = "reset" /\ Rest) \/ DumpFails \/ DumpExits
Centre == Rest \/ AnswerBeat \/ AnswerLogin \/ RefuseLogin \/ Order
getPkgs == CutLooks \/ CutReads \/ CutFalls
proPkgs == ProLooks \/ ProPops \/ ProcessR100 \/ ProcessR101 \/ ProcessOrder
intervalPro == BeatLooks \/ BeatWakes \/ Login \/ Report \/ Continue \/ HeartNotDue
               \/ Heartbeat \/ HeartCount \/ BeatFalls

Next == ThreadEOCCom \/ ThreadDump \/ Centre \/ getPkgs \/ proPkgs \/ intervalPro \/ LinkFails

(* Every thread runs on; a heartbeat is due every thirty seconds; a centre *)
(* that is there answers a login.                                          *)
Spec == /\ Init /\ [][Next]_vars
        /\ WF_vars(ThreadEOCCom) /\ WF_vars(ThreadDump)
        /\ WF_vars(getPkgs) /\ WF_vars(proPkgs) /\ WF_vars(intervalPro)
        /\ SF_vars(Heartbeat) /\ WF_vars(AnswerLogin)

-----------------------------------------------------------------------------
TypeOK ==
  /\ keeper \in {"sleep", "close", "wait", "open"}
  /\ isLive \in BOOLEAN /\ isLogIn \in BOOLEAN
  /\ heartFlag \in 0 .. HeartMax /\ seen \in 0 .. HeartMax
  /\ ssl \in {"junk", "null", "set"}
  /\ held \in Seq(Messages) /\ Len(held) <= 1
  /\ rb \in Seq(Messages) /\ Len(rb) <= RbMax
  /\ pkgs \in Seq(Messages) /\ Len(pkgs) <= PkgMax
  /\ dump \in BOOLEAN
  /\ cut \in {"gone", "look", "read"}
  /\ pro \in {"gone", "look", "pop"} \cup Messages
  /\ beat \in {"gone", "look", "sleep", "login", "query", "heart", "count", "rest"}
  /\ link \in {"good", "hung", "reset", "closed"}
  /\ requests \subseteq {"S100", "S101"}
  /\ faults \in 0 .. MaxFaults /\ orders \in 0 .. MaxOrders
  /\ accepted \in BOOLEAN /\ silence \in Nat

(* The client never takes itself to be logged in on the strength of a      *)
(* login of an earlier session: what that session still had under way, a   *)
(* reply in the queue or in the hands of proPkgs, does not survive it.     *)
LoggedInThisSession == isLogIn => accepted

(* No session goes on for more than HeartMax + 1 heartbeats without a      *)
(* reply that was obeyed, though one thread counts and another clears the  *)
(* counter in the middle of it.  (EOCCom.h has a session given up at the   *)
(* tenth heartbeat and a reply take off one; the code tests > 10 and       *)
(* clears.)                                                                *)
SilenceBounded ==
  /\ silence <= HeartMax + 1
  /\ silence > HeartMax /\ beat # "count" => ~isLive

(* While a session is live nothing it needs is freed, and threads of an    *)
(* earlier one are gone when it begins: a fall is always between a loss of *)
(* the session and its restart.                                            *)
LiveIsOpen ==
  /\ isLive => ssl = "set" /\ keeper = "sleep" /\ dump
  /\ isLive => cut # "gone" /\ pro # "gone" /\ beat # "gone"
  /\ keeper = "open" => ~dump /\ cut = "gone" /\ pro = "gone" /\ beat = "gone"

(* A session that has been lost is replaced by a new one, and after the     *)
(* login it counts as lost when the centre is silent or the connection     *)
(* reset, though SSL_read's 0 is ignored and sends may go on well.         *)
LossIsMended ==
  (~isLive \/ (isLogIn /\ link \in {"hung", "reset"})) ~> (isLive /\ link = "good")

(* The client gets to be logged in, though replies that find the queue     *)
(* full are dropped and a round may be cut short.                          *)
LogsIn == (isLive /\ link = "good") ~> (isLogIn \/ link # "good")
=============================================================================
