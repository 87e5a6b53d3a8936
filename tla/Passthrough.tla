---------------------------- MODULE Passthrough ----------------------------
(***************************************************************************)
(* The units that hand on every message as it is, or every change of its   *)
(* status (DataUnit::TransparentTransmission,                              *)
(* DataUnitCrossTrafficJamAlarm::specialBusiness): the tI thread empties   *)
(* the window of one road after the other into the output queue.           *)
(*                                                                         *)
(* It reads the head of a window and erases the head of the window: two    *)
(* locked operations, between which a connection thread may push, and a    *)
(* push into a full window drops the head.                                 *)
(***************************************************************************)
EXTENDS Integers, Sequences

CONSTANTS
  NumI,         \* numI: the number of roads
  Cap,          \* cap: the size of every window and of the output queue
  Statuses,     \* the alarm statuses
  Businesses,   \* of {"transparent", "changes"}: what units there are
  MaxPushed     \* BOUND: how many messages each road is sent

ASSUME PassthroughAssumption ==
  /\ NumI \in Nat \ {0} /\ Cap \in Nat \ {0}
  /\ Statuses \subseteq Nat
  /\ Businesses \subseteq {"transparent", "changes"}
  /\ MaxPushed \in Nat

Roads == 0 .. NumI - 1
Message == [road : Roads, sn : Nat, alarmStatus : Statuses]
NoMessage == [road |-> -1, sn |-> -1, alarmStatus |-> 0]
Unknown == -1     \* alarmStatus before the first message

VARIABLES
  business,         \* what the unit does with a message; never changes
  i_queue_vector,   \* the window of every road
  alarmStatus,      \* the status last handed on
  o_queue,          \* the output queue
  pc,               \* where the tI thread is
  road,             \* the road whose window it empties
  cur,              \* the message it works on
  pushed,           \* HISTORY: how many messages each road was sent
  overruns,         \* HISTORY: how many of them found the window full
  seen,             \* HISTORY: how many of them the tI thread read
  reported,         \* HISTORY: what the output queue took, in order
  dropsAfter        \* HISTORY: lengths of reported when the queue was full

threadVars == <<alarmStatus, pc, road, cur, seen>>
windowVars == <<i_queue_vector, pushed, overruns>>
outputVars == <<o_queue, reported, dropsAfter>>
vars == <<business, threadVars, windowVars, outputVars>>

Init ==
  /\ business \in Businesses
  /\ i_queue_vector = [r \in Roads |-> <<>>]
  /\ alarmStatus = Unknown
  /\ o_queue = <<>>
  /\ pc = "wait" /\ road = 0 /\ cur = NoMessage
  /\ pushed = [r \in Roads |-> 0]
  /\ overruns = [r \in Roads |-> 0]
  /\ seen = [r \in Roads |-> 0]
  /\ reported = <<>>
  /\ dropsAfter = {}

-----------------------------------------------------------------------------
(* Vector and Queue.                                                       *)

Full(q) == Len(q) >= Cap
MutSlide(q, m) == IF Full(Append(q, m)) THEN Tail(Append(q, m)) ELSE Append(q, m)
Slide(q, m) == IF Full(q) THEN Tail(Append(q, m)) ELSE Append(q, m)

MutFirstOf(q) == q[Len(q)]
FirstOf(q) == q[1]

MutHasRoom(q) == Len(q) <= Cap
HasRoom(q) == ~Full(q)

-----------------------------------------------------------------------------
(* A connection thread stores a message.                                   *)
PushI(r, status) ==
  /\ pushed[r] < MaxPushed
  /\ LET m == [road |-> r, sn |-> pushed[r], alarmStatus |-> status]
     IN  i_queue_vector' = [i_queue_vector EXCEPT ![r] = Slide(@, m)]
  /\ pushed' = [pushed EXCEPT ![r] = @ + 1]
  /\ overruns' = [overruns EXCEPT ![r] = IF Full(i_queue_vector[r]) THEN @ + 1 ELSE @]
  /\ UNCHANGED <<business, threadVars, outputVars>>

(* runTask, with a cache of one: some window has a message.                *)
RunTask ==
  /\ pc = "wait"
  /\ \E r \in Roads : i_queue_vector[r] # <<>>
  /\ pc' = "look" /\ road' = 0
  /\ UNCHANGED <<business, alarmStatus, cur, seen, windowVars, outputVars>>

(* The window is not empty: its first message is read.                     *)
GetIndex ==
  /\ pc = "look"
  /\ i_queue_vector[road] # <<>>
  /\ cur' = FirstOf(i_queue_vector[road])
  /\ seen' = [seen EXCEPT ![road] = @ + 1]
  /\ pc' = "erase"
  /\ UNCHANGED <<business, alarmStatus, road, windowVars, outputVars>>

(* The window is empty: the next road's turn, or the end of the task.      *)
NextWindow ==
  /\ pc = "look"
  /\ i_queue_vector[road] = <<>>
  /\ IF road + 1 \in Roads THEN road' = road + 1 /\ UNCHANGED pc
                           ELSE pc' = "wait" /\ UNCHANGED road
  /\ UNCHANGED <<business, alarmStatus, cur, seen, windowVars, outputVars>>

(* What is first in the window by now is erased.                           *)
EraseBegin ==
  /\ pc = "erase"
  /\ i_queue_vector' = [i_queue_vector EXCEPT ![road] = Tail(@)]
  /\ pc' = "report"
  /\ UNCHANGED <<business, alarmStatus, road, cur, seen, pushed, overruns, outputVars>>

MutRemembered(m) == IF alarmStatus = Unknown THEN m.alarmStatus ELSE alarmStatus
Remembered(m) == m.alarmStatus

(* A unit that reports changes leaves a message with the status it knows.  *)
Skip ==
  /\ pc = "report"
  /\ business = "changes" /\ alarmStatus = cur.alarmStatus
  /\ pc' = "look"
  /\ UNCHANGED <<business, alarmStatus, road, cur, seen, windowVars, outputVars>>

(* The message goes to the output queue, which drops it when it is full;   *)
(* its status is the one the unit knows, whatever the queue does.          *)
Report ==
  /\ pc = "report"
  /\ business = "changes" => alarmStatus # cur.alarmStatus
  /\ alarmStatus' = IF business = "changes" THEN Remembered(cur) ELSE alarmStatus
  /\ IF HasRoom(o_queue)
       THEN /\ o_queue' = Append(o_queue, cur)
            /\ reported' = Append(reported, cur)
            /\ UNCHANGED dropsAfter
       ELSE /\ dropsAfter' = dropsAfter \cup {Len(reported)}
            /\ UNCHANGED <<o_queue, reported>>
  /\ pc' = "look"
  /\ UNCHANGED <<business, road, cur, seen, windowVars>>

(* The tO thread takes a message out.                                      *)
PopO ==
  /\ o_queue # <<>>
  /\ o_queue' = Tail(o_queue)
  /\ UNCHANGED <<business, threadVars, windowVars, reported, dropsAfter>>

TaskI == RunTask \/ GetIndex \/ NextWindow \/ EraseBegin \/ Skip \/ Report

Next == \/ \E r \in Roads, status \in Statuses : PushI(r, status)
        \/ TaskI
        \/ PopO

Spec == Init /\ [][Next]_vars

-----------------------------------------------------------------------------
TypeOK ==
  /\ business \in Businesses
  /\ i_queue_vector \in [Roads -> Seq(Message)]
  /\ \A r \in Roads : Len(i_queue_vector[r]) <= Cap
  /\ alarmStatus \in Statuses \cup {Unknown}
  /\ o_queue \in Seq(Message) /\ Len(o_queue) <= Cap
  /\ pc \in {"wait", "look", "erase", "report"}
  /\ road \in Roads
  /\ cur \in Message \cup {NoMessage}
  /\ pc \in {"erase", "report"} => cur \in Message
  /\ pc = "erase" => i_queue_vector[road] # <<>>
  /\ pushed \in [Roads -> Nat]
  /\ overruns \in [Roads -> Nat]
  /\ seen \in [Roads -> Nat]
  /\ reported \in Seq(Message)
  /\ dropsAfter \in SUBSET Nat

(* The messages of a device are reported in the order they came and none   *)
(* of them twice, though the head that is erased need not be the one read. *)
InOrderOnce ==
  \A i, j \in DOMAIN reported :
    i < j /\ reported[i].road = reported[j].road => reported[i].sn < reported[j].sn

(* The race between reading and erasing a head costs nothing beyond what   *)
(* the full window costs: one message for every push that found it full.   *)
OneLossPerOverrun ==
  \A r \in Roads :
    pushed[r] - seen[r] - Len(i_queue_vector[r]) <= overruns[r]

(* A unit that reports changes reports the same status twice in a row only *)
(* when the output queue dropped the change in between.                    *)
ReportsChanges ==
  business = "changes" =>
    \A i \in 1 .. Len(reported) - 1 :
      reported[i].alarmStatus = reported[i + 1].alarmStatus => i \in dropsAfter
=============================================================================
