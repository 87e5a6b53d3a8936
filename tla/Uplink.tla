------------------------------- MODULE Uplink -------------------------------
(***************************************************************************)
(* The way of an alarm from the output queue of its DataUnit to the        *)
(* platform: the tO threads of the alarm units (taskO), the connection     *)
(* they share (MyTcpClient "client2"), the timer task that renews it       *)
(* (LocalBusiness::Task_Keep) and the queue of what is to be sent again    *)
(* (ReSendQueue).                                                          *)
(*                                                                         *)
(* Two mutexes: the client's is held from entering SendBase to its return, *)
(* the queue's through a whole pass of the resending thread, sends         *)
(* included.  isNeedReconnect is a plain flag: every thread reads and      *)
(* writes it, Reconnect without the client's mutex.                        *)
(***************************************************************************)
EXTENDS Integers, Sequences, SequencesExt

CONSTANTS
  Units,          \* the alarm units that send through the client
  MaxAlarms,      \* BOUND: how many alarms there are
  Cap,            \* cap: the size of an output queue
  MaxResend,      \* max: the size of the resend queue
  Threshold,      \* threshold of the messages, of type RESEND_TYPE_COUNT
  UsesThreshold,  \* isUseThresholdReconnect: a silent platform is reconnected
  MaxFaults       \* BOUND: how often the network or the platform fails

Resender == "resend"                \* the thread of ReSendQueue
Senders == Units \cup {Resender}
Alarms == 1 .. MaxAlarms
NoAlarm == 0

ASSUME UplinkAssumption ==
  /\ Resender \notin Units
  /\ MaxAlarms \in Nat /\ Cap \in Nat /\ MaxResend \in Nat /\ MaxFaults \in Nat
  /\ Threshold \in Nat
  /\ UsesThreshold \in BOOLEAN

VARIABLES
  produced,         \* how many alarms the tI threads have put out
  o_queue,          \* the output queue of every unit
  hand,             \* the alarm the tO thread of every unit has in hand
  pc,               \* where every sender is
  msgQueue,         \* the resend queue
  index,            \* the resending thread's position in it, from 1
  isNeedReconnect,
  link,             \* the connection: up, dead (and nobody knows) or closed
  keep,             \* where Task_Keep is
  faults,           \* how many failures there have been
  received,         \* HISTORY: what reached the platform, in order
  lost,             \* HISTORY: for every cause, the alarms it lost
  resent            \* HISTORY: how often the resend queue sent an alarm

unitVars == <<produced, o_queue, hand>>
queueVars == <<msgQueue, index>>
linkVars == <<isNeedReconnect, link, keep, faults>>
historyVars == <<received, lost, resent>>
vars == <<unitVars, pc, queueVars, linkVars, historyVars>>

Message == [alarm : Alarms, countResend : Nat]
Causes == {"queueFull", "unconnected", "resendFull", "expelled", "vanished"}

Init ==
  /\ produced = 0
  /\ o_queue = [u \in Units |-> <<>>]
  /\ hand = [u \in Units |-> NoAlarm]
  /\ pc = [s \in Senders |-> IF s = Resender THEN "sleep" ELSE "idle"]
  /\ msgQueue = <<>>
  /\ index = 1
  /\ \/ link = "up" /\ isNeedReconnect = FALSE     \* Open succeeded
     \/ link = "closed" /\ isNeedReconnect = TRUE  \* or did not
  /\ keep = "idle"
  /\ faults = 0
  /\ received = <<>>
  /\ lost = [c \in Causes |-> {}]
  /\ resent = [a \in Alarms |-> 0]

(* Room in a queue of at most max elements.                                *)
MutHasRoom(q, max) == Len(q) <= max
HasRoom(q, max) == Len(q) < max

Go(s, place) == pc' = [pc EXCEPT ![s] = place]
Lose(a, cause) == lost' = [lost EXCEPT ![cause] = @ \cup {a}]

-----------------------------------------------------------------------------
(* The threads of a unit.                                                  *)

(* pushO at the end of the unit's input task: a full queue drops the alarm.*)
PushO(u) ==
  LET a == produced + 1 IN
  /\ a \in Alarms
  /\ produced' = a
  /\ IF HasRoom(o_queue[u], Cap)
       THEN o_queue' = [o_queue EXCEPT ![u] = Append(@, a)] /\ UNCHANGED lost
       ELSE Lose(a, "queueFull") /\ UNCHANGED o_queue
  /\ UNCHANGED <<hand, pc, queueVars, linkVars, received, resent>>

(* taskO takes an alarm out of the queue.                                  *)
PopO(u) ==
  /\ pc[u] = "idle"
  /\ o_queue[u] # <<>>
  /\ hand' = [hand EXCEPT ![u] = Head(o_queue[u])]
  /\ o_queue' = [o_queue EXCEPT ![u] = Tail(@)]
  /\ Go(u, "gate")
  /\ UNCHANGED <<produced, queueVars, linkVars, historyVars>>

Done(u) == Go(u, "idle") /\ hand' = [hand EXCEPT ![u] = NoAlarm]

(* taskO gives the alarm up when the client is known to be disconnected.   *)
Gate(u) ==
  /\ pc[u] = "gate"
  /\ IF isNeedReconnect
       THEN Done(u) /\ Lose(hand[u], "unconnected")
       ELSE Go(u, "enter") /\ UNCHANGED <<hand, lost>>
  /\ UNCHANGED <<produced, o_queue, queueVars, linkVars, received, resent>>

(* ReSendQueue::add, after a SendBase that failed; it waits for the mutex  *)
(* while the resending thread is at work.                                  *)
Add(u) ==
  /\ pc[u] = "add"
  /\ pc[Resender] = "sleep"
  /\ IF HasRoom(msgQueue, MaxResend)
       THEN /\ msgQueue' = Append(msgQueue, [alarm |-> hand[u], countResend |-> 0])
            /\ UNCHANGED lost
       ELSE Lose(hand[u], "resendFull") /\ UNCHANGED msgQueue
  /\ Done(u)
  /\ UNCHANGED <<produced, o_queue, index, linkVars, received, resent>>

-----------------------------------------------------------------------------
(* The resending thread.                                                   *)

(* After its sleep the thread locks the queue and goes through it from the *)
(* first message.                                                          *)
MutFirst == 2
First == 1
ResendWake ==
  /\ pc[Resender] = "sleep"
  /\ Go(Resender, "loop")
  /\ index' = First
  /\ UNCHANGED <<unitVars, msgQueue, linkVars, historyVars>>

ResendSleep ==
  /\ pc[Resender] = "loop"
  /\ index > Len(msgQueue)
  /\ Go(Resender, "sleep")
  /\ UNCHANGED <<unitVars, queueVars, linkVars, historyVars>>

(* judge: whether a message of type RESEND_TYPE_COUNT has been sent enough.*)
Judge(msg) == msg.countResend >= Threshold

(* The pass ends its turn with a message: a message that is done with is   *)
(* erased, and index goes on all the same, over the one that moved up.     *)
MutErase(q, k) == RemoveAt(q, Len(q))
Erase(q, k) == RemoveAt(q, k)
Turn(erased) ==
  /\ msgQueue' = IF erased THEN Erase(msgQueue, index) ELSE msgQueue
  /\ index' = index + 1
  /\ Go(Resender, "loop")

(* doSend sends nothing when the client is disconnected.                   *)
ResendGate ==
  /\ pc[Resender] = "loop"
  /\ index <= Len(msgQueue)
  /\ IF isNeedReconnect
       THEN LET msg == msgQueue[index] IN
            /\ Turn(Judge(msg))
            /\ IF Judge(msg) THEN Lose(msg.alarm, "expelled") ELSE UNCHANGED lost
       ELSE Go(Resender, "enter") /\ UNCHANGED <<queueVars, lost>>
  /\ UNCHANGED <<unitVars, linkVars, received, resent>>

(* The loop works on a copy of the message: doSend counts in the copy and  *)
(* judge reads the copy; the message in the queue keeps its count.         *)
Counted(msg) == [msg EXCEPT !.countResend = @ + 1]

-----------------------------------------------------------------------------
(* MyTcpClient::SendBase, for a tO thread and for the resending thread.    *)

InHand(s) == IF s = Resender THEN msgQueue[index].alarm ELSE hand[s]

(* What the caller does when SendBase has returned 0, or not.              *)
Returned(s, ok) ==
  IF s = Resender
    THEN LET msg == Counted(msgQueue[index])
             expelled == ~ok /\ Judge(msg)
         IN  /\ Turn(ok \/ expelled)
             /\ resent' = [resent EXCEPT ![msg.alarm] = @ + 1]
             /\ UNCHANGED hand
    ELSE /\ IF ok THEN Done(s) ELSE (Go(s, "add") /\ UNCHANGED hand)
         /\ UNCHANGED <<queueVars, resent>>

Expelled(s, ok) == s = Resender /\ ~ok /\ Judge(Counted(msgQueue[index]))

(* The mutex is taken; a client that was disconnected meanwhile returns -1.*)
SendEnter(s) ==
  /\ pc[s] = "enter"
  /\ \A t \in Senders : pc[t] # "wire"
  /\ IF isNeedReconnect
       THEN /\ Returned(s, FALSE)
            /\ IF Expelled(s, FALSE) THEN Lose(InHand(s), "expelled") ELSE UNCHANGED lost
       ELSE Go(s, "wire") /\ UNCHANGED <<hand, queueVars, lost, resent>>
  /\ UNCHANGED <<produced, o_queue, linkVars, received>>

(* The bytes are written.  Outcomes: all of them taken by a connection     *)
(* that is up; all of them taken for a connection nobody knows to be dead; *)
(* an error or a part only (-2, reconnect); a timeout with nothing written *)
(* (-3).  After any of them the platform may be found to have been silent  *)
(* for too long.                                                           *)
Outcomes == {"ok", "vanished", "error", "timeout"}
Possible(o) ==
  CASE o = "ok"       -> link = "up"
    [] o = "vanished" -> link = "dead"
    [] o = "error"    -> TRUE
    [] o = "timeout"  -> link # "closed"
Fault(o) == o # "ok" /\ (link = "up" \/ o = "timeout")

SendWire(s, o, silent) ==
  LET ok == o \in {"ok", "vanished"} IN
  /\ pc[s] = "wire"
  /\ Possible(o)
  /\ silent => UsesThreshold
  /\ faults' = faults + (IF Fault(o) THEN 1 ELSE 0) + (IF silent THEN 1 ELSE 0)
  /\ faults' <= MaxFaults
  /\ isNeedReconnect' = (isNeedReconnect \/ o = "error" \/ silent)
  /\ Returned(s, ok)
  /\ received' = IF o = "ok" THEN Append(received, InHand(s)) ELSE received
  /\ lost' = [lost EXCEPT
                !["vanished"] = IF o = "vanished" THEN @ \cup {InHand(s)} ELSE @,
                !["expelled"] = IF Expelled(s, ok) THEN @ \cup {InHand(s)} ELSE @]
  /\ UNCHANGED <<produced, o_queue, link, keep>>

-----------------------------------------------------------------------------
(* The connection.                                                         *)

(* Reconnect, called by Task_Keep when the flag is set: the socket is      *)
(* closed, connected, and when that succeeds the flag cleared.             *)
MutReconnectClose ==
  /\ keep = "idle"
  /\ isNeedReconnect
  /\ link' = "closed"
  /\ isNeedReconnect' = FALSE
  /\ keep' = "connect"
  /\ UNCHANGED <<unitVars, pc, queueVars, faults, historyVars>>
ReconnectClose ==
  /\ keep = "idle"
  /\ isNeedReconnect
  /\ link' = "closed"
  /\ keep' = "connect"
  /\ UNCHANGED <<unitVars, pc, queueVars, isNeedReconnect, faults, historyVars>>

ReconnectConnect ==
  /\ keep = "connect"
  /\ \/ link' = "up" /\ keep' = "clear" /\ UNCHANGED faults
     \/ /\ faults < MaxFaults
        /\ faults' = faults + 1
        /\ keep' = "idle" /\ UNCHANGED link
  /\ UNCHANGED <<unitVars, pc, queueVars, isNeedReconnect, historyVars>>

ReconnectDone ==
  /\ keep = "clear"
  /\ isNeedReconnect' = FALSE
  /\ keep' = "idle"
  /\ UNCHANGED <<unitVars, pc, queueVars, link, faults, historyVars>>

(* The platform goes away.                                                 *)
LinkBreaks ==
  /\ link = "up"
  /\ faults < MaxFaults
  /\ faults' = faults + 1
  /\ link' = "dead"
  /\ UNCHANGED <<unitVars, pc, queueVars, isNeedReconnect, keep, historyVars>>

(* The receiving thread fails to read, another unit fails to send, or a    *)
(* reply comes too late: they ask for a reconnection.                      *)
AskReconnect ==
  /\ \/ link = "dead" /\ UNCHANGED faults
     \/ /\ UsesThreshold
        /\ faults < MaxFaults
        /\ faults' = faults + 1
  /\ isNeedReconnect' = TRUE
  /\ UNCHANGED <<unitVars, pc, queueVars, link, keep, historyVars>>

SendBase(s) == \/ SendEnter(s)
               \/ \E o \in Outcomes, silent \in BOOLEAN : SendWire(s, o, silent)

TaskO(u) == PopO(u) \/ Gate(u) \/ SendBase(u)
Resend == ResendWake \/ ResendSleep \/ ResendGate \/ SendBase(Resender)
Task_Keep == ReconnectClose \/ ReconnectConnect \/ ReconnectDone

Next == \/ \E u \in Units : PushO(u) \/ TaskO(u) \/ Add(u)
        \/ Resend
        \/ Task_Keep
        \/ LinkBreaks \/ AskReconnect

(* Every thread runs on.  A thread waiting in add gets the mutex some time:*)
(* the resending thread gives it up for a second between any two passes.   *)
Spec == /\ Init /\ [][Next]_vars
        /\ \A u \in Units : WF_vars(TaskO(u)) /\ SF_vars(Add(u))
        /\ WF_vars(Resend) /\ WF_vars(Task_Keep)

-----------------------------------------------------------------------------
TypeOK ==
  /\ produced \in 0 .. MaxAlarms
  /\ o_queue \in [Units -> Seq(Alarms)]
  /\ \A u \in Units : Len(o_queue[u]) <= Cap
  /\ hand \in [Units -> Alarms \cup {NoAlarm}]
  /\ pc \in [Senders -> {"idle", "gate", "enter", "wire", "add", "sleep", "loop"}]
  /\ pc[Resender] \in {"sleep", "loop", "enter", "wire"}
  /\ \A u \in Units : pc[u] \notin {"sleep", "loop"}
  /\ \A u \in Units : pc[u] = "idle" <=> hand[u] = NoAlarm
  /\ msgQueue \in Seq(Message) /\ Len(msgQueue) <= MaxResend
  /\ index \in Nat \ {0}
  /\ pc[Resender] \in {"enter", "wire"} => index <= Len(msgQueue)
  /\ isNeedReconnect \in BOOLEAN
  /\ link \in {"up", "dead", "closed"}
  /\ keep \in {"idle", "connect", "clear"}
  /\ faults \in 0 .. MaxFaults
  /\ received \in Seq(Alarms)
  /\ lost \in [Causes -> SUBSET Alarms]
  /\ resent \in [Alarms -> Nat]

(* Where an alarm is.  (An alarm being resent stays in the queue.)         *)
Places(a) ==
  {p \in {"o_queue"} \X Units \X (1 .. Cap) :
     p[3] <= Len(o_queue[p[2]]) /\ o_queue[p[2]][p[3]] = a}
  \cup {<<"hand", u>> : u \in {v \in Units : hand[v] = a}}
  \cup {<<"resend", k>> : k \in {j \in DOMAIN msgQueue : msgQueue[j].alarm = a}}
  \cup {<<"received", k>> : k \in {j \in DOMAIN received : received[j] = a}}
  \cup {<<"lost", c>> : c \in {d \in Causes : a \in lost[d]}}

(* An alarm is neither doubled nor mislaid: between the tO threads, a pass *)
(* over the resend queue that erases as it goes and sends that fail half-  *)
(* way, it is in one place, and it reaches the platform at most once.      *)
OnePlace ==
  \A a \in 1 .. produced : \E p \in Places(a) : Places(a) = {p}

(* A socket Reconnect has closed is one somebody will connect again: a     *)
(* thread that fails on it, a reconnection that fails and one that         *)
(* succeeds leave the flag so that Task_Keep comes back, or need not.      *)
ClosedIsNoticed == link = "closed" => isNeedReconnect

(* Every alarm taken over meets one fate and does meet it, though the      *)
(* resending thread steps over the message behind one it has erased and    *)
(* keeps the tO threads waiting while it sends.                            *)
Where(a) == CASE a > produced                        -> "new"
              [] \E k \in DOMAIN received : received[k] = a -> "received"
              [] \E c \in Causes : a \in lost[c]      -> "lost"
              [] OTHER                                -> "held"

Delivery == INSTANCE AlarmDelivery WITH where <- [a \in Alarms |-> Where(a)]
FateOnce == Delivery!Spec

(* ReSendQueue.h: a message of type RESEND_TYPE_COUNT is sent again the    *)
(* number of times its threshold says, then thrown out.                    *)
ResendsWithinThreshold == \A a \in Alarms : resent[a] <= Threshold
=============================================================================
