---------------------------- MODULE Uplink_proofs ----------------------------
(***************************************************************************)
(* What the way of an alarm to the platform promises, for every number of  *)
(* units and alarms, every size of the queues and every threshold.         *)
(*                                                                         *)
(* OnePlace is proved from Single, which says of every container that an   *)
(* alarm is in it once or not at all: a container loses and gains one      *)
(* alarm in a step, so a step of the system is one container's step or     *)
(* two's, and the lemmas about the containers need no variable.  The same  *)
(* steps move the fate of that one alarm, which is the refinement of       *)
(* AlarmDelivery without its fairness.                                     *)
(***************************************************************************)
EXTENDS Uplink, SequenceTheorems, TLAPS

(* std::vector::erase: the elements behind position k move up by one.      *)
LEMMA RemoveAtIs ==
  ASSUME NEW S, NEW q \in Seq(S), NEW k \in 1 .. Len(q)
  PROVE  /\ RemoveAt(q, k) \in Seq(S)
         /\ Len(RemoveAt(q, k)) = Len(q) - 1
         /\ \A j \in 1 .. Len(q) - 1 :
              RemoveAt(q, k)[j] = IF j < k THEN q[j] ELSE q[j + 1]
<1> DEFINE front == SubSeq(q, 1, k - 1)
           rest == SubSeq(q, k + 1, Len(q))
<1>1. /\ front \in Seq(S) /\ Len(front) = k - 1
      /\ \A j \in 1 .. k - 1 : front[j] = q[j]
  OBVIOUS
<1>2. /\ rest \in Seq(S) /\ Len(rest) = Len(q) - k
      /\ \A j \in 1 .. Len(q) - k : rest[j] = q[j + k]
  OBVIOUS
<1>3. RemoveAt(q, k) = front \o rest
  BY DEF RemoveAt
<1> HIDE DEF front, rest
<1>4. /\ front \o rest \in Seq(S) /\ Len(front \o rest) = Len(q) - 1
      /\ \A j \in 1 .. Len(q) - 1 :
           (front \o rest)[j] = IF j < k THEN front[j] ELSE rest[j - (k - 1)]
  <2>1. /\ front \o rest \in Seq(S) /\ Len(front \o rest) = Len(front) + Len(rest)
        /\ \A j \in 1 .. Len(front) + Len(rest) :
             (front \o rest)[j] = IF j <= Len(front) THEN front[j] ELSE rest[j - Len(front)]
    BY <1>1, <1>2, ConcatProperties
  <2>2. Len(front) + Len(rest) = Len(q) - 1 /\ k \in Nat
    BY <1>1, <1>2
  <2> QED
    BY <1>1, <2>1, <2>2
<1> QED
  BY <1>1, <1>2, <1>3, <1>4

-----------------------------------------------------------------------------
(* What the steps of a sender have in common.                              *)

LEMMA HandAlarm ==
  ASSUME TypeOK
  PROVE  /\ \A s \in Senders : pc[s] \in {"enter", "wire"} => InHand(s) \in Alarms
         /\ \A u \in Units : pc[u] # "idle" => hand[u] \in Alarms
         /\ pc[Resender] \in {"enter", "wire"} =>
              /\ index \in 1 .. Len(msgQueue)
              /\ msgQueue[index] \in Message
<1>1. \A u \in Units : pc[u] # "idle" => hand[u] \in Alarms
  BY DEF TypeOK
<1>2. ASSUME pc[Resender] \in {"enter", "wire"}
      PROVE  index \in 1 .. Len(msgQueue) /\ msgQueue[index] \in Message
  BY <1>2 DEF TypeOK
<1>3. ASSUME NEW s \in Senders, pc[s] \in {"enter", "wire"}
      PROVE  InHand(s) \in Alarms
  <2>1. CASE s = Resender
    BY <1>2, <1>3, <2>1 DEF InHand, Message
  <2>2. CASE s # Resender
    BY <1>1, <1>3, <2>2 DEF InHand, Senders
  <2> QED
    BY <2>1, <2>2
<1> QED
  BY <1>1, <1>2, <1>3

(* The conjuncts of TypeOK about the place of the senders.                 *)
PcOK ==
  /\ pc \in [Senders -> {"idle", "gate", "enter", "wire", "add", "sleep", "loop"}]
  /\ pc[Resender] \in {"sleep", "loop", "enter", "wire"}
  /\ \A u \in Units : pc[u] \notin {"sleep", "loop"}
  /\ hand \in [Units -> Alarms \cup {NoAlarm}]
  /\ \A u \in Units : pc[u] = "idle" <=> hand[u] = NoAlarm

LEMMA UnitGoes ==
  ASSUME PcOK, NEW u \in Units, NEW place \in {"gate", "enter", "wire", "add"},
         NEW a \in Alarms, Go(u, place), hand' = [hand EXCEPT ![u] = a]
  PROVE  PcOK' /\ pc'[Resender] = pc[Resender]
<1>1. u # Resender /\ u \in Senders /\ Resender \in Senders /\ Units \subseteq Senders
  BY UplinkAssumption DEF Senders
<1>2. pc' = [pc EXCEPT ![u] = place]
  BY DEF Go
<1>3. pc' \in [Senders -> {"idle", "gate", "enter", "wire", "add", "sleep", "loop"}]
  BY <1>1, <1>2 DEF PcOK
<1>4. pc'[u] = place /\ \A v \in Senders \ {u} : pc'[v] = pc[v]
  BY <1>1, <1>2 DEF PcOK
<1>5. hand'[u] = a /\ \A v \in Units \ {u} : hand'[v] = hand[v]
  BY DEF PcOK
<1>6. hand' \in [Units -> Alarms \cup {NoAlarm}] /\ a # NoAlarm
  BY DEF PcOK, Alarms, NoAlarm
<1> QED
  BY <1>1, <1>3, <1>4, <1>5, <1>6 DEF PcOK

LEMMA UnitDone ==
  ASSUME PcOK, NEW u \in Units, Done(u)
  PROVE  PcOK' /\ pc'[Resender] = pc[Resender]
<1>1. u # Resender /\ u \in Senders /\ Resender \in Senders /\ Units \subseteq Senders
  BY UplinkAssumption DEF Senders
<1>2. pc' = [pc EXCEPT ![u] = "idle"] /\ hand' = [hand EXCEPT ![u] = NoAlarm]
  BY DEF Done, Go
<1>3. pc' \in [Senders -> {"idle", "gate", "enter", "wire", "add", "sleep", "loop"}]
  BY <1>1, <1>2 DEF PcOK
<1>4. pc'[u] = "idle" /\ \A v \in Senders \ {u} : pc'[v] = pc[v]
  BY <1>1, <1>2 DEF PcOK
<1>5. hand'[u] = NoAlarm /\ \A v \in Units \ {u} : hand'[v] = hand[v]
  BY <1>2 DEF PcOK
<1>6. hand' \in [Units -> Alarms \cup {NoAlarm}]
  BY <1>2 DEF PcOK
<1> QED
  BY <1>1, <1>3, <1>4, <1>5, <1>6 DEF PcOK

LEMMA ResenderGoes ==
  ASSUME PcOK, NEW place \in {"sleep", "loop", "enter", "wire"}, Go(Resender, place),
         UNCHANGED hand
  PROVE  PcOK' /\ pc'[Resender] = place
<1>1. Resender \in Senders /\ Units \subseteq Senders \ {Resender}
  BY UplinkAssumption DEF Senders
<1>2. pc' = [pc EXCEPT ![Resender] = place]
  BY DEF Go
<1>3. pc' \in [Senders -> {"idle", "gate", "enter", "wire", "add", "sleep", "loop"}]
  BY <1>1, <1>2 DEF PcOK
<1>4. pc'[Resender] = place /\ \A v \in Senders \ {Resender} : pc'[v] = pc[v]
  BY <1>1, <1>2 DEF PcOK
<1> QED
  BY <1>1, <1>3, <1>4 DEF PcOK

LEMMA UnitMoves ==
  ASSUME PcOK, NEW u \in Units, NEW place \in {"gate", "enter", "wire", "add"},
         pc[u] # "idle", Go(u, place), UNCHANGED hand
  PROVE  PcOK' /\ pc'[Resender] = pc[Resender]
<1>1. hand[u] \in Alarms /\ hand' = [hand EXCEPT ![u] = hand[u]]
  BY DEF PcOK
<1> QED
  BY <1>1, UnitGoes

(* The conjuncts of TypeOK about the resend queue.                         *)
QueueOK ==
  /\ msgQueue \in Seq(Message) /\ Len(msgQueue) <= MaxResend
  /\ index \in Nat \ {0}
  /\ pc[Resender] \in {"enter", "wire"} => index <= Len(msgQueue)

LEMMA TurnKeeps ==
  ASSUME PcOK, QueueOK, NEW e, Turn(e), index <= Len(msgQueue), UNCHANGED hand
  PROVE  QueueOK' /\ PcOK'
<1>1. index \in 1 .. Len(msgQueue) /\ msgQueue \in Seq(Message)
  BY DEF QueueOK
<1>2. /\ RemoveAt(msgQueue, index) \in Seq(Message)
      /\ Len(RemoveAt(msgQueue, index)) <= MaxResend
  BY <1>1, RemoveAtIs, UplinkAssumption DEF QueueOK
<1>3. /\ msgQueue' \in Seq(Message) /\ Len(msgQueue') <= MaxResend
      /\ index' = index + 1
  BY <1>2 DEF Turn, Erase, QueueOK
<1>4. PcOK' /\ pc'[Resender] = "loop"
  BY ResenderGoes DEF Turn
<1> QED
  BY <1>3, <1>4 DEF QueueOK

RestOK ==
  /\ produced \in 0 .. MaxAlarms
  /\ o_queue \in [Units -> Seq(Alarms)]
  /\ \A u \in Units : Len(o_queue[u]) <= Cap
  /\ isNeedReconnect \in BOOLEAN
  /\ link \in {"up", "dead", "closed"}
  /\ keep \in {"idle", "connect", "clear"}
  /\ faults \in 0 .. MaxFaults
  /\ received \in Seq(Alarms)
  /\ lost \in [Causes -> SUBSET Alarms]
  /\ resent \in [Alarms -> Nat]

LEMMA TypeSplit == TypeOK <=> PcOK /\ QueueOK /\ RestOK
  BY DEF TypeOK, PcOK, QueueOK, RestOK

LEMMA LoseKeeps ==
  ASSUME RestOK, NEW a \in Alarms, NEW c \in Causes, Lose(a, c)
  PROVE  lost' \in [Causes -> SUBSET Alarms]
  BY DEF RestOK, Lose

(* What SendBase leaves behind when it has returned.                       *)
LEMMA ReturnedKeeps ==
  ASSUME TypeOK, NEW s \in Senders, pc[s] \in {"enter", "wire"}, NEW ok,
         Returned(s, ok)
  PROVE  PcOK' /\ QueueOK' /\ resent' \in [Alarms -> Nat]
<1>1. PcOK /\ QueueOK /\ RestOK
  BY TypeSplit
<1>2. CASE s = Resender
  <2> DEFINE msg == Counted(msgQueue[index])
  <2>1. index \in 1 .. Len(msgQueue) /\ msgQueue[index] \in Message
    BY <1>2, HandAlarm
  <2>2. msg.alarm \in Alarms
    BY <2>1 DEF Counted, Message
  <2>3. /\ Turn(ok \/ (~ok /\ Judge(msg)))
        /\ resent' = [resent EXCEPT ![msg.alarm] = @ + 1]
        /\ UNCHANGED hand
    BY <1>2, Zenon DEF Returned
  <2> HIDE DEF msg
  <2>4. index <= Len(msgQueue)
    BY <2>1
  <2>5. QueueOK' /\ PcOK'
    BY <1>1, <2>3, <2>4, TurnKeeps, Zenon
  <2>6. resent' \in [Alarms -> Nat]
    BY <1>1, <2>2, <2>3 DEF RestOK
  <2> QED
    BY <2>5, <2>6
<1>3. CASE s # Resender
  <2>1. s \in Units /\ pc[s] # "idle"
    BY <1>3 DEF Senders
  <2>2. UNCHANGED <<queueVars, resent>>
    BY <1>3 DEF Returned
  <2>3. PcOK' /\ pc'[Resender] = pc[Resender]
    <3>1. CASE ok
      BY <1>1, <1>3, <2>1, <3>1, UnitDone DEF Returned
    <3>2. CASE ~ok
      BY <1>1, <1>3, <2>1, <3>2, UnitMoves DEF Returned
    <3> QED
      BY <3>1, <3>2
  <2> QED
    BY <1>1, <2>2, <2>3 DEF QueueOK, RestOK, queueVars
<1> QED
  BY <1>2, <1>3

LEMMA SendBaseKeepsType ==
  ASSUME TypeOK, NEW s \in Senders, SendBase(s)
  PROVE  TypeOK'
<1>1. PcOK /\ QueueOK /\ RestOK
  BY TypeSplit
<1>2. CASE SendEnter(s)
  <2>1. pc[s] = "enter" /\ UNCHANGED <<produced, o_queue, linkVars, received>>
    BY <1>2 DEF SendEnter
  <2>2. InHand(s) \in Alarms
    BY <2>1, HandAlarm
  <2>3. CASE isNeedReconnect
    <3>1. Returned(s, FALSE)
      BY <1>2, <2>3 DEF SendEnter
    <3>2. lost' \in [Causes -> SUBSET Alarms]
      <4>1. CASE Expelled(s, FALSE)
        BY <1>1, <1>2, <2>2, <2>3, <4>1, LoseKeeps DEF SendEnter, Causes
      <4>2. CASE ~Expelled(s, FALSE)
        BY <1>1, <1>2, <2>3, <4>2 DEF SendEnter, RestOK
      <4> QED
        BY <4>1, <4>2
    <3>3. PcOK' /\ QueueOK' /\ resent' \in [Alarms -> Nat]
      BY <2>1, <3>1, ReturnedKeeps
    <3> QED
      BY <1>1, <2>1, <3>2, <3>3, TypeSplit DEF RestOK, linkVars, TypeOK, PcOK, QueueOK
  <2>4. CASE ~isNeedReconnect
    <3>1. Go(s, "wire") /\ UNCHANGED <<hand, queueVars, lost, resent>>
      BY <1>2, <2>4 DEF SendEnter
    <3>2. PcOK' /\ (s = Resender \/ pc'[Resender] = pc[Resender])
      <4>1. CASE s = Resender
        BY <1>1, <3>1, <4>1, ResenderGoes
      <4>2. CASE s # Resender
        BY <1>1, <2>1, <3>1, <4>2, UnitMoves DEF Senders
      <4> QED
        BY <4>1, <4>2
    <3>3. QueueOK'
      BY <1>1, <2>1, <3>1, <3>2 DEF QueueOK, queueVars
    <3> QED
      BY <1>1, <2>1, <3>1, <3>2, <3>3 DEF RestOK, linkVars, TypeOK, PcOK, QueueOK
  <2> QED
    BY <2>3, <2>4
<1>3. ASSUME NEW o \in Outcomes, NEW silent \in BOOLEAN, SendWire(s, o, silent)
      PROVE  TypeOK'
  <2> DEFINE ok == o \in {"ok", "vanished"}
  <2>1. /\ pc[s] = "wire" /\ Returned(s, ok)
        /\ UNCHANGED <<produced, o_queue, link, keep>>
    BY <1>3 DEF SendWire
  <2>2. InHand(s) \in Alarms
    BY <2>1, HandAlarm
  <2>4. PcOK' /\ QueueOK' /\ resent' \in [Alarms -> Nat]
    BY <2>1, ReturnedKeeps
  <2>5. isNeedReconnect' \in BOOLEAN
    BY <1>3, Zenon DEF SendWire
  <2>6. faults' \in 0 .. MaxFaults
    <3>1. /\ faults' = faults + (IF Fault(o) THEN 1 ELSE 0) + (IF silent THEN 1 ELSE 0)
          /\ faults' <= MaxFaults
      BY <1>3 DEF SendWire
    <3>2. (IF Fault(o) THEN 1 ELSE 0) \in Nat /\ (IF silent THEN 1 ELSE 0) \in Nat
      OBVIOUS
    <3> QED
      BY <1>1, <3>1, <3>2, UplinkAssumption DEF RestOK
  <2>7. received' \in Seq(Alarms)
    BY <1>1, <1>3, <2>2 DEF SendWire, RestOK
  <2>8. lost' \in [Causes -> SUBSET Alarms]
    <3>1. lost' = [lost EXCEPT
                !["vanished"] = IF o = "vanished" THEN @ \cup {InHand(s)} ELSE @,
                !["expelled"] = IF Expelled(s, ok) THEN @ \cup {InHand(s)} ELSE @]
      BY <1>3 DEF SendWire
    <3> HIDE DEF ok
    <3> QED
      BY <1>1, <2>2, <3>1 DEF RestOK
  <2> QED
    BY <1>1, <2>1, <2>4, <2>5, <2>6, <2>7, <2>8 DEF RestOK, TypeOK, PcOK, QueueOK
<1> QED
  BY <1>2, <1>3 DEF SendBase

(* Every variable keeps its type; no queue exceeds its size, a tO thread   *)
(* has an alarm in hand unless it waits for one, and the message the       *)
(* resending thread is sending is in the queue.                            *)
THEOREM TypeCorrect == Spec => []TypeOK
<1>1. Init => TypeOK
  <2> SUFFICES ASSUME Init PROVE PcOK /\ QueueOK /\ RestOK
    BY TypeSplit
  <2> USE UplinkAssumption
  <2>1. Resender \in Senders /\ Units \subseteq Senders \ {Resender}
    BY DEF Senders
  <2>2. PcOK
    BY <2>1 DEF Init, PcOK, NoAlarm
  <2>3. QueueOK
    BY <2>1 DEF Init, QueueOK
  <2>4. /\ o_queue \in [Units -> Seq(Alarms)] /\ \A u \in Units : Len(o_queue[u]) <= Cap
        /\ received \in Seq(Alarms)
    BY DEF Init
  <2>5. isNeedReconnect \in BOOLEAN
    BY Zenon DEF Init
  <2>6. lost \in [Causes -> SUBSET Alarms] /\ resent \in [Alarms -> Nat]
    BY DEF Init
  <2> QED
    BY <2>2, <2>3, <2>4, <2>5, <2>6 DEF Init, RestOK
<1>2. TypeOK /\ [Next]_vars => TypeOK'
  <2> SUFFICES ASSUME TypeOK, [Next]_vars PROVE TypeOK'
    OBVIOUS
  <2>0. PcOK /\ QueueOK /\ RestOK
    BY TypeSplit
  <2> USE UplinkAssumption
  <2>1. ASSUME NEW u \in Units, PushO(u) PROVE TypeOK'
    <3>1. produced' \in Alarms /\ produced' \in 0 .. MaxAlarms
      BY <2>1 DEF PushO, Alarms
    <3>2. o_queue' \in [Units -> Seq(Alarms)] /\ \A v \in Units : Len(o_queue'[v]) <= Cap
      <4>1. CASE HasRoom(o_queue[u], Cap)
        <5>1. o_queue' = [o_queue EXCEPT ![u] = Append(@, produced')]
          BY <2>1, <4>1 DEF PushO
        <5>2. /\ Append(o_queue[u], produced') \in Seq(Alarms)
              /\ Len(Append(o_queue[u], produced')) <= Cap
          BY <2>0, <3>1, <4>1 DEF RestOK, HasRoom
        <5> QED
          BY <2>0, <5>1, <5>2 DEF RestOK
      <4>2. CASE ~HasRoom(o_queue[u], Cap)
        BY <2>0, <2>1, <4>2 DEF PushO, RestOK
      <4> QED
        BY <4>1, <4>2
    <3>3. lost' \in [Causes -> SUBSET Alarms]
      BY <2>0, <2>1, <3>1, LoseKeeps DEF PushO, RestOK, Causes
    <3>4. UNCHANGED <<hand, pc, queueVars, linkVars, received, resent>>
      BY <2>1 DEF PushO
    <3> QED
      BY <3>1, <3>2, <3>3, <3>4 DEF TypeOK, queueVars, linkVars
  <2>2. ASSUME NEW u \in Units, PopO(u) PROVE TypeOK'
    <3>1. o_queue[u] # <<>> /\ o_queue[u] \in Seq(Alarms) /\ Len(o_queue[u]) <= Cap
      BY <2>0, <2>2 DEF PopO, RestOK
    <3>2. /\ Head(o_queue[u]) \in Alarms /\ Tail(o_queue[u]) \in Seq(Alarms)
          /\ Len(Tail(o_queue[u])) <= Cap
      BY <3>1
    <3>3. PcOK' /\ pc'[Resender] = pc[Resender]
      BY <2>0, <2>2, <3>2, UnitGoes DEF PopO
    <3>4. o_queue' \in [Units -> Seq(Alarms)] /\ \A v \in Units : Len(o_queue'[v]) <= Cap
      BY <2>0, <2>2, <3>2 DEF PopO, RestOK
    <3>5. UNCHANGED <<produced, queueVars, linkVars, historyVars>>
      BY <2>2 DEF PopO
    <3>6. QueueOK'
      BY <2>0, <3>3, <3>5 DEF QueueOK, queueVars
    <3>7. RestOK'
      BY <2>0, <3>4, <3>5 DEF RestOK, linkVars, historyVars
    <3> QED
      BY <3>3, <3>6, <3>7 DEF TypeOK, PcOK, QueueOK, RestOK
  <2>3. ASSUME NEW u \in Units, Gate(u) PROVE TypeOK'
    <3>1. pc[u] # "idle" /\ hand[u] \in Alarms
      BY <2>3, HandAlarm DEF Gate
    <3>2. PcOK' /\ pc'[Resender] = pc[Resender]
      BY <2>0, <2>3, <3>1, UnitDone, UnitMoves DEF Gate
    <3>3. lost' \in [Causes -> SUBSET Alarms]
      BY <2>0, <2>3, <3>1, LoseKeeps DEF Gate, RestOK, Causes
    <3>4. UNCHANGED <<produced, o_queue, queueVars, linkVars, received, resent>>
      BY <2>3 DEF Gate
    <3>5. QueueOK'
      BY <2>0, <3>2, <3>4 DEF QueueOK, queueVars
    <3>6. RestOK'
      BY <2>0, <3>3, <3>4 DEF RestOK, linkVars
    <3> QED
      BY <3>2, <3>5, <3>6 DEF TypeOK, PcOK, QueueOK, RestOK
  <2>4. ASSUME NEW u \in Units, Add(u) PROVE TypeOK'
    <3>1. hand[u] \in Alarms /\ pc[Resender] = "sleep"
      BY <2>4, HandAlarm DEF Add
    <3>2. PcOK' /\ pc'[Resender] = pc[Resender]
      BY <2>0, <2>4, UnitDone DEF Add
    <3>3. lost' \in [Causes -> SUBSET Alarms]
      BY <2>0, <2>4, <3>1, LoseKeeps DEF Add, RestOK, Causes
    <3>4. msgQueue' \in Seq(Message) /\ Len(msgQueue') <= MaxResend
      <4>1. CASE HasRoom(msgQueue, MaxResend)
        <5> DEFINE m == [alarm |-> hand[u], countResend |-> 0]
        <5>1. m \in Message
          BY <3>1 DEF Message
        <5>2. msgQueue' = Append(msgQueue, m)
          BY <2>4, <4>1 DEF Add
        <5> HIDE DEF m
        <5> QED
          BY <2>0, <4>1, <5>1, <5>2 DEF QueueOK, HasRoom
      <4>2. CASE ~HasRoom(msgQueue, MaxResend)
        BY <2>0, <2>4, <4>2 DEF Add, QueueOK
      <4> QED
        BY <4>1, <4>2
    <3>5. UNCHANGED <<produced, o_queue, index, linkVars, received, resent>>
      BY <2>4 DEF Add
    <3>6. QueueOK'
      BY <2>0, <3>1, <3>2, <3>4, <3>5 DEF QueueOK
    <3>7. RestOK'
      BY <2>0, <3>3, <3>5 DEF RestOK, linkVars
    <3> QED
      BY <3>2, <3>6, <3>7 DEF TypeOK, PcOK, QueueOK, RestOK
  <2>5. CASE ResendWake
    <3>1. PcOK' /\ pc'[Resender] = "loop"
      BY <2>0, <2>5, ResenderGoes DEF ResendWake, unitVars
    <3>2. QueueOK'
      BY <2>0, <2>5, <3>1 DEF ResendWake, QueueOK, First
    <3>3. RestOK'
      BY <2>0, <2>5 DEF ResendWake, RestOK, unitVars, linkVars, historyVars
    <3> QED
      BY <3>1, <3>2, <3>3 DEF TypeOK, PcOK, QueueOK, RestOK
  <2>6. CASE ResendSleep
    <3>1. PcOK' /\ pc'[Resender] = "sleep"
      BY <2>0, <2>6, ResenderGoes DEF ResendSleep, unitVars
    <3>2. QueueOK'
      BY <2>0, <2>6, <3>1 DEF ResendSleep, QueueOK, queueVars
    <3>3. RestOK'
      BY <2>0, <2>6 DEF ResendSleep, RestOK, unitVars, linkVars, historyVars
    <3> QED
      BY <3>1, <3>2, <3>3 DEF TypeOK, PcOK, QueueOK, RestOK
  <2>7. CASE ResendGate
    <3> DEFINE msg == msgQueue[index]
    <3>1. index <= Len(msgQueue) /\ msg \in Message
      BY <2>0, <2>7 DEF ResendGate, QueueOK
    <3>2. UNCHANGED <<unitVars, linkVars, received, resent>>
      BY <2>7 DEF ResendGate
    <3>3. PcOK' /\ QueueOK' /\ lost' \in [Causes -> SUBSET Alarms]
      <4>1. CASE isNeedReconnect
        <5>1. Turn(Judge(msg))
          BY <2>7, <4>1 DEF ResendGate
        <5>2. IF Judge(msg) THEN Lose(msg.alarm, "expelled") ELSE UNCHANGED lost
          BY <2>7, <4>1 DEF ResendGate
        <5>3. msg.alarm \in Alarms
          BY <3>1 DEF Message
        <5> HIDE DEF msg
        <5>4. lost' \in [Causes -> SUBSET Alarms]
          BY <2>0, <5>2, <5>3, LoseKeeps DEF RestOK, Causes
        <5>5. UNCHANGED hand
          BY <3>2 DEF unitVars
        <5>6. QueueOK' /\ PcOK'
          BY <2>0, <3>1, <5>1, <5>5, TurnKeeps, Zenon
        <5> QED
          BY <5>4, <5>6
      <4>2. CASE ~isNeedReconnect
        <5>1. Go(Resender, "enter") /\ UNCHANGED <<queueVars, lost>>
          BY <2>7, <4>2 DEF ResendGate
        <5>2. PcOK' /\ pc'[Resender] = "enter"
          BY <2>0, <3>2, <5>1, ResenderGoes DEF unitVars
        <5> QED
          BY <2>0, <3>1, <5>1, <5>2 DEF QueueOK, RestOK, queueVars
      <4> QED
        BY <4>1, <4>2
    <3>4. RestOK'
      BY <2>0, <3>2, <3>3 DEF RestOK, unitVars, linkVars
    <3> QED
      BY <3>3, <3>4 DEF TypeOK, PcOK, QueueOK, RestOK
  <2>8. ASSUME UNCHANGED <<unitVars, pc, queueVars, historyVars>>,
               isNeedReconnect' \in BOOLEAN, link' \in {"up", "dead", "closed"},
               keep' \in {"idle", "connect", "clear"}, faults' \in 0 .. MaxFaults
        PROVE  TypeOK'
    BY <2>8 DEF TypeOK, unitVars, queueVars, historyVars
  <2>9. CASE ReconnectClose
    BY <2>0, <2>8, <2>9 DEF ReconnectClose, RestOK
  <2>10. CASE ReconnectConnect
    BY <2>0, <2>8, <2>10 DEF ReconnectConnect, RestOK
  <2>11. CASE ReconnectDone
    <3>1. isNeedReconnect' \in BOOLEAN
      BY <2>11, Zenon DEF ReconnectDone
    <3> QED
      BY <2>0, <2>8, <2>11, <3>1 DEF ReconnectDone, RestOK
  <2>12. CASE LinkBreaks
    BY <2>0, <2>8, <2>12 DEF LinkBreaks, RestOK
  <2>13. CASE AskReconnect
    <3>1. isNeedReconnect' \in BOOLEAN
      BY <2>13, Zenon DEF AskReconnect
    <3> QED
      BY <2>0, <2>8, <2>13, <3>1 DEF AskReconnect, RestOK
  <2>14. CASE UNCHANGED vars
    BY <2>0, <2>8, <2>14 DEF vars, linkVars, RestOK
  <2>15. Units \subseteq Senders /\ Resender \in Senders
    BY DEF Senders
  <2> QED
    BY <2>1, <2>2, <2>3, <2>4, <2>5, <2>6, <2>7, <2>9, <2>10, <2>11, <2>12, <2>13, <2>14,
       <2>15, SendBaseKeepsType DEF Next, TaskO, Resend, Task_Keep
<1> QED
  BY <1>1, <1>2, PTL DEF Spec

-----------------------------------------------------------------------------
(* While Reconnect has connected and not yet cleared the flag, the socket  *)
(* is not closed again: Task_Keep is the only one that closes it.          *)
Noticed ==
  /\ ClosedIsNoticed
  /\ keep = "clear" => link # "closed"

(* A socket that is closed is one the flag says is to be connected.        *)
THEOREM ClosedIsNoticedHolds == Spec => []ClosedIsNoticed
<1>1. Init => Noticed
  BY DEF Init, Noticed, ClosedIsNoticed
<1>2. Noticed /\ [Next]_vars => Noticed'
  <2> SUFFICES ASSUME Noticed, [Next]_vars PROVE Noticed'
    OBVIOUS
  <2> USE DEF Noticed, ClosedIsNoticed
  <2>1. CASE UNCHANGED <<isNeedReconnect, link, keep>>
    BY <2>1
  <2>2. ASSUME NEW s \in Senders, NEW o \in Outcomes, NEW silent \in BOOLEAN,
               SendWire(s, o, silent)
        PROVE  Noticed'
    BY <2>2 DEF SendWire
  <2>3. CASE ReconnectClose
    BY <2>3 DEF ReconnectClose
  <2>4. CASE ReconnectConnect
    BY <2>4 DEF ReconnectConnect
  <2>5. CASE ReconnectDone
    BY <2>5 DEF ReconnectDone
  <2>6. CASE LinkBreaks
    BY <2>6 DEF LinkBreaks
  <2>7. CASE AskReconnect
    BY <2>7 DEF AskReconnect
  <2>8. Units \subseteq Senders /\ Resender \in Senders
    BY DEF Senders
  <2>9. ASSUME NEW u \in Units, PushO(u) \/ PopO(u) \/ Gate(u) \/ Add(u)
        PROVE  UNCHANGED <<isNeedReconnect, link, keep>>
    BY <2>9 DEF PushO, PopO, Gate, Add, linkVars
  <2>10. ASSUME NEW s \in Senders, SendEnter(s)
         PROVE  UNCHANGED <<isNeedReconnect, link, keep>>
    BY <2>10 DEF SendEnter, linkVars
  <2>11. CASE ResendWake \/ ResendSleep \/ ResendGate \/ UNCHANGED vars
    BY <2>1, <2>11 DEF ResendWake, ResendSleep, ResendGate, linkVars, vars
  <2> QED
    BY <2>1, <2>2, <2>3, <2>4, <2>5, <2>6, <2>7, <2>8, <2>9, <2>10, <2>11
       DEF Next, TaskO, Resend, Task_Keep, SendBase
<1>3. Noticed => ClosedIsNoticed
  BY DEF Noticed
<1> QED
  BY <1>1, <1>2, <1>3, PTL DEF Spec

-----------------------------------------------------------------------------
(* Where an alarm is: not at all, or once, among the first n of f, in the  *)
(* output queues, in a hand, in the resend queue, at the platform, lost.   *)

NeverIn(f, n, a) == \A k \in 1 .. n : f[k] # a
OnceIn(f, n, a) == \E k \in 1 .. n : f[k] = a /\ \A j \in 1 .. n : f[j] = a => j = k

NotO(oq, a) == \A u \in Units : NeverIn(oq[u], Len(oq[u]), a)
OneO(oq, a) == \E u \in Units : /\ OnceIn(oq[u], Len(oq[u]), a)
                                /\ \A v \in Units \ {u} : NeverIn(oq[v], Len(oq[v]), a)

NotH(h, a) == \A u \in Units : h[u] # a
OneH(h, a) == \E u \in Units : h[u] = a /\ \A v \in Units \ {u} : h[v] # a

AlarmsOf(q) == [k \in 1 .. Len(q) |-> q[k].alarm]
NotM(q, a) == NeverIn(AlarmsOf(q), Len(q), a)
OneM(q, a) == OnceIn(AlarmsOf(q), Len(q), a)

NotR(q, a) == NeverIn(q, Len(q), a)
OneR(q, a) == OnceIn(q, Len(q), a)

NotL(l, a) == \A c \in Causes : a \notin l[c]
OneL(l, a) == \E c \in Causes : a \in l[c] /\ \A d \in Causes \ {c} : a \notin l[d]

LEMMA AppendIn ==
  ASSUME NEW n \in Nat, NEW f, NEW g, \A k \in 1 .. n : g[k] = f[k]
  PROVE  /\ \A a : a # g[n + 1] => /\ NeverIn(g, n + 1, a) <=> NeverIn(f, n, a)
                                   /\ OnceIn(g, n + 1, a) <=> OnceIn(f, n, a)
         /\ NeverIn(f, n, g[n + 1]) => OnceIn(g, n + 1, g[n + 1])
<1>1. ASSUME NEW a, a # g[n + 1]
      PROVE  /\ NeverIn(g, n + 1, a) <=> NeverIn(f, n, a)
             /\ OnceIn(g, n + 1, a) <=> OnceIn(f, n, a)
  <2>1. \A k \in 1 .. n + 1 : k \in 1 .. n \/ k = n + 1
    OBVIOUS
  <2>2. \A k \in 1 .. n : k \in 1 .. n + 1
    OBVIOUS
  <2>3. NeverIn(g, n + 1, a) <=> NeverIn(f, n, a)
    BY <1>1, <2>1, <2>2 DEF NeverIn
  <2>4. OnceIn(g, n + 1, a) => OnceIn(f, n, a)
    BY <1>1, <2>1, <2>2 DEF OnceIn
  <2>5. OnceIn(f, n, a) => OnceIn(g, n + 1, a)
    BY <1>1, <2>1, <2>2 DEF OnceIn
  <2> QED
    BY <2>3, <2>4, <2>5
<1>2. ASSUME NeverIn(f, n, g[n + 1])
      PROVE  OnceIn(g, n + 1, g[n + 1])
  <2>1. n + 1 \in 1 .. n + 1 /\ \A k \in 1 .. n + 1 : k \in 1 .. n \/ k = n + 1
    OBVIOUS
  <2>2. \A k \in 1 .. n + 1 : g[k] = g[n + 1] => k = n + 1
    BY <1>2, <2>1 DEF NeverIn
  <2> QED
    BY <2>1, <2>2 DEF OnceIn
<1> QED
  BY <1>1, <1>2

LEMMA RemoveIn ==
  ASSUME NEW n \in Nat, NEW i \in 1 .. n, NEW f, NEW g,
         \A k \in 1 .. n - 1 : g[k] = IF k < i THEN f[k] ELSE f[k + 1]
  PROVE  /\ \A a : a # f[i] => /\ NeverIn(g, n - 1, a) <=> NeverIn(f, n, a)
                               /\ OnceIn(g, n - 1, a) <=> OnceIn(f, n, a)
         /\ OnceIn(f, n, f[i]) => NeverIn(g, n - 1, f[i])
<1> DEFINE up(k) == IF k < i THEN k ELSE k + 1
           down(k) == IF k < i THEN k ELSE k - 1
<1>1. \A k \in 1 .. n - 1 : up(k) \in 1 .. n /\ up(k) # i /\ g[k] = f[up(k)]
  OBVIOUS
<1>2. \A k \in 1 .. n : k # i => down(k) \in 1 .. n - 1 /\ up(down(k)) = k
  OBVIOUS
<1>3. \A k \in 1 .. n - 1 : down(up(k)) = k
  OBVIOUS
<1> HIDE DEF up, down
<1>4. \A k \in 1 .. n : k # i => g[down(k)] = f[k]
  BY <1>1, <1>2
<1>5. ASSUME NEW a, a # f[i]
      PROVE  /\ NeverIn(g, n - 1, a) <=> NeverIn(f, n, a)
             /\ OnceIn(g, n - 1, a) <=> OnceIn(f, n, a)
  <2>1. NeverIn(g, n - 1, a) <=> NeverIn(f, n, a)
    BY <1>1, <1>2, <1>4, <1>5 DEF NeverIn
  <2>2. ASSUME OnceIn(g, n - 1, a) PROVE OnceIn(f, n, a)
    <3>1. PICK k \in 1 .. n - 1 : g[k] = a /\ \A j \in 1 .. n - 1 : g[j] = a => j = k
      BY <2>2 DEF OnceIn
    <3>2. up(k) \in 1 .. n /\ f[up(k)] = a
      BY <1>1, <3>1
    <3>3. ASSUME NEW j \in 1 .. n, f[j] = a PROVE j = up(k)
      BY <1>2, <1>4, <1>5, <3>1, <3>3
    <3> QED
      BY <3>2, <3>3 DEF OnceIn
  <2>3. ASSUME OnceIn(f, n, a) PROVE OnceIn(g, n - 1, a)
    <3>1. PICK k \in 1 .. n : f[k] = a /\ \A j \in 1 .. n : f[j] = a => j = k
      BY <2>3 DEF OnceIn
    <3>2. k # i
      BY <1>5, <3>1
    <3>3. down(k) \in 1 .. n - 1 /\ g[down(k)] = a
      BY <1>2, <1>4, <3>1, <3>2
    <3>4. ASSUME NEW j \in 1 .. n - 1, g[j] = a PROVE j = down(k)
      BY <1>1, <1>3, <3>1, <3>4
    <3> QED
      BY <3>3, <3>4 DEF OnceIn
  <2> QED
    BY <2>1, <2>2, <2>3
<1>6. OnceIn(f, n, f[i]) => NeverIn(g, n - 1, f[i])
  BY <1>1 DEF OnceIn, NeverIn
<1> QED
  BY <1>5, <1>6

(* What every operation on one of the places does to the alarm it moves,   *)
(* and that it does nothing to any other.                                  *)

SameO(o1, o2, a) == (NotO(o2, a) <=> NotO(o1, a)) /\ (OneO(o2, a) <=> OneO(o1, a))
SameH(h1, h2, a) == (NotH(h2, a) <=> NotH(h1, a)) /\ (OneH(h2, a) <=> OneH(h1, a))
SameM(q1, q2, a) == (NotM(q2, a) <=> NotM(q1, a)) /\ (OneM(q2, a) <=> OneM(q1, a))
SameR(q1, q2, a) == (NotR(q2, a) <=> NotR(q1, a)) /\ (OneR(q2, a) <=> OneR(q1, a))
SameL(l1, l2, a) == (NotL(l2, a) <=> NotL(l1, a)) /\ (OneL(l2, a) <=> OneL(l1, a))

LEMMA OutPushed ==
  ASSUME NEW o1 \in [Units -> Seq(Alarms)], NEW u \in Units, NEW x \in Alarms,
         NEW o2, o2 = [o1 EXCEPT ![u] = Append(@, x)]
  PROVE  /\ \A a \in Alarms \ {x} : SameO(o1, o2, a)
         /\ NotO(o1, x) => OneO(o2, x)
<1> DEFINE q1 == o1[u]
           q2 == o2[u]
<1>1. /\ q1 \in Seq(Alarms) /\ q2 = Append(q1, x)
      /\ \A v \in Units \ {u} : o2[v] = o1[v]
  OBVIOUS
<1> HIDE DEF q1, q2
<1>2. /\ Len(q1) \in Nat /\ Len(q2) = Len(q1) + 1
      /\ q2[Len(q1) + 1] = x /\ \A k \in 1 .. Len(q1) : q2[k] = q1[k]
  BY <1>1
<1>3. /\ \A a : a # x => /\ NeverIn(q2, Len(q2), a) <=> NeverIn(q1, Len(q1), a)
                         /\ OnceIn(q2, Len(q2), a) <=> OnceIn(q1, Len(q1), a)
      /\ NeverIn(q1, Len(q1), x) => OnceIn(q2, Len(q2), x)
  <2> DEFINE n == Len(q1)
  <2>1. /\ \A a : a # q2[n + 1] => /\ NeverIn(q2, n + 1, a) <=> NeverIn(q1, n, a)
                                   /\ OnceIn(q2, n + 1, a) <=> OnceIn(q1, n, a)
        /\ NeverIn(q1, n, q2[n + 1]) => OnceIn(q2, n + 1, q2[n + 1])
    BY <1>2, AppendIn
  <2> QED
    BY <1>2, <2>1
<1>4. ASSUME NEW a \in Alarms \ {x} PROVE SameO(o1, o2, a)
  BY <1>1, <1>3 DEF SameO, NotO, OneO, q1, q2
<1>5. NotO(o1, x) => OneO(o2, x)
  BY <1>1, <1>3 DEF NotO, OneO, q1, q2
<1> QED
  BY <1>4, <1>5

LEMMA OutPopped ==
  ASSUME NEW o1 \in [Units -> Seq(Alarms)], NEW u \in Units, o1[u] # <<>>,
         NEW o2, o2 = [o1 EXCEPT ![u] = Tail(@)]
  PROVE  /\ \A a \in Alarms \ {Head(o1[u])} : SameO(o1, o2, a)
         /\ ~NotO(o1, Head(o1[u]))
         /\ OneO(o1, Head(o1[u])) => NotO(o2, Head(o1[u]))
<1> DEFINE q1 == o1[u]
           q2 == o2[u]
           x == Head(o1[u])
<1>1. /\ q1 \in Seq(Alarms) /\ q1 # <<>> /\ q2 = Tail(q1) /\ x = q1[1]
      /\ \A v \in Units \ {u} : o2[v] = o1[v]
  OBVIOUS
<1> HIDE DEF q1, q2, x
<1>2. /\ Len(q1) \in Nat /\ 1 \in 1 .. Len(q1) /\ Len(q2) = Len(q1) - 1
      /\ \A k \in 1 .. Len(q1) - 1 : q2[k] = IF k < 1 THEN q1[k] ELSE q1[k + 1]
  BY <1>1
<1>3. /\ \A a : a # x => /\ NeverIn(q2, Len(q2), a) <=> NeverIn(q1, Len(q1), a)
                         /\ OnceIn(q2, Len(q2), a) <=> OnceIn(q1, Len(q1), a)
      /\ OnceIn(q1, Len(q1), x) => NeverIn(q2, Len(q2), x)
  <2> DEFINE n == Len(q1)
  <2>1. /\ \A a : a # q1[1] => /\ NeverIn(q2, n - 1, a) <=> NeverIn(q1, n, a)
                               /\ OnceIn(q2, n - 1, a) <=> OnceIn(q1, n, a)
        /\ OnceIn(q1, n, q1[1]) => NeverIn(q2, n - 1, q1[1])
    BY <1>2, RemoveIn
  <2> QED
    BY <1>1, <1>2, <2>1
<1>4. ASSUME NEW a \in Alarms \ {x} PROVE SameO(o1, o2, a)
  BY <1>1, <1>3 DEF SameO, NotO, OneO, q1, q2
<1>5. ~NeverIn(q1, Len(q1), x)
  BY <1>1, <1>2 DEF NeverIn
<1>6. ~NotO(o1, x) /\ (OneO(o1, x) => NotO(o2, x))
  BY <1>1, <1>3, <1>5 DEF NotO, OneO, q1, q2
<1> QED
  BY <1>4, <1>6 DEF x

LEMMA HandTaken ==
  ASSUME NEW h1 \in [Units -> Alarms \cup {NoAlarm}], NEW u \in Units, h1[u] = NoAlarm,
         NEW x \in Alarms, NEW h2, h2 = [h1 EXCEPT ![u] = x]
  PROVE  /\ \A a \in Alarms \ {x} : SameH(h1, h2, a)
         /\ NotH(h1, x) => OneH(h2, x)
<1>1. h2[u] = x /\ \A v \in Units \ {u} : h2[v] = h1[v]
  OBVIOUS
<1>2. \A a \in Alarms : a # NoAlarm
  BY DEF Alarms, NoAlarm
<1> QED
  BY <1>1, <1>2 DEF SameH, NotH, OneH

LEMMA HandGiven ==
  ASSUME NEW h1 \in [Units -> Alarms \cup {NoAlarm}], NEW u \in Units, h1[u] \in Alarms,
         NEW h2, h2 = [h1 EXCEPT ![u] = NoAlarm]
  PROVE  /\ \A a \in Alarms \ {h1[u]} : SameH(h1, h2, a)
         /\ ~NotH(h1, h1[u])
         /\ OneH(h1, h1[u]) => NotH(h2, h1[u])
<1>1. h2[u] = NoAlarm /\ \A v \in Units \ {u} : h2[v] = h1[v]
  OBVIOUS
<1>2. \A a \in Alarms : a # NoAlarm
  BY DEF Alarms, NoAlarm
<1> QED
  BY <1>1, <1>2 DEF SameH, NotH, OneH

LEMMA QueueAdded ==
  ASSUME NEW q1 \in Seq(Message), NEW m \in Message, NEW q2, q2 = Append(q1, m)
  PROVE  /\ \A a \in Alarms \ {m.alarm} : SameM(q1, q2, a)
         /\ NotM(q1, m.alarm) => OneM(q2, m.alarm)
<1> DEFINE f == AlarmsOf(q1)
           g == AlarmsOf(q2)
           n == Len(q1)
<1>1. /\ n \in Nat /\ Len(q2) = n + 1 /\ n + 1 \in 1 .. n + 1
      /\ q2[n + 1] = m /\ \A k \in 1 .. n : q2[k] = q1[k] /\ k \in 1 .. n + 1
  OBVIOUS
<1>2. g[n + 1] = m.alarm /\ \A k \in 1 .. n : g[k] = f[k]
  BY <1>1 DEF AlarmsOf
<1> HIDE DEF f, g, n
<1>3. /\ \A a : a # m.alarm => /\ NeverIn(g, n + 1, a) <=> NeverIn(f, n, a)
                               /\ OnceIn(g, n + 1, a) <=> OnceIn(f, n, a)
      /\ NeverIn(f, n, m.alarm) => OnceIn(g, n + 1, m.alarm)
  BY <1>1, <1>2, AppendIn
<1> QED
  BY <1>1, <1>3 DEF SameM, NotM, OneM, f, g, n

LEMMA QueueErased ==
  ASSUME NEW q1 \in Seq(Message), NEW i \in 1 .. Len(q1), NEW q2, q2 = RemoveAt(q1, i)
  PROVE  /\ \A a \in Alarms \ {q1[i].alarm} : SameM(q1, q2, a)
         /\ ~NotM(q1, q1[i].alarm)
         /\ OneM(q1, q1[i].alarm) => NotM(q2, q1[i].alarm)
<1> DEFINE f == AlarmsOf(q1)
           g == AlarmsOf(q2)
           n == Len(q1)
           x == q1[i].alarm
<1>1. /\ n \in Nat /\ i \in 1 .. n /\ Len(q2) = n - 1
      /\ \A k \in 1 .. n - 1 : q2[k] = IF k < i THEN q1[k] ELSE q1[k + 1]
  <2>1. /\ Len(RemoveAt(q1, i)) = Len(q1) - 1
        /\ \A k \in 1 .. Len(q1) - 1 :
             RemoveAt(q1, i)[k] = IF k < i THEN q1[k] ELSE q1[k + 1]
    BY RemoveAtIs
  <2> QED
    BY <2>1
<1>2. \A k \in 1 .. n : f[k] = q1[k].alarm
  BY DEF AlarmsOf
<1>3. \A k \in 1 .. n - 1 : g[k] = q2[k].alarm
  BY <1>1 DEF AlarmsOf
<1> HIDE DEF f, g, n
<1>4. \A k \in 1 .. n - 1 : g[k] = IF k < i THEN f[k] ELSE f[k + 1]
  <2>1. \A k \in 1 .. n - 1 : k \in 1 .. n /\ k + 1 \in 1 .. n
    BY <1>1
  <2> QED
    BY <1>1, <1>2, <1>3, <2>1
<1>5. f[i] = x
  BY <1>1, <1>2
<1> HIDE DEF x
<1>6. /\ \A a : a # x => /\ NeverIn(g, n - 1, a) <=> NeverIn(f, n, a)
                         /\ OnceIn(g, n - 1, a) <=> OnceIn(f, n, a)
      /\ OnceIn(f, n, x) => NeverIn(g, n - 1, x)
  BY <1>1, <1>4, <1>5, RemoveIn
<1>7. ~NeverIn(f, n, x)
  BY <1>1, <1>5 DEF NeverIn
<1> QED
  BY <1>1, <1>6, <1>7 DEF SameM, NotM, OneM, f, g, n, x

LEMMA ReceivedOne ==
  ASSUME NEW q1 \in Seq(Alarms), NEW x \in Alarms, NEW q2, q2 = Append(q1, x)
  PROVE  /\ \A a \in Alarms \ {x} : SameR(q1, q2, a)
         /\ NotR(q1, x) => OneR(q2, x)
<1>1. /\ Len(q1) \in Nat /\ Len(q2) = Len(q1) + 1
      /\ q2[Len(q1) + 1] = x /\ \A k \in 1 .. Len(q1) : q2[k] = q1[k]
  OBVIOUS
<1> DEFINE n == Len(q1)
<1>2. /\ \A a : a # q2[n + 1] => /\ NeverIn(q2, n + 1, a) <=> NeverIn(q1, n, a)
                                 /\ OnceIn(q2, n + 1, a) <=> OnceIn(q1, n, a)
      /\ NeverIn(q1, n, q2[n + 1]) => OnceIn(q2, n + 1, q2[n + 1])
  BY <1>1, AppendIn
<1> QED
  BY <1>1, <1>2 DEF SameR, NotR, OneR

LEMMA LostOne ==
  ASSUME NEW l1 \in [Causes -> SUBSET Alarms], NEW c \in Causes, NEW x \in Alarms,
         NEW l2, l2 = [l1 EXCEPT ![c] = @ \cup {x}]
  PROVE  /\ \A a \in Alarms \ {x} : SameL(l1, l2, a)
         /\ NotL(l1, x) => OneL(l2, x)
<1>1. l2[c] = l1[c] \cup {x} /\ \A d \in Causes \ {c} : l2[d] = l1[d]
  OBVIOUS
<1>2. \A a \in Alarms \ {x}, d \in Causes : a \in l2[d] <=> a \in l1[d]
  BY <1>1
<1>3. x \in l2[c]
  BY <1>1
<1>4. \A a \in Alarms \ {x} : SameL(l1, l2, a)
  BY <1>2 DEF SameL, NotL, OneL
<1>5. NotL(l1, x) => OneL(l2, x)
  BY <1>1, <1>3 DEF NotL, OneL
<1> QED
  BY <1>4, <1>5

-----------------------------------------------------------------------------
(* Every alarm taken over is in one place, and in it once; the others are  *)
(* nowhere.                                                                *)

Unplaced(o, h, q, r, l, a) ==
  NotO(o, a) /\ NotH(h, a) /\ NotM(q, a) /\ NotR(r, a) /\ NotL(l, a)

Placed(o, h, q, r, l, a) ==
  \/ OneO(o, a) /\ NotH(h, a) /\ NotM(q, a) /\ NotR(r, a) /\ NotL(l, a)
  \/ NotO(o, a) /\ OneH(h, a) /\ NotM(q, a) /\ NotR(r, a) /\ NotL(l, a)
  \/ NotO(o, a) /\ NotH(h, a) /\ OneM(q, a) /\ NotR(r, a) /\ NotL(l, a)
  \/ NotO(o, a) /\ NotH(h, a) /\ NotM(q, a) /\ OneR(r, a) /\ NotL(l, a)
  \/ NotO(o, a) /\ NotH(h, a) /\ NotM(q, a) /\ NotR(r, a) /\ OneL(l, a)

Single ==
  \A a \in Alarms :
    IF a <= produced THEN Placed(o_queue, hand, msgQueue, received, lost, a)
                     ELSE Unplaced(o_queue, hand, msgQueue, received, lost, a)

(* What a step is for AlarmDelivery: the fate of one alarm goes a step on, *)
(* or none does.                                                           *)
Fates == [a \in Alarms |-> Where(a)]
FateStep == [Delivery!Next]_Fates

(* The guards of Where exclude each other: an alarm that is in one place   *)
(* has one fate.                                                           *)
FateOf(n, r, l, a) == CASE a > n                           -> "new"
                        [] \E k \in DOMAIN r : r[k] = a    -> "received"
                        [] \E c \in Causes : a \in l[c]    -> "lost"
                        [] OTHER                           -> "held"

LEMMA FateIs ==
  ASSUME NEW n \in Nat, NEW r \in Seq(Alarms), NEW l, NEW a \in Alarms
  PROVE  /\ ~(a <= n) /\ NotR(r, a) /\ NotL(l, a) => FateOf(n, r, l, a) = "new"
         /\ a <= n /\ OneR(r, a) /\ NotL(l, a) => FateOf(n, r, l, a) = "received"
         /\ a <= n /\ NotR(r, a) /\ OneL(l, a) => FateOf(n, r, l, a) = "lost"
         /\ a <= n /\ NotR(r, a) /\ NotL(l, a) => FateOf(n, r, l, a) = "held"
<1> DEFINE New == a > n
           Received == \E k \in DOMAIN r : r[k] = a
           Lost == \E c \in Causes : a \in l[c]
<1>1. New <=> ~(a <= n)
  BY DEF Alarms
<1>2. (NotR(r, a) => ~Received) /\ (OneR(r, a) => Received)
  <2>1. DOMAIN r = 1 .. Len(r)
    OBVIOUS
  <2> QED
    BY <2>1 DEF NotR, OneR, NeverIn, OnceIn
<1>3. (NotL(l, a) => ~Lost) /\ (OneL(l, a) => Lost)
  BY DEF NotL, OneL
<1>4. FateOf(n, r, l, a) = CASE New -> "new" [] Received -> "received" [] Lost -> "lost"
                             [] OTHER -> "held"
  BY Zenon DEF FateOf
<1> HIDE DEF New, Received, Lost
<1> QED
  BY <1>1, <1>2, <1>3, <1>4

LEMMA FateMoves ==
  ASSUME NEW x \in Alarms, NEW from, NEW to, Where(x) = from, Where(x)' = to,
         \A a \in Alarms \ {x} : Where(a)' = Where(a)
  PROVE  Delivery!Move(x, from, to)
<1>1. Fates' = [Fates EXCEPT ![x] = to]
  BY DEF Fates
<1> QED
  BY <1>1 DEF Delivery!Move, Fates

LEMMA FateStays ==
  ASSUME UNCHANGED <<produced, received, lost>>
  PROVE  FateStep
<1>1. \A a \in Alarms : Where(a)' = Where(a)
  BY DEF Where
<1> QED
  BY <1>1 DEF FateStep, Fates

LEMMA FateSame ==
  ASSUME TypeOK, TypeOK', Single, NEW a \in Alarms,
         SameR(received, received', a), SameL(lost, lost', a),
         a <= produced' <=> a <= produced
  PROVE  Where(a)' = Where(a)
<1>1. /\ produced \in Nat /\ received \in Seq(Alarms)
      /\ produced' \in Nat /\ received' \in Seq(Alarms)
  BY DEF TypeOK
<1>2. /\ Where(a) = FateOf(produced, received, lost, a)
      /\ Where(a)' = FateOf(produced', received', lost', a)
  BY DEF Where, FateOf
<1>3. \/ ~(a <= produced) /\ NotR(received, a) /\ NotL(lost, a)
      \/ a <= produced /\ OneR(received, a) /\ NotL(lost, a)
      \/ a <= produced /\ NotR(received, a) /\ OneL(lost, a)
      \/ a <= produced /\ NotR(received, a) /\ NotL(lost, a)
  BY DEF Single, Placed, Unplaced
<1>4. /\ NotR(received', a) <=> NotR(received, a)
      /\ OneR(received', a) <=> OneR(received, a)
      /\ NotL(lost', a) <=> NotL(lost, a)
      /\ OneL(lost', a) <=> OneL(lost, a)
  BY DEF SameR, SameL
<1>5. /\ ~(a <= produced) /\ NotR(received, a) /\ NotL(lost, a) => Where(a) = "new"
      /\ a <= produced /\ OneR(received, a) /\ NotL(lost, a) => Where(a) = "received"
      /\ a <= produced /\ NotR(received, a) /\ OneL(lost, a) => Where(a) = "lost"
      /\ a <= produced /\ NotR(received, a) /\ NotL(lost, a) => Where(a) = "held"
  BY <1>1, <1>2, FateIs
<1>6. /\ ~(a <= produced') /\ NotR(received', a) /\ NotL(lost', a) => Where(a)' = "new"
      /\ a <= produced' /\ OneR(received', a) /\ NotL(lost', a) => Where(a)' = "received"
      /\ a <= produced' /\ NotR(received', a) /\ OneL(lost', a) => Where(a)' = "lost"
      /\ a <= produced' /\ NotR(received', a) /\ NotL(lost', a) => Where(a)' = "held"
  BY <1>1, <1>2, FateIs
<1> QED
  BY <1>3, <1>4, <1>5, <1>6

(* The fates an alarm x is given, the others keeping theirs.               *)
LEMMA FateGiven ==
  ASSUME TypeOK, TypeOK', Single, NEW x \in Alarms, x <= produced',
         \A a \in Alarms \ {x} : /\ SameR(received, received', a)
                                 /\ SameL(lost, lost', a)
                                 /\ a <= produced' <=> a <= produced,
         NotR(received, x), NotL(lost, x)
  PROVE  /\ x <= produced /\ NotR(received', x) /\ OneL(lost', x) => FateStep
         /\ x <= produced /\ OneR(received', x) /\ NotL(lost', x) => FateStep
         /\ ~(x <= produced) /\ NotR(received', x) /\ OneL(lost', x) => FateStep
         /\ ~(x <= produced) /\ NotR(received', x) /\ NotL(lost', x) => FateStep
<1>1. /\ produced \in Nat /\ received \in Seq(Alarms)
      /\ produced' \in Nat /\ received' \in Seq(Alarms)
  BY DEF TypeOK
<1>2. /\ Where(x) = FateOf(produced, received, lost, x)
      /\ Where(x)' = FateOf(produced', received', lost', x)
  BY DEF Where, FateOf
<1>3. \A a \in Alarms \ {x} : Where(a)' = Where(a)
  BY FateSame
<1>4. Where(x) = IF x <= produced THEN "held" ELSE "new"
  BY <1>1, <1>2, FateIs
<1>5. /\ OneR(received', x) /\ NotL(lost', x) => Where(x)' = "received"
      /\ NotR(received', x) /\ OneL(lost', x) => Where(x)' = "lost"
      /\ NotR(received', x) /\ NotL(lost', x) => Where(x)' = "held"
  BY <1>1, <1>2, FateIs
<1>6. CASE x <= produced /\ NotR(received', x) /\ OneL(lost', x)
  <2>1. Delivery!Move(x, "held", "lost")
    BY <1>3, <1>4, <1>5, <1>6, FateMoves
  <2> QED
    BY <1>6, <2>1 DEF FateStep, Delivery!Next, Delivery!Lose
<1>7. CASE x <= produced /\ OneR(received', x) /\ NotL(lost', x)
  <2>1. Delivery!Move(x, "held", "received")
    BY <1>3, <1>4, <1>5, <1>7, FateMoves
  <2> QED
    BY <1>7, <2>1 DEF FateStep, Delivery!Next, Delivery!Receive
<1>8. CASE ~(x <= produced) /\ NotR(received', x) /\ OneL(lost', x)
  <2>1. Delivery!Move(x, "new", "lost")
    BY <1>3, <1>4, <1>5, <1>8, FateMoves
  <2> QED
    BY <1>8, <2>1 DEF FateStep, Delivery!Next, Delivery!Refuse
<1>9. CASE ~(x <= produced) /\ NotR(received', x) /\ NotL(lost', x)
  <2>1. Delivery!Move(x, "new", "held")
    BY <1>3, <1>4, <1>5, <1>9, FateMoves
  <2> QED
    BY <1>9, <2>1 DEF FateStep, Delivery!Next, Delivery!Accept
<1> QED
  BY <1>6, <1>7, <1>8, <1>9

(* A step that moves alarm x keeps all others where they are.              *)
LEMMA Settle ==
  ASSUME Single, NEW x \in Alarms,
         \A a \in Alarms \ {x} : /\ SameO(o_queue, o_queue', a) /\ SameH(hand, hand', a)
                                 /\ SameM(msgQueue, msgQueue', a)
                                 /\ SameR(received, received', a) /\ SameL(lost, lost', a)
                                 /\ a <= produced' <=> a <= produced,
         x <= produced',
         Placed(o_queue', hand', msgQueue', received', lost', x)
  PROVE  Single'
<1>1. ASSUME NEW a \in Alarms \ {x}
      PROVE  IF a <= produced' THEN Placed(o_queue', hand', msgQueue', received', lost', a)
                               ELSE Unplaced(o_queue', hand', msgQueue', received', lost', a)
  <2>1. CASE a <= produced
    BY <2>1 DEF Single, Placed, SameO, SameH, SameM, SameR, SameL
  <2>2. CASE ~(a <= produced)
    BY <2>2 DEF Single, Unplaced, SameO, SameH, SameM, SameR, SameL
  <2> QED
    BY <2>1, <2>2
<1> QED
  BY <1>1 DEF Single

LEMMA Still ==
  ASSUME Single, UNCHANGED <<produced, o_queue, hand, msgQueue, received, lost>>
  PROVE  Single' /\ FateStep
<1>1. Single'
  BY DEF Single
<1> QED
  BY <1>1, FateStays

(* Alarm x, and no other, has left the hands and queues of the server, and *)
(* its fate is to be decided.                                              *)
LeftBehind(x) ==
  /\ x \in Alarms /\ x <= produced
  /\ \A a \in Alarms \ {x} : /\ SameO(o_queue, o_queue', a) /\ SameH(hand, hand', a)
                             /\ SameM(msgQueue, msgQueue', a)
  /\ NotO(o_queue', x) /\ NotH(hand', x) /\ NotM(msgQueue', x)
  /\ NotR(received, x) /\ NotL(lost, x)

LEMMA LeftHand ==
  ASSUME TypeOK, Single, NEW u \in Units, pc[u] # "idle",
         hand' = [hand EXCEPT ![u] = NoAlarm], UNCHANGED <<o_queue, msgQueue>>
  PROVE  LeftBehind(hand[u])
<1> DEFINE x == hand[u]
<1>1. x \in Alarms /\ hand \in [Units -> Alarms \cup {NoAlarm}]
  BY DEF TypeOK
<1>2. /\ \A a \in Alarms \ {x} : SameH(hand, hand', a)
      /\ ~NotH(hand, x) /\ (OneH(hand, x) => NotH(hand', x))
  BY <1>1, HandGiven
<1> HIDE DEF x
<1>3. /\ x <= produced /\ OneH(hand, x)
      /\ NotO(o_queue, x) /\ NotM(msgQueue, x) /\ NotR(received, x) /\ NotL(lost, x)
  BY <1>1, <1>2 DEF Single, Placed, Unplaced
<1>4. LeftBehind(x)
  BY <1>1, <1>2, <1>3 DEF LeftBehind, SameO, SameM
<1> QED
  BY <1>4 DEF x

LEMMA LeftQueue ==
  ASSUME TypeOK, Single, index \in 1 .. Len(msgQueue),
         msgQueue' = Erase(msgQueue, index), UNCHANGED <<o_queue, hand>>
  PROVE  LeftBehind(msgQueue[index].alarm)
<1> DEFINE x == msgQueue[index].alarm
<1>1. msgQueue \in Seq(Message) /\ x \in Alarms
  <2>1. msgQueue \in Seq(Message)
    BY DEF TypeOK
  <2>2. msgQueue[index] \in Message
    BY <2>1
  <2> QED
    BY <2>1, <2>2 DEF Message
<1>2. /\ \A a \in Alarms \ {x} : SameM(msgQueue, msgQueue', a)
      /\ ~NotM(msgQueue, x) /\ (OneM(msgQueue, x) => NotM(msgQueue', x))
  BY <1>1, QueueErased DEF Erase
<1> HIDE DEF x
<1>3. /\ x <= produced /\ OneM(msgQueue, x)
      /\ NotO(o_queue, x) /\ NotH(hand, x) /\ NotR(received, x) /\ NotL(lost, x)
  BY <1>1, <1>2 DEF Single, Placed, Unplaced
<1>4. LeftBehind(x)
  BY <1>1, <1>2, <1>3 DEF LeftBehind, SameO, SameH
<1> QED
  BY <1>4 DEF x

LEMMA FateLost ==
  ASSUME TypeOK, TypeOK', Single, NEW x, LeftBehind(x), NEW c \in Causes, Lose(x, c),
         UNCHANGED <<produced, received>>
  PROVE  Single' /\ FateStep
<1>1. x \in Alarms /\ lost \in [Causes -> SUBSET Alarms]
  BY DEF LeftBehind, TypeOK
<1>2. (\A a \in Alarms \ {x} : SameL(lost, lost', a)) /\ OneL(lost', x)
  BY <1>1, LostOne DEF Lose, LeftBehind
<1>3. Placed(o_queue', hand', msgQueue', received', lost', x)
  BY <1>2 DEF Placed, LeftBehind
<1>4. \A a \in Alarms \ {x} : SameR(received, received', a)
  BY DEF SameR
<1>5. Single'
  BY <1>1, <1>2, <1>3, <1>4, Settle DEF LeftBehind
<1>6. FateStep
  BY <1>1, <1>2, <1>4, FateGiven DEF LeftBehind
<1> QED
  BY <1>5, <1>6

LEMMA FateReceived ==
  ASSUME TypeOK, TypeOK', Single, NEW x, LeftBehind(x), received' = Append(received, x),
         UNCHANGED <<produced, lost>>
  PROVE  Single' /\ FateStep
<1>1. x \in Alarms /\ received \in Seq(Alarms)
  BY DEF LeftBehind, TypeOK
<1>2. (\A a \in Alarms \ {x} : SameR(received, received', a)) /\ OneR(received', x)
  BY <1>1, ReceivedOne DEF LeftBehind
<1>3. Placed(o_queue', hand', msgQueue', received', lost', x)
  BY <1>2 DEF Placed, LeftBehind
<1>4. \A a \in Alarms \ {x} : SameL(lost, lost', a)
  BY DEF SameL
<1>5. Single'
  BY <1>1, <1>2, <1>3, <1>4, Settle DEF LeftBehind
<1>6. FateStep
  BY <1>1, <1>2, <1>4, FateGiven DEF LeftBehind
<1> QED
  BY <1>5, <1>6

(* Every step keeps each alarm in one place and moves one fate at most.    *)

LEMMA PushOSingle ==
  ASSUME TypeOK, TypeOK', Single, NEW u \in Units, PushO(u)
  PROVE  Single' /\ FateStep
<1> DEFINE x == produced + 1
<1>1. /\ x \in Alarms /\ produced' = x /\ ~(x <= produced)
      /\ \A a \in Alarms \ {x} : a <= x <=> a <= produced
  BY DEF PushO, TypeOK, Alarms
<1>2. /\ UNCHANGED <<hand, msgQueue, received>>
      /\ IF HasRoom(o_queue[u], Cap)
           THEN o_queue' = [o_queue EXCEPT ![u] = Append(@, x)] /\ UNCHANGED lost
           ELSE Lose(x, "queueFull") /\ UNCHANGED o_queue
  BY DEF PushO, queueVars
<1>3. o_queue \in [Units -> Seq(Alarms)] /\ lost \in [Causes -> SUBSET Alarms]
  BY DEF TypeOK
<1> HIDE DEF x
<1>4. Unplaced(o_queue, hand, msgQueue, received, lost, x)
  BY <1>1 DEF Single
<1>5. \A a : SameH(hand, hand', a) /\ SameM(msgQueue, msgQueue', a) /\ SameR(received, received', a)
  BY <1>2 DEF SameH, SameM, SameR
<1>6. x <= produced'
  BY <1>1 DEF Alarms
<1>7. CASE HasRoom(o_queue[u], Cap)
  <2>1. o_queue' = [o_queue EXCEPT ![u] = Append(@, x)] /\ lost' = lost
    BY <1>2, <1>7
  <2>2. /\ \A a \in Alarms \ {x} : SameO(o_queue, o_queue', a) /\ SameL(lost, lost', a)
        /\ OneO(o_queue', x)
    BY <1>1, <1>3, <1>4, <2>1, OutPushed DEF Unplaced, SameL
  <2>3. Placed(o_queue', hand', msgQueue', received', lost', x)
    BY <1>2, <1>4, <2>1, <2>2 DEF Unplaced, Placed
  <2>4. FateStep
    BY <1>1, <1>2, <1>4, <1>5, <1>6, <2>1, <2>2, FateGiven DEF Unplaced
  <2> QED
    BY <1>1, <1>5, <1>6, <2>2, <2>3, <2>4, Settle
<1>8. CASE ~HasRoom(o_queue[u], Cap)
  <2>1. Lose(x, "queueFull") /\ o_queue' = o_queue
    BY <1>2, <1>8
  <2>2. /\ \A a \in Alarms \ {x} : SameO(o_queue, o_queue', a) /\ SameL(lost, lost', a)
        /\ OneL(lost', x)
    BY <1>1, <1>3, <1>4, <2>1, LostOne DEF Unplaced, SameO, Lose, Causes
  <2>3. Placed(o_queue', hand', msgQueue', received', lost', x)
    BY <1>2, <1>4, <2>1, <2>2 DEF Unplaced, Placed
  <2>4. FateStep
    BY <1>1, <1>2, <1>4, <1>5, <1>6, <2>1, <2>2, FateGiven DEF Unplaced
  <2> QED
    BY <1>1, <1>5, <1>6, <2>2, <2>3, <2>4, Settle
<1> QED
  BY <1>7, <1>8

LEMMA PopOSingle ==
  ASSUME TypeOK, TypeOK', Single, NEW u \in Units, PopO(u)
  PROVE  Single' /\ FateStep
<1> DEFINE x == Head(o_queue[u])
<1>1. /\ o_queue \in [Units -> Seq(Alarms)] /\ o_queue[u] # <<>>
      /\ hand \in [Units -> Alarms \cup {NoAlarm}] /\ hand[u] = NoAlarm
  BY DEF PopO, TypeOK
<1>2. /\ o_queue' = [o_queue EXCEPT ![u] = Tail(@)]
      /\ hand' = [hand EXCEPT ![u] = x]
      /\ UNCHANGED <<produced, msgQueue, received, lost>>
  BY DEF PopO, queueVars, historyVars
<1>3. x \in Alarms
  BY <1>1
<1>4. /\ \A a \in Alarms \ {x} : SameO(o_queue, o_queue', a)
      /\ ~NotO(o_queue, x) /\ (OneO(o_queue, x) => NotO(o_queue', x))
  BY <1>1, <1>2, OutPopped
<1> HIDE DEF x
<1>5. /\ x <= produced /\ OneO(o_queue, x)
      /\ NotH(hand, x) /\ NotM(msgQueue, x) /\ NotR(received, x) /\ NotL(lost, x)
  BY <1>3, <1>4 DEF Single, Placed, Unplaced
<1>6. (\A a \in Alarms \ {x} : SameH(hand, hand', a)) /\ OneH(hand', x)
  BY <1>1, <1>2, <1>3, <1>5, HandTaken
<1>7. Placed(o_queue', hand', msgQueue', received', lost', x)
  BY <1>2, <1>4, <1>5, <1>6 DEF Placed
<1>8. \A a : /\ SameM(msgQueue, msgQueue', a) /\ SameR(received, received', a)
             /\ SameL(lost, lost', a)
  BY <1>2 DEF SameM, SameR, SameL
<1>9. FateStep
  BY <1>2, FateStays
<1> QED
  BY <1>2, <1>3, <1>4, <1>5, <1>6, <1>7, <1>8, <1>9, Settle

LEMMA GateSingle ==
  ASSUME TypeOK, TypeOK', Single, NEW u \in Units, Gate(u)
  PROVE  Single' /\ FateStep
<1>1. pc[u] # "idle" /\ UNCHANGED <<produced, o_queue, msgQueue, received>>
  BY DEF Gate, queueVars
<1>2. CASE isNeedReconnect
  <2>1. hand' = [hand EXCEPT ![u] = NoAlarm] /\ Lose(hand[u], "unconnected")
    BY <1>2 DEF Gate, Done
  <2>2. LeftBehind(hand[u])
    BY <1>1, <2>1, LeftHand
  <2> QED
    BY <1>1, <2>1, <2>2, FateLost DEF Causes
<1>3. CASE ~isNeedReconnect
  BY <1>1, <1>3, Still DEF Gate
<1> QED
  BY <1>2, <1>3

LEMMA AddSingle ==
  ASSUME TypeOK, TypeOK', Single, NEW u \in Units, Add(u)
  PROVE  Single' /\ FateStep
<1> DEFINE x == hand[u]
<1>1. /\ pc[u] # "idle" /\ hand' = [hand EXCEPT ![u] = NoAlarm]
      /\ UNCHANGED <<produced, o_queue, received>>
  BY DEF Add, Done
<1>2. CASE ~HasRoom(msgQueue, MaxResend)
  <2>1. UNCHANGED msgQueue /\ Lose(hand[u], "resendFull")
    BY <1>2 DEF Add
  <2>2. LeftBehind(hand[u])
    BY <1>1, <2>1, LeftHand
  <2> QED
    BY <1>1, <2>1, <2>2, FateLost DEF Causes
<1>3. CASE HasRoom(msgQueue, MaxResend)
  <2> DEFINE m == [alarm |-> x, countResend |-> 0]
  <2>1. msgQueue' = Append(msgQueue, m) /\ UNCHANGED lost
    BY <1>3 DEF Add
  <2>2. /\ x \in Alarms /\ hand \in [Units -> Alarms \cup {NoAlarm}]
        /\ msgQueue \in Seq(Message)
    BY <1>1 DEF TypeOK
  <2>3. m \in Message /\ m.alarm = x
    BY <2>2 DEF Message
  <2>4. /\ \A a \in Alarms \ {x} : SameH(hand, hand', a)
        /\ ~NotH(hand, x) /\ (OneH(hand, x) => NotH(hand', x))
    BY <1>1, <2>2, HandGiven
  <2> HIDE DEF x, m
  <2>5. /\ x <= produced /\ OneH(hand, x)
        /\ NotO(o_queue, x) /\ NotM(msgQueue, x) /\ NotR(received, x) /\ NotL(lost, x)
    BY <2>2, <2>4 DEF Single, Placed, Unplaced
  <2>6. (\A a \in Alarms \ {x} : SameM(msgQueue, msgQueue', a)) /\ OneM(msgQueue', x)
    BY <2>1, <2>2, <2>3, <2>5, QueueAdded
  <2>7. Placed(o_queue', hand', msgQueue', received', lost', x)
    BY <1>1, <2>1, <2>4, <2>5, <2>6 DEF Placed
  <2>8. \A a : /\ SameO(o_queue, o_queue', a) /\ SameR(received, received', a)
               /\ SameL(lost, lost', a)
    BY <1>1, <2>1 DEF SameO, SameR, SameL
  <2>9. FateStep
    BY <1>1, <2>1, FateStays
  <2> QED
    BY <1>1, <2>2, <2>4, <2>5, <2>6, <2>7, <2>8, <2>9, Settle
<1> QED
  BY <1>2, <1>3

(* A turn of the resending thread erases the message it has dealt with, or *)
(* leaves the queue as it is.                                              *)
LEMMA ResendGateSingle ==
  ASSUME TypeOK, TypeOK', Single, ResendGate
  PROVE  Single' /\ FateStep
<1> DEFINE msg == msgQueue[index]
<1>1. /\ index \in 1 .. Len(msgQueue)
      /\ UNCHANGED <<produced, o_queue, hand, received>>
  BY DEF ResendGate, TypeOK, unitVars
<1>2. CASE isNeedReconnect /\ Judge(msg)
  <2>1. msgQueue' = Erase(msgQueue, index) /\ Lose(msg.alarm, "expelled")
    BY <1>2 DEF ResendGate, Turn
  <2>2. LeftBehind(msg.alarm)
    BY <1>1, <2>1, LeftQueue
  <2> QED
    BY <1>1, <2>1, <2>2, FateLost DEF Causes
<1>3. CASE ~(isNeedReconnect /\ Judge(msg))
  <2>1. UNCHANGED <<msgQueue, lost>>
    BY <1>3 DEF ResendGate, Turn, queueVars
  <2> QED
    BY <1>1, <2>1, Still
<1> QED
  BY <1>2, <1>3

LEMMA SendBaseSingle ==
  ASSUME TypeOK, TypeOK', Single, NEW s \in Senders, SendBase(s)
  PROVE  Single' /\ FateStep
<1>1. /\ pc[s] \in {"enter", "wire"}
      /\ UNCHANGED <<produced, o_queue>>
  BY DEF SendBase, SendEnter, SendWire
<1>2. s = Resender => index \in 1 .. Len(msgQueue)
  BY <1>1, HandAlarm
<1>3. s # Resender => s \in Units /\ pc[s] # "idle"
  BY <1>1 DEF Senders
<1>4. ASSUME NEW ok, ok, Returned(s, ok) PROVE LeftBehind(InHand(s))
  <2>1. CASE s = Resender
    <3>1. msgQueue' = Erase(msgQueue, index) /\ UNCHANGED hand
      BY <1>4, <2>1, Zenon DEF Returned, Turn
    <3> QED
      BY <1>1, <1>2, <2>1, <3>1, LeftQueue DEF InHand
  <2>2. CASE s # Resender
    <3>1. hand' = [hand EXCEPT ![s] = NoAlarm] /\ UNCHANGED msgQueue
      BY <1>4, <2>2 DEF Returned, Done, queueVars
    <3> QED
      BY <1>1, <1>3, <2>2, <3>1, LeftHand DEF InHand
  <2> QED
    BY <2>1, <2>2
<1>5. ASSUME NEW ok, ~ok, Returned(s, ok)
      PROVE  /\ Expelled(s, ok) => LeftBehind(InHand(s))
             /\ ~Expelled(s, ok) => UNCHANGED <<hand, msgQueue>>
  <2>1. CASE s = Resender
    <3> DEFINE msg == Counted(msgQueue[index])
    <3>1. UNCHANGED hand /\ (Expelled(s, ok) <=> Judge(msg))
      BY <1>5, <2>1 DEF Returned, Expelled
    <3>2. Turn(ok \/ (~ok /\ Judge(msg)))
      BY <2>1, <1>5, Zenon DEF Returned
    <3> HIDE DEF msg
    <3>3. msgQueue' = IF Judge(msg) THEN Erase(msgQueue, index) ELSE msgQueue
      BY <1>5, <3>2, Zenon DEF Turn
    <3> QED
      BY <1>1, <1>2, <2>1, <3>1, <3>3, LeftQueue DEF InHand
  <2>2. CASE s # Resender
    BY <1>5, <2>2 DEF Returned, Expelled, queueVars
  <2> QED
    BY <2>1, <2>2
<1>6. CASE SendEnter(s)
  <2>1. UNCHANGED received
    BY <1>6 DEF SendEnter
  <2>2. CASE isNeedReconnect
    <3>1. /\ Returned(s, FALSE)
          /\ IF Expelled(s, FALSE) THEN Lose(InHand(s), "expelled") ELSE UNCHANGED lost
      BY <1>6, <2>2 DEF SendEnter
    <3>2. /\ Expelled(s, FALSE) => LeftBehind(InHand(s))
          /\ ~Expelled(s, FALSE) => UNCHANGED <<hand, msgQueue>>
      BY <1>5, <3>1
    <3>3. CASE Expelled(s, FALSE)
      BY <1>1, <2>1, <3>1, <3>2, <3>3, FateLost DEF Causes
    <3>4. CASE ~Expelled(s, FALSE)
      BY <1>1, <2>1, <3>1, <3>2, <3>4, Still
    <3> QED
      BY <3>3, <3>4
  <2>3. CASE ~isNeedReconnect
    BY <1>1, <1>6, <2>1, <2>3, Still DEF SendEnter, queueVars
  <2> QED
    BY <2>2, <2>3
<1>7. ASSUME NEW o \in Outcomes, NEW silent \in BOOLEAN, SendWire(s, o, silent)
      PROVE  Single' /\ FateStep
  <2> DEFINE ok == o \in {"ok", "vanished"}
             x == InHand(s)
  <2>1. /\ Returned(s, ok)
        /\ received' = IF o = "ok" THEN Append(received, x) ELSE received
        /\ lost' = [lost EXCEPT
                     !["vanished"] = IF o = "vanished" THEN @ \cup {x} ELSE @,
                     !["expelled"] = IF Expelled(s, ok) THEN @ \cup {x} ELSE @]
    BY <1>7 DEF SendWire
  <2>2. lost \in [Causes -> SUBSET Alarms]
    BY DEF TypeOK
  <2>3. ok => ~Expelled(s, ok)
    BY DEF Expelled
  <2> HIDE DEF x
  <2>4. CASE o = "ok"
    <3>1. lost' = lost
      BY <2>1, <2>2, <2>3, <2>4
    <3>2. LeftBehind(x)
      BY <1>4, <2>1, <2>4 DEF x
    <3> QED
      BY <1>1, <2>1, <2>4, <3>1, <3>2, FateReceived
  <2>5. CASE o = "vanished"
    <3>1. Lose(x, "vanished") /\ received' = received
      BY <2>1, <2>2, <2>3, <2>5 DEF Lose
    <3>2. LeftBehind(x)
      BY <1>4, <2>1, <2>5 DEF x
    <3> QED
      BY <1>1, <3>1, <3>2, FateLost DEF Causes
  <2>6. CASE o \notin {"ok", "vanished"}
    <3>1. /\ Expelled(s, ok) => LeftBehind(x)
          /\ ~Expelled(s, ok) => UNCHANGED <<hand, msgQueue>>
      BY <1>5, <2>1, <2>6 DEF x
    <3>2. CASE Expelled(s, ok)
      <4>1. Lose(x, "expelled") /\ received' = received
        BY <2>1, <2>2, <2>6, <3>2 DEF Lose
      <4> QED
        BY <1>1, <3>1, <3>2, <4>1, FateLost DEF Causes
    <3>3. CASE ~Expelled(s, ok)
      <4>1. UNCHANGED <<lost, received>>
        BY <2>1, <2>2, <2>6, <3>3
      <4> QED
        BY <1>1, <3>1, <3>3, <4>1, Still
    <3> QED
      BY <3>2, <3>3
  <2> QED
    BY <2>4, <2>5, <2>6 DEF Outcomes
<1> QED
  BY <1>6, <1>7 DEF SendBase

LEMMA SingleInit == Init => Single
<1> SUFFICES ASSUME Init, NEW a \in Alarms
             PROVE  ~(a <= produced) /\ Unplaced(o_queue, hand, msgQueue, received, lost, a)
  BY DEF Single
<1>1. ~(a <= produced)
  BY DEF Init, Alarms
<1>2. NotO(o_queue, a) /\ NotM(msgQueue, a) /\ NotR(received, a)
  BY DEF Init, NotO, NotM, NotR, NeverIn
<1>3. NotH(hand, a)
  BY DEF Init, NotH, NoAlarm, Alarms
<1>4. NotL(lost, a)
  BY DEF Init, NotL
<1> QED
  BY <1>1, <1>2, <1>3, <1>4 DEF Unplaced

LEMMA SingleStep ==
  ASSUME TypeOK, TypeOK', Single, [Next]_vars
  PROVE  Single' /\ FateStep
<1>1. Units \subseteq Senders /\ Resender \in Senders
  BY DEF Senders
<1>2. ASSUME NEW u \in Units, PushO(u) \/ TaskO(u) \/ Add(u) PROVE Single' /\ FateStep
  BY <1>1, <1>2, PushOSingle, PopOSingle, GateSingle, AddSingle, SendBaseSingle DEF TaskO
<1>3. CASE ResendWake \/ ResendSleep
  <2>1. UNCHANGED <<produced, o_queue, hand, msgQueue, received, lost>>
    BY <1>3 DEF ResendWake, ResendSleep, unitVars, queueVars, historyVars
  <2> QED
    BY <2>1, Still
<1>4. CASE Resend
  BY <1>1, <1>3, <1>4, ResendGateSingle, SendBaseSingle DEF Resend
<1>5. CASE Task_Keep \/ LinkBreaks \/ AskReconnect \/ UNCHANGED vars
  <2>1. UNCHANGED <<produced, o_queue, hand, msgQueue, received, lost>>
    BY <1>5 DEF Task_Keep, ReconnectClose, ReconnectConnect, ReconnectDone, LinkBreaks,
                AskReconnect, unitVars, queueVars, historyVars, vars
  <2> QED
    BY <2>1, Still
<1> QED
  BY <1>2, <1>4, <1>5 DEF Next

LEMMA SingleCorrect == Spec => [](TypeOK /\ Single)
<1>1. Init => Single
  BY SingleInit
<1>2. TypeOK /\ TypeOK' /\ Single /\ [Next]_vars => Single'
  BY SingleStep
<1> QED
  BY <1>1, <1>2, TypeCorrect, PTL DEF Spec

-----------------------------------------------------------------------------
(* An alarm that is in a container once, or not at all, has one place      *)
(* there, or none.                                                         *)

OutPlaces(a) == {p \in {"o_queue"} \X Units \X (1 .. Cap) :
                   p[3] <= Len(o_queue[p[2]]) /\ o_queue[p[2]][p[3]] = a}
HandPlaces(a) == {<<"hand", u>> : u \in {v \in Units : hand[v] = a}}
ResendPlaces(a) == {<<"resend", k>> : k \in {j \in DOMAIN msgQueue : msgQueue[j].alarm = a}}
ReceivedPlaces(a) == {<<"received", k>> : k \in {j \in DOMAIN received : received[j] = a}}
LostPlaces(a) == {<<"lost", c>> : c \in {d \in Causes : a \in lost[d]}}

LEMMA OutPlacesAre ==
  ASSUME TypeOK, NEW a
  PROVE  /\ NotO(o_queue, a) => OutPlaces(a) = {}
         /\ OneO(o_queue, a) => \E p : OutPlaces(a) = {p}
<1>1. o_queue \in [Units -> Seq(Alarms)] /\ \A u \in Units : Len(o_queue[u]) \in 0 .. Cap
  BY UplinkAssumption DEF TypeOK
<1>2. ASSUME NEW p \in OutPlaces(a)
      PROVE  /\ p = <<"o_queue", p[2], p[3]>> /\ p[2] \in Units
             /\ p[3] \in 1 .. Len(o_queue[p[2]]) /\ o_queue[p[2]][p[3]] = a
  BY <1>1 DEF OutPlaces
<1>3. ASSUME NotO(o_queue, a) PROVE OutPlaces(a) = {}
  BY <1>2, <1>3 DEF NotO, NeverIn
<1>4. ASSUME OneO(o_queue, a) PROVE \E p : OutPlaces(a) = {p}
  <2>1. PICK u \in Units : /\ OnceIn(o_queue[u], Len(o_queue[u]), a)
                           /\ \A v \in Units \ {u} : NeverIn(o_queue[v], Len(o_queue[v]), a)
    BY <1>4 DEF OneO
  <2>2. PICK k \in 1 .. Len(o_queue[u]) :
               o_queue[u][k] = a /\ \A j \in 1 .. Len(o_queue[u]) : o_queue[u][j] = a => j = k
    BY <2>1 DEF OnceIn
  <2>3. <<"o_queue", u, k>> \in OutPlaces(a)
    <3> DEFINE p == <<"o_queue", u, k>>
    <3>1. k \in 1 .. Cap /\ k <= Len(o_queue[u]) /\ o_queue[u][k] = a
      BY UplinkAssumption, <1>1, <2>2
    <3>2. p \in {"o_queue"} \X Units \X (1 .. Cap) /\ p[2] = u /\ p[3] = k
      BY <3>1
    <3> HIDE DEF p
    <3>3. p \in OutPlaces(a)
      BY <3>1, <3>2, Zenon DEF OutPlaces
    <3> QED
      BY <3>3 DEF p
  <2>4. ASSUME NEW p \in OutPlaces(a) PROVE p = <<"o_queue", u, k>>
    <3>1. p[2] = u
      BY <1>2, <2>1, <2>4 DEF NeverIn
    <3>2. p[3] = k
      BY <1>2, <2>2, <2>4, <3>1
    <3> QED
      BY <1>2, <2>4, <3>1, <3>2
  <2>5. OutPlaces(a) = {<<"o_queue", u, k>>}
    BY <2>3, <2>4, Zenon
  <2> QED
    BY <2>5
<1> QED
  BY <1>3, <1>4

LEMMA HandPlacesAre ==
  ASSUME NEW a
  PROVE  /\ NotH(hand, a) => HandPlaces(a) = {}
         /\ OneH(hand, a) => \E p : HandPlaces(a) = {p}
<1>1. NotH(hand, a) => HandPlaces(a) = {}
  BY DEF NotH, HandPlaces
<1>2. ASSUME OneH(hand, a) PROVE \E p : HandPlaces(a) = {p}
  <2>1. PICK u \in Units : {v \in Units : hand[v] = a} = {u}
    BY <1>2 DEF OneH
  <2>2. HandPlaces(a) = {<<"hand", u>>}
    BY <2>1 DEF HandPlaces
  <2> QED
    BY <2>2
<1> QED
  BY <1>1, <1>2

LEMMA ResendPlacesAre ==
  ASSUME TypeOK, NEW a
  PROVE  /\ NotM(msgQueue, a) => ResendPlaces(a) = {}
         /\ OneM(msgQueue, a) => \E p : ResendPlaces(a) = {p}
<1>1. DOMAIN msgQueue = 1 .. Len(msgQueue)
  BY DEF TypeOK
<1>2. \A k \in 1 .. Len(msgQueue) : AlarmsOf(msgQueue)[k] = msgQueue[k].alarm
  BY DEF AlarmsOf
<1>3. NotM(msgQueue, a) => ResendPlaces(a) = {}
  BY <1>1, <1>2 DEF NotM, NeverIn, ResendPlaces
<1>4. ASSUME OneM(msgQueue, a) PROVE \E p : ResendPlaces(a) = {p}
  <2>1. PICK k \in 1 .. Len(msgQueue) : {j \in DOMAIN msgQueue : msgQueue[j].alarm = a} = {k}
    BY <1>1, <1>2, <1>4 DEF OneM, OnceIn
  <2>2. ResendPlaces(a) = {<<"resend", k>>}
    BY <2>1 DEF ResendPlaces
  <2> QED
    BY <2>2
<1> QED
  BY <1>3, <1>4

LEMMA ReceivedPlacesAre ==
  ASSUME TypeOK, NEW a
  PROVE  /\ NotR(received, a) => ReceivedPlaces(a) = {}
         /\ OneR(received, a) => \E p : ReceivedPlaces(a) = {p}
<1>1. DOMAIN received = 1 .. Len(received)
  BY DEF TypeOK
<1>2. NotR(received, a) => ReceivedPlaces(a) = {}
  BY <1>1 DEF NotR, NeverIn, ReceivedPlaces
<1>3. ASSUME OneR(received, a) PROVE \E p : ReceivedPlaces(a) = {p}
  <2>1. PICK k \in 1 .. Len(received) : {j \in DOMAIN received : received[j] = a} = {k}
    BY <1>1, <1>3 DEF OneR, OnceIn
  <2>2. ReceivedPlaces(a) = {<<"received", k>>}
    BY <2>1 DEF ReceivedPlaces
  <2> QED
    BY <2>2
<1> QED
  BY <1>2, <1>3

LEMMA LostPlacesAre ==
  ASSUME NEW a
  PROVE  /\ NotL(lost, a) => LostPlaces(a) = {}
         /\ OneL(lost, a) => \E p : LostPlaces(a) = {p}
<1>1. NotL(lost, a) => LostPlaces(a) = {}
  BY DEF NotL, LostPlaces
<1>2. ASSUME OneL(lost, a) PROVE \E p : LostPlaces(a) = {p}
  <2>1. PICK c \in Causes : {d \in Causes : a \in lost[d]} = {c}
    BY <1>2 DEF OneL
  <2>2. LostPlaces(a) = {<<"lost", c>>}
    BY <2>1 DEF LostPlaces
  <2> QED
    BY <2>2
<1> QED
  BY <1>1, <1>2

LEMMA SingleIsOnePlace ==
  ASSUME TypeOK, Single
  PROVE  OnePlace
<1>1. ASSUME NEW a \in 1 .. produced PROVE \E p \in Places(a) : Places(a) = {p}
  <2>1. a \in Alarms /\ a <= produced
    BY UplinkAssumption DEF TypeOK, Alarms
  <2>2. Placed(o_queue, hand, msgQueue, received, lost, a)
    BY <2>1 DEF Single
  <2>3. Places(a) = OutPlaces(a) \cup HandPlaces(a) \cup ResendPlaces(a)
                      \cup ReceivedPlaces(a) \cup LostPlaces(a)
    BY Zenon DEF Places, OutPlaces, HandPlaces, ResendPlaces, ReceivedPlaces, LostPlaces
  <2>4. \E p : Places(a) = {p}
    <3>1. /\ NotO(o_queue, a) => OutPlaces(a) = {}
          /\ NotH(hand, a) => HandPlaces(a) = {}
          /\ NotM(msgQueue, a) => ResendPlaces(a) = {}
          /\ NotR(received, a) => ReceivedPlaces(a) = {}
          /\ NotL(lost, a) => LostPlaces(a) = {}
      BY OutPlacesAre, HandPlacesAre, ResendPlacesAre, ReceivedPlacesAre, LostPlacesAre
    <3>2. CASE /\ OneO(o_queue, a) /\ NotH(hand, a) /\ NotM(msgQueue, a)
               /\ NotR(received, a) /\ NotL(lost, a)
      <4>1. PICK p : OutPlaces(a) = {p}
        BY <3>2, OutPlacesAre
      <4>2. Places(a) = {p}
        BY <2>3, <3>1, <3>2, <4>1, Zenon
      <4> QED
        BY <4>2
    <3>3. CASE /\ NotO(o_queue, a) /\ OneH(hand, a) /\ NotM(msgQueue, a)
               /\ NotR(received, a) /\ NotL(lost, a)
      <4>1. PICK p : HandPlaces(a) = {p}
        BY <3>3, HandPlacesAre
      <4>2. Places(a) = {p}
        BY <2>3, <3>1, <3>3, <4>1, Zenon
      <4> QED
        BY <4>2
    <3>4. CASE /\ NotO(o_queue, a) /\ NotH(hand, a) /\ OneM(msgQueue, a)
               /\ NotR(received, a) /\ NotL(lost, a)
      <4>1. PICK p : ResendPlaces(a) = {p}
        BY <3>4, ResendPlacesAre
      <4>2. Places(a) = {p}
        BY <2>3, <3>1, <3>4, <4>1, Zenon
      <4> QED
        BY <4>2
    <3>5. CASE /\ NotO(o_queue, a) /\ NotH(hand, a) /\ NotM(msgQueue, a)
               /\ OneR(received, a) /\ NotL(lost, a)
      <4>1. PICK p : ReceivedPlaces(a) = {p}
        BY <3>5, ReceivedPlacesAre
      <4>2. Places(a) = {p}
        BY <2>3, <3>1, <3>5, <4>1, Zenon
      <4> QED
        BY <4>2
    <3>6. CASE /\ NotO(o_queue, a) /\ NotH(hand, a) /\ NotM(msgQueue, a)
               /\ NotR(received, a) /\ OneL(lost, a)
      <4>1. PICK p : LostPlaces(a) = {p}
        BY <3>6, LostPlacesAre
      <4>2. Places(a) = {p}
        BY <2>3, <3>1, <3>6, <4>1, Zenon
      <4> QED
        BY <4>2
    <3> QED
      BY <2>2, <3>2, <3>3, <3>4, <3>5, <3>6 DEF Placed
  <2> QED
    BY <2>4
<1> QED
  BY <1>1 DEF OnePlace

(* An alarm the server has taken over is in one place only, whatever the   *)
(* threads and the network do, and reaches the platform at most once.      *)
THEOREM OnePlaceHolds == Spec => []OnePlace
<1>1. TypeOK /\ Single => OnePlace
  BY SingleIsOnePlace
<1> QED
  BY <1>1, SingleCorrect, PTL

(* The safety half of FateOnce: the uplink takes only steps AlarmDelivery  *)
(* allows.  An alarm is accepted or refused once, and once accepted is     *)
(* received or lost, once, and never taken back.                           *)
THEOREM FatesStepByStep == Spec => Delivery!Init /\ [][Delivery!Next]_Fates
<1>1. Init /\ TypeOK => Delivery!Init
  <2> SUFFICES ASSUME Init, TypeOK PROVE \A a \in Alarms : Where(a) = "new"
    BY DEF Delivery!Init
  <2>1. ASSUME NEW a \in Alarms PROVE Where(a) = "new"
    <3>0. ~(a <= produced)
      BY DEF Init, Alarms
    <3>1. Unplaced(o_queue, hand, msgQueue, received, lost, a)
      BY <3>0, SingleInit DEF Single
    <3>2. produced \in Nat /\ received \in Seq(Alarms)
      BY DEF TypeOK
    <3>3. Where(a) = FateOf(produced, received, lost, a)
      BY DEF Where, FateOf
    <3> QED
      BY <3>0, <3>1, <3>2, <3>3, FateIs DEF Unplaced
  <2> QED
    BY <2>1
<1>2. TypeOK /\ TypeOK' /\ Single /\ [Next]_vars => [Delivery!Next]_Fates
  BY SingleStep DEF FateStep
<1> QED
  BY <1>1, <1>2, SingleCorrect, PTL DEF Spec
=============================================================================
