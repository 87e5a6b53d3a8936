------------------------- MODULE Passthrough_proofs -------------------------
(***************************************************************************)
(* What the units that hand on every message, or every change of status,   *)
(* promise for every number of roads, capacity and number of messages.     *)
(*                                                                         *)
(* The messages of a road are numbered, and its window always holds the    *)
(* last ones it was sent, without a gap: a push into a full window and an  *)
(* erasure both only raise the number of its first message (First).  The   *)
(* message the tI thread has read is therefore never behind what it erases,*)
(* and what was reported is always before First; that is the order.  The   *)
(* count of losses needs one correction: between reading and erasing, a    *)
(* message is both seen and still in its window.                           *)
(***************************************************************************)
EXTENDS Passthrough, TLAPS

(* Vector::push: the message goes last, and a full window loses its first. *)
LEMMA SlideIs ==
  ASSUME NEW S, NEW q \in Seq(S), NEW m \in S, Len(q) <= Cap
  PROVE  /\ Slide(q, m) \in Seq(S)
         /\ Len(Slide(q, m)) = IF Full(q) THEN Len(q) ELSE Len(q) + 1
         /\ Len(Slide(q, m)) <= Cap /\ Len(Slide(q, m)) > 0
         /\ \A i \in 1 .. Len(Slide(q, m)) :
              Slide(q, m)[i] = IF i = Len(Slide(q, m)) THEN m
                               ELSE IF Full(q) THEN q[i + 1] ELSE q[i]
<1> DEFINE a == Append(q, m)
<1>1. /\ a \in Seq(S) /\ Len(a) = Len(q) + 1 /\ a # <<>>
      /\ \A i \in 1 .. Len(a) : a[i] = IF i = Len(a) THEN m ELSE q[i]
  OBVIOUS
<1> HIDE DEF a
<1>2. /\ Tail(a) \in Seq(S) /\ Len(Tail(a)) = Len(q)
      /\ \A i \in 1 .. Len(q) : Tail(a)[i] = a[i + 1]
  BY <1>1
<1>3. CASE Full(q)
  <2>1. Slide(q, m) = Tail(a) /\ Len(q) \in Nat \ {0}
    BY <1>3, PassthroughAssumption DEF Slide, Full, a
  <2> QED
    BY <1>1, <1>2, <1>3, <2>1
<1>4. CASE ~Full(q)
  <2>1. Slide(q, m) = a /\ Len(q) + 1 <= Cap
    BY <1>4, PassthroughAssumption DEF Slide, Full, a
  <2> QED
    BY <1>1, <1>4, <2>1
<1> QED
  BY <1>3, <1>4

(* Every variable keeps its type; no window and no queue exceeds Cap, and  *)
(* the window whose head is to be erased is not empty.                     *)
THEOREM TypeCorrect == Spec => []TypeOK
<1>1. Init => TypeOK
  <2> SUFFICES ASSUME Init PROVE TypeOK
    OBVIOUS
  <2> USE PassthroughAssumption DEF Init, Roads
  <2>1. /\ i_queue_vector \in [Roads -> Seq(Message)]
        /\ \A r \in Roads : Len(i_queue_vector[r]) <= Cap
    OBVIOUS
  <2>2. /\ o_queue \in Seq(Message) /\ Len(o_queue) <= Cap
        /\ reported \in Seq(Message)
    OBVIOUS
  <2> QED
    BY <2>1, <2>2 DEF TypeOK
<1>2. TypeOK /\ [Next]_vars => TypeOK'
  <2> SUFFICES ASSUME TypeOK, [Next]_vars PROVE TypeOK'
    OBVIOUS
  <2> USE PassthroughAssumption
  <2>1. ASSUME NEW r \in Roads, NEW status \in Statuses, PushI(r, status)
        PROVE  TypeOK'
    <3> DEFINE m == [road |-> r, sn |-> pushed[r], alarmStatus |-> status]
    <3>1. m \in Message
      BY DEF TypeOK, Message
    <3>2. i_queue_vector[r] \in Seq(Message) /\ Len(i_queue_vector[r]) <= Cap
      BY DEF TypeOK
    <3>3. i_queue_vector' = [i_queue_vector EXCEPT ![r] = Slide(@, m)]
      BY <2>1 DEF PushI
    <3> HIDE DEF m
    <3>4. /\ Slide(i_queue_vector[r], m) \in Seq(Message)
          /\ Len(Slide(i_queue_vector[r], m)) <= Cap
          /\ Slide(i_queue_vector[r], m) # <<>>
      <4>1. /\ Slide(i_queue_vector[r], m) \in Seq(Message)
            /\ Len(Slide(i_queue_vector[r], m)) <= Cap
            /\ Len(Slide(i_queue_vector[r], m)) > 0
        BY <3>1, <3>2, SlideIs
      <4> QED
        BY <4>1
    <3>5. /\ i_queue_vector' \in [Roads -> Seq(Message)]
          /\ \A s \in Roads : Len(i_queue_vector'[s]) <= Cap
          /\ pc' = "erase" => i_queue_vector'[road'] # <<>>
      BY <2>1, <3>3, <3>4 DEF TypeOK, PushI, threadVars
    <3>6. pushed' \in [Roads -> Nat] /\ overruns' \in [Roads -> Nat]
      <4>1. /\ pushed' = [pushed EXCEPT ![r] = @ + 1]
            /\ overruns' = [overruns EXCEPT ![r] =
                              IF Full(i_queue_vector[r]) THEN @ + 1 ELSE @]
        BY <2>1 DEF PushI
      <4>2. pushed \in [Roads -> Nat] /\ overruns \in [Roads -> Nat]
        BY DEF TypeOK
      <4> QED
        BY <4>1, <4>2
    <3> QED
      BY <2>1, <3>5, <3>6 DEF PushI, TypeOK, threadVars, outputVars
  <2>2. CASE RunTask
    <3>1. road' \in Roads
      BY <2>2 DEF RunTask, Roads
    <3> QED
      BY <2>2, <3>1 DEF RunTask, TypeOK, windowVars, outputVars
  <2>3. CASE GetIndex
    <3>1. cur' \in Message
      BY <2>3 DEF GetIndex, FirstOf, TypeOK
    <3>2. seen' \in [Roads -> Nat]
      BY <2>3 DEF GetIndex, TypeOK
    <3> QED
      BY <2>3, <3>1, <3>2 DEF GetIndex, TypeOK, windowVars, outputVars
  <2>4. CASE NextWindow
    <3>1. road' \in Roads /\ pc' \in {"wait", "look"}
      BY <2>4 DEF NextWindow, TypeOK
    <3> QED
      BY <2>4, <3>1 DEF NextWindow, TypeOK, windowVars, outputVars
  <2>5. CASE EraseBegin
    <3>1. /\ i_queue_vector[road] \in Seq(Message) /\ i_queue_vector[road] # <<>>
          /\ Len(i_queue_vector[road]) <= Cap
      BY <2>5 DEF EraseBegin, TypeOK
    <3>2. /\ Tail(i_queue_vector[road]) \in Seq(Message)
          /\ Len(Tail(i_queue_vector[road])) <= Cap
      BY <3>1
    <3>3. /\ i_queue_vector' \in [Roads -> Seq(Message)]
          /\ \A s \in Roads : Len(i_queue_vector'[s]) <= Cap
      BY <2>5, <3>2 DEF EraseBegin, TypeOK
    <3> QED
      BY <2>5, <3>3 DEF EraseBegin, TypeOK, outputVars
  <2>6. CASE Skip
    BY <2>6 DEF Skip, TypeOK, windowVars, outputVars
  <2>7. CASE Report
    <3>1. cur \in Message
      BY <2>7 DEF Report, TypeOK
    <3>2. alarmStatus' \in Statuses \cup {Unknown}
      BY <2>7, <3>1 DEF Report, Remembered, TypeOK, Message
    <3>3. CASE HasRoom(o_queue)
      <4>1. /\ o_queue' = Append(o_queue, cur) /\ reported' = Append(reported, cur)
            /\ UNCHANGED dropsAfter
        BY <2>7, <3>3 DEF Report
      <4>2. o_queue \in Seq(Message) /\ Len(o_queue) <= Cap /\ reported \in Seq(Message)
        BY DEF TypeOK
      <4>3. Len(o_queue) < Cap
        BY <3>3, <4>2 DEF HasRoom, Full
      <4>4. /\ o_queue' \in Seq(Message) /\ Len(o_queue') <= Cap
            /\ reported' \in Seq(Message)
        BY <3>1, <4>1, <4>2, <4>3
      <4> QED
        BY <2>7, <3>2, <4>1, <4>4 DEF Report, TypeOK, windowVars
    <3>4. CASE ~HasRoom(o_queue)
      <4>1. dropsAfter' = dropsAfter \cup {Len(reported)} /\ UNCHANGED <<o_queue, reported>>
        BY <2>7, <3>4 DEF Report
      <4>2. dropsAfter' \in SUBSET Nat
        <5>1. dropsAfter \in SUBSET Nat /\ Len(reported) \in Nat
          BY DEF TypeOK
        <5> QED
          BY <4>1, <5>1
      <4> QED
        BY <2>7, <3>2, <4>1, <4>2 DEF Report, TypeOK, windowVars
    <3> QED
      BY <3>3, <3>4
  <2>8. CASE PopO
    <3>1. o_queue' \in Seq(Message) /\ Len(o_queue') <= Cap
      BY <2>8 DEF PopO, TypeOK
    <3> QED
      BY <2>8, <3>1 DEF PopO, TypeOK, threadVars, windowVars
  <2>9. CASE UNCHANGED vars
    BY <2>9 DEF vars, TypeOK, threadVars, windowVars, outputVars
  <2> QED
    BY <2>1, <2>2, <2>3, <2>4, <2>5, <2>6, <2>7, <2>8, <2>9 DEF Next, TaskI
<1> QED
  BY <1>1, <1>2, PTL DEF Spec

-----------------------------------------------------------------------------
(* A window of road r holds the last messages of the n it was sent.        *)
LastOf(q, r, n) ==
  \A i \in 1 .. Len(q) : q[i].road = r /\ q[i].sn = n - Len(q) + i - 1

(* A push keeps it so, and drops at most the oldest.                       *)
LEMMA SlideKeepsLast ==
  ASSUME NEW q \in Seq(Message), Len(q) <= Cap, NEW r, NEW n \in Nat, LastOf(q, r, n),
         NEW m \in Message, m.road = r, m.sn = n
  PROVE  /\ LastOf(Slide(q, m), r, n + 1)
         /\ n + 1 - Len(Slide(q, m)) >= n - Len(q)
<1> DEFINE w == Slide(q, m)
<1>1. /\ Len(w) = IF Full(q) THEN Len(q) ELSE Len(q) + 1
      /\ \A i \in 1 .. Len(w) :
           w[i] = IF i = Len(w) THEN m ELSE IF Full(q) THEN q[i + 1] ELSE q[i]
  BY SlideIs
<1> HIDE DEF w
<1>2. Len(q) \in Nat /\ Len(w) \in Nat
  BY <1>1
<1>3. ASSUME NEW i \in 1 .. Len(w)
      PROVE  w[i].road = r /\ w[i].sn = n + 1 - Len(w) + i - 1
  <2>1. CASE i = Len(w)
    <3>1. w[i] = m
      BY <1>1, <2>1
    <3>2. n + 1 - Len(w) + i - 1 = n
      BY <1>2, <2>1
    <3> QED
      BY <3>1, <3>2
  <2>2. CASE i # Len(w) /\ Full(q)
    <3>1. w[i] = q[i + 1] /\ i + 1 \in 1 .. Len(q)
      BY <1>1, <1>2, <2>2
    <3>2. q[i + 1].road = r /\ q[i + 1].sn = n - Len(q) + (i + 1) - 1
      BY <3>1 DEF LastOf
    <3>3. n - Len(q) + (i + 1) - 1 = n + 1 - Len(w) + i - 1
      BY <1>1, <1>2, <2>2
    <3> QED
      BY <3>1, <3>2, <3>3
  <2>3. CASE i # Len(w) /\ ~Full(q)
    BY <1>1, <1>2, <2>3 DEF LastOf
  <2> QED
    BY <2>1, <2>2, <2>3
<1>4. n + 1 - Len(w) >= n - Len(q)
  BY <1>1, <1>2
<1> QED
  BY <1>3, <1>4 DEF LastOf, w

(* So does an erasure of the oldest.                                       *)
LEMMA TailKeepsLast ==
  ASSUME NEW q \in Seq(Message), q # <<>>, NEW r, NEW n \in Nat, LastOf(q, r, n)
  PROVE  LastOf(Tail(q), r, n) /\ n - Len(Tail(q)) = n - Len(q) + 1
<1> DEFINE w == Tail(q)
<1>1. /\ Len(q) \in Nat /\ Len(w) = Len(q) - 1 /\ Len(w) \in Nat
      /\ \A i \in 1 .. Len(w) : w[i] = q[i + 1]
  OBVIOUS
<1> HIDE DEF w
<1>2. ASSUME NEW i \in 1 .. Len(w)
      PROVE  w[i].road = r /\ w[i].sn = n - Len(w) + i - 1
  <2>1. w[i] = q[i + 1] /\ i + 1 \in 1 .. Len(q)
    BY <1>1
  <2>2. q[i + 1].road = r /\ q[i + 1].sn = n - Len(q) + (i + 1) - 1
    BY <2>1 DEF LastOf
  <2>3. n - Len(q) + (i + 1) - 1 = n - Len(w) + i - 1
    BY <1>1
  <2> QED
    BY <2>1, <2>2, <2>3
<1> QED
  BY <1>1, <1>2 DEF LastOf, w

Windows == \A r \in Roads : LastOf(i_queue_vector[r], r, pushed[r])

(* The number of the first message in a window, or of the next to come.    *)
First(r) == pushed[r] - Len(i_queue_vector[r])

(* Who changes a window keeps it gapless and only raises its first number; *)
(* the tI thread, which erases, by one.                                    *)
LEMMA WindowsStep ==
  ASSUME TypeOK, Windows, [Next]_vars
  PROVE  /\ Windows'
         /\ \A r \in Roads : pushed'[r] - Len(i_queue_vector'[r]) >= First(r)
         /\ EraseBegin => pushed'[road] - Len(i_queue_vector'[road]) = First(road) + 1
<1>1. /\ pushed \in [Roads -> Nat] /\ i_queue_vector \in [Roads -> Seq(Message)]
      /\ \A r \in Roads : Len(i_queue_vector[r]) <= Cap
  BY DEF TypeOK
<1>2. CASE UNCHANGED <<i_queue_vector, pushed>>
  <2>1. ~EraseBegin
    <3>1. ASSUME EraseBegin PROVE FALSE
      <4> DEFINE q == i_queue_vector[road]
      <4>1. q \in Seq(Message) /\ q # <<>> /\ i_queue_vector'[road] = Tail(q)
        BY <3>1 DEF EraseBegin, TypeOK
      <4>2. q = Tail(q)
        BY <1>2, <4>1
      <4> HIDE DEF q
      <4> QED
        BY <4>1, <4>2
    <3> QED
      BY <3>1
  <2> QED
    BY <1>1, <1>2, <2>1 DEF Windows, First
<1>3. ASSUME NEW r \in Roads, NEW status \in Statuses, PushI(r, status)
      PROVE  Windows' /\ \A s \in Roads : pushed'[s] - Len(i_queue_vector'[s]) >= First(s)
  <2> DEFINE m == [road |-> r, sn |-> pushed[r], alarmStatus |-> status]
             q == i_queue_vector[r]
  <2>1. m \in Message /\ m.road = r /\ m.sn = pushed[r] /\ pushed[r] \in Nat
    BY <1>1 DEF Message
  <2>2. /\ i_queue_vector' = [i_queue_vector EXCEPT ![r] = Slide(@, m)]
        /\ pushed' = [pushed EXCEPT ![r] = @ + 1]
    BY <1>3 DEF PushI
  <2>3. q \in Seq(Message) /\ Len(q) <= Cap /\ LastOf(q, r, pushed[r])
    BY <1>1 DEF Windows
  <2>4. i_queue_vector'[r] = Slide(q, m) /\ pushed'[r] = pushed[r] + 1
    BY <1>1, <2>2
  <2>5. \A s \in Roads \ {r} : i_queue_vector'[s] = i_queue_vector[s] /\ pushed'[s] = pushed[s]
    BY <1>1, <2>2
  <2> HIDE DEF m
  <2>6. /\ LastOf(Slide(q, m), r, pushed[r] + 1)
        /\ pushed[r] + 1 - Len(Slide(q, m)) >= pushed[r] - Len(q)
    BY <2>1, <2>3, SlideKeepsLast
  <2>7. \A s \in Roads : LastOf(i_queue_vector'[s], s, pushed'[s])
    BY <2>4, <2>5, <2>6 DEF Windows
  <2>8. \A s \in Roads : pushed'[s] - Len(i_queue_vector'[s]) >= First(s)
    BY <1>1, <2>4, <2>5, <2>6 DEF First
  <2> QED
    BY <2>7, <2>8 DEF Windows
<1>4. ASSUME EraseBegin
      PROVE  /\ Windows'
             /\ \A s \in Roads : pushed'[s] - Len(i_queue_vector'[s]) >= First(s)
             /\ pushed'[road] - Len(i_queue_vector'[road]) = First(road) + 1
  <2> DEFINE q == i_queue_vector[road]
  <2>1. road \in Roads /\ q # <<>> /\ q \in Seq(Message) /\ pushed[road] \in Nat
    BY <1>4 DEF EraseBegin, TypeOK
  <2>2. /\ i_queue_vector' = [i_queue_vector EXCEPT ![road] = Tail(@)]
        /\ UNCHANGED pushed
    BY <1>4 DEF EraseBegin
  <2>3. i_queue_vector'[road] = Tail(q) /\ LastOf(q, road, pushed[road])
    BY <1>1, <2>1, <2>2 DEF Windows
  <2>4. \A s \in Roads \ {road} : i_queue_vector'[s] = i_queue_vector[s]
    BY <1>1, <2>2
  <2>5. /\ LastOf(Tail(q), road, pushed[road])
        /\ pushed[road] - Len(Tail(q)) = pushed[road] - Len(q) + 1
    BY <2>1, <2>3, TailKeepsLast
  <2>6. \A s \in Roads : LastOf(i_queue_vector'[s], s, pushed'[s])
    BY <2>2, <2>3, <2>4, <2>5 DEF Windows
  <2>7. First(road) = pushed[road] - Len(q)
    BY DEF First
  <2>8. pushed'[road] - Len(i_queue_vector'[road]) = First(road) + 1
    BY <2>2, <2>3, <2>5, <2>7
  <2>9. \A s \in Roads : pushed'[s] - Len(i_queue_vector'[s]) >= First(s)
    BY <1>1, <2>2, <2>4, <2>8 DEF First
  <2> QED
    BY <2>6, <2>8, <2>9 DEF Windows
<1> QED
  BY <1>2, <1>3, <1>4
     DEF Next, TaskI, RunTask, GetIndex, NextWindow, Skip, Report, PopO, vars, windowVars

-----------------------------------------------------------------------------
(* What the tI thread has read is not behind the message it will erase,    *)
(* and before everything left once it has erased.                          *)
Current ==
  /\ pc = "erase" => cur.road = road /\ cur.sn <= First(road)
  /\ pc = "report" => cur.road = road /\ cur.sn < First(road)

(* What was reported is before everything in the windows, and before what  *)
(* the tI thread has read.                                                 *)
Past ==
  \A i \in DOMAIN reported :
    /\ reported[i].sn < First(reported[i].road)
    /\ pc \in {"erase", "report"} /\ reported[i].road = road => reported[i].sn < cur.sn

InOrder == Windows /\ Current /\ Past /\ InOrderOnce

LEMMA InOrderStep == TypeOK /\ TypeOK' /\ InOrder /\ [Next]_vars => InOrder'
<1> SUFFICES ASSUME TypeOK, TypeOK', InOrder, [Next]_vars PROVE InOrder'
  OBVIOUS
<1> DEFINE g(r) == pushed'[r] - Len(i_queue_vector'[r])
<1>1. /\ Windows'
      /\ \A r \in Roads : g(r) >= First(r)
      /\ EraseBegin => g(road) = First(road) + 1
  BY WindowsStep DEF InOrder
<1>2. /\ \A r \in Roads : First(r) \in Int
      /\ \A i \in DOMAIN reported : reported[i].road \in Roads /\ reported[i].sn \in Nat
      /\ DOMAIN reported = 1 .. Len(reported) /\ Len(reported) \in Nat
      /\ reported \in Seq(Message) /\ road \in Roads
  <2>1. \A r \in Roads : pushed[r] \in Nat /\ Len(i_queue_vector[r]) \in Nat
    BY DEF TypeOK
  <2>2. \A r \in Roads : First(r) \in Int
    BY <2>1 DEF First
  <2>3. reported \in Seq(Message) /\ road \in Roads
    BY DEF TypeOK
  <2>4. DOMAIN reported = 1 .. Len(reported) /\ Len(reported) \in Nat
    BY <2>3
  <2>5. \A i \in DOMAIN reported : reported[i] \in Message
    BY <2>3, <2>4
  <2> QED
    BY <2>2, <2>3, <2>4, <2>5 DEF Message
<1>4. \A r \in Roads : g(r) \in Int
  <2>1. ASSUME NEW r \in Roads PROVE pushed'[r] \in Nat /\ Len(i_queue_vector'[r]) \in Nat
    BY DEF TypeOK
  <2> QED
    BY <2>1
<1>3. ASSUME pc' = "erase" => cur'.road = road' /\ cur'.sn <= g(road'),
             pc' = "report" => cur'.road = road' /\ cur'.sn < g(road')
      PROVE  Current'
  BY <1>3, Zenon DEF Current, First
<1>10. ASSUME \A i \in DOMAIN reported' :
                /\ reported'[i].sn < g(reported'[i].road)
                /\ pc' \in {"erase", "report"} /\ reported'[i].road = road'
                     => reported'[i].sn < cur'.sn
       PROVE  Past'
  BY <1>10, Zenon DEF Past, First
<1> HIDE DEF g
<1>5. CASE UNCHANGED <<pc, road, cur, reported>>
  <2>1. Current'
    BY <1>1, <1>2, <1>3, <1>4, <1>5 DEF InOrder, Current, TypeOK, Message
  <2>2. Past'
    BY <1>1, <1>2, <1>10, <1>4, <1>5 DEF InOrder, Past
  <2> QED
    BY <1>1, <1>5, <2>1, <2>2 DEF InOrder, InOrderOnce
<1>6. CASE pc' \notin {"erase", "report"} /\ UNCHANGED reported
  <2>1. Current'
    BY <1>3, <1>6
  <2>2. Past'
    BY <1>1, <1>2, <1>10, <1>4, <1>6 DEF InOrder, Past
  <2> QED
    BY <1>1, <1>6, <2>1, <2>2 DEF InOrder, InOrderOnce
<1>7. CASE GetIndex
  <2> DEFINE q == i_queue_vector[road]
  <2>1. /\ pc' = "erase" /\ cur' = q[1] /\ q # <<>>
        /\ UNCHANGED <<road, reported, i_queue_vector, pushed>>
    BY <1>7 DEF GetIndex, FirstOf, windowVars, outputVars
  <2>2. q \in Seq(Message) /\ LastOf(q, road, pushed[road]) /\ pushed[road] \in Nat
    BY DEF InOrder, Windows, TypeOK
  <2>3. First(road) = pushed[road] - Len(q) /\ g(road) = First(road)
    BY <2>1 DEF First, g
  <2> HIDE DEF q
  <2>4. 1 \in 1 .. Len(q)
    BY <2>1, <2>2
  <2>5. cur'.road = road /\ cur'.sn = First(road)
    BY <2>1, <2>2, <2>3, <2>4 DEF LastOf
  <2>6. Current'
    BY <1>2, <1>3, <2>1, <2>3, <2>5
  <2>7. Past'
    BY <1>1, <1>2, <1>10, <1>4, <2>1, <2>5 DEF InOrder, Past
  <2> QED
    BY <1>1, <2>1, <2>6, <2>7 DEF InOrder, InOrderOnce
<1>8. CASE EraseBegin
  <2>1. pc = "erase" /\ pc' = "report" /\ UNCHANGED <<road, cur, reported>>
    BY <1>8 DEF EraseBegin, outputVars
  <2>2. cur.sn \in Nat
    BY <2>1 DEF TypeOK, Message
  <2>3. cur.road = road /\ cur.sn < g(road)
    BY <1>1, <1>2, <1>8, <2>1, <2>2 DEF InOrder, Current
  <2>4. Current'
    BY <1>3, <2>1, <2>3
  <2>5. Past'
    BY <1>1, <1>2, <1>10, <1>4, <2>1 DEF InOrder, Past
  <2> QED
    BY <1>1, <2>1, <2>4, <2>5 DEF InOrder, InOrderOnce
<1>9. CASE Report /\ reported' = Append(reported, cur)
  <2> DEFINE n == Len(reported)
  <2>1. pc = "report" /\ pc' = "look" /\ UNCHANGED <<i_queue_vector, pushed>>
    BY <1>9 DEF Report, windowVars
  <2>2. cur \in Message /\ cur.sn \in Nat /\ cur.road = road /\ cur.sn < First(road)
    BY <2>1 DEF TypeOK, Message, InOrder, Current
  <2>3. /\ DOMAIN reported' = 1 .. n + 1
        /\ \A i \in 1 .. n : reported'[i] = reported[i]
        /\ reported'[n + 1] = cur
    BY <1>2, <1>9, <2>2
  <2>4. \A i \in 1 .. n : /\ reported[i].sn < First(reported[i].road)
                          /\ reported[i].road = road => reported[i].sn < cur.sn
    BY <1>2, <2>1 DEF InOrder, Past
  <2> HIDE DEF n
  <2>5. Current'
    BY <1>3, <2>1
  <2>6. Past'
    <3>1. ASSUME NEW i \in 1 .. n + 1 PROVE reported'[i].sn < g(reported'[i].road)
      <4>1. CASE i = n + 1
        BY <1>1, <1>2, <1>4, <2>2, <2>3, <4>1
      <4>2. CASE i \in 1 .. n
        <5> DEFINE s == reported[i].road
        <5>1. s \in Roads /\ reported[i].sn \in Nat
          BY <1>2, <4>2 DEF n
        <5>2. /\ reported[i].sn < First(s)
              /\ First(s) \in Int /\ g(s) \in Int /\ g(s) >= First(s)
          <6>1. reported[i].sn < First(s)
            BY <2>4, <4>2
          <6>2. First(s) \in Int
            BY <1>2, <5>1
          <6>3. g(s) \in Int /\ g(s) >= First(s)
            BY <1>1, <1>4, <5>1
          <6> QED
            BY <6>1, <6>2, <6>3
        <5>3. reported'[i] = reported[i]
          BY <2>3, <4>2
        <5> HIDE DEF s
        <5>4. reported[i].sn < g(s)
          BY <5>1, <5>2
        <5> QED
          BY <5>3, <5>4 DEF s
      <4> QED
        BY <1>2, <4>1, <4>2 DEF n
    <3> QED
      BY <1>10, <2>1, <2>3, <3>1
  <2>7. InOrderOnce'
    <3>1. ASSUME NEW i \in 1 .. n + 1, NEW j \in 1 .. n + 1, i < j,
                 reported'[i].road = reported'[j].road
          PROVE  reported'[i].sn < reported'[j].sn
      <4>1. i \in 1 .. n
        BY <1>2, <3>1 DEF n
      <4>2. CASE j = n + 1
        <5>1. reported'[i] = reported[i] /\ reported'[j] = cur
          BY <2>3, <4>1, <4>2
        <5>2. reported[i].road = road
          BY <2>2, <3>1, <5>1
        <5> QED
          BY <2>4, <4>1, <5>1, <5>2, Zenon
      <4>3. CASE j \in 1 .. n
        BY <1>2, <2>3, <3>1, <4>1, <4>3 DEF InOrder, InOrderOnce, n
      <4> QED
        BY <1>2, <4>2, <4>3 DEF n
    <3> QED
      BY <2>3, <3>1 DEF InOrderOnce
  <2> QED
    BY <1>1, <2>5, <2>6, <2>7 DEF InOrder
<1> QED
  <2>1. ASSUME NEW r \in Roads, NEW status \in Statuses, PushI(r, status)
        PROVE  UNCHANGED <<pc, road, cur, reported>>
    BY <2>1 DEF PushI, threadVars, outputVars
  <2>2. CASE RunTask \/ NextWindow \/ Skip
    BY <1>6, <2>2 DEF RunTask, NextWindow, Skip, outputVars
  <2>3. CASE Report
    BY <1>6, <1>9, <2>3 DEF Report
  <2>4. CASE PopO \/ UNCHANGED vars
    BY <1>5, <2>4 DEF PopO, vars, threadVars, outputVars
  <2> QED
    BY <1>5, <1>7, <1>8, <2>1, <2>2, <2>3, <2>4 DEF Next, TaskI

(* The messages of a device are reported in order and once, though a push  *)
(* into a full window may slip between the read and the erasure.           *)
THEOREM InOrderOnceHolds == Spec => []InOrderOnce
<1>1. Init => InOrder
  <2> SUFFICES ASSUME Init PROVE InOrder
    OBVIOUS
  <2>1. reported = <<>> /\ \A r \in Roads : i_queue_vector[r] = <<>>
    BY DEF Init
  <2>2. DOMAIN reported = {} /\ pc = "wait"
    BY <2>1 DEF Init
  <2>3. \A r \in Roads : 1 .. Len(i_queue_vector[r]) = {}
    BY <2>1
  <2> QED
    BY <2>2, <2>3 DEF InOrder, Windows, LastOf, Current, Past, InOrderOnce
<1>2. InOrder => InOrderOnce
  BY DEF InOrder
<1> QED
  BY <1>1, <1>2, TypeCorrect, InOrderStep, PTL DEF Spec

-----------------------------------------------------------------------------
(* Between reading and erasing, a message is seen and in its window.       *)
Twice(r) == IF pc = "erase" /\ road = r THEN 1 ELSE 0

Losses ==
  \A r \in Roads :
    pushed[r] - seen[r] - Len(i_queue_vector[r]) + Twice(r) <= overruns[r]

(* A push adds one message to those sent; the window grows, or one more    *)
(* push has found it full.                                                 *)
LEMMA PushBalance ==
  ASSUME NEW p \in Nat, NEW s \in Nat, NEW n \in Nat, NEW o \in Nat,
         NEW t \in 0 .. 1, NEW d \in 0 .. 1, p - s - n + t <= o
  PROVE  p + 1 - s - (n + 1 - d) + t <= o + d
  OBVIOUS

LEMMA LossesStep == TypeOK /\ TypeOK' /\ Losses /\ [Next]_vars => Losses'
<1> SUFFICES ASSUME TypeOK, TypeOK', Losses, [Next]_vars,
                    NEW r \in Roads
             PROVE  (pushed[r] - seen[r] - Len(i_queue_vector[r]) + Twice(r) <= overruns[r])'
  BY DEF Losses
<1> DEFINE n == Len(i_queue_vector[r])
<1>1. /\ pushed[r] \in Nat /\ seen[r] \in Nat /\ overruns[r] \in Nat
      /\ i_queue_vector[r] \in Seq(Message) /\ n \in Nat /\ n <= Cap
  BY DEF TypeOK
<1>2. pushed[r] - seen[r] - n + Twice(r) <= overruns[r]
  BY DEF Losses
<1>3. CASE UNCHANGED <<i_queue_vector, pushed, overruns, seen>> /\ pc' # "erase"
  BY <1>1, <1>2, <1>3 DEF Twice
<1>4. ASSUME NEW s \in Roads, NEW status \in Statuses, PushI(s, status)
      PROVE  (pushed[r] - seen[r] - Len(i_queue_vector[r]) + Twice(r) <= overruns[r])'
  <2> DEFINE m == [road |-> s, sn |-> pushed[s], alarmStatus |-> status]
  <2>1. m \in Message
    BY DEF Message, TypeOK
  <2>2. /\ i_queue_vector' = [i_queue_vector EXCEPT ![s] = Slide(@, m)]
        /\ pushed' = [pushed EXCEPT ![s] = @ + 1]
        /\ overruns' = [overruns EXCEPT ![s] = IF Full(i_queue_vector[s]) THEN @ + 1 ELSE @]
        /\ UNCHANGED <<pc, road, seen>>
    BY <1>4 DEF PushI, threadVars
  <2>3. /\ i_queue_vector \in [Roads -> Seq(Message)]
        /\ pushed \in [Roads -> Nat] /\ overruns \in [Roads -> Nat]
    BY DEF TypeOK
  <2> HIDE DEF m
  <2>4. Twice(r)' = Twice(r)
    BY <2>2 DEF Twice
  <2>5. CASE s # r
    <3>1. /\ i_queue_vector'[r] = i_queue_vector[r] /\ pushed'[r] = pushed[r]
          /\ overruns'[r] = overruns[r] /\ seen'[r] = seen[r]
      BY <2>2, <2>3, <2>5
    <3> QED
      BY <1>2, <2>4, <3>1
  <2>6. CASE s = r
    <3>1. Len(Slide(i_queue_vector[r], m)) = IF Full(i_queue_vector[r]) THEN n ELSE n + 1
      BY <1>1, <2>1, SlideIs
    <3>2. /\ i_queue_vector'[r] = Slide(i_queue_vector[r], m)
          /\ pushed'[r] = pushed[r] + 1
          /\ overruns'[r] = IF Full(i_queue_vector[r]) THEN overruns[r] + 1 ELSE overruns[r]
          /\ seen'[r] = seen[r]
      BY <2>2, <2>3, <2>6
    <3>3. Twice(r) \in 0 .. 1
      BY DEF Twice
    <3> HIDE DEF n
    <3>4. pushed'[r] - seen'[r] - Len(i_queue_vector'[r]) + Twice(r) <= overruns'[r]
      <4>1. PICK d \in 0 .. 1 :
              /\ Len(i_queue_vector'[r]) = n + 1 - d /\ overruns'[r] = overruns[r] + d
        <5>1. CASE Full(i_queue_vector[r])
          BY <1>1, <3>1, <3>2, <5>1
        <5>2. CASE ~Full(i_queue_vector[r])
          BY <1>1, <3>1, <3>2, <5>2
        <5> QED
          BY <5>1, <5>2
      <4>2. pushed'[r] = pushed[r] + 1 /\ seen'[r] = seen[r]
        BY <3>2
      <4>3. Twice(r) \in 0 .. 1
        BY <3>3
      <4>4. pushed[r] + 1 - seen[r] - (n + 1 - d) + Twice(r) <= overruns[r] + d
        BY <1>1, <1>2, <4>3, PushBalance
      <4>5. Len(i_queue_vector'[r]) = n + 1 - d
        BY <4>1
      <4>6. overruns'[r] = overruns[r] + d
        BY <4>1
      <4>7. pushed'[r] - seen'[r] - Len(i_queue_vector'[r]) + Twice(r)
                 = pushed[r] + 1 - seen[r] - (n + 1 - d) + Twice(r)
        BY <1>1, <4>2, <4>3, <4>5
      <4> QED
        BY <4>4, <4>6, <4>7
    <3> QED
      BY <2>4, <3>4
  <2> QED
    BY <2>5, <2>6
<1>5. CASE GetIndex
  <2>1. /\ pc = "look" /\ pc' = "erase" /\ seen' = [seen EXCEPT ![road] = @ + 1]
        /\ UNCHANGED <<road, i_queue_vector, pushed, overruns>>
    BY <1>5 DEF GetIndex, windowVars
  <2>2. seen'[r] = IF r = road THEN seen[r] + 1 ELSE seen[r]
    BY <2>1 DEF TypeOK
  <2>3. Twice(r) = 0 /\ Twice(r)' = IF r = road THEN 1 ELSE 0
    BY <2>1 DEF Twice
  <2> QED
    BY <1>1, <1>2, <2>1, <2>2, <2>3
<1>6. CASE EraseBegin
  <2>1. /\ pc = "erase" /\ pc' = "report"
        /\ i_queue_vector' = [i_queue_vector EXCEPT ![road] = Tail(@)]
        /\ UNCHANGED <<road, seen, pushed, overruns>>
    BY <1>6 DEF EraseBegin
  <2>2. Twice(r)' = 0 /\ Twice(r) = IF r = road THEN 1 ELSE 0
    BY <2>1 DEF Twice
  <2>3. CASE r # road
    <3>1. i_queue_vector'[r] = i_queue_vector[r]
      BY <2>1, <2>3 DEF TypeOK
    <3> QED
      BY <1>1, <1>2, <2>1, <2>2, <2>3, <3>1
  <2>4. CASE r = road
    <3>1. i_queue_vector[r] # <<>> /\ i_queue_vector'[r] = Tail(i_queue_vector[r])
      BY <2>1, <2>4 DEF TypeOK
    <3>2. Len(i_queue_vector'[r]) = n - 1
      BY <1>1, <3>1
    <3> HIDE DEF n
    <3>3. pushed[r] - seen[r] - (n - 1) + 0 <= overruns[r]
      BY <1>1, <1>2, <2>2, <2>4
    <3> QED
      BY <2>1, <2>2, <3>2, <3>3
  <2> QED
    BY <2>3, <2>4
<1>7. CASE UNCHANGED <<i_queue_vector, pushed, overruns, seen, pc, road>>
  BY <1>2, <1>7 DEF Twice
<1> QED
  <2>1. CASE RunTask \/ NextWindow \/ Skip \/ Report
    BY <1>3, <2>1 DEF RunTask, NextWindow, Skip, Report, windowVars
  <2>2. CASE PopO \/ UNCHANGED vars
    BY <1>7, <2>2 DEF PopO, vars, threadVars, windowVars
  <2> QED
    BY <1>4, <1>5, <1>6, <2>1, <2>2 DEF Next, TaskI

(* No message is lost by the race between reading and erasing a head that  *)
(* a push into the full window has not paid for.                           *)
THEOREM OneLossPerOverrunHolds == Spec => []OneLossPerOverrun
<1>1. Init => Losses
  <2> SUFFICES ASSUME Init, NEW r \in Roads
               PROVE  pushed[r] - seen[r] - Len(i_queue_vector[r]) + Twice(r) <= overruns[r]
    BY DEF Losses
  <2>1. /\ pushed[r] = 0 /\ seen[r] = 0 /\ overruns[r] = 0
        /\ Len(i_queue_vector[r]) = 0 /\ Twice(r) = 0
    BY DEF Init, Twice
  <2> QED
    BY <2>1
<1>2. TypeOK /\ Losses => OneLossPerOverrun
  <2> SUFFICES ASSUME TypeOK, Losses, NEW r \in Roads
               PROVE  pushed[r] - seen[r] - Len(i_queue_vector[r]) <= overruns[r]
    BY DEF OneLossPerOverrun
  <2>1. /\ pushed[r] \in Nat /\ seen[r] \in Nat /\ overruns[r] \in Nat
        /\ Len(i_queue_vector[r]) \in Nat /\ Twice(r) \in 0 .. 1
    BY DEF TypeOK, Twice
  <2>2. pushed[r] - seen[r] - Len(i_queue_vector[r]) + Twice(r) <= overruns[r]
    BY DEF Losses
  <2> QED
    BY <2>1, <2>2
<1> QED
  BY <1>1, <1>2, TypeCorrect, LossesStep, PTL DEF Spec

-----------------------------------------------------------------------------
(* The status a unit that reports changes knows is the one it reported     *)
(* last, unless the output queue has dropped one since.                    *)
Known ==
  /\ ReportsChanges
  /\ business = "changes" /\ reported # <<>> =>
       \/ alarmStatus = reported[Len(reported)].alarmStatus
       \/ Len(reported) \in dropsAfter

LEMMA KnownStep == TypeOK /\ Known /\ [Next]_vars => Known'
<1> SUFFICES ASSUME TypeOK, Known, [Next]_vars PROVE Known'
  OBVIOUS
<1>1. CASE UNCHANGED <<business, reported, dropsAfter, alarmStatus>>
  BY <1>1 DEF Known, ReportsChanges
<1>2. CASE Report
  <2>1. business' = business
    BY <1>2 DEF Report
  <2>2. CASE business # "changes"
    BY <2>1, <2>2 DEF Known, ReportsChanges
  <2>3. CASE business = "changes"
    <3> DEFINE n == Len(reported)
    <3>1. /\ reported \in Seq(Message) /\ cur \in Message /\ n \in Nat
      BY <1>2 DEF Report, TypeOK
    <3>2. alarmStatus # cur.alarmStatus /\ alarmStatus' = cur.alarmStatus
      BY <1>2, <2>3 DEF Report, Remembered
    <3>3. \A i \in 1 .. n - 1 :
            reported[i].alarmStatus = reported[i + 1].alarmStatus => i \in dropsAfter
      BY <2>3 DEF Known, ReportsChanges
    <3>4. n # 0 => alarmStatus = reported[n].alarmStatus \/ n \in dropsAfter
      BY <2>3, <3>1 DEF Known
    <3>5. CASE HasRoom(o_queue)
      <4>1. reported' = Append(reported, cur) /\ dropsAfter' = dropsAfter
        BY <1>2, <3>5 DEF Report
      <4>2. /\ Len(reported') = n + 1 /\ reported' # <<>> /\ reported'[n + 1] = cur
            /\ \A i \in 1 .. n : reported'[i] = reported[i]
        BY <3>1, <4>1
      <4> HIDE DEF n
      <4>3. ASSUME NEW i \in 1 .. n, reported'[i].alarmStatus = reported'[i + 1].alarmStatus
            PROVE  i \in dropsAfter'
        <5>1. CASE i = n
          BY <3>1, <3>2, <3>4, <4>1, <4>2, <4>3, <5>1
        <5>2. CASE i \in 1 .. n - 1
          BY <3>1, <3>3, <4>1, <4>2, <4>3, <5>2
        <5> QED
          BY <3>1, <5>1, <5>2
      <4>4. ReportsChanges'
        BY <3>1, <4>2, <4>3 DEF ReportsChanges
      <4> QED
        BY <3>2, <4>2, <4>4 DEF Known
    <3>6. CASE ~HasRoom(o_queue)
      <4>1. reported' = reported /\ dropsAfter' = dropsAfter \cup {n}
        BY <1>2, <3>6 DEF Report
      <4> QED
        BY <3>3, <4>1 DEF Known, ReportsChanges
    <3> QED
      BY <3>5, <3>6
  <2> QED
    BY <2>2, <2>3
<1> QED
  <2>1. ASSUME NEW r \in Roads, NEW status \in Statuses, PushI(r, status)
        PROVE  UNCHANGED <<business, reported, dropsAfter, alarmStatus>>
    BY <2>1 DEF PushI, threadVars, outputVars
  <2>2. CASE RunTask \/ GetIndex \/ NextWindow \/ EraseBegin \/ Skip
    BY <1>1, <2>2 DEF RunTask, GetIndex, NextWindow, EraseBegin, Skip, outputVars
  <2>3. CASE PopO \/ UNCHANGED vars
    BY <1>1, <2>3 DEF PopO, vars, threadVars, outputVars
  <2> QED
    BY <1>1, <1>2, <2>1, <2>2, <2>3 DEF Next, TaskI

(* A unit that reports changes reports a status again only after the       *)
(* output queue has dropped the change in between.                         *)
THEOREM ReportsChangesHolds == Spec => []ReportsChanges
<1>1. Init => Known
  <2> SUFFICES ASSUME Init PROVE Known
    OBVIOUS
  <2>1. reported = <<>> /\ 1 .. Len(reported) - 1 = {}
    BY DEF Init
  <2> QED
    BY <2>1 DEF Known, ReportsChanges
<1>2. Known => ReportsChanges
  BY DEF Known
<1> QED
  BY <1>1, <1>2, TypeCorrect, KnownStep, PTL DEF Spec
=============================================================================
