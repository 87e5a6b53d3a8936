--------------------------- MODULE DataUnit_proofs ---------------------------
(***************************************************************************)
(* What DataUnit promises for every number of roads, capacity, frame       *)
(* interval and behaviour of the devices.                                  *)
(*                                                                         *)
(* The argument rests on one fact about time: reference timestamps are at  *)
(* least Fs apart, and a frame is collected only within Fs of one.  It     *)
(* needs to know, in the middle of a scan, which roads were last matched   *)
(* under the present reference and which under an earlier one: that is     *)
(* RoadTimesBounded below.                                                 *)
(*                                                                         *)
(* What a collection lacks is another argument (SInv): it follows the scan *)
(* through the windows of the roads no push has raced with.                *)
(*                                                                         *)
(* What leaves the unit keeps the order of the references (QueuedBefore).  *)
(***************************************************************************)
EXTENDS DataUnit, TLAPS

LEMMA OffsetInNat == Offset \in Nat
  BY DataUnitAssumption DEF Offset

(* Vector::push keeps a window a sequence of frames of bounded length.     *)
LEMMA SlideBounded ==
  ASSUME NEW S, NEW q \in Seq(S), NEW f \in S, Len(q) <= Cap
  PROVE  Slide(q, f) \in Seq(S) /\ Len(Slide(q, f)) <= Cap
<1>1. Append(q, f) \in Seq(S) /\ Len(Append(q, f)) = Len(q) + 1
  OBVIOUS
<1>2. Append(q, f) # <<>>
  BY <1>1
<1>3. Tail(Append(q, f)) \in Seq(S) /\ Len(Tail(Append(q, f))) = Len(q)
  BY <1>1, <1>2
<1> QED
  BY <1>1, <1>3, DataUnitAssumption DEF Slide

LEMMA AtIsFrame ==
  ASSUME TypeOK, NEW r, NEW i \in Nat, HasIndex(r, i)
  PROVE  At(r, i) \in Frame /\ At(r, i).timestamp \in Nat /\ r \in Roads
<1>1. r \in Roads /\ i < Len(i_queue_vector[r])
  BY DEF HasIndex
<1>2. i_queue_vector[r] \in Seq(Frame)
  BY <1>1 DEF TypeOK
<1>3. i + 1 \in 1 .. Len(i_queue_vector[r])
  BY <1>1, <1>2
<1>4. At(r, i) \in Frame
  BY <1>2, <1>3 DEF At
<1> QED
  BY <1>1, <1>4, DataUnitAssumption DEF Frame

-----------------------------------------------------------------------------
(* Every variable keeps its type: what the connection threads, the tI      *)
(* thread and the tO thread write.                                         *)
THEOREM TypeCorrect == Spec => []TypeOK
<1>1. Init => TypeOK
  <2> SUFFICES ASSUME Init PROVE TypeOK
    OBVIOUS
  <2> USE DataUnitAssumption DEF Init, Roads, ScanFrom
  <2>1. i_queue_vector \in [Roads -> Seq(Frame)]
    OBVIOUS
  <2>2. \A r \in Roads : Len(i_queue_vector[r]) <= Cap
    OBVIOUS
  <2>3. o_queue \in Seq(Collection) /\ Len(o_queue) <= Cap
    OBVIOUS
  <2> QED
    BY <2>1, <2>2, <2>3 DEF TypeOK
<1>2. TypeOK /\ [Next]_vars => TypeOK'
  <2> SUFFICES ASSUME TypeOK, [Next]_vars PROVE TypeOK'
    OBVIOUS
  <2> USE DataUnitAssumption
  <2>1. ASSUME NEW r \in Roads, NEW t \in Timestamps, PushI(r, t)
        PROVE  TypeOK'
    <3> DEFINE f == [road |-> r, sn |-> pushed[r], timestamp |-> t]
    <3>1. f \in Frame
      BY DEF TypeOK, Frame
    <3>2. /\ i_queue_vector[r] \in Seq(Frame)
          /\ Len(i_queue_vector[r]) <= Cap
      BY DEF TypeOK
    <3>3. Slide(i_queue_vector[r], f) \in Seq(Frame)
          /\ Len(Slide(i_queue_vector[r], f)) <= Cap
      BY <3>1, <3>2, SlideBounded
    <3>4. i_queue_vector' = [i_queue_vector EXCEPT ![r] = Slide(@, f)]
      BY <2>1 DEF PushI
    <3> HIDE DEF f
    <3>5. i_queue_vector' \in [Roads -> Seq(Frame)]
      BY <3>3, <3>4 DEF TypeOK
    <3>6. \A s \in Roads : Len(i_queue_vector'[s]) <= Cap
      BY <3>3, <3>4 DEF TypeOK
    <3>7. pushed' \in [Roads -> Nat] /\ raced' \in SUBSET Roads
      BY <2>1 DEF PushI, TypeOK
    <3> QED
      BY <2>1, <3>5, <3>6, <3>7 DEF PushI, TypeOK
  <2>2. CASE RunTask
    <3>1. i_maxSizeIndex' \in -1 .. NumI
      <4>1. CASE i_maxSizeIndex = -1
        <5>1. PICK r \in Roads : i_maxSizeIndex' = r
          BY <2>2, <4>1 DEF RunTask
        <5> QED
          BY <5>1 DEF Roads
      <4>2. CASE i_maxSizeIndex # -1
        BY <2>2, <4>2 DEF RunTask, TypeOK
      <4> QED
        BY <4>1, <4>2
    <3>2. /\ pc' = "refer"
          /\ UNCHANGED <<taskSearchCount, timestampStore, xRoadTimestamp, oneFrame,
                         fusionData, o_queue, scan, outputs, inputVars>>
      BY <2>2 DEF RunTask
    <3> QED
      BY <3>1, <3>2 DEF TypeOK, inputVars
  <2>3. ASSUME SwitchRoad PROVE i_maxSizeIndex' \in -1 .. NumI /\ taskSearchCount' \in Nat
    BY <2>3 DEF SwitchRoad, NextIndex, TypeOK
  <2>4. CASE ReferMissing
    BY <2>3, <2>4 DEF ReferMissing, TypeOK, inputVars
  <2>5. CASE ReferTooEarly
    BY <2>3, <2>5 DEF ReferTooEarly, TypeOK, inputVars
  <2>6. CASE ReferTaken
    <3>1. timestampStore' \in Nat
      BY <2>6, OffsetInNat, AtIsFrame DEF ReferTaken
    <3>2. oneFrame' \in [Roads -> Frame \cup {NoFrame}]
      BY <2>6 DEF ReferTaken, Emptied
    <3>3. scan' \in [road : 0 .. NumI, index : Nat] /\ scan'.road \in Roads
      BY <2>6 DEF ReferTaken, ScanFrom, Roads
    <3> QED
      BY <2>6, <3>1, <3>2, <3>3 DEF ReferTaken, TypeOK
  <2>7. ASSUME NextRoad, pc = "scan"
        PROVE  /\ scan' \in [road : 0 .. NumI, index : Nat]
               /\ pc' \in {"scan", "process"}
               /\ pc' = "scan" => scan'.road \in Roads
    BY <2>7 DEF NextRoad, ScanFrom, TypeOK, Roads
  <2>8. CASE ScanHit
    <3> DEFINE f == At(scan.road, scan.index)
    <3>1. f \in Frame /\ f.timestamp \in Nat /\ scan.road \in Roads
      BY <2>8, AtIsFrame DEF ScanHit, TypeOK
    <3>2. /\ xRoadTimestamp' = [xRoadTimestamp EXCEPT ![scan.road] = f.timestamp]
          /\ oneFrame' = [oneFrame EXCEPT ![scan.road] = f]
      BY <2>8 DEF ScanHit
    <3> HIDE DEF f
    <3>3. /\ xRoadTimestamp' \in [Roads -> Nat]
          /\ oneFrame' \in [Roads -> Frame \cup {NoFrame}]
      BY <3>1, <3>2 DEF TypeOK
    <3> QED
      BY <2>7, <2>8, <3>3 DEF ScanHit, TypeOK, inputVars
  <2>9. CASE ScanMiss
    <3>1. scan \in [road : 0 .. NumI, index : Nat] /\ scan.road \in Roads
      BY <2>9 DEF ScanMiss, TypeOK
    <3>2. scan' = [scan EXCEPT !.index = @ + 1]
      BY <2>9 DEF ScanMiss
    <3>3. scan' \in [road : 0 .. NumI, index : Nat] /\ scan'.road \in Roads
      BY <3>1, <3>2
    <3>4. /\ pc' = "scan"
          /\ UNCHANGED <<i_maxSizeIndex, taskSearchCount, timestampStore, fusionData,
                         xRoadTimestamp, oneFrame, o_queue, outputs, inputVars>>
      BY <2>9 DEF ScanMiss
    <3> QED
      BY <3>3, <3>4 DEF TypeOK, inputVars
  <2>10. CASE ScanEnd
    BY <2>7, <2>10 DEF ScanEnd, TypeOK, inputVars
  <2>11. CASE TaskProcessOneFrame
    <3>1. Matched \in SUBSET Frame
      BY DEF Matched, TypeOK
    <3>2. fusionData' \in SUBSET Frame
      BY <2>11, <3>1 DEF TaskProcessOneFrame, TypeOK
    <3>3. [timestamp |-> timestampStore, frames |-> fusionData'] \in Collection
      BY <3>2 DEF Collection, TypeOK
    <3>4. o_queue' \in Seq(Collection) /\ Len(o_queue') <= Cap
      BY <2>11, <3>3 DEF TaskProcessOneFrame, TypeOK
    <3>5. outputs' \in SUBSET Collection
      BY <2>11, <3>1 DEF TaskProcessOneFrame, TypeOK, Collection
    <3> QED
      BY <2>11, <3>2, <3>4, <3>5 DEF TaskProcessOneFrame, TypeOK
  <2>12. CASE TaskO
    <3>1. o_queue' \in Seq(Collection) /\ Len(o_queue') <= Cap
      BY <2>12 DEF TaskO, TypeOK
    <3> QED
      BY <2>12, <3>1 DEF TaskO, TypeOK, inputVars
  <2>13. CASE UNCHANGED vars
    BY <2>13 DEF vars, TypeOK
  <2> QED
    BY <2>1, <2>2, <2>4, <2>5, <2>6, <2>8, <2>9, <2>10, <2>11, <2>12, <2>13
    DEF Next, TaskI
<1> QED
  BY <1>1, <1>2, PTL DEF Spec

-----------------------------------------------------------------------------
(* Where the frames of a search are in time.                               *)

Searching == pc \in {"scan", "process"}

(* Every collection is earlier than the search under way, by Fs or more.   *)
OutputsBefore ==
  \A o \in outputs :
    /\ o.timestamp <= timestampStore
    /\ Searching => o.timestamp + Fs <= timestampStore

OutputsApart ==
  \A a, b \in outputs :
    a # b => a.timestamp + Fs <= b.timestamp \/ b.timestamp + Fs <= a.timestamp

OutputsInRange ==
  \A o \in outputs : \A f \in o.frames : InRange(f, o.timestamp)

MatchedInRange ==
  Searching => \A r \in Roads :
                 oneFrame[r] # NoFrame => InRange(oneFrame[r], timestampStore)

(* A road the scan has not come to was last matched by an earlier search.  *)
RoadTimesBounded ==
  \A r \in Roads :
    /\ xRoadTimestamp[r] < timestampStore + Fs
    /\ pc = "scan" /\ scan.road <= r => xRoadTimestamp[r] < timestampStore

IInv == /\ TypeOK
        /\ OutputsBefore
        /\ OutputsApart
        /\ OutputsInRange
        /\ MatchedInRange
        /\ RoadTimesBounded

(* The range test of ThreadGetDataInRange, as an interval.                 *)
LEMMA InRangeBounds ==
  ASSUME NEW f, f.timestamp \in Nat, NEW t \in Nat
  PROVE  InRange(f, t) <=> t < f.timestamp + Fs /\ f.timestamp < t + Fs
  BY DataUnitAssumption DEF InRange, Abs

LEMMA MatchedFrames ==
  ASSUME TypeOK, MatchedInRange, Searching
  PROVE  /\ Matched \in SUBSET Frame
         /\ \A f \in Matched : InRange(f, timestampStore)
  BY DEF TypeOK, MatchedInRange, Matched

(* The inductive invariant: at the beginning, and kept by every step.      *)
LEMMA IInvInit == Init /\ TypeOK => IInv
  BY DataUnitAssumption
  DEF Init, IInv, OutputsBefore, OutputsApart, OutputsInRange, MatchedInRange,
      RoadTimesBounded, Searching

LEMMA IInvStep == IInv /\ TypeOK' /\ [Next]_vars => IInv'
<1> SUFFICES ASSUME IInv, TypeOK', [Next]_vars PROVE IInv'
  OBVIOUS
<1> USE DataUnitAssumption
<1>t. TypeOK /\ Fs \in Nat /\ Fs > 0 /\ timestampStore \in Nat
      /\ xRoadTimestamp \in [Roads -> Nat] /\ outputs \in SUBSET Collection
  BY DEF IInv, TypeOK
(* The steps that leave time and collections alone and begin no search.    *)
<1>1. ASSUME UNCHANGED <<timestampStore, xRoadTimestamp, oneFrame, outputs>>,
             \/ pc' = pc /\ scan' = scan
             \/ pc' \in {"wait", "refer"}
             \/ pc = "scan" /\ pc' = "scan" /\ scan'.road = scan.road
      PROVE  IInv'
  <2>1. OutputsBefore' /\ MatchedInRange'
    BY <1>1 DEF IInv, OutputsBefore, MatchedInRange, Searching, InRange
  <2>2. OutputsApart' /\ OutputsInRange'
    BY <1>1 DEF IInv, OutputsApart, OutputsInRange, InRange
  <2>3. RoadTimesBounded'
    BY <1>1 DEF IInv, RoadTimesBounded
  <2> QED
    BY <2>1, <2>2, <2>3 DEF IInv
<1>2. ASSUME NEW r \in Roads, NEW t \in Timestamps, PushI(r, t) PROVE IInv'
  BY <1>1, <1>2 DEF PushI
<1>3. CASE RunTask
  BY <1>1, <1>3 DEF RunTask
<1>4. CASE ReferMissing
  BY <1>1, <1>4 DEF ReferMissing
<1>5. CASE ReferTooEarly
  BY <1>1, <1>5 DEF ReferTooEarly
<1>6. CASE ReferTaken
  <2>1. timestampStore' \in Nat /\ timestampStore + Fs <= timestampStore'
    <3> DEFINE f == At(i_maxSizeIndex, Offset)
    <3>1. f.timestamp \in Nat /\ ~TooEarly(f) /\ timestampStore' = f.timestamp
      BY <1>6, <1>t, OffsetInNat, AtIsFrame DEF ReferTaken
    <3> QED
      BY <3>1, <1>t DEF TooEarly
  <2>2. /\ outputs' = outputs /\ xRoadTimestamp' = xRoadTimestamp
        /\ oneFrame' = Emptied /\ pc' = "scan"
    BY <1>6 DEF ReferTaken
  <2>3. OutputsBefore'
    BY <2>1, <2>2, <1>t DEF IInv, OutputsBefore, Collection
  <2>4. OutputsApart' /\ OutputsInRange'
    BY <2>2 DEF IInv, OutputsApart, OutputsInRange, InRange
  <2>5. MatchedInRange'
    BY <2>2 DEF MatchedInRange, Emptied
  <2>6. RoadTimesBounded'
    BY <2>1, <2>2, <1>t DEF IInv, RoadTimesBounded
  <2> QED
    BY <2>3, <2>4, <2>5, <2>6 DEF IInv
<1>7. ASSUME NextRoad, pc = "scan"
      PROVE  /\ pc' \in {"scan", "process"}
             /\ pc' = "scan" => scan'.road = scan.road + 1
  BY <1>7 DEF NextRoad, ScanFrom
<1>8. scan.road \in Int
  BY <1>t DEF TypeOK
<1>9. CASE ScanHit
  <2> DEFINE f == At(scan.road, scan.index)
  <2>1. /\ f \in Frame /\ f.timestamp \in Nat /\ scan.road \in Roads
        /\ InRange(f, timestampStore)
        /\ xRoadTimestamp' = [xRoadTimestamp EXCEPT ![scan.road] = f.timestamp]
        /\ oneFrame' = [oneFrame EXCEPT ![scan.road] = f]
    BY <1>9, <1>t, AtIsFrame DEF ScanHit, TypeOK
  <2> HIDE DEF f
  <2>2. UNCHANGED <<timestampStore, outputs>> /\ pc = "scan" /\ NextRoad
    BY <1>9 DEF ScanHit
  <2>3. OutputsBefore' /\ OutputsApart' /\ OutputsInRange'
    BY <1>7, <2>2
    DEF IInv, OutputsBefore, OutputsApart, OutputsInRange, InRange, Searching
  <2>4. MatchedInRange'
    <3> SUFFICES ASSUME NEW r \in Roads, oneFrame'[r] # NoFrame
                 PROVE  InRange(oneFrame'[r], timestampStore)
      BY <2>2 DEF MatchedInRange, InRange
    <3>1. CASE r = scan.road
      BY <3>1, <2>1, <1>t DEF TypeOK
    <3>2. CASE r # scan.road
      <4>1. oneFrame'[r] = oneFrame[r]
        BY <3>2, <2>1, <1>t DEF TypeOK
      <4> QED
        BY <4>1, <2>2 DEF IInv, MatchedInRange, Searching
    <3> QED
      BY <3>1, <3>2
  <2>5. RoadTimesBounded'
    <3> SUFFICES ASSUME NEW r \in Roads
                 PROVE  /\ xRoadTimestamp'[r] < timestampStore + Fs
                        /\ pc' = "scan" /\ scan'.road <= r
                             => xRoadTimestamp'[r] < timestampStore
      BY <2>2 DEF RoadTimesBounded
    <3>0. r \in Int
      BY DEF Roads
    <3>1. CASE r = scan.road
      <4>1. xRoadTimestamp'[r] = f.timestamp
        BY <3>1, <2>1, <1>t
      <4>2. f.timestamp < timestampStore + Fs
        BY <2>1, <1>t, InRangeBounds
      <4>3. ~(pc' = "scan" /\ scan'.road <= r)
        BY <1>7, <1>8, <2>2, <3>1
      <4> QED
        BY <4>1, <4>2, <4>3
    <3>2. CASE r # scan.road
      <4>1. xRoadTimestamp'[r] = xRoadTimestamp[r]
        BY <3>2, <2>1, <1>t
      <4>2. pc' = "scan" /\ scan'.road <= r => scan.road <= r
        BY <1>7, <1>8, <2>2, <3>0
      <4> QED
        BY <4>1, <4>2, <2>2 DEF IInv, RoadTimesBounded
    <3> QED
      BY <3>1, <3>2
  <2> QED
    BY <2>3, <2>4, <2>5 DEF IInv
<1>10. CASE ScanMiss
  <2>1. scan \in [road : 0 .. NumI, index : Nat]
    BY <1>t DEF TypeOK
  <2>2. pc = "scan" /\ pc' = "scan" /\ scan' = [scan EXCEPT !.index = @ + 1]
        /\ UNCHANGED <<timestampStore, xRoadTimestamp, oneFrame, outputs>>
    BY <1>10 DEF ScanMiss
  <2>3. scan'.road = scan.road
    BY <2>1, <2>2
  <2> QED
    BY <1>1, <2>2, <2>3
<1>11. CASE ScanEnd
  <2>1. /\ UNCHANGED <<timestampStore, xRoadTimestamp, oneFrame, outputs>>
        /\ pc = "scan" /\ NextRoad
    BY <1>11 DEF ScanEnd
  <2>2. OutputsBefore' /\ OutputsApart' /\ OutputsInRange' /\ MatchedInRange'
    BY <1>7, <2>1
    DEF IInv, OutputsBefore, OutputsApart, OutputsInRange, MatchedInRange,
        InRange, Searching
  <2>3. RoadTimesBounded'
    <3> SUFFICES ASSUME NEW r \in Roads
                 PROVE  /\ xRoadTimestamp[r] < timestampStore + Fs
                        /\ pc' = "scan" /\ scan'.road <= r
                             => xRoadTimestamp[r] < timestampStore
      BY <2>1 DEF RoadTimesBounded
    <3>1. pc' = "scan" /\ scan'.road <= r => scan.road <= r
      BY <1>7, <1>8, <2>1 DEF Roads
    <3> QED
      BY <3>1, <2>1 DEF IInv, RoadTimesBounded
  <2> QED
    BY <2>2, <2>3 DEF IInv
<1>12. CASE TaskProcessOneFrame
  <2> DEFINE new == [timestamp |-> timestampStore, frames |-> Matched]
  <2>1. /\ outputs' = outputs \cup {new} /\ pc = "process" /\ pc' = "wait"
        /\ UNCHANGED <<timestampStore, xRoadTimestamp, oneFrame, scan>>
    BY <1>12 DEF TaskProcessOneFrame
  <2>2. /\ new.timestamp = timestampStore
        /\ \A f \in new.frames : InRange(f, new.timestamp)
    BY <1>t, <2>1, MatchedFrames DEF IInv, Searching
  <2> HIDE DEF new
  <2>3. \A o \in outputs : o.timestamp \in Nat /\ o.timestamp + Fs <= timestampStore
    BY <1>t, <2>1 DEF IInv, OutputsBefore, Searching, Collection
  <2>4. OutputsBefore'
    BY <1>t, <2>1, <2>2, <2>3 DEF OutputsBefore, Searching
  <2>5. OutputsApart'
    BY <2>1, <2>2, <2>3 DEF IInv, OutputsApart
  <2>6. OutputsInRange'
    BY <2>1, <2>2 DEF IInv, OutputsInRange, InRange
  <2>7. MatchedInRange' /\ RoadTimesBounded'
    BY <2>1 DEF IInv, MatchedInRange, RoadTimesBounded, Searching
  <2> QED
    BY <2>4, <2>5, <2>6, <2>7 DEF IInv
<1>13. CASE TaskO
  BY <1>1, <1>13 DEF TaskO
<1>14. CASE UNCHANGED vars
  BY <1>1, <1>14 DEF vars
<1> QED
  BY <1>2, <1>3, <1>4, <1>5, <1>6, <1>9, <1>10, <1>11, <1>12, <1>13, <1>14
  DEF Next, TaskI

LEMMA IInvCorrect == Spec => []IInv
<1>1. Init /\ TypeOK => IInv
  BY IInvInit
<1>2. IInv /\ TypeOK' /\ [Next]_vars => IInv'
  BY IInvStep
<1> QED
  BY <1>1, <1>2, TypeCorrect, PTL DEF Spec

-----------------------------------------------------------------------------
(* However the roads take turns as the reference and whatever timestamps   *)
(* the devices send, FindOneFrame puts no frame in three collections.      *)
THEOREM NoFrameInThreeCorrect == Spec => []NoFrameInThree
<1>1. IInv => NoFrameInThree
  <2> SUFFICES ASSUME IInv, NEW a \in outputs, NEW b \in outputs, NEW c \in outputs,
                      a # b, b # c, a # c,
                      NEW f \in a.frames \cap b.frames \cap c.frames
               PROVE  FALSE
    BY DEF NoFrameInThree
  <2>1. /\ a.timestamp \in Nat /\ b.timestamp \in Nat /\ c.timestamp \in Nat
        /\ a.frames \in SUBSET Frame
    BY DEF IInv, TypeOK, Collection
  <2>2. f.timestamp \in Nat
    BY <2>1, DataUnitAssumption DEF Frame
  <2>3. /\ InRange(f, a.timestamp)
        /\ InRange(f, b.timestamp)
        /\ InRange(f, c.timestamp)
    BY DEF IInv, OutputsInRange
  <2>4. /\ a.timestamp < f.timestamp + Fs /\ f.timestamp < a.timestamp + Fs
        /\ b.timestamp < f.timestamp + Fs /\ f.timestamp < b.timestamp + Fs
        /\ c.timestamp < f.timestamp + Fs /\ f.timestamp < c.timestamp + Fs
    BY <2>1, <2>2, <2>3, InRangeBounds
  <2>5. /\ a.timestamp + Fs <= b.timestamp \/ b.timestamp + Fs <= a.timestamp
        /\ b.timestamp + Fs <= c.timestamp \/ c.timestamp + Fs <= b.timestamp
        /\ a.timestamp + Fs <= c.timestamp \/ c.timestamp + Fs <= a.timestamp
    BY DEF IInv, OutputsApart
  <2> QED
    BY <2>1, <2>2, <2>4, <2>5, DataUnitAssumption
<1> QED
  BY <1>1, IInvCorrect, PTL

(* ThreadGetDataInRange never takes a road back by a frame interval.       *)
THEOREM RoadNeverBackCorrect == Spec => RoadNeverBackAFrame
<1> DEFINE A == \A r \in Roads : xRoadTimestamp'[r] # xRoadTimestamp[r]
                                   => xRoadTimestamp'[r] > xRoadTimestamp[r] - Fs
<1>1. IInv /\ [Next]_vars => [A]_vars
  <2> SUFFICES ASSUME IInv, [Next]_vars, NEW r \in Roads,
                      xRoadTimestamp'[r] # xRoadTimestamp[r]
               PROVE  xRoadTimestamp'[r] > xRoadTimestamp[r] - Fs
    OBVIOUS
  <2>t. TypeOK
    BY DEF IInv
  <2>1. ScanHit
    BY DEF Next, TaskI, PushI, RunTask, ReferMissing, ReferTooEarly, ReferTaken,
           ScanMiss, ScanEnd, TaskProcessOneFrame, TaskO, vars
  <2> DEFINE f == At(scan.road, scan.index)
  <2>2. /\ f.timestamp \in Nat /\ InRange(f, timestampStore) /\ pc = "scan"
        /\ xRoadTimestamp' = [xRoadTimestamp EXCEPT ![scan.road] = f.timestamp]
    BY <2>1, <2>t, AtIsFrame DEF ScanHit, TypeOK
  <2> HIDE DEF f
  <2>3. r = scan.road /\ xRoadTimestamp'[r] = f.timestamp
    BY <2>2, <2>t DEF TypeOK
  <2>4. scan.road <= r
    BY <2>3 DEF Roads
  <2>5. xRoadTimestamp[r] \in Nat /\ timestampStore \in Nat
    BY <2>t DEF TypeOK
  <2>6. xRoadTimestamp[r] < timestampStore
    BY <2>2, <2>4 DEF IInv, RoadTimesBounded
  <2>7. timestampStore < f.timestamp + Fs
    BY <2>2, <2>5, InRangeBounds
  <2> QED
    BY <2>2, <2>3, <2>5, <2>6, <2>7, DataUnitAssumption
<1> QED
  BY <1>1, IInvCorrect, PTL DEF Spec, RoadNeverBackAFrame

(* A unit that builds its output in a local sends nothing but one frame of *)
(* every road (KeepsOutput is where GetFusionData departs from it).        *)
THEOREM OutputIsOneFrameCorrect ==
  ASSUME ~KeepsOutput
  PROVE  Spec => []OutputIsOneFrame
<1>1. Init => OutputIsOneFrame
  BY DEF Init, OutputIsOneFrame
<1>2. IInv /\ OutputIsOneFrame /\ [Next]_vars => OutputIsOneFrame'
  <2> SUFFICES ASSUME IInv, OutputIsOneFrame, [Next]_vars
               PROVE  OutputIsOneFrame'
    OBVIOUS
  <2>t. TypeOK /\ o_queue \in Seq(Collection)
    BY DEF IInv, TypeOK
  <2>1. CASE o_queue' = o_queue
    BY <2>1 DEF OutputIsOneFrame, InRange
  <2>2. CASE TaskO
    <3>1. /\ o_queue # <<>> /\ o_queue' = Tail(o_queue)
      BY <2>2 DEF TaskO
    <3>2. Len(o_queue') = Len(o_queue) - 1
          /\ \A k \in 1 .. Len(o_queue') : o_queue'[k] = o_queue[k + 1]
      BY <3>1, <2>t
    <3>3. \A k \in 1 .. Len(o_queue') : k + 1 \in 1 .. Len(o_queue)
      BY <3>2, <2>t
    <3> QED
      BY <3>2, <3>3 DEF OutputIsOneFrame, InRange
  <2>3. CASE TaskProcessOneFrame
    <3> DEFINE item == [timestamp |-> timestampStore, frames |-> fusionData']
    <3>1. /\ pc = "process" /\ fusionData' = Matched
          /\ o_queue' = IF Len(o_queue) >= Cap THEN o_queue ELSE Append(o_queue, item)
      BY <2>3 DEF TaskProcessOneFrame
    <3>2. \A f \in item.frames : InRange(f, item.timestamp)
      BY <3>1, MatchedFrames DEF IInv, Searching
    <3> HIDE DEF item
    <3>3. CASE o_queue' = Append(o_queue, item)
      <4>1. Len(o_queue') = Len(o_queue) + 1
            /\ \A k \in 1 .. Len(o_queue') :
                 o_queue'[k] = IF k <= Len(o_queue) THEN o_queue[k] ELSE item
        BY <3>3, <2>t
      <4> QED
        BY <4>1, <3>2, <2>t DEF OutputIsOneFrame, InRange
    <3> QED
      BY <3>1, <3>3, <2>1
  <2> QED
    BY <2>1, <2>2, <2>3
    DEF Next, TaskI, PushI, RunTask, ReferMissing, ReferTooEarly, ReferTaken,
        ScanHit, ScanMiss, ScanEnd, inputVars, vars
<1> QED
  BY <1>1, <1>2, IInvCorrect, PTL DEF Spec

-----------------------------------------------------------------------------
(* What a scan has passed by.  A push during the scan moves the frames of  *)
(* its own road only, and takes that road out of these promises.           *)

(* No frame up to the n-th of a window is in range.                        *)
OutOfRange(q, n, t) == \A k \in 1 .. Len(q) : k <= n => ~InRange(q[k], t)

PassedBy ==
  /\ pc = "scan" => \A r \in Roads \ raced :
                      r < scan.road /\ oneFrame[r] = NoFrame
                        => OutOfRange(i_queue_vector[r], Cap, timestampStore)
  /\ pc = "scan" /\ scan.road \notin raced
       => OutOfRange(i_queue_vector[scan.road], scan.index, timestampStore)
  /\ pc = "process" => \A r \in Roads \ raced :
                         oneFrame[r] = NoFrame
                           => OutOfRange(i_queue_vector[r], Cap, timestampStore)

(* The reference road holds the reference frame all the while.             *)
ReferenceIsThere ==
  Searching /\ i_maxSizeIndex \notin raced =>
    /\ HasIndex(i_maxSizeIndex, Offset)
    /\ At(i_maxSizeIndex, Offset).timestamp = timestampStore

SInv == PassedBy /\ ReferenceIsThere

(* The steps that leave windows and search alone, or are in no search.     *)
LEMMA SearchLeftAlone ==
  ASSUME SInv,
         \/ UNCHANGED <<i_queue_vector, raced, pc, scan, i_maxSizeIndex, oneFrame,
                        timestampStore>>
         \/ pc' \in {"wait", "refer"}
  PROVE  SInv'
  BY DEF SInv, PassedBy, ReferenceIsThere, Searching, HasIndex, At

(* Steps of the scan leave the reference road and its window alone.        *)
LEMMA ReferenceStays ==
  ASSUME SInv, pc = "scan", UNCHANGED <<i_queue_vector, raced, i_maxSizeIndex, timestampStore>>
  PROVE  ReferenceIsThere'
  BY DEF SInv, ReferenceIsThere, Searching, HasIndex, At

LEMMA NewReference ==
  ASSUME TypeOK, ReferTaken
  PROVE  SInv'
<1>1. /\ pc' = "scan" /\ scan' = [road |-> 0, index |-> 0]
      /\ UNCHANGED <<i_queue_vector, i_maxSizeIndex>>
      /\ HasIndex(i_maxSizeIndex, Offset)
      /\ timestampStore' = At(i_maxSizeIndex, Offset).timestamp
  BY DEF ReferTaken, ScanFrom
<1>2. PassedBy'
  <2>1. \A q : OutOfRange(q, 0, timestampStore')
    BY DEF OutOfRange
  <2>2. \A r \in Roads : ~(r < 0)
    BY DEF Roads
  <2>3. scan'.road = 0 /\ scan'.index = 0
    BY <1>1
  <2> QED
    BY <1>1, <2>1, <2>2, <2>3 DEF PassedBy
<1>3. ReferenceIsThere'
  BY <1>1 DEF ReferenceIsThere, HasIndex, At
<1> QED
  BY <1>2, <1>3 DEF SInv

LEMMA PushDuringSearch ==
  ASSUME TypeOK, SInv, NEW r \in Roads, NEW t \in Timestamps, PushI(r, t)
  PROVE  SInv'
<1>1. /\ UNCHANGED <<oneFrame, timestampStore, pc, scan, i_maxSizeIndex>>
      /\ \A s \in Roads : s # r => i_queue_vector'[s] = i_queue_vector[s]
      /\ Searching => raced' = raced \cup {r}
  BY DEF PushI, TypeOK, Searching
<1>2. pc = "scan" => scan.road \in Roads
  BY DEF TypeOK
<1>3. PassedBy'
  BY <1>1, <1>2 DEF SInv, PassedBy, Searching
<1>4. ReferenceIsThere'
  BY <1>1 DEF SInv, ReferenceIsThere, Searching, HasIndex, At
<1> QED
  BY <1>3, <1>4 DEF SInv

(* The scan goes on to the next road: the one it leaves has a frame in the *)
(* collection, or none in range.                                           *)
LEMMA LeavesRoad ==
  ASSUME TypeOK, SInv, pc = "scan", NextRoad,
         UNCHANGED <<i_queue_vector, raced, i_maxSizeIndex, timestampStore>>,
         \A r \in Roads : r # scan.road => oneFrame'[r] = oneFrame[r],
         scan.road \notin raced /\ oneFrame'[scan.road] = NoFrame
           => OutOfRange(i_queue_vector[scan.road], Cap, timestampStore)
  PROVE  SInv'
<1>1. /\ scan' = [road |-> scan.road + 1, index |-> 0]
      /\ pc' = IF scan.road + 1 = NumI THEN "process" ELSE "scan"
  BY DEF NextRoad, ScanFrom
<1>2. scan'.road = scan.road + 1 /\ scan'.index = 0 /\ scan.road \in Int
  BY <1>1 DEF TypeOK
<1>3. ASSUME NEW r \in Roads \ raced, r < scan.road + 1, oneFrame'[r] = NoFrame
      PROVE  OutOfRange(i_queue_vector[r], Cap, timestampStore)
  <2>1. r < scan.road \/ r = scan.road
    BY <1>2, <1>3 DEF Roads
  <2>2. CASE r = scan.road
    BY <1>3, <2>2
  <2>3. CASE r < scan.road
    <3>1. oneFrame[r] = NoFrame
      BY <1>2, <1>3, <2>3 DEF Roads
    <3> QED
      BY <2>3, <3>1 DEF SInv, PassedBy
  <2> QED
    BY <2>1, <2>2, <2>3
<1>4. \A q : OutOfRange(q, 0, timestampStore)
  BY DEF OutOfRange
<1>5. scan.road + 1 = NumI => \A r \in Roads : r < scan.road + 1
  BY DataUnitAssumption DEF Roads
<1>6. PassedBy'
  BY <1>1, <1>2, <1>3, <1>4, <1>5 DEF PassedBy
<1> QED
  BY <1>6, ReferenceStays DEF SInv

LEMMA HitKeeps ==
  ASSUME TypeOK, SInv, ScanHit
  PROVE  SInv'
<1> DEFINE f == At(scan.road, scan.index)
<1>1. /\ pc = "scan" /\ NextRoad /\ oneFrame' = [oneFrame EXCEPT ![scan.road] = f]
      /\ UNCHANGED <<i_queue_vector, raced, i_maxSizeIndex, timestampStore>>
  BY DEF ScanHit, inputVars
<1>2. f \in Frame
  BY AtIsFrame DEF ScanHit, TypeOK
<1> HIDE DEF f
<1>3. f # NoFrame
  BY <1>2 DEF Frame, NoFrame, Roads
<1>4. /\ oneFrame'[scan.road] = f
      /\ \A r \in Roads : r # scan.road => oneFrame'[r] = oneFrame[r]
  BY <1>1 DEF TypeOK
<1> QED
  BY <1>1, <1>3, <1>4, LeavesRoad

LEMMA EndKeeps ==
  ASSUME TypeOK, SInv, ScanEnd
  PROVE  SInv'
<1>1. /\ pc = "scan" /\ NextRoad /\ UNCHANGED oneFrame
      /\ UNCHANGED <<i_queue_vector, raced, i_maxSizeIndex, timestampStore>>
      /\ ~HasIndex(scan.road, scan.index)
  BY DEF ScanEnd, inputVars
<1>2. scan.road \in Roads /\ scan.index \in Nat
  BY <1>1 DEF TypeOK
<1>3. /\ i_queue_vector[scan.road] \in Seq(Frame)
      /\ ~(scan.index < Len(i_queue_vector[scan.road]))
  BY <1>1, <1>2 DEF HasIndex, TypeOK
<1>4. ASSUME OutOfRange(i_queue_vector[scan.road], scan.index, timestampStore)
      PROVE  OutOfRange(i_queue_vector[scan.road], Cap, timestampStore)
  <2>1. \A k \in 1 .. Len(i_queue_vector[scan.road]) : k <= scan.index
    BY <1>2, <1>3
  <2> QED
    BY <1>4, <2>1 DEF OutOfRange
<1> QED
  BY <1>1, <1>4, LeavesRoad DEF SInv, PassedBy

LEMMA MissKeeps ==
  ASSUME TypeOK, SInv, ScanMiss
  PROVE  SInv'
<1>1. /\ pc = "scan" /\ scan' = [scan EXCEPT !.index = @ + 1]
      /\ UNCHANGED <<i_queue_vector, raced, i_maxSizeIndex, timestampStore, oneFrame, pc>>
      /\ ~InRange(i_queue_vector[scan.road][scan.index + 1], timestampStore)
  BY DEF ScanMiss, inputVars, At
<1>2. scan'.road = scan.road /\ scan'.index = scan.index + 1 /\ scan.index \in Nat
  BY <1>1 DEF TypeOK
<1>3. ASSUME OutOfRange(i_queue_vector[scan.road], scan.index, timestampStore)
      PROVE  OutOfRange(i_queue_vector[scan.road], scan.index + 1, timestampStore)
  <2>1. \A k \in 1 .. Len(i_queue_vector[scan.road]) :
          k <= scan.index + 1 => k <= scan.index \/ k = scan.index + 1
    BY <1>2
  <2> QED
    BY <1>1, <1>3, <2>1 DEF OutOfRange
<1>4. PassedBy'
  BY <1>1, <1>2, <1>3 DEF SInv, PassedBy
<1> QED
  BY <1>1, <1>4, ReferenceStays DEF SInv

LEMMA SInvStep == TypeOK /\ SInv /\ [Next]_vars => SInv'
<1> SUFFICES ASSUME TypeOK, SInv, [Next]_vars PROVE SInv'
  OBVIOUS
<1>1. CASE RunTask
  BY <1>1, SearchLeftAlone DEF RunTask
<1>2. CASE ReferMissing
  BY <1>2, SearchLeftAlone DEF ReferMissing
<1>3. CASE ReferTooEarly
  BY <1>3, SearchLeftAlone DEF ReferTooEarly
<1>4. CASE TaskProcessOneFrame
  BY <1>4, SearchLeftAlone DEF TaskProcessOneFrame
<1>5. CASE TaskO
  BY <1>5, SearchLeftAlone DEF TaskO, inputVars
<1>6. CASE UNCHANGED vars
  BY <1>6, SearchLeftAlone DEF vars
<1> QED
  BY <1>1, <1>2, <1>3, <1>4, <1>5, <1>6, NewReference, PushDuringSearch, HitKeeps, EndKeeps,
     MissKeeps
  DEF Next, TaskI

(* A road that no push raced with is missing from a collection only if it  *)
(* has no frame in range, and the reference road is not: the scan passes by*)
(* every index of a window that stays as it is.                            *)
THEOREM MissingOnlyIfAbsentOrRacedCorrect == Spec => []MissingOnlyIfAbsentOrRaced
<1>1. Init => SInv
  BY DEF Init, SInv, PassedBy, ReferenceIsThere, Searching
<1>2. TypeOK /\ SInv => MissingOnlyIfAbsentOrRaced
  <2> SUFFICES ASSUME TypeOK, SInv, pc = "process", NEW r \in Roads \ raced,
                      oneFrame[r] = NoFrame
               PROVE  /\ r # i_maxSizeIndex
                      /\ \A k \in 1 .. Len(i_queue_vector[r]) :
                           ~InRange(i_queue_vector[r][k], timestampStore)
    BY DEF MissingOnlyIfAbsentOrRaced
  <2>1. i_queue_vector[r] \in Seq(Frame) /\ Len(i_queue_vector[r]) <= Cap
    BY DEF TypeOK
  <2>2. \A k \in 1 .. Len(i_queue_vector[r]) : k <= Cap
    BY <2>1, DataUnitAssumption
  <2>3. \A k \in 1 .. Len(i_queue_vector[r]) : ~InRange(i_queue_vector[r][k], timestampStore)
    BY <2>2 DEF SInv, PassedBy, OutOfRange
  <2>4. ASSUME r = i_maxSizeIndex PROVE FALSE
    <3>1. HasIndex(r, Offset) /\ At(r, Offset).timestamp = timestampStore
      BY <2>4 DEF SInv, ReferenceIsThere, Searching
    <3>2. InRange(At(r, Offset), timestampStore)
      <4>1. timestampStore \in Nat
        BY DEF TypeOK
      <4> QED
        BY <3>1, <4>1, DataUnitAssumption DEF InRange, Abs
    <3>3. Offset + 1 \in 1 .. Len(i_queue_vector[r])
      BY <2>1, <3>1, OffsetInNat DEF HasIndex
    <3> QED
      BY <2>3, <3>2, <3>3 DEF At
  <2> QED
    BY <2>3, <2>4
<1> QED
  BY <1>1, <1>2, SInvStep, TypeCorrect, PTL DEF Spec

-----------------------------------------------------------------------------
(* What leaves the unit.                                                   *)

(* What is queued is in the order of the timestamps, Fs or more apart.     *)
QueueInTimeOrder ==
  \A i, j \in 1 .. Len(o_queue) :
    i < j => o_queue[i].timestamp + Fs <= o_queue[j].timestamp

(* No collection of the queue is later than the reference last taken, and  *)
(* all are earlier by Fs than a reference whose collection is not yet made.*)
QueuedBefore ==
  \A i \in 1 .. Len(o_queue) :
    /\ o_queue[i].timestamp \in Nat
    /\ o_queue[i].timestamp <= timestampStore
    /\ Searching => o_queue[i].timestamp + Fs <= timestampStore

LEMMA QueueStep ==
  ASSUME TypeOK, QueueInTimeOrder, QueuedBefore, [Next]_vars
  PROVE  QueueInTimeOrder' /\ QueuedBefore'
<1> USE DataUnitAssumption DEF QueueInTimeOrder, QueuedBefore
<1>0. o_queue \in Seq(Collection) /\ Len(o_queue) \in Nat /\ timestampStore \in Nat
  BY DEF TypeOK
<1>1. CASE UNCHANGED <<o_queue, timestampStore>> /\ (Searching' => Searching)
  BY <1>1
<1>2. CASE ReferTaken
  <2>1. /\ UNCHANGED o_queue
        /\ timestampStore' \in Nat /\ timestampStore + Fs <= timestampStore'
    <3> DEFINE f == At(i_maxSizeIndex, Offset)
    <3>1. f.timestamp \in Nat
      BY <1>2, OffsetInNat, AtIsFrame DEF ReferTaken
    <3>2. ~ (timestampStore + Fs > f.timestamp) /\ timestampStore' = f.timestamp
          /\ UNCHANGED o_queue
      BY <1>2 DEF ReferTaken, TooEarly
    <3> HIDE DEF f
    <3> QED
      BY <1>0, <3>1, <3>2
  <2> QED
    BY <1>0, <2>1
<1>3. CASE TaskProcessOneFrame
  <2>1. PICK item : /\ item = [timestamp |-> timestampStore, frames |-> fusionData']
                    /\ o_queue' = IF Len(o_queue) >= Cap THEN o_queue ELSE Append(o_queue, item)
    BY <1>3 DEF TaskProcessOneFrame
  <2>2. Searching /\ ~Searching' /\ UNCHANGED timestampStore
    BY <1>3 DEF TaskProcessOneFrame, Searching
  <2>3. CASE Len(o_queue) >= Cap
    BY <1>0, <2>1, <2>2, <2>3
  <2>4. CASE Len(o_queue) < Cap
    <3>1. /\ Len(o_queue') = Len(o_queue) + 1
          /\ \A i \in 1 .. Len(o_queue) : o_queue'[i] = o_queue[i]
          /\ o_queue'[Len(o_queue) + 1] = item
      BY <1>0, <2>1, <2>4
    <3>2. item.timestamp = timestampStore
      BY <2>1
    <3>3. \A i \in 1 .. Len(o_queue') : i \in 1 .. Len(o_queue) \/ i = Len(o_queue) + 1
      BY <1>0, <3>1
    <3>4. QueuedBefore'
      BY <1>0, <2>2, <3>1, <3>2, <3>3
    <3>5. QueueInTimeOrder'
      <4> SUFFICES ASSUME NEW i \in 1 .. Len(o_queue'), NEW j \in 1 .. Len(o_queue'), i < j
                   PROVE  o_queue'[i].timestamp + Fs <= o_queue'[j].timestamp
        OBVIOUS
      <4>1. i \in 1 .. Len(o_queue)
        BY <1>0, <3>1
      <4>2. CASE j \in 1 .. Len(o_queue)
        BY <3>1, <4>1, <4>2
      <4>3. CASE j = Len(o_queue) + 1
        BY <2>2, <3>1, <3>2, <4>1, <4>3
      <4> QED
        BY <3>3, <4>2, <4>3
    <3> QED
      BY <3>4, <3>5
  <2> QED
    BY <1>0, <2>3, <2>4
<1>4. CASE TaskO
  <2>1. /\ Len(o_queue') = Len(o_queue) - 1
        /\ \A i \in 1 .. Len(o_queue') : o_queue'[i] = o_queue[i + 1]
        /\ UNCHANGED <<timestampStore, pc>>
    BY <1>0, <1>4 DEF TaskO
  <2>2. \A i \in 1 .. Len(o_queue') : i + 1 \in 1 .. Len(o_queue)
    BY <1>0, <2>1
  <2>3. QueuedBefore'
    BY <1>0, <2>1, <2>2 DEF Searching
  <2>4. QueueInTimeOrder'
    <3> SUFFICES ASSUME NEW i \in 1 .. Len(o_queue'), NEW j \in 1 .. Len(o_queue'), i < j
                 PROVE  o_queue'[i].timestamp + Fs <= o_queue'[j].timestamp
      OBVIOUS
    <3>1. i + 1 \in 1 .. Len(o_queue) /\ j + 1 \in 1 .. Len(o_queue) /\ i + 1 < j + 1
      BY <1>0, <2>1, <2>2
    <3> QED
      BY <2>1, <3>1
  <2> QED
    BY <2>3, <2>4
<1>5. CASE \/ RunTask \/ ReferMissing \/ ReferTooEarly \/ ScanHit \/ ScanMiss \/ ScanEnd
           \/ \E r \in Roads, t \in Timestamps : PushI(r, t)
           \/ UNCHANGED vars
  <2>1. UNCHANGED <<o_queue, timestampStore>> /\ (Searching' => Searching)
    BY <1>5 DEF RunTask, ReferMissing, ReferTooEarly, ScanHit, ScanMiss, ScanEnd, PushI, vars,
                Searching
  <2> QED
    BY <1>1, <2>1
<1> QED
  BY <1>2, <1>3, <1>4, <1>5 DEF Next, TaskI

(* The collections leave the unit in the order of their timestamps, a      *)
(* frame interval or more apart, whichever road is the reference and       *)
(* whatever clocks the devices have: FindOneFrame takes no reference       *)
(* earlier than that, and Queue::push drops the new one when it is full.   *)
THEOREM QueueInTimeOrderHolds == Spec => []QueueInTimeOrder
<1>1. Init => QueueInTimeOrder /\ QueuedBefore
  BY DEF Init, QueueInTimeOrder, QueuedBefore
<1>2. TypeOK /\ QueueInTimeOrder /\ QueuedBefore /\ [Next]_vars
        => QueueInTimeOrder' /\ QueuedBefore'
  BY QueueStep
<1> QED
  BY <1>1, <1>2, TypeCorrect, PTL DEF Spec
=============================================================================
