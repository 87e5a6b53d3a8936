------------------------------ MODULE DataUnit ------------------------------
(***************************************************************************)
(* The "same frame" business of a DataUnit (data/DataUnit.h): every road   *)
(* has a sliding window of the frames its device sent; the tI thread       *)
(* repeatedly takes a reference frame from one road, collects from every   *)
(* road the first frame close to it in time and queues the collection for  *)
(* the tO thread.  It is the business of the units FusionData,             *)
(* TrafficFlowGather and HumanLitPoleData.                                 *)
(*                                                                         *)
(* Frames arrive on the connection threads, which push into the windows    *)
(* between any two steps of the tI thread: a Vector locks each operation   *)
(* by itself, never a scan over it.                                        *)
(***************************************************************************)
EXTENDS Integers, Sequences, Functions

CONSTANTS
  NumI,          \* numI: the number of roads
  Cap,           \* cap: the size of every window and of the output queue
  Cache,         \* cache: the task only runs when some window holds this many
  Fs,            \* fs_i: the frame interval, in units of the timestamps
  IntervalTask,  \* intervalTask: the period of the tI thread, same units
  KeepsOutput,   \* TRUE for DataUnitFusionData, whose output object is a
                 \* member; FALSE for the units that build it in a local
  Timestamps,    \* the timestamps devices use
  MaxPushed      \* BOUND: how many frames all the devices send

ASSUME DataUnitAssumption ==
  /\ NumI \in Nat \ {0}
  /\ Cap \in Nat \ {0}
  /\ Cache \in 1 .. Cap
  /\ Fs \in Nat \ {0}
  /\ IntervalTask \in Nat \ {0}
  /\ KeepsOutput \in BOOLEAN
  /\ Timestamps \subseteq Nat
  /\ MaxPushed \in Nat

Roads == 0 .. NumI - 1

(* A frame: the road it was sent on, its timestamp, and a serial number    *)
(* that tells it from the road's other frames (the message's oprNum).      *)
Frame == [road : Roads, sn : Nat, timestamp : Timestamps]

NoFrame == [road |-> -1, sn |-> -1, timestamp |-> 0]   \* an empty IType

VARIABLES
  i_queue_vector,   \* the window of every road
  i_maxSizeIndex,   \* the road the reference frame is taken from
  taskSearchCount,  \* how often its reference frame was not new
  timestampStore,   \* timestamp of the last reference frame (= curTimestamp)
  xRoadTimestamp,   \* for every road, timestamp of the last frame matched
  oneFrame,         \* for every road, the frame matched this time
  fusionData,       \* the frames the output object holds
  o_queue,          \* the output queue
  pc,               \* where the tI thread is
  scan,             \* the <road, index> it looks at next
  pushed,           \* HISTORY: how many frames each road was sent
  raced,            \* HISTORY: roads pushed to since the reference was taken
  outputs           \* HISTORY: every collection made, with its timestamp

inputVars == <<i_queue_vector, pushed, raced>>
vars == <<i_queue_vector, i_maxSizeIndex, taskSearchCount, timestampStore,
          xRoadTimestamp, oneFrame, fusionData, o_queue, pc, scan,
          pushed, raced, outputs>>

-----------------------------------------------------------------------------
(* The windows.                                                            *)

(* Vector::push: append, then drop the head of a window over its maximum.  *)
MutSlide(q, f) == Append(q, f)
Slide(q, f) == IF Len(q) + 1 > Cap THEN Tail(Append(q, f)) ELSE Append(q, f)

(* Vector::getIndex succeeds; indexes count from 0 as in the code.         *)
HasIndex(r, i) == r \in Roads /\ i < Len(i_queue_vector[r])
At(r, i) == i_queue_vector[r][i + 1]

(* The frame taskI asks the reference road for.                            *)
Offset == Cache \div 2

(* A frame belongs to the collection of the reference timestamp t.         *)
Abs(n) == IF n < 0 THEN -n ELSE n
MutInRange(f, t) == f.timestamp - t < Fs
InRange(f, t) == Abs(f.timestamp - t) < Fs

(* Where the scan of a road's window begins.                               *)
MutScanFrom(r) == [road |-> r, index |-> 1]
ScanFrom(r) == [road |-> r, index |-> 0]

-----------------------------------------------------------------------------
Init ==
  /\ i_queue_vector = [r \in Roads |-> <<>>]
  /\ i_maxSizeIndex = -1
  /\ taskSearchCount = 0
  /\ timestampStore = 0
  /\ xRoadTimestamp = [r \in Roads |-> 0]
  /\ oneFrame = [r \in Roads |-> NoFrame]
  /\ fusionData = {}
  /\ o_queue = <<>>
  /\ pc = "wait"
  /\ scan = ScanFrom(0)
  /\ pushed = [r \in Roads |-> 0]
  /\ raced = {}
  /\ outputs = {}

DevicesStillSend == FoldFunction(+, 0, pushed) < MaxPushed

(* A connection thread stores a frame: PkgProcessFun_CmdFusionData and its *)
(* siblings end in pushI.                                                  *)
PushI(r, t) ==
  /\ DevicesStillSend
  /\ LET f == [road |-> r, sn |-> pushed[r], timestamp |-> t]
     IN  i_queue_vector' = [i_queue_vector EXCEPT ![r] = Slide(@, f)]
  /\ pushed' = [pushed EXCEPT ![r] = @ + 1]
  /\ raced' = IF pc = "wait" THEN raced ELSE raced \cup {r}
  /\ UNCHANGED <<i_maxSizeIndex, taskSearchCount, timestampStore, fusionData,
                 xRoadTimestamp, oneFrame, o_queue, pc, scan, outputs>>

-----------------------------------------------------------------------------
(* The tI thread.                                                          *)

SomeWindowCached == \E r \in Roads : Len(i_queue_vector[r]) >= Cache

(* The first of the longest windows.                                       *)
FirstLongest(r) ==
  \A s \in Roads :
    /\ Len(i_queue_vector[s]) <= Len(i_queue_vector[r])
    /\ s < r => Len(i_queue_vector[s]) < Len(i_queue_vector[r])

(* runTask: nothing happens until a window is long enough; the reference   *)
(* road is chosen here the first time only.                                *)
RunTask ==
  /\ pc = "wait"
  /\ SomeWindowCached
  /\ IF i_maxSizeIndex = -1
       THEN \E r \in Roads : FirstLongest(r) /\ i_maxSizeIndex' = r
       ELSE UNCHANGED i_maxSizeIndex
  /\ pc' = "refer"
  /\ UNCHANGED <<taskSearchCount, timestampStore, xRoadTimestamp, oneFrame,
                 fusionData, o_queue, scan, outputs, inputVars>>

(* i_maxSizeIndexNext: the index may reach NumI, where there is no road.   *)
MutNextIndex(i) == IF i + 1 > NumI THEN NumI ELSE i + 1
NextIndex(i) == IF i + 1 > NumI THEN 0 ELSE i + 1

SwitchRoad ==
  /\ i_maxSizeIndex' = NextIndex(i_maxSizeIndex)
  /\ taskSearchCount' = 0

(* FindOneFrame, return -1: the reference road has no frame at the offset. *)
ReferMissing ==
  /\ pc = "refer"
  /\ ~HasIndex(i_maxSizeIndex, Offset)
  /\ SwitchRoad
  /\ pc' = "wait"
  /\ UNCHANGED <<timestampStore, xRoadTimestamp, oneFrame, fusionData,
                 o_queue, scan, outputs, inputVars>>

MutTooEarly(f) == timestampStore >= f.timestamp
TooEarly(f) == timestampStore + Fs > f.timestamp

(* count * intervalTask >= fs_i * 2.5                                      *)
SearchedEnough(count) == 2 * count * IntervalTask >= 5 * Fs

(* FindOneFrame, return -2: the reference frame is not a new one; after    *)
(* 2.5 frame intervals of this the next road becomes the reference.        *)
ReferTooEarly ==
  /\ pc = "refer"
  /\ HasIndex(i_maxSizeIndex, Offset)
  /\ TooEarly(At(i_maxSizeIndex, Offset))
  /\ IF SearchedEnough(taskSearchCount + 1)
       THEN SwitchRoad
       ELSE /\ taskSearchCount' = taskSearchCount + 1
            /\ UNCHANGED i_maxSizeIndex
  /\ pc' = "wait"
  /\ UNCHANGED <<timestampStore, xRoadTimestamp, oneFrame, fusionData,
                 o_queue, scan, outputs, inputVars>>

MutEmptied == oneFrame
Emptied == [r \in Roads |-> NoFrame]

(* FindOneFrame goes on: the reference timestamp is recorded and the       *)
(* collection emptied.                                                     *)
ReferTaken ==
  /\ pc = "refer"
  /\ HasIndex(i_maxSizeIndex, Offset)
  /\ LET f == At(i_maxSizeIndex, Offset)
     IN  /\ ~TooEarly(f)
         /\ timestampStore' = f.timestamp
  /\ taskSearchCount' = 0
  /\ oneFrame' = Emptied
  /\ pc' = "scan"
  /\ scan' = ScanFrom(0)
  /\ raced' = {}
  /\ UNCHANGED <<i_queue_vector, i_maxSizeIndex, xRoadTimestamp, fusionData,
                 o_queue, pushed, outputs>>

NextRoad == /\ scan' = ScanFrom(scan.road + 1)
            /\ pc' = IF scan.road + 1 = NumI THEN "process" ELSE "scan"

(* ThreadGetDataInRange, a frame in range: it is the one of this road.     *)
ScanHit ==
  /\ pc = "scan"
  /\ HasIndex(scan.road, scan.index)
  /\ LET f == At(scan.road, scan.index)
     IN  /\ InRange(f, timestampStore)
         /\ xRoadTimestamp' = [xRoadTimestamp EXCEPT ![scan.road] = f.timestamp]
         /\ oneFrame' = [oneFrame EXCEPT ![scan.road] = f]
  /\ NextRoad
  /\ UNCHANGED <<i_maxSizeIndex, taskSearchCount, timestampStore, fusionData,
                 o_queue, outputs, inputVars>>

(* ThreadGetDataInRange, a frame out of range: look at the next index.     *)
ScanMiss ==
  /\ pc = "scan"
  /\ HasIndex(scan.road, scan.index)
  /\ ~InRange(At(scan.road, scan.index), timestampStore)
  /\ scan' = [scan EXCEPT !.index = @ + 1]
  /\ UNCHANGED <<i_maxSizeIndex, taskSearchCount, timestampStore, fusionData,
                 xRoadTimestamp, oneFrame, o_queue, pc, outputs, inputVars>>

(* ThreadGetDataInRange, the window ends without a frame in range.         *)
ScanEnd ==
  /\ pc = "scan"
  /\ ~HasIndex(scan.road, scan.index)
  /\ NextRoad
  /\ UNCHANGED <<i_maxSizeIndex, taskSearchCount, timestampStore, fusionData,
                 xRoadTimestamp, oneFrame, o_queue, outputs, inputVars>>

Matched == {oneFrame[r] : r \in Roads} \ {NoFrame}

(* TaskProcessOneFrame builds the output object from oneFrame and pushes   *)
(* it: Queue::push drops it when the output queue is full.                 *)
TaskProcessOneFrame ==
  /\ pc = "process"
  /\ fusionData' = Matched \cup (IF KeepsOutput THEN fusionData ELSE {})
  /\ LET item == [timestamp |-> timestampStore, frames |-> fusionData']
     IN  o_queue' = IF Len(o_queue) >= Cap THEN o_queue ELSE Append(o_queue, item)
  /\ outputs' = outputs \cup {[timestamp |-> timestampStore, frames |-> Matched]}
  /\ pc' = "wait"
  /\ raced' = {}
  /\ UNCHANGED <<i_queue_vector, i_maxSizeIndex, taskSearchCount, oneFrame,
                 timestampStore, xRoadTimestamp, scan, pushed>>

(* The tO thread takes an item out and sends it, or drops it when the      *)
(* client is not connected.                                                *)
TaskO ==
  /\ o_queue # <<>>
  /\ o_queue' = Tail(o_queue)
  /\ UNCHANGED <<i_maxSizeIndex, taskSearchCount, timestampStore, oneFrame,
                 xRoadTimestamp, fusionData, pc, scan, outputs, inputVars>>

TaskI == \/ RunTask
         \/ ReferMissing \/ ReferTooEarly \/ ReferTaken
         \/ ScanHit \/ ScanMiss \/ ScanEnd
         \/ TaskProcessOneFrame

Next == \/ \E r \in Roads, t \in Timestamps : PushI(r, t)
        \/ TaskI
        \/ TaskO

(* The tI thread runs as long as the process does; devices and the sending *)
(* side may stop.                                                          *)
Spec == Init /\ [][Next]_vars /\ WF_vars(TaskI)

-----------------------------------------------------------------------------
(* Types.  A collection is a timestamp with the frames that were put in.   *)
Collection == [timestamp : Nat, frames : SUBSET Frame]

TypeOK ==
  /\ i_queue_vector \in [Roads -> Seq(Frame)]
  /\ \A r \in Roads : Len(i_queue_vector[r]) <= Cap
  /\ i_maxSizeIndex \in -1 .. NumI
  /\ taskSearchCount \in Nat
  /\ timestampStore \in Nat
  /\ xRoadTimestamp \in [Roads -> Nat]
  /\ oneFrame \in [Roads -> Frame \cup {NoFrame}]
  /\ fusionData \in SUBSET Frame
  /\ o_queue \in Seq(Collection) /\ Len(o_queue) <= Cap
  /\ pc \in {"wait", "refer", "scan", "process"}
  /\ scan \in [road : 0 .. NumI, index : Nat]
  /\ pc = "scan" => scan.road \in Roads
  /\ pushed \in [Roads -> Nat]
  /\ raced \in SUBSET Roads
  /\ outputs \in SUBSET Collection

(* What leaves the unit under one timestamp was sent within one frame      *)
(* interval of it: TaskProcessOneFrame hands on what FindOneFrame collected*)
(* this time, whatever was collected or queued before.                     *)
OutputIsOneFrame ==
  \A k \in 1 .. Len(o_queue) :
    \A f \in o_queue[k].frames : InRange(f, o_queue[k].timestamp)

(* FindOneFrame leaves the frames in the windows, so the next collection   *)
(* may pick one of them again; but the same frame of a device is never in  *)
(* three collections, however the roads take turns as the reference.       *)
NoFrameInThree ==
  \A a, b, c \in outputs :
    a # b /\ b # c /\ a # c => a.frames \cap b.frames \cap c.frames = {}

(* What a road contributes may go back in time from one collection to the  *)
(* next (a push that slides the window during the scan hides a frame, the  *)
(* device's clock is set), but by less than one frame interval.            *)
RoadNeverBackAFrame ==
  [][\A r \in Roads : xRoadTimestamp'[r] # xRoadTimestamp[r]
                        => xRoadTimestamp'[r] > xRoadTimestamp[r] - Fs]_vars

(* A road whose window did not slide while it was scanned is missing from  *)
(* the collection only if it has no frame in range; the reference road then*)
(* is never missing.                                                       *)
MissingOnlyIfAbsentOrRaced ==
  pc = "process" =>
    \A r \in Roads \ raced : oneFrame[r] = NoFrame =>
      /\ r # i_maxSizeIndex
      /\ \A k \in 1 .. Len(i_queue_vector[r]) :
           ~InRange(i_queue_vector[r][k], timestampStore)

(* A road with a new frame at the offset is not left waiting by a reference*)
(* road that has gone silent: the search moves on through the index past   *)
(* the last road, and round, until the new frame has been the reference or *)
(* is no longer new.                                                       *)
SearchCatchesUp ==
  <>[](SomeWindowCached =>
         \A r \in Roads : HasIndex(r, Offset) => TooEarly(At(r, Offset)))

=============================================================================
