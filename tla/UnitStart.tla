------------------------------ MODULE UnitStart ------------------------------
(***************************************************************************)
(* How a unit whose frame rate is not known beforehand begins: the threads *)
(* of the connections give every device a window (FindIndexInUnOrder),     *)
(* measure the rate of the first one (CacheTimestamp) and start            *)
(* DataUnit::init in a thread of its own, while they go on pushing frames. *)
(* TrafficFlowGather and HumanLitPoleData, after the checks that refuse a  *)
(* frame.                                                                  *)
(*                                                                         *)
(* Nothing locks unOrder.  A look through its few names is one step; the   *)
(* steps of the threads interleave between them.                           *)
(***************************************************************************)
EXTENDS Naturals, Sequences, FiniteSets

CONSTANTS
  Threads,      \* the processing threads of the connections
  Devices,      \* the devices, by hardCode
  Assignments,  \* which device each connection may be of
  N,            \* numI, roadNum: how many windows there are
  Caches,       \* caches: how many timestamps make a rate
  MaxLate,      \* BOUND: how many frames are not later than the one before
  NoName,       \* an empty place
  Garbled       \* a name two threads have written at once

Places == 0 .. N - 1
NoPlace == N
Nobody == 0

ASSUME UnitStartAssumption ==
  /\ IsFiniteSet(Threads) /\ Nobody \notin Threads
  /\ N \in Nat \ {0} /\ MaxLate \in Nat
  /\ Caches \in Nat /\ Caches >= 2
  /\ NoName # Garbled /\ {NoName, Garbled} \cap Devices = {}
  /\ Assignments \subseteq [Threads -> Devices]

VARIABLES
  device,         \* the device of every connection
  pc,             \* where every thread is
  index,          \* the place it has found
  lates,          \* how many frames were not later than the last one kept
  unOrder,        \* the names of the devices that have a window
  dataIndex,      \* CacheTimestamp: the place whose timestamps are kept,
  from,           \* the devices they came from,
  isSetInterval,
  isStartTask,
  init,           \* init's thread: none, spawned, clearing or done
  cleared,        \* how many places it has emptied
  caller,         \* the thread whose call it refers to, until that returns
  alive,          \* the process
  trouble,        \* HISTORY: two threads have "raced" for places, or init has
                  \*   "emptied" a device's place, or neither
  owners,         \* HISTORY: the devices that pushed into a window, up to either
  refused         \* HISTORY: the devices that got no place, up to a race

threadVars == <<pc, index, lates>>
rateVars == <<dataIndex, from, isSetInterval>>
initVars == <<isStartTask, init, cleared, caller>>
history == <<trouble, owners, refused>>
vars == <<device, threadVars, unOrder, rateVars, initVars, alive, history>>

Init ==
  /\ device \in Assignments
  /\ pc = [t \in Threads |-> "idle"]
  /\ index = [t \in Threads |-> NoPlace]
  /\ lates = 0
  /\ unOrder = [p \in Places |-> NoName]          \* after setCapNumI
  /\ dataIndex = NoPlace
  /\ from = <<>>
  /\ isSetInterval = FALSE
  /\ isStartTask = FALSE
  /\ init = "none"
  /\ cleared = 0
  /\ caller = Nobody
  /\ alive = TRUE
  /\ trouble = "neither"
  /\ owners = [p \in Places |-> {}]
  /\ refused = {}

-----------------------------------------------------------------------------
(* A connection's thread.                                                  *)

At(t, place) == alive /\ pc[t] = place
Goes(t, place) == pc' = [pc EXCEPT ![t] = place]
First(S) == CHOOSE p \in S : \A q \in S : p <= q

(* The histories: what is no longer told apart is forgotten.               *)
Notes(what, own, ref) ==
  /\ trouble' = IF trouble = "raced" THEN trouble ELSE what
  /\ owners' = IF trouble' = "neither" THEN own ELSE [p \in Places |-> {}]
  /\ refused' = IF trouble' = "raced" THEN {} ELSE ref

(* FindIndexInUnOrder for a frame that has come through the checks of the  *)
(* handler: it looks for the device first,                                 *)
Named(name) == {p \in Places : unOrder[p] = name}
Frame(t) ==
  LET own == Named(device[t]) IN
  /\ At(t, "idle")
  /\ \/ own # {} /\ Goes(t, "update") /\ index' = [index EXCEPT ![t] = First(own)]
     \/ own = {} /\ Goes(t, "look") /\ UNCHANGED index
  /\ UNCHANGED <<device, lates, unOrder, rateVars, initVars, alive, history>>

(* then for an empty place, which it takes; with none the frame is refused.*)
MutFree == Places
Free == Named(NoName)
Look(t) ==
  /\ At(t, "look")
  /\ \/ /\ Free # {}
        /\ index' = [index EXCEPT ![t] = First(Free)]
        /\ Goes(t, "take")
        /\ UNCHANGED history
     \/ /\ Free = {}
        /\ UNCHANGED index
        /\ Goes(t, "idle")
        /\ Notes(trouble, owners, refused \cup {device[t]})
  /\ UNCHANGED <<device, lates, unOrder, rateVars, initVars, alive>>

(* Two threads that both found the place empty write the name at once:     *)
(* either name is left, or neither, or the process falls.  They race too   *)
(* when they take two places for one device.                               *)
Races(t, u) == \/ pc[u] = "take" /\ index[u] = index[t]
               \/ pc[u] \in {"look", "take"} /\ device[u] = device[t]
Take(t) ==
  LET p == index[t] IN
  /\ At(t, "take")
  /\ IF unOrder[p] = NoName
       THEN unOrder' = [unOrder EXCEPT ![p] = device[t]] /\ UNCHANGED alive
       ELSE /\ \E name \in {unOrder[p], device[t], Garbled} :
                 unOrder' = [unOrder EXCEPT ![p] = name]
            /\ alive' \in BOOLEAN
  /\ Notes(IF \E u \in Threads \ {t} : Races(t, u) THEN "raced" ELSE trouble, owners, refused)
  /\ Goes(t, "update")
  /\ UNCHANGED <<device, index, lates, rateVars, initVars>>

(* CacheTimestamp::update, under its mutex: the timestamps of the first    *)
(* place are kept; one that is not later than the last sets all back.      *)
MutCounts(p) == TRUE
Counts(p) == dataIndex = p
MutRebind(p) == dataIndex # p
Rebind(p) == dataIndex = NoPlace
Late == lates < MaxLate /\ dataIndex' = NoPlace /\ from' = <<>> /\ lates' = lates + 1
Keep(t) == from' = Append(from, device[t]) /\ UNCHANGED <<dataIndex, lates>>
Update(t) ==
  LET p == index[t] IN
  /\ At(t, "update")
  /\ Goes(t, "start")
  /\ CASE isSetInterval -> UNCHANGED <<dataIndex, from, lates>>
       [] ~isSetInterval /\ Rebind(p) ->
            dataIndex' = p /\ from' = <<device[t]>> /\ UNCHANGED lates
       [] ~isSetInterval /\ ~Rebind(p) /\ Counts(p) -> Late \/ Keep(t)
       [] OTHER -> UNCHANGED <<dataIndex, from, lates>>
  /\ isSetInterval' = (isSetInterval \/ Len(from') = Caches)
  /\ UNCHANGED <<device, index, unOrder, initVars, alive, history>>

MutStarts == isSetInterval
Starts == isSetInterval /\ ~isStartTask
(* Under the same mutex: the first to see the rate starts init, in a thread*)
(* that refers to the variables of this call.                              *)
Start(t) ==
  /\ At(t, "start")
  /\ Goes(t, "push")
  /\ IF Starts
       THEN isStartTask' = TRUE /\ caller' = t /\ init' = "spawned"
       ELSE UNCHANGED <<isStartTask, caller, init>>
  /\ UNCHANGED <<device, index, lates, unOrder, rateVars, cleared, alive, history>>

(* pushI, and the return of the call.                                      *)
Push(t) ==
  /\ At(t, "push")
  /\ Notes(trouble, [owners EXCEPT ![index[t]] = @ \cup {device[t]}], refused)
  /\ Goes(t, "idle")
  /\ index' = [index EXCEPT ![t] = NoPlace]
  /\ caller' = IF caller = t THEN Nobody ELSE caller
  /\ UNCHANGED <<device, lates, unOrder, rateVars, isStartTask, init, cleared, alive>>

(* The connection ends.  Once init has been started that changes nothing.  *)
Stop(t) ==
  /\ At(t, "idle")
  /\ init = "none"
  /\ Goes(t, "stopped")
  /\ UNCHANGED <<device, index, lates, unOrder, rateVars, initVars, alive, history>>

-----------------------------------------------------------------------------
(* init's thread.                                                          *)

(* It reads what it was to be called with.  When the call has returned,    *)
(* that is still there, or the process falls.                              *)
InitBegins ==
  /\ alive
  /\ init = "spawned"
  /\ alive' \in (IF caller # Nobody THEN {TRUE} ELSE BOOLEAN)
  /\ init' = "clearing"
  /\ caller' = Nobody
  /\ UNCHANGED <<device, threadVars, unOrder, rateVars, isStartTask, cleared, history>>

(* The places are emptied one after the other; the size stays what         *)
(* setCapNumI made it.  After the last one tO and tI run.                  *)
InitClears ==
  /\ alive
  /\ init = "clearing"
  /\ unOrder' = [unOrder EXCEPT ![cleared] = NoName]
  /\ Notes(IF trouble = "neither" /\ unOrder[cleared] # NoName THEN "emptied" ELSE trouble,
           owners, refused)
  /\ cleared' = cleared + 1
  /\ init' = IF cleared' = N THEN "done" ELSE "clearing"
  /\ UNCHANGED <<device, threadVars, rateVars, isStartTask, caller, alive>>

Handler(t) == \/ Frame(t) \/ Look(t) \/ Take(t)
              \/ Update(t) \/ Start(t) \/ Push(t)
InitThread == InitBegins \/ InitClears
Next == (\E t \in Threads : Handler(t) \/ Stop(t)) \/ InitThread

(* The threads run on, and a device that has not stopped sends on.         *)
Spec == /\ Init /\ [][Next]_vars
        /\ \A t \in Threads : WF_vars(Handler(t))
        /\ WF_vars(InitThread)

-----------------------------------------------------------------------------
TypeOK ==
  /\ device \in Assignments
  /\ pc \in [Threads -> {"idle", "stopped", "look", "take", "update", "start", "push"}]
  /\ index \in [Threads -> 0 .. N]
  /\ \A t \in Threads : pc[t] \in {"take", "update", "start", "push"} => index[t] \in Places
  /\ lates \in 0 .. MaxLate
  /\ unOrder \in [Places -> Devices \cup {NoName, Garbled}]
  /\ dataIndex \in 0 .. N
  /\ from \in Seq(Devices) /\ Len(from) <= Caches
  /\ dataIndex = NoPlace <=> from = <<>>
  /\ isSetInterval <=> Len(from) = Caches
  /\ isStartTask \in BOOLEAN
  /\ init \in {"none", "spawned", "clearing", "done"}
  /\ isStartTask <=> init # "none"
  /\ cleared \in 0 .. N /\ (init \in {"none", "spawned"} => cleared = 0)
  /\ caller \in Threads \cup {Nobody}
  /\ alive \in BOOLEAN
  /\ owners \in [Places -> SUBSET Devices]
  /\ trouble \in {"neither", "emptied", "raced"}
  /\ refused \in SUBSET Devices

(* README.md:7 wants the data of every device in a queue of its own.  So it*)
(* is, and no device is left without one while there are enough, though    *)
(* connections come at once and a device may have two: unless two threads  *)
(* took places at the same moment, or init emptied places already taken.   *)
Connected == {device[t] : t \in Threads}
OwnWindow ==
  /\ \A p \in Places : Cardinality(owners[p]) <= 1
  /\ \A p, q \in Places : p # q => owners[p] \cap owners[q] = {}
  /\ refused # {} => Cardinality(Connected) > N

(* The rate a unit starts with is the rate of one device, whatever other   *)
(* frames come in between and however often the measuring begins anew;     *)
(* only two devices that took one place at once are measured together.     *)
RateOfOneDevice ==
  isSetInterval /\ trouble # "raced" => \A k \in DOMAIN from : from[k] = from[1]

(* The unit starts, unless the process falls over the variables of a call  *)
(* that has returned, or no device that still sends is ever given the place*)
(* whose timestamps are counted: its device fell silent, or a race gave it *)
(* two places or none.  The count never passes to another place by itself. *)
Sending == {t \in Threads : pc[t] # "stopped"}
Given(t) == CASE Named(device[t]) # {} -> First(Named(device[t]))
              [] Named(device[t]) = {} /\ Free # {} -> First(Free)
              [] OTHER -> NoPlace
Abandoned == \A t \in Sending : Given(t) = NoPlace \/ dataIndex \notin {NoPlace, Given(t)}
UnitStarts == \/ <>(init = "done" \/ ~alive \/ Sending = {})
              \/ <>[]Abandoned
=============================================================================
