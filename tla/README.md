# RVDataFusionServer: a TLA+ verification development

The server stands at a crossing. Radar and video devices of up to eight roads send it frames
and alarms over TCP; it puts the frames of one moment together, hands alarms on, and sends
both to a platform; a management centre (EOC) configures it. This directory models the parts
of it that are concurrent, or bounded, or that have to survive a lost connection, checks them
with TLC on small instances and proves some of what is checked for all instances with TLAPS.

Paths are relative to `src/`.

## 1. The system

```
 devices --TCP 9000/9001--> MyTcpServerHandler --bytes--> RingBuffer --> ThreadStateMachine
                                                                              | pkgs (30)
                                                                       ThreadProcessPkg
                                                                              | PkgProcessFun_*
       DataUnit:  i_queue_vector (a window per road) --tI thread--> o_queue --tO thread
                                                                              |
 platform <--TCP-- MyTcpClient::SendBase <------------------------------------+
                         ^      |  failed: congestion, overflow, abnormal stop
                         |      v
                      ReSendQueue            Task_Keep (every 3 s): ReOpen, Reconnect
```

| part | state it keeps | operations | hard about it | what makes it correct |
|---|---|---|---|---|
| `DataUnit` (data/DataUnit.h), "same frame" business: FusionData, TrafficFlowGather, HumanLitPole | a window of frames per road, reference road, timestamp of the last reference, frames collected, output queue | `pushI` (connection threads), `runTask`, `FindOneFrame`, `ThreadGetDataInRange`, `TaskProcessOneFrame` (tI), `taskO` (tO) | the windows move while they are scanned; a road falls silent; members reused between collections | an output is one moment; no frame used again and again; no road misses a collection without reason; the search never sticks |
| `DataUnit`, pass-on business (`TransparentTransmission`, congestion `specialBusiness`) | windows, output queue, the last status (a global) | `pushI`, the tI loop, `taskO` | head read and head erased are two steps; a full output queue | order, no duplicates, losses only by a full window, changes reported |
| `MyTcpClient`, `ReSendQueue`, `LocalBusiness::Task_Keep` | socket, `isNeedReconnect`, resend queue | `SendBase`, `add`, the resend thread, `Reconnect` | two mutexes and a flag without one; erasing while iterating; dead connections that accept bytes | an alarm is in one place and meets one fate; a closed socket is reopened |
| `RingBuffer` | buffer, two positions, two counters | `Read`, `Write`, `GetReadLen`, `GetWriteLen` | the answer to a question is used after other calls; wrap | a bounded FIFO of bytes |
| `MyTcpHandler` framing | parser state, packet so far, packet queue | receive, `ThreadStateMachine`, `ThreadProcessPkg` | bytes come in any pieces; a reconnection in the middle of a packet | every packet arrives or is lost for a known reason; the parser regains step |
| `MyTcpServer(Handler)` | handlers, `conns`, reactor | accept, `onReadable`, `SendBase`, `delete this`, destructor | an object that deletes itself in the reactor or in its own thread and waits for its threads; a global vector of all of them; one mutex held over a send | nobody's handler is freed under its threads; `conns` holds the live ones; a lost connection is freed in the end |
| packet handlers (common/proc.cpp) | frame-rate estimate `CacheTimestamp`, places of devices `unOrder` | `PkgProcessFun_*` | started from several connections at once; `init` runs late in its own thread | one window per device; a unit starts once, with the right rate |
| EOC session (eocCom, eoc, net/tlsClient) | TLS session, login, heartbeat counter, configuration version, downloads, tasks | `Open`, `Run`, `Close`, `R100`..`R107`, `intervalPro`, `ThreadDownload` | five threads, restart of the session, configuration written table by table, failures nobody notices | the version never ahead of the configuration, but for parts stored badly; asked for until there is one; restart only when nothing is pending |
| Kafka consumer, signal controller, monitor, databases, DNS, recorded data, configuration | see PROJECT.json | | | |

`PROJECT.json` lists every part with its status, and every hazard at its line.

## 2. What is modelled

### DataUnit.tla

One unit. Its variables bear the names of the members; `pc` and `scan` are where the tI
thread is. `PushI` is what a connection thread does at the end of `PkgProcessFun_CmdFusionData`
and its siblings; it may come between any two steps of the tI thread, because a `Vector` locks
each operation and nothing locks a scan. `RunTask`, `ReferMissing` / `ReferTooEarly` /
`ReferTaken` (the three ways out of the first half of `FindOneFrame`), `ScanHit` / `ScanMiss` /
`ScanEnd` (one `getIndex` each) and `TaskProcessOneFrame` are the tI thread, `TaskO` the tO
thread. A frame is a road, a serial number and a timestamp; what it contains is left out.
`KeepsOutput` tells the unit whose output object is a member (`DataUnitFusionData::fusionData`)
from those that build it in a local variable. `Init` is the state after `DataUnit::init`; frames
pushed before the thread begins are the pushes before the first `RunTask`. The reads of a
window's size, which take no lock, are modelled as atomic.

`outputs`, `pushed` and `raced` are history.

*Assumption `Fs >= 1`.* The interval comes from `CacheTimestamp::update`, which averages
differences of strictly increasing timestamps, or is a literal.

### Passthrough.tla

The units that hand on every message and the one that hands on every change. `business` is
which of the two; it is chosen initially and never changes. `GetIndex` and `EraseBegin` are the
two locked operations on the head of a window; a `PushI` may come between them. `dropsAfter`
remembers where in the report the output queue was full.

### Uplink.tla and AlarmDelivery.tla

The tO threads of the alarm units, the thread of `ReSendQueue`, the timer task and the
connection "client2" they share. A sender is `gate` (the unlocked look at
`isNeedReconnect`), `enter` (waiting for the client's mutex), `wire` (inside `SendBase`
with the mutex held), `add` (waiting for the queue's mutex). The resending thread holds the
queue's mutex from `ResendWake` to `ResendSleep`. `SendWire` enumerates what
`sendBytes` can come back with; a connection that is `dead` takes the bytes and loses them.
The threshold on the reply time appears as the choice `silent`. `Reconnect` is three
actions: close, connect, clear the flag. `Counted` is the copy of the message the loop works
on: the message in the queue keeps its count.

`AlarmDelivery` is what the uplink promises: every alarm is taken over or refused, then
received or lost, once, and eventually. `FateOnce` says Uplink implements it, under the map
`Where`.

### ServerConn.tla

The life of a `MyTcpServerHandler`. A connection has a port and an address (`origin`); two may
share an address, at two ports at once or at one port one after the other. `Accept` is the
constructor. A reactor deletes a handler in steps (`OnReadable`, `WaitT1`, `WaitT2`, `Destroy`,
`Join`), between which every other thread goes on: this is `delete this` in `onReadable`, with
`stopBusiness`, the loop over `conns` and the futures that join. `TakePacket` begins one of the two
handlers of packets that reach beyond their connection: `Kick` is `judgeHardCode` for an
unknown device (`deleteFromConns` shuts down every connection of the address), `StageLock` to
`SendFails` is `PkgProcessFun_CmdCrossStageData`, with the mutex held. `SendFails`, `DeleteWait`
and `DeleteThis` are `delete this` in the handler's own thread.

What C++ makes of it: a future of a thread that has ended by an exception is ready, so a thread
that `threw` is one that is over; a thread that waits for its own future is told so by an
exception, which `stopBusiness` catches, and then destroys the future it runs under, which ends
the process (`alive`). Reading a freed handler in `conns` finds no match or ends the process
(`Walk`); a thread that goes on with a freed handler ends it (`Stray`). A connection that is
`reset` makes `shutdown` throw, one that was shut down before may. `matrixNoFits` is whether `stoi`
accepts the device number; it is read once and does not change.

### UnitStart.tla

How the units whose frame rate is measured begin: TrafficFlowGather and HumanLitPoleData.
(FusionData measures and starts in the same way, but has its windows by direction and no names.)
`Frame`, `Look` and `Take` are `FindIndexInUnOrder`: find the device, find an empty place, write the
name. `Update` is `CacheTimestamp::update`; the choice `Late` is a timestamp that is not later than
the one before. `Start` is the second hold of the same mutex, in which the first to see the rate
starts the thread of `init`; `InitBegins` is that thread reading the variables of the call it was
made in, `InitClears` the part of `init` that empties the places, one at a time. `setCapNumI` has
run before with the same number of places (data/Data.cpp:23-64), so that `init` changes no size.

What C++ makes of it: when the call has returned, its variables are still what they were or the
process falls. Two threads that write one name at once leave either name, or neither
(`Garbled`), or the process falls. A read of a name that is being written is taken to see it
before or after.

`trouble`, `owners` and `refused` are history. Once threads have raced for places, or `init` has
emptied one, what they no longer tell apart is forgotten, which keeps the model small.

### RingBuffer.tla and ByteFifo.tla

The four calls, each of them atomic (they hold the mutex), and the two callers, which first
ask and then trust the answer. The two `memcpy` of a split copy are two `Copied`, two
`Piece`. `ByteFifo` is the channel a parser needs; `ImplementsFifo` says the ring buffer
is one, with `Contents`, the bytes read off going round, as the queue.

### Framing.tla

The bytes of packets on their way through socket, ring buffer and parser. A byte knows its packet,
its place in it and whether it looks like the tag, so that any splice of two packets can be told
from a packet. The four cases of `ThreadStateMachine` are four actions. A byte sequence that is not
a head gives any packet length of `GarbageLens`. `pkgLen` is `pkgHead.len`, for which `pkgBuffer`
has room; `BodyOf` is what the code makes of it, the length less head and CRC in unsigned
arithmetic: a length too short for the two (15 bytes) wraps, the body has then no end, and the
machine writes past `pkgBuffer` (`Overrun`; below 13 bytes, `PkgHead` being packed, the copy of the
head does already). What that does is left open: the process may go on, or fall (`Falls`) at any
time and begin `Afresh`. `Disconnected` is where server and client differ: a server's handler goes
with its connection, the client's parser and ring buffer stay. `new` of a length read from garbage
is taken to succeed, which a lazy allocator grants; were it to throw, the parsing thread would end
there. The ring buffer is a bounded sequence here, which RingBuffer.tla justifies; the gap between
asking for room and writing is left out on the strength of `NeverRefused`. The CRC is taken to be
right for whole packets only.

### EocSession.tla

The connection to the management centre and its five threads: `Keeper*` is `ThreadEOCCom`
(`Open`, `Run`, `Close`), `Dump*` receives, `Cut*` is `getPkgs`, `Pro*` / `Process*` is
`proPkgs`, `Beat*`, `Login`, `Heartbeat`, `HeartCount` and `Report` are a round of
`intervalPro`. `ssl` stands for both pointers `Close` frees, the session and the ring buffer;
a thread that uses them then takes the process with it (`Crash`), and so may `Close` after a
first `Open` that failed before it had set them (`"junk"`: the members have no initial value).
`heartFlag++` is two steps, the load in `Heartbeat` and the store in `HeartCount`. What an
order does is left out; that it is answered is not.

*Assumptions of time.* `proPkgs` has cleared `isLogIn` and `intervalPro` has cleared
`heartFlag` before `intervalPro` has slept the first ten seconds of a session, so `KeeperOpens`
does both. That `SSL_read` returns 0 is ignored by the code and is no step.

`ThreadDump` gives `SSL_read` room for eight bytes (`ARRAY_SIZE` of a pointer,
net/tlsClient/TlsClient.cpp:171) and does not ask `SSL_pending`: what SSL still holds of a record does
not make the socket readable. `held` is that rest. A message is complete in the ring buffer only
when the next one arrives (`Arrives`), or something else makes the socket readable (`Rest`); it is
lost when the session ends first. `LogsIn` holds all the same, because `intervalPro` goes on asking
and the answer to the second question brings the end of the first.

### EocWork.tla

What the centre's orders do. A configuration is `Parts`, in the order `processR102` stores them: the
tables of which the newest row is read, `associated_equip`, all rows of which count, the files, the
version, of which the oldest row is read. `db` has of each part the configurations there are rows
of, so that what a failed deletion leaves is beside what is inserted after it. `Clear` and `Fill`
are `deleteFromDB` / `insertToDB`, or the opening and writing of a file; each may fail or be the
last thing the process does. *No failure of a table is noticed*: all of db/eoc_configure.cpp
catches, sets `ret` and returns 0 (lines 239, 272, 343, 390, 487, 532, 751, 785), so `processR102`
goes on to the next part, answers "ok" and adds the restart task; its answer "fail" is never given.
A file that cannot be opened is passed over. A configuration of `Unversioned` comes without
`DataVersion`, which is optional: the version is then left as it was (EOCCom.cpp:306). `lacking` is
history: the parts whose own step went wrong the last time. That a *read* of the database may fail
is left out. `tasks` counts to two, for of two or more none is ever done.

`downloads`, `capacity`, `hold` and
`cursor` are the vector `downloads_msg` and the pointer and the iterator others keep into it: a
`push_back` that moves the vector makes them 0 (nowhere), an erasure leaves them where they
were while the messages move up. There is one file, `UPDATEFILE`, for all downloads. An
iterator into a vector that has been moved may find anything: the round ends, or the process does.
`SysReboot` takes the first task and puts it back when `Pending`; `Exit` and `Falls` both lead
to `Restart`, after which database and file are all there is.

*Assumption of time.* S104 is sent at most every 180 seconds, which is enough for a
configuration to be stored: `Query` sends it only when `proPkgs` is idle.

The two modules are not composed. EocWork has the session's breaks as faults (`SessionBreaks`),
EocSession has the orders as messages that are answered; they share no other state. Their names
differ (`WorkInit`, `WorkNext`, `WorkSpec`, `WorkTypeOK`) so that one module can extend both
and hold their proofs.

## 3. Runs

| run | instance | checks | states, time |
|---|---|---|---|
| DataUnit | 2 roads, window 2, cache 2, interval 2, 4 timestamps, 5 frames | `TypeOK`, `OutputIsOneFrame`, `NoFrameInThree`, `MissingOnlyIfAbsentOrRaced`, `RoadNeverBackAFrame`, `SearchCatchesUp` | 834 000, 1 min |
| FusedOutput | the same with `KeepsOutput` | violates `OutputIsOneFrame` | |
| Passthrough | 2 roads, window 2, 3 messages a road, both businesses | `TypeOK`, `InOrderOnce`, `OneLossPerOverrun`, `ReportsChanges` | 492 000, 15 s |
| Uplink | 2 units, 3 alarms, output queue 1, resend queue 2, 2 faults | `TypeOK`, `OnePlace`, `ClosedIsNoticed`, `FateOnce` | 111 000, 45 s |
| ResendCount | 1 unit, 1 alarm, 4 faults | violates `ResendsWithinThreshold` | |
| RingBuffer | capacity 3, 2 byte values | `TypeOK`, `NeverRefused`, `ImplementsFifo` | 23 000, 5 s |
| Framing | both roles, ring buffer 4, head and CRC 2 bytes each, bodies 0 or 2, garbage lengths 3, 5 and 14, 3 packets, 2 breaks | `TypeOK`, `LossesExplained`, `OutOfStepOnlyAfterCut`, `EveryPacketSettled` | 128 000, 35 s |
| EocSession | 1 unanswered heartbeat, queue 1, ring buffer 1, 1 order, 2 faults | `TypeOK`, `LoggedInThisSession`, `SilenceBounded`, `LiveIsOpen`, `LossIsMended`, `LogsIn` | 505 000, 3 min |
| EocWork | 1 table, associated_equip, 1 file, 2 packages, 2 configurations, the second without version, 2 orders, 1 failure | `WorkTypeOK`, `VersionNotAhead`, `AsksUntilVersion`, `OneTaskIsDone` | 463 000, 2 min 30 s |
| NoSecondDownload | the same with 1 package, 1 configuration | violates `DownloadIsAdded` | |
| ServerConn | 2 connections, 1 or 2 ports, 1 or 2 addresses | `TypeOK`, `ConnsAreLive`, `ThrewOnlyIfGone`, `FallIsExplained`, `GoneIsFreed` | 114 000, 1 min 35 s |
| UnitStart | 3 connections, 2 of one device, 2 windows, 3 timestamps to a rate, 1 late frame | `TypeOK`, `OwnWindow`, `RateOfOneDevice`, `UnitStarts` | 1 028 000, 1 min 50 s |

`MCServerConn.tla` and `MCUnitStart.tla` hold the constants of their runs that a `.cfg` cannot write.

Why the bounds are enough. *DataUnit*: with windows of two and five frames every window can slide
during a scan, the reference can pass to each road, to the index past the last road and back, and a
frame can be in range of two references (the timestamps span two intervals). *Passthrough*: a window
of two and three messages overrun every window, and the head can be replaced between the two steps.
*Uplink*: three alarms in a resend queue of two fill it, and let one be passed over when another is
erased; the output queue of one overflows; each kind of failure fits in the two faults, so that a
send can fail while a reconnection is under way. *RingBuffer*: with a capacity of three every
position, fill and split occurs. *Framing*: a ring buffer of four is smaller than any packet, so no
packet ever arrives in one piece, a body is read in one to three pieces, and a full ring buffer cuts
a server's connection; two breaks let one packet be cut and the packet taken for its rest be cut
again. Of the garbage lengths, less than the five bytes of head and CRC, just these, and more than
is left to come, the first makes the body wrap, at 64 instead of 2^64, which is beyond all the bytes
the peer sends. *EocSession*: a queue and a ring buffer of one fill at once, two faults let a
restart fail or a second session break, and the counter reaches its limit in the second heartbeat.
*EocWork*: a table, `associated_equip`, a file and the version are the four kinds of part; the
second of two configurations has no version, the first has; two packages spoil the file for each
other, move the vector and make a status go astray; a fault can be a deletion, an insertion, a
download, the session or the process. *ServerConn*: two connections are enough for one to free, to
shut down, to be skipped in `conns` or to hold the mutex for the other; every choice of equal or
different port and address occurs; each connection is made once, so the second comes before, during
or after the end of the first. *UnitStart*: three timestamps are the number the code asks for; two
connections of one device and one of another race for the same place, for two places of one device,
and with `init`; the measuring begins anew once.

`CHECK_DEADLOCK FALSE` in DataUnit, FusedOutput, Passthrough, Framing, ServerConn and UnitStart:
the peers may stop sending, and a bounded number of messages, or of connections, ends there; in
UnitStart the process may have fallen. (What ServerConn must not do, stop with a reactor that waits,
`GoneIsFreed` says.) (NoSecondDownload checks one action
property and nothing else.) Uplink keeps the check: its threads run
for ever, and a lock nobody gives back would show.

Fairness. *DataUnit*: weak fairness of the tI thread, a loop with a sleep. Pushes and the
sending side are not fair. *Uplink*: weak fairness of each tO thread, of the resending thread
and of the timer task; strong fairness of `Add`, the wait for the queue's mutex, because the
resending thread gives it up for its `sleep(interval)` of a second between two passes. Sends
fail at most `MaxFaults` times: `FateOnce` says what happens when the network is good for long
enough. *Framing*: weak fairness of the three threads of a connection. *EocSession*: weak fairness of the
five threads and of the centre's answer to a login; strong fairness of `Heartbeat`, which is due
every thirty seconds in rounds of ten. *EocWork*: weak fairness of `proPkgs`, of the rounds of
`intervalPro` and of each download (`downloadFile` has a timeout); strong fairness of the
query, due again every 180 seconds, and of its answer. *ServerConn*: weak fairness of the reactor
once it deletes and of the two threads of each connection, which includes that a device reads
what it is sent (`SendReturns`: there is no send timeout, and one that never reads does hold up the
others); strong fairness of `OnClosed`, since the reactor goes round its readable sockets, and of
`StageLock`, the wait for a mutex that is given back each time. *UnitStart*: weak fairness of each
handler, a device that has not stopped sends on, and of the thread of `init`; frames are late at
most `MaxLate` times.

## 4. What the checks show

* A collection that leaves a unit with a local output object is of one moment: less than an
  interval from its reference. The frames of one output may still be almost two intervals
  apart from each other; README.md:46's `thresholdFrame` is stored and never used.
* A frame may be in two collections (README does not say so), never in three.
* A road is missing from a collection only if it had nothing in range or a push moved its
  window during the scan; the latter does happen.
* Reading a head and erasing another costs nothing beyond what the full window costs.
* The congestion unit repeats a status only behind a change the full output queue has dropped.
* An alarm is never doubled or mislaid between tO threads, resend queue and reconnection,
  though the resend loop skips the message behind one it has erased.
* The ring buffer is a FIFO, and the answers of `GetReadLen` / `GetWriteLen` still hold when
  they are used.
* A server's parser never loses step. The client's does, after a disconnection in the middle of
  a packet, and takes packets of the new connection for the rest of the old one. What it then takes
  for a head may leave it with too small a buffer, past which it writes (`Overrun`); that, too,
  happens only in the client and after a cut. Packets behind such a head are swallowed by a body
  that does not end, or lost with the process.
* A login never carries over into the next session of the EOC client; a session goes on for at most
  `HeartMax + 1` heartbeats without an answer (EOCCom.h:27 says `HeartMax`, see below); every loss is mended, though some restarts go by way
  of a fall of the process, because `Close` frees what threads still use. A centre that falls
  silent *before* the login is not noticed (no heartbeat is sent then); `LossIsMended` says so.
* The version the device reads is never ahead of the configuration it has, through falls in the
  middle of one and configurations without a version, but for the parts whose own deletion or
  insertion failed: of these nobody knows, the answer is "ok" and they are not asked for again.
  A device that has no version asks until one comes. If the centre's configuration has none, it asks
  for ever, stores the same configuration each time and restarts (EOCCom.cpp:306, 1003-1012).
* A restart task by itself is carried out once the downloads have ended, unless the status of one
  went astray (`Astray`), which two downloads at once make happen. Two restart tasks put each
  other back for ever (EOCCom.cpp:1188); hence the name.
* Whatever deletes a handler, it is not freed under its threads, but for the one thread that
  deletes the handler it runs in: a stage answer that cannot be sent takes the whole process with it
  (myTcp/MyTcpServer.hpp:121-132). The only other way to fall is a freed handler left in `conns`,
  which needs two connections of one address.
* `conns` holds exactly the live handlers of addresses nobody shares.
* A processing thread that died of an exception belongs to a connection that is gone, or to a
  device number `stoi` refuses; two connections of one address may kill each other's, and then the
  connection stays open with nobody to handle its packets.
* A lost connection is freed although its reactor may wait for a thread that waits for the stage
  mutex, as long as devices read what they are sent.
* Every device has a window of its own, and none is refused while there are enough, unless two
  threads looked for a place at the same moment or `init` emptied places in use. Both happen.
* A unit's frame rate is that of one device. The unit may never start: the measuring stays bound to
  a place whose device has fallen silent or lost it in a race (common/proc.cpp:28), and `init`'s
  thread may find the variables of its caller gone (common/proc.cpp:435).

Findings (the first three are runs that expect a violation):

* **FusedOutput.** `DataUnitFusionData::fusionData` is never emptied: each output also holds
  the objects of all the earlier ones (data/DataUnitFusionData.cpp:397).
* **ResendCount.** The resend loop counts in a copy of the message (data/ReSendQueue.cpp:43),
  so `RESEND_TYPE_COUNT` with threshold 2 resends without end.
* **NoSecondDownload.** A file that is there with another checksum, as an interrupted download
  leaves it, starts no download (eocCom/EOCCom.cpp:632), though the comment of line 633 says it does.
* **EocSession**, `SilenceBounded`. eocCom/EOCCom.h:27 has `heartFlag` reduced by one for each reply
  and the session given up when it comes to 10; the code tests `> 10` and sets it to 0 for a reply
  (EOCCom.cpp:1055, 125). The property states the code's bound; the comment's, one less, does not hold.
* **EocWork**, `VersionNotAhead`. Storing cannot fail, as far as `processR102` is told
  (db/eoc_configure.cpp:272 and its siblings), so its error branches are dead and a part that was not
  written keeps its old rows under the new version. Without the exception for `lacking` the property
  is violated by a single failure.

## 5. What is proved

`DataUnit_proofs.tla`, for every number of roads, window size, interval, timestamps and number
of frames, from `DataUnitAssumption` alone:

* `TypeCorrect`: `Spec => []TypeOK`.
* `OutputIsOneFrameCorrect`: `Spec => []OutputIsOneFrame` when `~KeepsOutput`.
* `NoFrameInThreeCorrect`: `Spec => []NoFrameInThree`.
* `RoadNeverBackCorrect`: `Spec => RoadNeverBackAFrame`.
* `QueueInTimeOrderHolds`: `Spec => []QueueInTimeOrder`, which no run has.

The invariant `IInv` adds to the types: every output lies at or before the timestamp of the last
reference (`OutputsBefore`), two outputs are at least an interval apart (`OutputsApart`: this is
what `TooEarly` is for), every frame of an output is within an interval of it
(`OutputsInRange`), as is every frame collected so far (`MatchedInRange`), and no road's last
timestamp is an interval or more past the last reference (`RoadTimesBounded`). A frame in three
outputs would put the first and the third of them at least two intervals apart and both less than
one from the frame.

`MissingOnlyIfAbsentOrRacedCorrect` (`Spec => []MissingOnlyIfAbsentOrRaced`) has an invariant of its
own, `SInv`. `PassedBy` follows the scan through the windows: where no push has raced, what lies
before the scan is out of range. `ReferenceIsThere` says that the reference frame is still at the
offset, so that its own road cannot be missing.

`QueueInTimeOrder` says that what is queued rises in time by an interval or more. It needs
`QueuedBefore`: nothing in the queue is later than the last reference, and while a collection is
being made all of it is an interval or more earlier.

`RingBuffer_proofs.tla`, for every capacity and alphabet, from `RingBufferAssumption`:

* `RingTypeCorrect`: `Spec => []TypeOK`.
* `NeverRefusedCorrect`: `Spec => []NeverRefused`.
* `ImplementsFifoCorrect`: `Spec => ImplementsFifo`.

The invariant ties the counters together (what may be written is the capacity less what may be
read; the write position is the read position plus what may be read, going round) and says that
the answer a thread holds is never more than what the counter says now. The lemmas state
what `Advance`, `Written` and `Taken` are in terms of positions going round; the refinement then
compares `Contents` before and after a step byte by byte.

`Passthrough_proofs.tla`, from `PassthroughAssumption`: `TypeCorrect`, `InOrderOnceHolds`,
`OneLossPerOverrunHolds`, `ReportsChangesHolds`. A window holds the last messages of its road
without a gap; a push into a full window and an erasure both raise the number of its first message
and nothing lowers it. That is the order. Between the read and the erasure one message is both
seen and still in its window, the correction the count of losses needs.

`Uplink_proofs.tla`, from `UplinkAssumption`: `TypeCorrect`, `ClosedIsNoticedHolds`,
`OnePlaceHolds`, `FatesStepByStep`. `ClosedIsNoticed` alone is not inductive: between connecting and
clearing the flag the socket must not be closed again, and `Task_Keep` alone closes it. `OnePlace`
follows from `Single`, which says of each container (a thread's hand, the output queues, the resend
queue, what was received) that an alarm is in it once or not at all, and in one of them only.
`FatesStepByStep` is the safety half of `FateOnce`: `Spec => Delivery!Init /\ [][Delivery!Next]_Fates`.

`Framing_proofs.tla`, from `FramingAssumption`: `TypeCorrect`, `LossesExplainedHolds`,
`OutOfStepOnlyAfterCutHolds`, `ProcessedInOrderOnce`. The invariants (`Sound`, `Reading`, `InStep`,
`Kept`) speak of `Stream`, what was read of a packet, the ring buffer and the wire in one sequence.
`Follows`, in `Sound`, says of every byte of a packet that lost none that all its later bytes come
right behind; stated so it is kept step by step, with no induction over the length of a packet, and
makes a packet read to its end `Whole`. `Reading` says that `pkgBuffer` has the room the packet
needs, and how much of it is filled: in step, nothing is written past it. `InStep` is what holds
until a disconnection cuts a client's packet; `Kept` says where every packet is whose fate is open.
`ProcessedInOrderOnce` is an action property no run has: a packet a handler gets is later than all
it has had. `Ordered`, its invariant, says that the bytes of `Stream` rise by packet and by place,
and that all of them are of later packets than those read: a packet that is `Whole` took its last
byte with it.

`EocSession_proofs.tla`, from `EocSessionAssumption`: `TypeCorrect`, `LiveIsOpenHolds`,
`LoggedInThisSessionHolds`, `SilenceBoundedHolds`, each from an invariant of its own. `Phases`: what
`ThreadEOCCom` has passed it has waited for. `LoginFresh`: without a login accepted in this session,
no acceptance is under way. `Counted`: `heartFlag` counts every unanswered heartbeat but those
`intervalPro` has in its hand. `FallsOnlyAfterLoss` is an action property no run has: a step that
takes the process with it is one of a session that is lost.

The same module extends EocWork as well and proves, from `EocWorkAssumption`, `WorkTypeCorrect` and
`VersionNotAheadHolds` of `WorkSpec`. The invariant is `StoredSoFar`: while `proPkgs` stores a
configuration, the parts before the one it is at are of that configuration or `lacking`, and nothing
in `db` is of a later one than the centre's newest; the version, the last part, is therefore written
when all the others are. `WorkTypeOK` says of `cursor` and `hold` that they
are places of `downloads_msg`, or 0 when `push_back` has moved it.

`ServerConn_proofs.tla`, from `ServerConnAssumption`: `TypeCorrect`, `ConnsAreLiveHolds`,
`FallIsExplainedHolds`, `ThrewOnlyIfGoneHolds`. `ConnsAreLive` is inductive beside the types; the work
is in the loop of the destructor, which passes by the element that moves up behind an erased one
(`Erased`, `ErasedOne`). `FallIsExplained` needs `Ends`: a handler is freed only when both threads have
finished, and a thread told not to run was told by the one that deletes.

`UnitStart_proofs.tla`, from `UnitStartAssumption`: `TypeCorrect`, `RateOfOneDeviceHolds`,
`OwnWindowHolds`. Three invariants, one on another: `Distinct` (no name twice, until threads race),
`Own` (who is behind a name, until anything goes wrong), `Measured` and `Counted` (the rate and the
refusals, also after `init` has emptied places). That only a device too many is refused is a
pigeonhole over the places, for which `UnitStartAssumption` says that the threads are finite in
number.

Only model-checked: liveness (`SearchCatchesUp`, the fairness of `FateOnce`, `EveryPacketSettled`,
`GoneIsFreed`, `UnitStarts`, those of EocSession and EocWork), which is out of the prover's reach. Every
safety property the passing runs check is a theorem. What a recursive
definition computes for every input would need induction over data and is out of reach as well; the
one recursive function, in ServerConn's `ErasedFrom`, is only unfolded where its value has a
closed form. No module uses RECURSIVE.

## 6. Plan

Done: DataUnit, Passthrough, Uplink (with AlarmDelivery), RingBuffer (with ByteFifo), Framing,
EocSession, EocWork, ServerConn, UnitStart, and their proofs (EocWork's are in EocSession_proofs).
Next, most important first; every module with a named assumption, one type invariant, a mutant for
each property, its lines in `map`.

1. **ClientLink**: `timeSend`, `timeRecv`, the receiving thread of `MyTcpClient`, who notices a lost
   connection. `AskReconnect` of Uplink stands for all of it until then: any thread may ask at any time
   the link is dead, or the platform silent.
2. Pure algorithms with reference definitions: the escape coding of the signal controller, the
   packet-loss count, queue lengths by lane, the order of recorded files.

## 7. What is not modelled, and why

Layout and parsing of messages (JSON, packet heads), pictures, the arithmetic on targets and
lanes, logging; databases, DNS, NTP, start-up: sequential I/O. The fusion library is external and
its call is commented out. The endpoints under `net/` other than `TlsClient` are wrappers of system
calls. `MyTcpServer::ReOpen` is reached only when the first `Open` failed. Of the timers of
`os/timeTask.hpp` one is started, once, and none stopped. The Kafka consumer stores into a copy
(kafka/KafkaConsumer.cpp:120); what devices are answered does not depend on it.

Three fifths of the lines under `src/` are the generated messages of `nebulalink/`, which the build
does not include, and a good part of the rest converts records to JSON or to rows of a table, or is
library code (`net/cpp-icmplib.h`): no state, and nothing for a model to say.
