------------------------------ MODULE Framing ------------------------------
(***************************************************************************)
(* How a connection takes its byte stream apart (myTcp/MyTcpHandler.hpp):  *)
(* the receiving thread moves what the socket has into the ring buffer,    *)
(* ThreadStateMachine hunts for the tag, reads the head, the body and the  *)
(* CRC and queues the packet, ThreadProcessPkg takes it out and calls the  *)
(* handler of its command.                                                 *)
(*                                                                         *)
(* The two ends of the server use this code differently.  A connection     *)
(* from a device has a handler of its own, deleted with the connection.    *)
(* The client of the platform is one handler for all its connections:      *)
(* Reconnect changes the socket and leaves the ring buffer and the state   *)
(* machine as they are.                                                    *)
(*                                                                         *)
(* The ring buffer is the sequence of bytes ByteFifo promises.  The CRC is *)
(* taken to be right for whole packets only.                               *)
(***************************************************************************)
EXTENDS Integers, Sequences, SequencesExt

CONSTANTS
  Roles,         \* of {"server", "client"}
  RingSize,      \* BUFFER_SIZE
  MaxPkgs,       \* pkgs.setMax
  HeadLen,       \* bytes of a PkgHead after its tag
  CrcLen,        \* bytes of a PkgCRC
  BodyLens,      \* the body lengths of the packets sent
  GarbageLens,   \* the packet lengths read where there is no head
  WordSize,      \* 2^64: bodyLen is unsigned
  MaxSent,       \* BOUND: how many packets the peer sends
  MaxBreaks      \* BOUND: how often the network breaks the connection

ASSUME FramingAssumption ==
  /\ Roles \subseteq {"server", "client"}
  /\ HeadLen \in Nat \ {0} /\ CrcLen \in Nat \ {0}
  /\ RingSize \in Nat /\ RingSize >= HeadLen /\ RingSize >= CrcLen
  /\ MaxPkgs \in Nat \ {0}
  /\ WordSize \in Nat \ {0}
  /\ BodyLens \subseteq 0 .. WordSize - 1 /\ GarbageLens \subseteq Nat
  /\ MaxSent \in Nat /\ MaxBreaks \in Nat

Pkgs == 1 .. MaxSent

(* A byte: the packet it belongs to, its place in it, the packet's body    *)
(* length and whether the byte looks like the tag.                         *)
Byte == [pkg : Pkgs, at : Nat \ {0}, body : BodyLens, tag : BOOLEAN]
Size(n) == 1 + HeadLen + n + CrcLen
Packet(p, n, misleading) ==
  [k \in 1 .. Size(n) |->
    [pkg |-> p, at |-> k, body |-> n, tag |-> k = 1 \/ misleading]]

VARIABLES
  role,         \* which end of the server this is; never changes
  wire,         \* bytes the socket has not given out
  rb,           \* the ring buffer
  status,       \* the state machine's RecvStatus
  pkgLen,       \* pkgHead.len, for which pkgBuffer has room
  bodyLen,      \* bytes of the body still to be read
  pkgBuffer,    \* the packet as far as it was read
  pkgs,         \* the packets not yet processed
  sent,         \* how many packets the peer has sent
  breaks,       \* how often the network broke the connection
  processed,    \* HISTORY: packets handed to their handler
  dropped,      \* HISTORY: packets that found pkgs full
  cut,          \* HISTORY: packets of which a disconnection lost some byte
  swallowed     \* HISTORY: packets whose tag was read as something else

peerVars == <<role, wire, sent, breaks>>
machineVars == <<status, pkgLen, bodyLen, pkgBuffer>>
historyVars == <<processed, dropped, cut, swallowed>>
vars == <<peerVars, rb, machineVars, pkgs, historyVars>>

Init ==
  /\ role \in Roles
  /\ wire = <<>> /\ sent = 0 /\ breaks = 0
  /\ rb = <<>>
  /\ status = "Start" /\ pkgLen = 0 /\ bodyLen = 0 /\ pkgBuffer = <<>>
  /\ pkgs = <<>>
  /\ processed = {} /\ dropped = {} /\ cut = {} /\ swallowed = {}

-----------------------------------------------------------------------------
(* The peer and the network.                                               *)

Send(n, misleading) ==
  /\ sent < MaxSent
  /\ sent' = sent + 1
  /\ wire' = wire \o Packet(sent', n, misleading)
  /\ UNCHANGED <<role, breaks, rb, machineVars, pkgs, historyVars>>

PkgsOf(bytes) == {b.pkg : b \in ToSet(bytes)}

(* A handler begins from nothing; what was under way is lost.              *)
Afresh ==
  /\ wire' = <<>> /\ rb' = <<>> /\ pkgs' = <<>>
  /\ status' = "Start" /\ pkgLen' = 0 /\ bodyLen' = 0 /\ pkgBuffer' = <<>>
  /\ cut' = cut \cup PkgsOf(wire) \cup PkgsOf(rb) \cup ToSet(pkgs) \cup PkgsOf(pkgBuffer)

(* What is left for the next connection.  A server's handler is deleted, in*)
(* its destructor the threads stop; the client goes on.                    *)
MutDisconnected ==
  /\ wire' = <<>>
  /\ cut' = cut \cup PkgsOf(wire)
  /\ UNCHANGED <<rb, machineVars, pkgs>>
Disconnected ==
  \/ role = "server" /\ Afresh
  \/ /\ role # "server"
     /\ wire' = <<>>
     /\ cut' = cut \cup PkgsOf(wire)
     /\ UNCHANGED <<rb, machineVars, pkgs>>

(* The connection breaks and there is a new one: onReadable or             *)
(* onSocketShutdown with the device's next connection, Reconnect.          *)
Break ==
  /\ breaks < MaxBreaks
  /\ breaks' = breaks + 1
  /\ Disconnected
  /\ UNCHANGED <<role, sent, processed, dropped, swallowed>>

-----------------------------------------------------------------------------
(* The receiving thread.                                                   *)

Room == RingSize - Len(rb)

Receive(n) ==
  /\ n <= Room /\ n <= Len(wire)
  /\ rb' = rb \o SubSeq(wire, 1, n)
  /\ wire' = SubSeq(wire, n + 1, Len(wire))
  /\ UNCHANGED <<role, sent, breaks, machineVars, pkgs, historyVars>>

(* onReadable asks a readable socket for as many bytes as there is room; no*)
(* room gives no bytes, which is taken for the end of the connection.      *)
HangUp ==
  /\ role = "server"
  /\ wire # <<>> /\ Room = 0
  /\ Disconnected
  /\ UNCHANGED <<role, sent, breaks, processed, dropped, swallowed>>

-----------------------------------------------------------------------------
(* ThreadStateMachine.                                                     *)

Swallow(bytes) ==
  swallowed' = swallowed \cup {b.pkg : b \in {c \in ToSet(bytes) : c.at = 1}}

(* n bytes are read into the packet.                                       *)
Take(n) ==
  LET bytes == SubSeq(rb, 1, n) IN
  /\ n <= Len(rb)
  /\ rb' = SubSeq(rb, n + 1, Len(rb))
  /\ pkgBuffer' = pkgBuffer \o bytes
  /\ Swallow(bytes)

(* Start: one byte is read; a tag begins a packet, another byte is skipped.*)
Start ==
  /\ status = "Start"
  /\ rb # <<>>
  /\ rb' = Tail(rb)
  /\ IF Head(rb).tag
       THEN status' = "GetHead" /\ pkgBuffer' = <<Head(rb)>>
       ELSE UNCHANGED <<status, pkgBuffer>>
  /\ UNCHANGED <<peerVars, pkgLen, bodyLen, pkgs, historyVars>>

(* The length the head in the ring buffer gives: the packet's, or anything *)
(* when it is not one head.  One shorter than PkgHead and PkgCRC together  *)
(* makes a body that has no end.                                           *)
MutBodyOf(n) == (n - (1 + HeadLen)) % WordSize
BodyOf(n) == (n - (1 + HeadLen + CrcLen)) % WordSize
IsHead(bytes) ==
  \A k \in DOMAIN bytes : bytes[k].pkg = bytes[1].pkg /\ bytes[k].at = k + 1
HeadGives(n) ==
  IF IsHead(SubSeq(rb, 1, HeadLen))
    THEN n = Size(rb[1].body) ELSE n \in GarbageLens

GetHead ==
  /\ status = "GetHead"
  /\ Take(HeadLen)
  /\ \E n \in GarbageLens \cup {Size(m) : m \in BodyLens} :
       HeadGives(n) /\ pkgLen' = n /\ bodyLen' = BodyOf(n)
  /\ status' = "GetBody"
  /\ UNCHANGED <<peerVars, pkgs, processed, dropped, cut>>

(* GetBody: what there is of the body is read.  The thread comes to it only*)
(* when the ring buffer is not empty.                                      *)
MutReadable == Len(rb)
Readable == IF Len(rb) < bodyLen THEN Len(rb) ELSE bodyLen
GetBody ==
  /\ status = "GetBody"
  /\ rb # <<>>
  /\ Take(Readable)
  /\ bodyLen' = bodyLen - Readable
  /\ status' = IF bodyLen' = 0 THEN "GetCRC" ELSE "GetBody"
  /\ UNCHANGED <<peerVars, pkgLen, pkgs, processed, dropped, cut>>

(* Unpack and the CRC accept what was read.                                *)
Whole(bytes) ==
  /\ Len(bytes) = Size(bytes[1].body)
  /\ \A k \in DOMAIN bytes : bytes[k].pkg = bytes[1].pkg /\ bytes[k].at = k

(* GetCRC: the packet is queued, or dropped when the queue is full or the  *)
(* packet is not right; either way the next tag is looked for.             *)
GetCRC ==
  /\ status = "GetCRC"
  /\ CrcLen <= Len(rb)
  /\ LET bytes == pkgBuffer \o SubSeq(rb, 1, CrcLen)
         pkg == bytes[1].pkg
     IN  /\ pkgs' = IF Whole(bytes) /\ Len(pkgs) < MaxPkgs THEN Append(pkgs, pkg) ELSE pkgs
         /\ dropped' = IF Whole(bytes) /\ Len(pkgs) >= MaxPkgs
                         THEN dropped \cup {pkg} ELSE dropped
  /\ Swallow(SubSeq(rb, 1, CrcLen))
  /\ rb' = SubSeq(rb, CrcLen + 1, Len(rb))
  /\ status' = "Start" /\ pkgLen' = 0 /\ bodyLen' = 0 /\ pkgBuffer' = <<>>
  /\ UNCHANGED <<peerVars, processed, cut>>

ThreadStateMachine == Start \/ GetHead \/ GetBody \/ GetCRC

(* ThreadProcessPkg.                                                       *)
ThreadProcessPkg ==
  /\ pkgs # <<>>
  /\ processed' = processed \cup {Head(pkgs)}
  /\ pkgs' = Tail(pkgs)
  /\ UNCHANGED <<peerVars, rb, machineVars, dropped, cut, swallowed>>

(* More has been put into pkgBuffer than there is room for.  What it has   *)
(* overwritten may end the process, at any time or never; the machine      *)
(* starts it anew.                                                         *)
Overrun == status = "GetBody" /\ Len(pkgBuffer) > pkgLen
Falls ==
  /\ Overrun
  /\ Afresh
  /\ UNCHANGED <<role, sent, breaks, processed, dropped, swallowed>>

-----------------------------------------------------------------------------
ReceiveSome == HangUp \/ \E n \in 1 .. RingSize : Receive(n)

Next == \/ \E n \in BodyLens, misleading \in BOOLEAN : Send(n, misleading)
        \/ Break
        \/ ReceiveSome
        \/ ThreadStateMachine
        \/ ThreadProcessPkg
        \/ Falls

(* The three threads run as long as the connection.                        *)
Spec == /\ Init /\ [][Next]_vars
        /\ WF_vars(ReceiveSome)
        /\ WF_vars(ThreadStateMachine)
        /\ WF_vars(ThreadProcessPkg)

-----------------------------------------------------------------------------
TypeOK ==
  /\ role \in Roles
  /\ wire \in Seq(Byte)
  /\ sent \in 0 .. MaxSent /\ breaks \in 0 .. MaxBreaks
  /\ rb \in Seq(Byte) /\ Len(rb) <= RingSize
  /\ status \in {"Start", "GetHead", "GetBody", "GetCRC"}
  /\ pkgLen \in Nat /\ bodyLen \in Nat
  /\ pkgBuffer \in Seq(Byte)
  /\ status = "Start" <=> pkgBuffer = <<>>
  /\ status \in {"Start", "GetHead", "GetCRC"} => bodyLen = 0
  /\ pkgs \in Seq(Pkgs) /\ Len(pkgs) <= MaxPkgs
  /\ processed \in SUBSET Pkgs /\ dropped \in SUBSET Pkgs
  /\ cut \in SUBSET Pkgs /\ swallowed \in SUBSET Pkgs

(* However the bytes are cut into pieces on their way, and whatever a      *)
(* disconnection left half read, a packet disappears only for a reason: a  *)
(* full queue, a byte lost with a connection, its tag read as part of      *)
(* another packet.                                                         *)
UnderWay == PkgsOf(wire) \cup PkgsOf(rb) \cup PkgsOf(pkgBuffer) \cup ToSet(pkgs)
LossesExplained ==
  1 .. sent \subseteq UnderWay \cup processed \cup dropped \cup cut \cup swallowed

(* The state machine is only ever out of step with the stream, and writes  *)
(* past its buffer, in the client and after bytes were lost with a         *)
(* connection.                                                             *)
OutOfStepOnlyAfterCut == swallowed # {} \/ Overrun => role = "client" /\ cut # {}

(* No packet is left half read for ever.  Behind garbage that passes for a *)
(* head its fate is decided as well: it is read as part of the garbage, for*)
(* ever if the length is too short for a packet, or lost with the process  *)
(* that falls.                                                             *)
EveryPacketSettled ==
  \A p \in Pkgs : sent >= p ~> p \in processed \cup dropped \cup cut \cup swallowed
=============================================================================
