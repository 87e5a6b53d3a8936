----------------------------- MODULE ServerConn -----------------------------
(***************************************************************************)
(* The life of a device's connection at the server: a MyTcpServerHandler   *)
(* is made by the reactor of its port, runs two threads (t1, the state     *)
(* machine over the ring buffer, and t2, which handles the packets) and    *)
(* ends by "delete this", either in the reactor or, after a send that      *)
(* failed, in t2 itself.  All handlers stand in one global vector, conns,  *)
(* by which an unknown device is thrown out.                               *)
(*                                                                         *)
(* conns_mutex is held over a loop and nothing that waits, so each loop is *)
(* one step.  mtx_dataUnitCrossStageData is held over a send, which waits  *)
(* for the device to read: it is a variable.                               *)
(***************************************************************************)
EXTENDS Naturals, Sequences, FiniteSets

CONSTANTS
  Conns,      \* BOUND: the connections devices make, each of them once
  Ports,      \* the servers, one reactor each
  Addresses,  \* of the devices
  Origins,    \* where the connections may come from and go to
  None

ASSUME ServerConnAssumption ==
  /\ None \notin Conns
  /\ Origins \subseteq [Conns -> [port : Ports, peer : Addresses]]

VARIABLES
  origin,          \* the port a connection comes in by, and _peerAddress
  sock,            \* the connection as the server finds it
  handler,         \* the object: not made yet, live or freed
  conns,           \* conns: the handlers by the name of their connection
  _isRun,
  isLocalThreadRun,
  t1,              \* where ThreadStateMachine is
  t2,              \* where ThreadProcessPkg is
  stageMutex,      \* mtx_dataUnitCrossStageData: who holds it
  reactor,         \* what the reactor of a port is deleting, and how far it is
  matrixNoFits,    \* whether stoi takes the first ten characters of matrixNo
  alive            \* the process

objVars == <<handler, conns, _isRun, isLocalThreadRun>>
fixed == <<origin, matrixNoFits>>
vars == <<sock, objVars, t1, t2, stageMutex, reactor, alive, fixed>>

Serving == [of |-> None, at |-> "serve"]

Init ==
  /\ origin \in Origins
  /\ sock = [c \in Conns |-> "none"]
  /\ handler = [c \in Conns |-> "none"]
  /\ conns = <<>>
  /\ _isRun = [c \in Conns |-> FALSE]
  /\ isLocalThreadRun = [c \in Conns |-> FALSE]
  /\ t1 = [c \in Conns |-> "none"]
  /\ t2 = [c \in Conns |-> "none"]
  /\ stageMutex = None
  /\ reactor = [p \in Ports |-> Serving]
  /\ matrixNoFits \in BOOLEAN
  /\ alive = TRUE

Made(c) == handler[c] # "none"
SamePeer(c, d) == origin[c].peer = origin[d].peer
T2Is(c, place) == t2' = [t2 EXCEPT ![c] = place]

-----------------------------------------------------------------------------
(* The devices and the network.                                            *)

DeviceCloses(c) ==        \* its end of the stream, or the loss of it
  /\ alive
  /\ \/ sock[c] = "up"  /\ sock' = [sock EXCEPT ![c] = "eof"]
     \/ sock[c] \in {"up", "eof"} /\ sock' = [sock EXCEPT ![c] = "reset"]
  /\ UNCHANGED <<objVars, t1, t2, stageMutex, reactor, alive, fixed>>

-----------------------------------------------------------------------------
(* The reactor of a port.                                                  *)

(* The constructor.  A device may use the address of a connection that is  *)
(* gone while its handler is still there, or one it uses at the other port.*)
Accept(c) ==
  /\ alive
  /\ reactor[origin[c].port] = Serving
  /\ ~Made(c)
  /\ \A d \in Conns : sock[d] = "up" => origin[d] # origin[c]
  /\ sock' = [sock EXCEPT ![c] = "up"]
  /\ handler' = [handler EXCEPT ![c] = "live"]
  /\ conns' = Append(conns, c)
  /\ _isRun' = [_isRun EXCEPT ![c] = TRUE]
  /\ isLocalThreadRun' = [isLocalThreadRun EXCEPT ![c] = TRUE]
  /\ t1' = [t1 EXCEPT ![c] = "run"]
  /\ T2Is(c, "loop")
  /\ UNCHANGED <<stageMutex, reactor, alive, fixed>>

(* stopBusiness, first half: whoever finds the threads running waits for   *)
(* them; one who does not goes on at once.                                 *)
MutStopBusiness(c) ==
  /\ isLocalThreadRun' = [isLocalThreadRun EXCEPT ![c] = FALSE]
  /\ UNCHANGED _isRun
StopBusiness(c) ==
  /\ _isRun' = [_isRun EXCEPT ![c] = FALSE]
  /\ isLocalThreadRun' = [isLocalThreadRun EXCEPT ![c] = FALSE]

(* onReadable gets nothing: the connection is gone, or the ring buffer was *)
(* full and 0 bytes were asked for.                                        *)
OnReadable(c) ==
  LET p == origin[c].port IN
  /\ alive
  /\ handler[c] = "live"
  /\ reactor[p] = Serving
  /\ StopBusiness(c)
  /\ reactor' = [reactor EXCEPT ![p] =
                   [of |-> c, at |-> IF isLocalThreadRun[c] THEN "wait1" ELSE "erase"]]
  /\ UNCHANGED <<sock, handler, conns, t1, t2, stageMutex, alive, fixed>>

Gone(c) == sock[c] \in {"eof", "reset", "shut"}
OnClosed(c) == Gone(c) /\ OnReadable(c)
OnFull(c) == sock[c] = "up" /\ OnReadable(c)

ReactorIs(p, c, place, next) ==
  /\ alive
  /\ reactor[p] = [of |-> c, at |-> place]
  /\ reactor' = [reactor EXCEPT ![p] = next]

T2Over == {"over", "threw"}
MutWaitForT2(c) == TRUE
WaitForT2(c) == t2[c] \in T2Over

(* future_t1.wait(), then future_t2.wait(): both return for a thread that  *)
(* ended by an exception too.                                              *)
WaitT1(p, c) ==
  /\ ReactorIs(p, c, "wait1", [of |-> c, at |-> "wait2"])
  /\ t1[c] = "over"
  /\ UNCHANGED <<sock, objVars, t1, t2, stageMutex, alive, fixed>>

WaitT2(p, c) ==
  /\ ReactorIs(p, c, "wait2", [of |-> c, at |-> "erase"])
  /\ WaitForT2(c)
  /\ UNCHANGED <<sock, objVars, t1, t2, stageMutex, alive, fixed>>

(* The destructor's loop erases every handler with its own address; the    *)
(* index goes on after an erasure, over the element that moved up.         *)
MutNotErased(q, c) == q
ErasedFrom(q, c) ==
  LET match(k) == SamePeer(q[k], c)
      skipped[k \in 0 .. Len(q)] ==      \* whether the loop passes k by
        k > 1 /\ match(k - 1) /\ ~skipped[k - 1]
      kept == {k \in DOMAIN q : ~match(k) \/ skipped[k]}
  IN  [j \in 1 .. Cardinality(kept) |->
         q[CHOOSE k \in kept : Cardinality({i \in kept : i <= k}) = j]]

(* Walking conns over a freed handler reads freed memory: it finds no      *)
(* match, or the process falls.                                            *)
Stale(q) == \E k \in DOMAIN q : handler[q[k]] = "freed"
Walk(q) == alive' \in (IF Stale(q) THEN BOOLEAN ELSE {TRUE})

(* The rest of the destructor, and that of MyTcpHandler: rb and mtx are    *)
(* deleted.                                                                *)
Destroy(p, c) ==
  /\ ReactorIs(p, c, "erase", [of |-> c, at |-> "join"])
  /\ conns' = ErasedFrom(conns, c)
  /\ handler' = [handler EXCEPT ![c] = "freed"]
  /\ Walk(conns)
  /\ UNCHANGED <<sock, _isRun, isLocalThreadRun, t1, t2, stageMutex, fixed>>

(* The futures join their threads, the socket is closed and the reactor    *)
(* serves again.                                                           *)
Join(p, c) ==
  /\ ReactorIs(p, c, "join", Serving)
  /\ t1[c] = "over" /\ t2[c] \in T2Over
  /\ sock' = [sock EXCEPT ![c] = "shut"]
  /\ UNCHANGED <<objVars, t1, t2, stageMutex, alive, fixed>>

-----------------------------------------------------------------------------
(* The threads of a connection.                                            *)

T1Ends(c) ==
  /\ alive
  /\ t1[c] = "run" /\ ~_isRun[c]
  /\ t1' = [t1 EXCEPT ![c] = "over"]
  /\ UNCHANGED <<sock, objVars, t2, stageMutex, reactor, alive, fixed>>

(* The loop takes a packet of a device that is not associated, or a stage  *)
(* query; other packets have no effect here.                               *)
TakePacket(c) ==
  /\ alive
  /\ t2[c] = "loop" /\ _isRun[c]
  /\ T2Is(c, "kick") \/ T2Is(c, "stage")
  /\ UNCHANGED <<sock, objVars, t1, stageMutex, reactor, alive, fixed>>

T2Ends(c) ==
  /\ alive
  /\ t2[c] = "loop" /\ ~_isRun[c]
  /\ T2Is(c, "over")
  /\ UNCHANGED <<sock, objVars, t1, stageMutex, reactor, alive, fixed>>

(* judgeHardCode calls deleteFromConns.  shutdown throws for a connection  *)
(* that was reset, and may for one that was shut down before; what is      *)
(* thrown ends the loop, the handler and the thread.                       *)
MutMatches(c) == DOMAIN conns
Matches(c) == {k \in DOMAIN conns : SamePeer(conns[k], c)}
ShutThrows(d) == CASE sock[d] = "reset" -> {TRUE}
                   [] sock[d] = "shut"  -> BOOLEAN
                   [] OTHER             -> {FALSE}
Kick(c) ==
  /\ alive
  /\ t2[c] = "kick"
  /\ \E k \in Matches(c) \cup {None} :           \* the first to throw, if any
       LET before == {j \in Matches(c) : k = None \/ j < k} IN
       /\ k # None => TRUE \in ShutThrows(conns[k])
       /\ \A j \in before : FALSE \in ShutThrows(conns[j])
       /\ sock' = [d \in Conns |->
                     IF \E j \in before : conns[j] = d THEN "shut" ELSE sock[d]]
       /\ T2Is(c, IF k = None THEN "loop" ELSE "threw")
  /\ Walk(conns)
  /\ UNCHANGED <<objVars, t1, stageMutex, reactor, fixed>>

(* PkgProcessFun_CmdCrossStageData.  stoi may throw: the lock is given back*)
(* and the thread ends.                                                    *)
MutStageIsFree == TRUE
StageIsFree == stageMutex = None
StageLock(c) ==
  /\ alive
  /\ t2[c] = "stage"
  /\ StageIsFree
  /\ IF matrixNoFits THEN T2Is(c, "send") /\ stageMutex' = c
                     ELSE T2Is(c, "threw") /\ UNCHANGED stageMutex
  /\ UNCHANGED <<sock, objVars, t1, reactor, alive, fixed>>

(* SendBase returns: the device took the answer (there is no send timeout: *)
(* until it does, the mutex is held), or a connection that is gone reports *)
(* the end of a timeout, which is no reason to delete.                     *)
SendReturns(c) ==
  /\ alive
  /\ t2[c] = "send"
  /\ sock[c] # "shut"
  /\ T2Is(c, "loop")
  /\ stageMutex' = None
  /\ UNCHANGED <<sock, objVars, t1, reactor, alive, fixed>>

(* SendBase fails and deletes the handler it runs in: it waits for t1, is  *)
(* told that it cannot wait for itself, goes on, and falls when the future *)
(* of its own thread is destroyed.                                         *)
SendFails(c) ==
  /\ alive
  /\ t2[c] = "send"
  /\ sock[c] \in {"reset", "shut"}
  /\ StopBusiness(c)
  /\ T2Is(c, IF isLocalThreadRun[c] THEN "deleteWait" ELSE "delete")
  /\ UNCHANGED <<sock, handler, conns, t1, stageMutex, reactor, alive, fixed>>

DeleteWait(c) ==
  /\ alive
  /\ t2[c] = "deleteWait"
  /\ t1[c] = "over"
  /\ T2Is(c, "delete")
  /\ UNCHANGED <<sock, objVars, t1, stageMutex, reactor, alive, fixed>>

DeleteThis(c) ==
  /\ alive
  /\ t2[c] = "delete"
  /\ conns' = ErasedFrom(conns, c)
  /\ handler' = [handler EXCEPT ![c] = "freed"]
  /\ alive' = FALSE
  /\ UNCHANGED <<sock, _isRun, isLocalThreadRun, t1, t2, stageMutex, reactor, fixed>>

(* A thread that goes on after its handler was freed.                      *)
Deleting == {"deleteWait", "delete"}
Stray(c) ==
  /\ alive
  /\ handler[c] = "freed"
  /\ t1[c] = "run" \/ t2[c] \notin T2Over \cup Deleting
  /\ alive' = FALSE
  /\ UNCHANGED <<sock, objVars, t1, t2, stageMutex, reactor, fixed>>

-----------------------------------------------------------------------------
Reactor(p) == \E c \in Conns : WaitT1(p, c) \/ WaitT2(p, c) \/ Destroy(p, c) \/ Join(p, c)
ThreadProcessPkg(c) == \/ T2Ends(c) \/ Kick(c) \/ SendReturns(c)
                       \/ SendFails(c) \/ DeleteWait(c) \/ DeleteThis(c)

Fallen == ~alive /\ UNCHANGED vars

Next ==
  \/ \E c \in Conns :
       \/ DeviceCloses(c) \/ Accept(c)
       \/ OnClosed(c) \/ OnFull(c)
       \/ T1Ends(c) \/ TakePacket(c) \/ ThreadProcessPkg(c) \/ StageLock(c) \/ Stray(c)
  \/ \E p \in Ports : Reactor(p)
  \/ Fallen

(* Every thread runs on.  A reactor goes round its readable sockets, a     *)
(* thread waiting for the mutex gets it some time, and a device reads what *)
(* it is sent.                                                             *)
Spec == /\ Init /\ [][Next]_vars
        /\ \A p \in Ports : WF_vars(Reactor(p))
        /\ \A c \in Conns : /\ SF_vars(OnClosed(c)) /\ SF_vars(StageLock(c))
                            /\ WF_vars(T1Ends(c)) /\ WF_vars(ThreadProcessPkg(c))

-----------------------------------------------------------------------------
TypeOK ==
  /\ origin \in Origins
  /\ sock \in [Conns -> {"none", "up", "eof", "reset", "shut"}]
  /\ handler \in [Conns -> {"none", "live", "freed"}]
  /\ \A c \in Conns : Made(c) <=> sock[c] # "none"
  /\ conns \in Seq({c \in Conns : Made(c)})
  /\ \A c \in Conns : Cardinality({k \in DOMAIN conns : conns[k] = c}) <= 1
  /\ _isRun \in [Conns -> BOOLEAN]
  /\ isLocalThreadRun \in [Conns -> BOOLEAN]
  /\ t1 \in [Conns -> {"none", "run", "over"}]
  /\ t2 \in [Conns -> {"none", "loop", "kick", "stage", "send", "over", "threw"}
                      \cup Deleting]
  /\ stageMutex \in Conns \cup {None}
  /\ \A c \in Conns : t2[c] \in {"send"} \cup Deleting <=> stageMutex = c
  /\ \A p \in Ports :
       \/ reactor[p] = Serving
       \/ /\ reactor[p].at \in {"wait1", "wait2", "erase", "join"}
          /\ reactor[p].of \in Conns /\ origin[reactor[p].of].port = p
  /\ matrixNoFits \in BOOLEAN
  /\ alive \in BOOLEAN

(* No other connection ever had the address of this one.                   *)
Alone(c) == \A d \in Conns \ {c} : Made(d) => ~SamePeer(c, d)

(* conns holds the live handlers, though a destructor skips the one after  *)
(* a handler it erases: what deleteFromConns walks over is never freed and *)
(* never lacks a live connection, as long as nobody shared its address.    *)
ConnsAreLive ==
  alive => \A c \in Conns :
             Made(c) /\ Alone(c) =>
               ((\E k \in DOMAIN conns : conns[k] = c) <=> handler[c] = "live")

(* A connection whose packets nobody handles any more, because the handler *)
(* of one threw, is one that is gone itself; but for a number of the       *)
(* device that is none, and for two connections of one address.            *)
ThrewOnlyIfGone ==
  \A c \in Conns : t2[c] = "threw" => \/ ~matrixNoFits \/ ~Alone(c)
                                      \/ Gone(c)

(* The process falls for no reason but a thread that deletes the handler   *)
(* it runs in, after a stage answer that could not be sent, and a freed    *)
(* handler that another one of its address may have left in conns: neither *)
(* onReadable racing with a packet still being handled, nor one deletion   *)
(* that meets another, takes the handler from under a thread.              *)
FallIsExplained ==
  ~alive => \/ \E c \in Conns : t2[c] \in Deleting
            \/ \E c \in Conns : handler[c] = "freed" /\ ~Alone(c)

(* A connection that is gone, and one whose device is to be thrown out, is *)
(* freed in the end, though its reactor may be waiting for the threads of  *)
(* another connection, these for the stage mutex, and its holder for a     *)
(* device to read.  (A second connection of its address may save a device  *)
(* from being thrown out.)                                                 *)
Overtaken(c) == ~Gone(c) /\ ~Alone(c)
GoneIsFreed ==
  \A c \in Conns :
    (handler[c] = "live" /\ (Gone(c) \/ (t2[c] = "kick" /\ Alone(c))))
      ~> (handler[c] = "freed" \/ ~alive \/ Overtaken(c))
=============================================================================
