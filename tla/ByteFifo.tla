------------------------------ MODULE ByteFifo ------------------------------
(***************************************************************************)
(* What the receiving side of a connection relies on: a bounded channel of *)
(* bytes between the thread that reads the socket and the thread that      *)
(* takes the stream apart.                                                 *)
(***************************************************************************)
EXTENDS Integers, Sequences

CONSTANTS Byte, Capacity

VARIABLES
  queue,    \* the bytes written and not yet read
  put,      \* the bytes the last write was given
  got       \* the bytes the last read returned

vars == <<queue, put, got>>

Init == queue = <<>> /\ put = <<>> /\ got = <<>>

Put(data) ==
  /\ Len(queue) + Len(data) <= Capacity
  /\ queue' = queue \o data
  /\ put' = data
  /\ UNCHANGED got

Take(count) ==
  /\ count <= Len(queue)
  /\ got' = SubSeq(queue, 1, count)
  /\ queue' = SubSeq(queue, count + 1, Len(queue))
  /\ UNCHANGED put

Next == \/ \E n \in 0 .. Capacity : \E data \in [1 .. n -> Byte] : Put(data)
        \/ \E count \in 0 .. Capacity : Take(count)

Spec == Init /\ [][Next]_vars
=============================================================================
