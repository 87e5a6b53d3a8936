----------------------------- MODULE RingBuffer -----------------------------
(***************************************************************************)
(* The receive buffer of a connection (ringbuffer/RingBuffer.cpp).  One    *)
(* thread asks how much room there is, receives at most that many bytes    *)
(* from the socket and writes them; another asks how much there is to read *)
(* and reads at most that.  Each of the four calls holds the mutex; between*)
(* the question and the call that trusts the answer the other thread runs. *)
(***************************************************************************)
EXTENDS Integers, Sequences

CONSTANTS Byte, Capacity

ASSUME RingBufferAssumption == Capacity \in Nat \ {0}

Nothing == -1    \* a thread has not asked

VARIABLES
  buff, read_pos, write_pos, available_for_read, available_for_write,
  room,       \* what GetWriteLen told the receiving thread
  ready,      \* what GetReadLen told the parsing thread
  got,        \* the bytes the last Read returned
  put,        \* HISTORY: the bytes the last Write took
  refused     \* HISTORY: a Read or a Write did nothing (the printf branch)

ring == <<buff, read_pos, write_pos, available_for_read, available_for_write>>
vars == <<ring, room, ready, got, put, refused>>

Index == 0 .. Capacity - 1

Init ==
  /\ buff \in [Index -> Byte]      \* new uint8_t[capacity]: any contents
  /\ read_pos = 0 /\ write_pos = 0
  /\ available_for_read = 0 /\ available_for_write = Capacity
  /\ room = Nothing /\ ready = Nothing
  /\ got = <<>> /\ put = <<>>
  /\ refused = FALSE

MutGetWriteLen == Capacity - write_pos
GetWriteLen == available_for_write

AskRoom ==
  /\ room = Nothing
  /\ room' = GetWriteLen
  /\ UNCHANGED <<ring, ready, got, put, refused>>

AskReady ==
  /\ ready = Nothing
  /\ ready' = available_for_read
  /\ UNCHANGED <<ring, room, got, put, refused>>

(* memcpy of data to the positions from at.                                *)
Copied(b, at, data) ==
  [i \in Index |-> IF i - at \in 0 .. Len(data) - 1 THEN data[i - at + 1] ELSE b[i]]

(* Where a position is after count bytes; a copy past the end of the buffer*)
(* goes on at its beginning.                                               *)
Splits(pos, count) == pos + count > Capacity
MutAdvance(pos, count) ==
  IF Splits(pos, count) THEN count - (Capacity - pos) ELSE pos + count
Advance(pos, count) ==
  (IF Splits(pos, count) THEN count - (Capacity - pos) ELSE pos + count) % Capacity

MutWritten(data) ==
  IF Splits(write_pos, Len(data))
    THEN LET len == Capacity - write_pos
         IN  Copied(Copied(buff, write_pos, SubSeq(data, 1, len)), 0,
                    SubSeq(data, 1, Len(data) - len))
    ELSE Copied(buff, write_pos, data)
Written(data) ==
  IF Splits(write_pos, Len(data))
    THEN LET len == Capacity - write_pos
         IN  Copied(Copied(buff, write_pos, SubSeq(data, 1, len)), 0,
                    SubSeq(data, len + 1, Len(data)))
    ELSE Copied(buff, write_pos, data)

(* The receiving thread writes what it received, not more than the room it *)
(* was told of.                                                            *)
Write(data) ==
  /\ room # Nothing /\ Len(data) <= room
  /\ IF available_for_write >= Len(data)
       THEN /\ buff' = Written(data)
            /\ write_pos' = Advance(write_pos, Len(data))
            /\ available_for_read' = available_for_read + Len(data)
            /\ available_for_write' = Capacity - available_for_read'
            /\ put' = data
            /\ UNCHANGED refused
       ELSE refused' = TRUE /\ UNCHANGED <<ring, put>>
  /\ room' = Nothing
  /\ UNCHANGED <<read_pos, ready, got>>

(* What memcpy takes out of the buffer, in one piece or in two.            *)
Piece(from, count) == [k \in 1 .. count |-> buff[from + k - 1]]
Taken(count) ==
  IF Splits(read_pos, count)
    THEN LET len == Capacity - read_pos
         IN  Piece(read_pos, len) \o Piece(0, count - len)
    ELSE Piece(read_pos, count)

(* The parsing thread reads, not more than it was told of.                 *)
Read(count) ==
  /\ ready # Nothing /\ count <= ready
  /\ IF available_for_read >= count
       THEN /\ got' = Taken(count)
            /\ read_pos' = Advance(read_pos, count)
            /\ available_for_read' = available_for_read - count
            /\ available_for_write' = Capacity - available_for_read'
            /\ UNCHANGED <<buff, refused>>
       ELSE refused' = TRUE /\ UNCHANGED <<ring, got>>
  /\ ready' = Nothing
  /\ UNCHANGED <<write_pos, room, put>>

Next == \/ AskRoom \/ AskReady
        \/ \E n \in 0 .. Capacity : \E data \in [1 .. n -> Byte] : Write(data)
        \/ \E count \in 0 .. Capacity : Read(count)

Spec == Init /\ [][Next]_vars

-----------------------------------------------------------------------------
TypeOK ==
  /\ buff \in [Index -> Byte]
  /\ read_pos \in Index /\ write_pos \in Index
  /\ available_for_read \in 0 .. Capacity
  /\ available_for_write \in 0 .. Capacity
  /\ room \in 0 .. Capacity \cup {Nothing}
  /\ ready \in 0 .. Capacity \cup {Nothing}
  /\ got \in Seq(Byte) /\ put \in Seq(Byte)
  /\ refused \in BOOLEAN

(* Neither thread is ever turned away: what it was told a moment ago still *)
(* holds when it calls, because the other thread can only better it.  Write*)
(* would lose received bytes, Read would leave its caller's memory as is.  *)
NeverRefused == ~refused

(* Through every wrap of the two positions, what is read is what was       *)
(* written, byte by byte and in order.                                     *)
Contents == [k \in 1 .. available_for_read |-> buff[(read_pos + k - 1) % Capacity]]
Fifo == INSTANCE ByteFifo WITH queue <- Contents
ImplementsFifo == Fifo!Spec
=============================================================================
