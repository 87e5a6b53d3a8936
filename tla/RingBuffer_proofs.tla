-------------------------- MODULE RingBuffer_proofs --------------------------
(***************************************************************************)
(* The ring buffer is a bounded channel of bytes, for every capacity and   *)
(* whatever pieces the two threads write and read.                         *)
(*                                                                         *)
(* The two positions are tied by the number of bytes between them, and an  *)
(* answer a thread holds never exceeds what there is.  The branches of Read*)
(* and Write, which copy in one piece or in two, are reduced once to their *)
(* effect on a single position (AdvanceIs, WrittenAt, TakenAt).            *)
(***************************************************************************)
EXTENDS RingBuffer, TLAPS

LEMMA Wrap ==
  ASSUME NEW n \in Nat, n < 2 * Capacity
  PROVE  n % Capacity = IF n < Capacity THEN n ELSE n - Capacity
  BY RingBufferAssumption

LEMMA AdvanceIs ==
  ASSUME NEW pos \in Index, NEW count \in 0 .. Capacity
  PROVE  /\ Advance(pos, count) = (pos + count) % Capacity
         /\ Advance(pos, count) \in Index
<1>1. pos \in Nat /\ pos < Capacity /\ count \in Nat /\ count <= Capacity
  BY RingBufferAssumption DEF Index
<1>2. CASE Splits(pos, count)
  <2>1. pos + count - Capacity \in Nat /\ pos + count - Capacity < Capacity
    BY <1>1, <1>2, RingBufferAssumption DEF Splits
  <2>2. (pos + count) % Capacity = pos + count - Capacity
    BY <1>1, <1>2, Wrap, RingBufferAssumption DEF Splits
  <2>3. (pos + count - Capacity) % Capacity = pos + count - Capacity
    BY <2>1, Wrap, RingBufferAssumption
  <2>4. Advance(pos, count) = (pos + count - Capacity) % Capacity
    <3>1. count - (Capacity - pos) = pos + count - Capacity
      BY <1>1, RingBufferAssumption
    <3> QED
      BY <1>2, <3>1 DEF Advance
  <2> QED
    BY <2>1, <2>2, <2>3, <2>4, RingBufferAssumption DEF Index
<1>3. CASE ~Splits(pos, count)
  <2>1. Advance(pos, count) = (pos + count) % Capacity
    BY <1>3 DEF Advance
  <2>2. (pos + count) % Capacity \in Index
    BY <1>1, Wrap, RingBufferAssumption DEF Index
  <2> QED
    BY <2>1, <2>2
<1> QED
  BY <1>2, <1>3

(* How far position i is behind position at, going round.                  *)
Behind(i, at) == IF i >= at THEN i - at ELSE i + Capacity - at

LEMMA WrittenAt ==
  ASSUME NEW data \in Seq(Byte), Len(data) <= Capacity,
         buff \in [Index -> Byte], write_pos \in Index
  PROVE  /\ Written(data) \in [Index -> Byte]
         /\ \A i \in Index :
              Written(data)[i] = IF Behind(i, write_pos) < Len(data)
                                   THEN data[Behind(i, write_pos) + 1]
                                   ELSE buff[i]
<1> DEFINE n == Len(data)
           len == Capacity - write_pos
<1>1. /\ write_pos \in Nat /\ write_pos < Capacity
      /\ n \in Nat /\ n <= Capacity /\ len \in Nat
  BY RingBufferAssumption DEF Index
<1>2. CASE Splits(write_pos, n)
  <2> DEFINE d1 == SubSeq(data, 1, len)
             d2 == SubSeq(data, len + 1, n)
             b1 == Copied(buff, write_pos, d1)
  <2>1. len < n
    BY <1>1, <1>2, RingBufferAssumption DEF Splits
  <2>2. /\ Len(d1) = len /\ \A k \in 1 .. len : d1[k] = data[k]
        /\ Len(d2) = n - len /\ \A k \in 1 .. n - len : d2[k] = data[k + len]
    BY <1>1, <2>1
  <2>3. \A i \in Index : b1[i] = IF i >= write_pos THEN data[i - write_pos + 1] ELSE buff[i]
    <3> SUFFICES ASSUME NEW i \in Index
                 PROVE  b1[i] = IF i >= write_pos THEN data[i - write_pos + 1] ELSE buff[i]
      OBVIOUS
    <3>1. b1[i] = IF i - write_pos \in 0 .. len - 1 THEN d1[i - write_pos + 1] ELSE buff[i]
      BY <2>2 DEF Copied
    <3>2. i \in Nat /\ i < Capacity
      BY RingBufferAssumption DEF Index
    <3>3. CASE i >= write_pos
      <4>1. i - write_pos \in 0 .. len - 1 /\ i - write_pos + 1 \in 1 .. len
        BY <1>1, <3>2, <3>3, RingBufferAssumption
      <4> QED
        BY <2>2, <3>1, <3>3, <4>1
    <3>4. CASE ~(i >= write_pos)
      <4>1. ~(i - write_pos \in 0 .. len - 1)
        BY <1>1, <3>2, <3>4
      <4> QED
        BY <3>1, <3>4, <4>1
    <3> QED
      BY <3>3, <3>4
  <2>4. Written(data) = Copied(b1, 0, d2)
    BY <1>2 DEF Written
  <2> HIDE DEF b1
  <2>5. ASSUME NEW i \in Index
        PROVE  Written(data)[i] = IF Behind(i, write_pos) < n
                                    THEN data[Behind(i, write_pos) + 1] ELSE buff[i]
    <3>1. Written(data)[i] = IF i - 0 \in 0 .. (n - len) - 1 THEN d2[i - 0 + 1] ELSE b1[i]
      BY <2>2, <2>4 DEF Copied
    <3>2. i \in Nat /\ i < Capacity
      BY RingBufferAssumption DEF Index
    <3> HIDE DEF d1, d2
    <3>3. CASE i < n - len
      <4>1. i < write_pos /\ i + 1 \in 1 .. n - len
        BY <1>1, <3>2, <3>3, RingBufferAssumption
      <4>2. Written(data)[i] = data[i + 1 + len]
        BY <2>2, <3>1, <3>2, <3>3, <4>1, <1>1
      <4>3. Behind(i, write_pos) = i + len /\ i + len < n
        BY <1>1, <3>2, <3>3, <4>1, RingBufferAssumption DEF Behind
      <4>4. i + len + 1 = i + 1 + len
        BY <1>1, <3>2
      <4> QED
        BY <4>2, <4>3, <4>4
    <3>4. CASE ~(i < n - len)
      <4>1. Written(data)[i] = IF i >= write_pos THEN data[i - write_pos + 1] ELSE buff[i]
        BY <1>1, <2>3, <3>1, <3>2, <3>4
      <4>2. i >= write_pos => Behind(i, write_pos) = i - write_pos /\ i - write_pos < n
        BY <1>1, <2>1, <3>2, RingBufferAssumption DEF Behind
      <4>3. ~(i >= write_pos) => ~(Behind(i, write_pos) < n)
        BY <1>1, <3>2, <3>4, RingBufferAssumption DEF Behind
      <4> QED
        BY <4>1, <4>2, <4>3
    <3> QED
      BY <3>3, <3>4
  <2>6. Written(data) \in [Index -> Byte]
    <3>1. DOMAIN Written(data) = Index
          /\ Written(data) = [i \in Index |-> Written(data)[i]]
      BY <2>4 DEF Copied
    <3>2. \A i \in Index : Written(data)[i] \in Byte
      <4> SUFFICES ASSUME NEW i \in Index PROVE Written(data)[i] \in Byte
        OBVIOUS
      <4>1. i \in Nat /\ i < Capacity
        BY RingBufferAssumption DEF Index
      <4>2. Behind(i, write_pos) \in Nat
        BY <1>1, <4>1, RingBufferAssumption DEF Behind
      <4>3. Behind(i, write_pos) < n => data[Behind(i, write_pos) + 1] \in Byte
        BY <1>1, <4>2
      <4> QED
        BY <2>5, <4>3
    <3> QED
      BY <3>1, <3>2
  <2> QED
    BY <2>5, <2>6
<1>3. CASE ~Splits(write_pos, n)
  <2>1. write_pos + n <= Capacity
    BY <1>1, <1>3, RingBufferAssumption DEF Splits
  <2>2. Written(data) = Copied(buff, write_pos, data)
    BY <1>3 DEF Written
  <2>3. ASSUME NEW i \in Index
        PROVE  /\ Written(data)[i] = IF Behind(i, write_pos) < n
                                       THEN data[Behind(i, write_pos) + 1] ELSE buff[i]
               /\ Written(data)[i] \in Byte
    <3>1. Written(data)[i] = IF i - write_pos \in 0 .. n - 1
                               THEN data[i - write_pos + 1] ELSE buff[i]
      BY <2>2 DEF Copied
    <3>2. i \in Nat /\ i < Capacity
      BY RingBufferAssumption DEF Index
    <3>3. CASE i - write_pos \in 0 .. n - 1
      <4>1. Behind(i, write_pos) = i - write_pos /\ i - write_pos < n
            /\ i - write_pos + 1 \in 1 .. n
        BY <1>1, <3>2, <3>3 DEF Behind
      <4> QED
        BY <3>1, <3>3, <4>1
    <3>4. CASE ~(i - write_pos \in 0 .. n - 1)
      <4>1. ~(Behind(i, write_pos) < n)
        BY <1>1, <2>1, <3>2, <3>4, RingBufferAssumption DEF Behind
      <4> QED
        BY <3>1, <3>4, <4>1
    <3> QED
      BY <3>3, <3>4
  <2>4. Written(data) = [i \in Index |-> Written(data)[i]]
    BY <2>2 DEF Copied
  <2> QED
    BY <2>3, <2>4
<1> QED
  BY <1>2, <1>3

(* What joining the two pieces gives, and when two sequences are one:       *)
(* the two facts about sequences the copies of rb_read rest on.             *)
LEMMA Joined ==
  ASSUME NEW c \in Seq(Byte), NEW d \in Seq(Byte)
  PROVE  /\ c \o d \in Seq(Byte) /\ Len(c \o d) = Len(c) + Len(d)
         /\ \A k \in 1 .. Len(c) + Len(d) :
              (c \o d)[k] = IF k <= Len(c) THEN c[k] ELSE d[k - Len(c)]
  OBVIOUS

LEMMA SameSequence ==
  ASSUME NEW c \in Seq(Byte), NEW d \in Seq(Byte), Len(c) = Len(d),
         \A k \in 1 .. Len(c) : c[k] = d[k]
  PROVE  c = d
  OBVIOUS

LEMMA TakenAt ==
  ASSUME NEW count \in 0 .. Capacity, buff \in [Index -> Byte], read_pos \in Index
  PROVE  /\ Taken(count) \in Seq(Byte)
         /\ Len(Taken(count)) = count
         /\ \A k \in 1 .. count :
              Taken(count)[k] = buff[(read_pos + k - 1) % Capacity]
<1> DEFINE len == Capacity - read_pos
<1>1. /\ read_pos \in Nat /\ read_pos < Capacity
      /\ count \in Nat /\ count <= Capacity /\ len \in Nat
  BY RingBufferAssumption DEF Index
<1>2. ASSUME NEW from \in Index, NEW m \in Nat, from + m <= Capacity
      PROVE  /\ Piece(from, m) \in Seq(Byte) /\ Len(Piece(from, m)) = m
             /\ \A k \in 1 .. m : Piece(from, m)[k] = buff[from + k - 1]
  <2>1. from \in Nat
    BY RingBufferAssumption DEF Index
  <2>2. \A k \in 1 .. m : from + k - 1 \in Index
    BY <1>2, <2>1, RingBufferAssumption DEF Index
  <2>3. Piece(from, m) \in [1 .. m -> Byte]
    BY <2>2 DEF Piece
  <2> QED
    BY <2>3 DEF Piece
<1>3. CASE Splits(read_pos, count)
  <2> DEFINE p == Piece(read_pos, len)
             q == Piece(0, count - len)
  <2>1. count - len \in Nat /\ 0 \in Index /\ len < count
    BY <1>1, <1>3, RingBufferAssumption DEF Splits, Index
  <2>2. /\ p \in Seq(Byte) /\ Len(p) = len
        /\ \A k \in 1 .. len : p[k] = buff[read_pos + k - 1]
    <3>1. read_pos + len <= Capacity
      BY <1>1, RingBufferAssumption
    <3> HIDE DEF len
    <3> QED
      BY <1>1, <1>2, <3>1
  <2>3. /\ q \in Seq(Byte) /\ Len(q) = count - len
        /\ \A k \in 1 .. count - len : q[k] = buff[k - 1]
    <3>1. 0 + (count - len) <= Capacity
      BY <1>1, RingBufferAssumption
    <3>2. \A k \in 1 .. count - len : 0 + k - 1 = k - 1
      BY <1>1
    <3> QED
      BY <1>2, <2>1, <3>1, <3>2
  <2>4. Taken(count) = p \o q
    BY <1>3 DEF Taken
  <2> HIDE DEF p, q
  <2>6. /\ p \o q \in Seq(Byte) /\ Len(p \o q) = len + (count - len)
        /\ \A k \in 1 .. len + (count - len) :
             (p \o q)[k] = IF k <= len THEN p[k] ELSE q[k - len]
    <3>1. /\ p \o q \in Seq(Byte) /\ Len(p \o q) = Len(p) + Len(q)
          /\ \A k \in 1 .. Len(p) + Len(q) :
               (p \o q)[k] = IF k <= Len(p) THEN p[k] ELSE q[k - Len(p)]
      BY <2>2, <2>3, Joined
    <3>2. Len(p) = len /\ Len(q) = count - len
      BY <2>2, <2>3
    <3> QED
      BY ONLY <3>1, <3>2, Zenon
  <2>7. len + (count - len) = count
    BY <1>1, RingBufferAssumption
  <2>5. ASSUME NEW k \in 1 .. count
        PROVE  Taken(count)[k] = buff[(read_pos + k - 1) % Capacity]
    <3>1. CASE k <= len
      <4>1. (read_pos + k - 1) % Capacity = read_pos + k - 1
        BY <1>1, <3>1, Wrap, RingBufferAssumption
      <4> QED
        BY <1>1, <2>2, <2>4, <2>6, <2>7, <3>1, <4>1
    <3>2. CASE ~(k <= len)
      <4>1. (read_pos + k - 1) % Capacity = k - len - 1
        BY <1>1, <3>2, Wrap, RingBufferAssumption
      <4>2. k - len \in 1 .. count - len
        BY <1>1, <3>2
      <4> QED
        BY <1>1, <2>3, <2>4, <2>6, <2>7, <3>2, <4>1, <4>2
    <3> QED
      BY <3>1, <3>2
  <2> QED
    BY <2>4, <2>5, <2>6, <2>7
<1>4. CASE ~Splits(read_pos, count)
  <2>1. read_pos + count <= Capacity
    BY <1>1, <1>4, RingBufferAssumption DEF Splits
  <2>2. Taken(count) = Piece(read_pos, count)
    BY <1>4 DEF Taken
  <2>3. \A k \in 1 .. count : (read_pos + k - 1) % Capacity = read_pos + k - 1
    BY <1>1, <2>1, Wrap, RingBufferAssumption
  <2> QED
    BY <1>1, <1>2, <2>1, <2>2, <2>3
<1> QED
  BY <1>3, <1>4

-----------------------------------------------------------------------------
IInv ==
  /\ TypeOK
  /\ NeverRefused
  /\ available_for_write = Capacity - available_for_read
  /\ write_pos = (read_pos + available_for_read) % Capacity
  /\ room # Nothing => room <= available_for_write
  /\ ready # Nothing => ready <= available_for_read

LEMMA PosAfter ==
  ASSUME NEW pos \in Index, NEW m \in Nat, NEW n \in Nat, m + n <= Capacity
  PROVE  (((pos + m) % Capacity) + n) % Capacity = (pos + m + n) % Capacity
<1>1. pos \in Nat /\ pos < Capacity
  BY RingBufferAssumption DEF Index
<1>2. (pos + m) % Capacity = IF pos + m < Capacity THEN pos + m ELSE pos + m - Capacity
  BY <1>1, Wrap, RingBufferAssumption
<1>3. (pos + m + n) % Capacity =
        IF pos + m + n < Capacity THEN pos + m + n ELSE pos + m + n - Capacity
  BY <1>1, Wrap, RingBufferAssumption
<1>4. CASE pos + m < Capacity
  BY <1>2, <1>4
<1>5. CASE ~(pos + m < Capacity)
  <2>1. pos + m - Capacity + n \in Nat /\ pos + m - Capacity + n < Capacity
    BY <1>1, <1>5, RingBufferAssumption
  <2>2. (pos + m - Capacity + n) % Capacity = pos + m - Capacity + n
    BY <2>1, Wrap, RingBufferAssumption
  <2> QED
    BY <1>1, <1>2, <1>3, <1>5, <2>1, <2>2, RingBufferAssumption
<1> QED
  BY <1>4, <1>5

(* What an accepted Write and an accepted Read do, the branches resolved.  *)
LEMMA WriteAccepted ==
  ASSUME IInv, NEW n \in 0 .. Capacity, NEW data \in [1 .. n -> Byte], Write(data)
  PROVE  /\ data \in Seq(Byte) /\ Len(data) = n
         /\ n <= available_for_write
         /\ buff' = Written(data)
         /\ write_pos' = Advance(write_pos, n)
         /\ available_for_read' = available_for_read + n
         /\ available_for_write' = Capacity - available_for_read'
         /\ put' = data /\ room' = Nothing
         /\ UNCHANGED <<read_pos, ready, got, refused>>
<1>1. n \in Nat /\ data \in Seq(Byte) /\ Len(data) = n
  BY RingBufferAssumption
<1>2. available_for_write \in Nat /\ room \in Int
  BY RingBufferAssumption DEF IInv, TypeOK, Nothing
<1>3. n <= available_for_write
  BY <1>1, <1>2 DEF Write, IInv
<1> QED
  BY <1>1, <1>2, <1>3 DEF Write

LEMMA ReadAccepted ==
  ASSUME IInv, NEW count \in 0 .. Capacity, Read(count)
  PROVE  /\ count <= available_for_read
         /\ got' = Taken(count)
         /\ read_pos' = Advance(read_pos, count)
         /\ available_for_read' = available_for_read - count
         /\ available_for_write' = Capacity - available_for_read'
         /\ ready' = Nothing
         /\ UNCHANGED <<buff, write_pos, room, put, refused>>
<1>1. count \in Nat /\ available_for_read \in Nat /\ ready \in Int
  BY RingBufferAssumption DEF IInv, TypeOK, Nothing
<1>2. count <= available_for_read
  BY <1>1 DEF Read, IInv
<1> QED
  BY <1>1, <1>2 DEF Read

(* The inductive invariant.  Without the equation between the positions a  *)
(* write might land on bytes not yet read; without the bounds on the       *)
(* answers a thread holds it might be refused.                             *)
LEMMA IInvCorrect == Spec => []IInv
<1>1. Init => IInv
  <2> SUFFICES ASSUME Init PROVE IInv
    OBVIOUS
  <2>1. 0 \in Index /\ (0 + 0) % Capacity = 0
    BY Wrap, RingBufferAssumption DEF Index
  <2>2. TypeOK
    BY <2>1, RingBufferAssumption DEF Init, TypeOK
  <2> QED
    BY <2>1, <2>2, RingBufferAssumption DEF Init, IInv, NeverRefused
<1>2. IInv /\ [Next]_vars => IInv'
  <2> SUFFICES ASSUME IInv, [Next]_vars PROVE IInv'
    OBVIOUS
  <2> USE RingBufferAssumption
  <2>t. /\ TypeOK /\ read_pos \in Index /\ write_pos \in Index
        /\ available_for_read \in Nat /\ available_for_read <= Capacity
        /\ available_for_write = Capacity - available_for_read
        /\ buff \in [Index -> Byte]
    BY DEF IInv, TypeOK
  <2>1. CASE AskRoom
    BY <2>1 DEF AskRoom, GetWriteLen, IInv, TypeOK, NeverRefused, ring, Nothing
  <2>2. CASE AskReady
    BY <2>2 DEF AskReady, IInv, TypeOK, NeverRefused, ring, Nothing
  <2>3. ASSUME NEW n \in 0 .. Capacity, NEW data \in [1 .. n -> Byte], Write(data)
        PROVE  IInv'
    <3>1. /\ data \in Seq(Byte) /\ Len(data) = n /\ n \in Nat /\ n <= Capacity
          /\ n <= available_for_write
          /\ buff' = Written(data)
          /\ write_pos' = Advance(write_pos, n)
          /\ available_for_read' = available_for_read + n
          /\ available_for_write' = Capacity - available_for_read'
          /\ put' = data /\ room' = Nothing
          /\ UNCHANGED <<read_pos, ready, got, refused>>
      BY <2>3, WriteAccepted
    <3>2. buff' \in [Index -> Byte]
      BY <3>1, <2>t, WrittenAt
    <3>3. write_pos' \in Index /\ write_pos' = (write_pos + n) % Capacity
      BY <3>1, <2>t, AdvanceIs
    <3>4. write_pos' = (read_pos + available_for_read + n) % Capacity
      <4>1. available_for_read + n <= Capacity
        BY <3>1, <2>t
      <4>2. (((read_pos + available_for_read) % Capacity) + n) % Capacity
              = (read_pos + available_for_read + n) % Capacity
        BY <3>1, <4>1, <2>t, PosAfter
      <4> QED
        BY <3>3, <4>2 DEF IInv
    <3>5. read_pos + available_for_read + n = read_pos' + available_for_read'
      BY <3>1, <2>t DEF Index
    <3>6. /\ available_for_read' \in 0 .. Capacity
          /\ available_for_write' \in 0 .. Capacity
      BY <3>1, <2>t
    <3>7. TypeOK'
      BY <3>1, <3>2, <3>3, <3>6 DEF IInv, TypeOK
    <3>8. ready' # Nothing => ready' <= available_for_read'
      BY <3>1, <2>t DEF IInv, TypeOK
    <3> QED
      BY <3>1, <3>4, <3>5, <3>7, <3>8 DEF IInv, NeverRefused
  <2>4. ASSUME NEW count \in 0 .. Capacity, Read(count) PROVE IInv'
    <3>1. /\ count \in Nat /\ count <= available_for_read
          /\ got' = Taken(count)
          /\ read_pos' = Advance(read_pos, count)
          /\ available_for_read' = available_for_read - count
          /\ available_for_write' = Capacity - available_for_read'
          /\ ready' = Nothing
          /\ UNCHANGED <<buff, write_pos, room, put, refused>>
      BY <2>4, ReadAccepted
    <3>2. got' \in Seq(Byte)
      BY <3>1, <2>t, TakenAt
    <3>3. read_pos' \in Index /\ read_pos' = (read_pos + count) % Capacity
      BY <3>1, <2>t, AdvanceIs
    <3>4. available_for_read' \in Nat /\ count + available_for_read' = available_for_read
      BY <3>1, <2>t
    <3>5. (read_pos' + available_for_read') % Capacity
            = (read_pos + count + available_for_read') % Capacity
      <4>1. count + available_for_read' <= Capacity
        BY <3>4, <2>t
      <4>2. (((read_pos + count) % Capacity) + available_for_read') % Capacity
              = (read_pos + count + available_for_read') % Capacity
        BY <3>1, <3>4, <4>1, <2>t, PosAfter
      <4> QED
        BY <3>3, <4>2
    <3>6. read_pos + count + available_for_read' = read_pos + available_for_read
      BY <3>1, <3>4, <2>t DEF Index
    <3>7. write_pos' = (read_pos' + available_for_read') % Capacity
      BY <3>1, <3>5, <3>6 DEF IInv
    <3>8. /\ available_for_read' \in 0 .. Capacity
          /\ available_for_write' \in 0 .. Capacity
          /\ available_for_write <= available_for_write'
      BY <3>1, <2>t
    <3>9. TypeOK'
      BY <3>1, <3>2, <3>3, <3>8 DEF IInv, TypeOK
    <3>10. room' # Nothing => room' <= available_for_write'
      BY <3>1, <3>8 DEF IInv, TypeOK, Nothing
    <3> QED
      BY <3>1, <3>7, <3>9, <3>10 DEF IInv, NeverRefused
  <2>5. CASE UNCHANGED vars
    BY <2>5 DEF vars, ring, IInv, TypeOK, NeverRefused
  <2> QED
    BY <2>1, <2>2, <2>3, <2>4, <2>5 DEF Next
<1> QED
  BY <1>1, <1>2, PTL DEF Spec

(* Types of the ring's positions and counters, wherever the threads are.   *)
THEOREM RingTypeCorrect == Spec => []TypeOK
<1>1. IInv => TypeOK
  BY DEF IInv
<1> QED
  BY <1>1, IInvCorrect, PTL

(* RingBuffer::Write and Read never take their error branch.               *)
THEOREM NeverRefusedCorrect == Spec => []NeverRefused
<1>1. IInv => NeverRefused
  BY DEF IInv
<1> QED
  BY <1>1, IInvCorrect, PTL

-----------------------------------------------------------------------------
(* The m bytes of a buffer from a position on, going round.                *)
Round(b, pos, m) == [k \in 1 .. m |-> b[(pos + k - 1) % Capacity]]

(* Bytes of the buffer read off going round are a sequence.                *)
LEMMA RoundIs ==
  ASSUME NEW b \in [Index -> Byte], NEW pos \in Index, NEW m \in 0 .. Capacity
  PROVE  /\ Round(b, pos, m) \in Seq(Byte) /\ Len(Round(b, pos, m)) = m
         /\ \A k \in 1 .. m : Round(b, pos, m)[k] = b[(pos + k - 1) % Capacity]
<1>1. pos \in Nat /\ pos < Capacity /\ m \in Nat /\ m <= Capacity
  BY RingBufferAssumption DEF Index
<1>2. ASSUME NEW k \in 1 .. m PROVE (pos + k - 1) % Capacity \in Index
  <2>1. pos + k - 1 \in Nat /\ pos + k - 1 < 2 * Capacity
    BY <1>1, RingBufferAssumption
  <2> QED
    BY <1>1, <2>1, Wrap, RingBufferAssumption DEF Index
<1>3. Round(b, pos, m) \in [1 .. m -> Byte]
  BY <1>2 DEF Round
<1>4. \A k \in 1 .. m : Round(b, pos, m)[k] = b[(pos + k - 1) % Capacity]
  BY DEF Round
<1> QED
  BY <1>1, <1>3, <1>4

(* RingBuffer is a bounded first-in first-out channel of bytes: what Write *)
(* copies in, in one piece or two, Read copies out, none lost or altered.  *)
THEOREM ImplementsFifoCorrect == Spec => ImplementsFifo
<1>1. Init => Fifo!Init
  BY RingBufferAssumption DEF Init, Fifo!Init, Contents
<1>2. IInv /\ IInv' /\ [Next]_vars => [Fifo!Next]_(Fifo!vars)
  <2> SUFFICES ASSUME IInv, IInv', [Next]_vars
               PROVE  Fifo!Next \/ UNCHANGED <<Contents, put, got>>
    BY DEF Fifo!vars
  <2> USE RingBufferAssumption
  <2>t. /\ read_pos \in Index /\ write_pos \in Index
        /\ read_pos \in Nat /\ read_pos < Capacity
        /\ available_for_read \in Nat /\ available_for_read <= Capacity
        /\ available_for_write = Capacity - available_for_read
        /\ write_pos = (read_pos + available_for_read) % Capacity
        /\ buff \in [Index -> Byte]
    BY DEF IInv, TypeOK, Index
  <2>c. /\ Contents \in Seq(Byte)
        /\ Len(Contents) = available_for_read
        /\ \A k \in 1 .. available_for_read :
             Contents[k] = buff[(read_pos + k - 1) % Capacity]
    <3>1. available_for_read \in 0 .. Capacity
      BY <2>t
    <3>2. Contents = Round(buff, read_pos, available_for_read)
      BY DEF Contents, Round
    <3> QED
      BY <2>t, <3>1, <3>2, RoundIs
  <2>d. /\ Contents' \in Seq(Byte)
        /\ Len(Contents') = available_for_read'
        /\ \A k \in 1 .. available_for_read' :
             Contents'[k] = buff'[(read_pos' + k - 1) % Capacity]
    <3>1. /\ buff' \in [Index -> Byte] /\ read_pos' \in Index
          /\ available_for_read' \in 0 .. Capacity
      BY DEF IInv, TypeOK
    <3>2. Contents' = Round(buff', read_pos', available_for_read')
      BY DEF Contents, Round
    <3> QED
      BY <3>1, <3>2, RoundIs
  <2>1. CASE AskRoom \/ AskReady \/ UNCHANGED vars
    BY <2>1 DEF AskRoom, AskReady, vars, ring, Contents
  <2>2. ASSUME NEW n \in 0 .. Capacity, NEW data \in [1 .. n -> Byte], Write(data)
        PROVE  Fifo!Next
    <3>1. /\ data \in Seq(Byte) /\ Len(data) = n /\ n \in Nat
          /\ n <= available_for_write
          /\ buff' = Written(data)
          /\ available_for_read' = available_for_read + n
          /\ put' = data
          /\ UNCHANGED <<read_pos, got>>
      BY <2>2, WriteAccepted
    <3>2. \A i \in Index : buff'[i] = IF Behind(i, write_pos) < n
                                        THEN data[Behind(i, write_pos) + 1]
                                        ELSE buff[i]
      BY <3>1, <2>t, WrittenAt
    <3>3. ASSUME NEW k \in 1 .. available_for_read + n
          PROVE  Contents'[k] = (Contents \o data)[k]
      <4> DEFINE i == (read_pos + k - 1) % Capacity
      <4>1. i = IF read_pos + k - 1 < Capacity THEN read_pos + k - 1
                                               ELSE read_pos + k - 1 - Capacity
        <5> DEFINE x == read_pos + k - 1
        <5>1. x \in Nat /\ x < 2 * Capacity
          BY <2>t, <3>1
        <5> HIDE DEF x
        <5>2. x % Capacity = IF x < Capacity THEN x ELSE x - Capacity
          BY <5>1, Wrap
        <5> QED
          BY <2>t, <3>1, <5>2 DEF x
      <4>2. i \in Index
        BY <2>t, <3>1, <4>1 DEF Index
      <4>3. write_pos = IF read_pos + available_for_read < Capacity
                          THEN read_pos + available_for_read
                          ELSE read_pos + available_for_read - Capacity
        <5> DEFINE x == read_pos + available_for_read
        <5>1. x \in Nat /\ x < 2 * Capacity
          BY <2>t
        <5> HIDE DEF x
        <5>2. x % Capacity = IF x < Capacity THEN x ELSE x - Capacity
          BY <5>1, Wrap
        <5> QED
          BY <2>t, <5>2 DEF x
      <4>4. Contents'[k] = buff'[i]
        BY <2>d, <3>1
      <4> HIDE DEF i
      <4>5. CASE k <= available_for_read
        <5>1. ~(Behind(i, write_pos) < n)
          BY <2>t, <3>1, <4>1, <4>3, <4>5 DEF Behind
        <5>2. buff'[i] = Contents[k]
          BY <2>c, <3>2, <4>2, <4>5, <5>1 DEF i
        <5> QED
          BY <2>c, <3>1, <4>4, <4>5, <5>2
      <4>6. CASE ~(k <= available_for_read)
        <5>1. Behind(i, write_pos) = k - available_for_read - 1
          BY <2>t, <3>1, <4>1, <4>3, <4>6 DEF Behind
        <5>2. /\ k - available_for_read - 1 < n
              /\ k - available_for_read - 1 + 1 = k - available_for_read
          BY <2>t, <3>1, <4>6
        <5>3. buff'[i] = data[k - available_for_read]
          BY <3>2, <4>2, <5>1, <5>2
        <5> QED
          BY <2>c, <2>t, <3>1, <4>4, <4>6, <5>3
      <4> QED
        BY <4>5, <4>6
    <3>4. ASSUME NEW c \in Seq(Byte), NEW d \in Seq(Byte)
          PROVE  c \o d \in Seq(Byte) /\ Len(c \o d) = Len(c) + Len(d)
      OBVIOUS
    <3>5. Contents' = Contents \o data
      <4>1. /\ Contents \o data \in Seq(Byte)
            /\ Len(Contents \o data) = available_for_read + n
        BY <2>c, <3>1, <3>4
      <4> DEFINE new == Contents'
                 cat == Contents \o data
      <4>2. /\ new \in Seq(Byte) /\ Len(new) = available_for_read + n
            /\ cat \in Seq(Byte) /\ Len(cat) = available_for_read + n
            /\ \A k \in 1 .. available_for_read + n : new[k] = cat[k]
        BY <2>d, <3>1, <3>3, <4>1
      <4> HIDE DEF new, cat
      <4>3. new = cat
        BY <4>2
      <4> QED
        BY <4>3 DEF new, cat
    <3>6. Fifo!Put(data)
      BY <2>c, <2>t, <3>1, <3>5 DEF Fifo!Put
    <3> QED
      BY <3>6 DEF Fifo!Next
  <2>3. ASSUME NEW count \in 0 .. Capacity, Read(count) PROVE Fifo!Next
    <3>1. /\ count \in Nat /\ count <= available_for_read
          /\ got' = Taken(count)
          /\ read_pos' = Advance(read_pos, count)
          /\ available_for_read' = available_for_read - count
          /\ UNCHANGED <<buff, put>>
      BY <2>3, ReadAccepted
    <3>2. /\ got' \in Seq(Byte) /\ Len(got') = count
          /\ \A k \in 1 .. count : got'[k] = buff[(read_pos + k - 1) % Capacity]
      BY <3>1, <2>t, TakenAt
    <3>3. got' = SubSeq(Contents, 1, count)
      <4>1. /\ SubSeq(Contents, 1, count) \in Seq(Byte)
            /\ Len(SubSeq(Contents, 1, count)) = count
            /\ \A k \in 1 .. count : SubSeq(Contents, 1, count)[k] = Contents[k]
        BY <2>c, <2>t, <3>1
      <4>2. \A k \in 1 .. count : got'[k] = Contents[k]
        BY <2>c, <2>t, <3>1, <3>2
      <4> QED
        BY <3>2, <4>1, <4>2
    <3>4. ASSUME NEW k \in 1 .. available_for_read - count
          PROVE  Contents'[k] = Contents[k + count]
      <4>1. read_pos' = (read_pos + count) % Capacity
        BY <3>1, <2>t, AdvanceIs
      <4>2. (((read_pos + count) % Capacity) + (k - 1)) % Capacity
              = (read_pos + count + (k - 1)) % Capacity
        BY <2>t, <3>1, PosAfter
      <4>3. /\ ((read_pos + count) % Capacity) + (k - 1) = ((read_pos + count) % Capacity) + k - 1
            /\ read_pos + count + (k - 1) = read_pos + (k + count) - 1
        <5>1. (read_pos + count) % Capacity \in Int
          BY <4>1, IInv' DEF IInv, TypeOK, Index
        <5> QED
          BY <5>1, <2>t, <3>1
      <4>4. k + count \in 1 .. available_for_read
        BY <2>t, <3>1
      <4>5. Contents'[k] = buff[(read_pos' + k - 1) % Capacity]
        BY <2>d, <3>1
      <4>6. Contents[k + count] = buff[(read_pos + (k + count) - 1) % Capacity]
        BY <2>c, <4>4
      <4> QED
        BY <4>1, <4>2, <4>3, <4>5, <4>6
    <3>5. Contents' = SubSeq(Contents, count + 1, Len(Contents))
      <4> DEFINE rest == SubSeq(Contents, count + 1, Len(Contents))
      <4>1. /\ rest \in Seq(Byte) /\ Len(rest) = available_for_read - count
            /\ \A k \in 1 .. available_for_read - count : rest[k] = Contents[k + count]
        BY <2>c, <2>t, <3>1
      <4> HIDE DEF rest
      <4>2. /\ Contents' \in Seq(Byte) /\ Len(Contents') = available_for_read - count
            /\ \A k \in 1 .. available_for_read - count : Contents'[k] = rest[k]
        BY <2>d, <3>1, <3>4, <4>1
      <4>3. Contents' = rest
        BY ONLY <4>1, <4>2, SameSequence
      <4> QED
        BY <4>3 DEF rest
    <3>6. Fifo!Take(count)
      BY <2>c, <3>1, <3>3, <3>5 DEF Fifo!Take
    <3> QED
      BY <3>6 DEF Fifo!Next
  <2> QED
    BY <2>1, <2>2, <2>3 DEF Next
<1> QED
  BY <1>1, <1>2, IInvCorrect, PTL DEF Spec, ImplementsFifo, Fifo!Spec
=============================================================================
