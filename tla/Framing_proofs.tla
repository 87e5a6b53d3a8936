---------------------------- MODULE Framing_proofs ----------------------------
(***************************************************************************)
(* Why a connection loses no packet without a reason, stays in step and    *)
(* hands packets over in order and once, for every size of the ring buffer *)
(* and the queue, every packet length and every number of packets and      *)
(* breaks.                                                                 *)
(*                                                                         *)
(* The invariants speak of Stream, what was read of a packet, the ring     *)
(* buffer and the wire in one sequence: receiving moves bytes within it and*)
(* changes nothing, reading takes bytes from its front, sending puts a     *)
(* packet behind it.                                                       *)
(*                                                                         *)
(* Follows says of every byte of a packet that lost none that all the later*)
(* bytes of it come right behind.  Saying only that the next one does would*)
(* leave an induction over the packet to do; with all of them said, each   *)
(* step keeps Follows at once, and when GetCRC has read as many bytes as a *)
(* packet has, from the first byte of one that lost none, it is Whole.     *)
(*                                                                         *)
(* Kept says where every packet is whose fate is not decided: its first    *)
(* byte is still to be read, or is the first one read.                     *)
(*                                                                         *)
(* Ordered says that the bytes of Stream rise by packet and place, and are *)
(* of later packets than all that have been read: a packet that is Whole   *)
(* took the last of its bytes with it.                                     *)
(***************************************************************************)
EXTENDS Framing, SequenceTheorems, TLAPS

-----------------------------------------------------------------------------
(* Sequences: what is cut in two, and what is put together.                *)

LEMMA CutInTwo ==
  ASSUME NEW S, NEW s \in Seq(S), NEW n \in 0 .. Len(s)
  PROVE  /\ SubSeq(s, 1, n) \in Seq(S) /\ Len(SubSeq(s, 1, n)) = n
         /\ \A i \in 1 .. n : SubSeq(s, 1, n)[i] = s[i]
         /\ SubSeq(s, n + 1, Len(s)) \in Seq(S)
         /\ Len(SubSeq(s, n + 1, Len(s))) = Len(s) - n
         /\ \A i \in 1 .. Len(s) - n : SubSeq(s, n + 1, Len(s))[i] = s[n + i]
         /\ SubSeq(s, 1, n) \o SubSeq(s, n + 1, Len(s)) = s
<1> DEFINE a == SubSeq(s, 1, n)
           b == SubSeq(s, n + 1, Len(s))
<1>1. Len(s) \in Nat /\ \A i \in 1 .. Len(s) : s[i] \in S
  OBVIOUS
<1>2. /\ a \in Seq(S) /\ Len(a) = n
      /\ \A i \in 1 .. n : a[i] = s[i]
  <2>1. \A i \in 1 .. n : s[i] \in S
    BY <1>1
  <2>2. /\ a \in Seq(S) /\ Len(a) = (IF 1 <= n THEN n - 1 + 1 ELSE 0)
        /\ \A i \in 1 .. n - 1 + 1 : a[i] = s[1 + i - 1]
    BY <1>1, <2>1, SubSeqProperties
  <2> HIDE DEF a
  <2> QED
    BY <1>1, <2>2
<1>3. /\ b \in Seq(S) /\ Len(b) = Len(s) - n
      /\ \A i \in 1 .. Len(s) - n : b[i] = s[n + i]
  <2>1. \A i \in n + 1 .. Len(s) : s[i] \in S
    BY <1>1
  <2>2. /\ b \in Seq(S) /\ Len(b) = (IF n + 1 <= Len(s) THEN Len(s) - (n + 1) + 1 ELSE 0)
        /\ \A i \in 1 .. Len(s) - (n + 1) + 1 : b[i] = s[n + 1 + i - 1]
    BY <1>1, <2>1, SubSeqProperties
  <2> HIDE DEF b
  <2> QED
    BY <1>1, <2>2
<1> HIDE DEF a, b
<1>4. a \o b = s
  <2>1. /\ a \o b \in Seq(S) /\ Len(a \o b) = Len(a) + Len(b)
        /\ \A i \in 1 .. Len(a) + Len(b) :
             (a \o b)[i] = IF i <= Len(a) THEN a[i] ELSE b[i - Len(a)]
    BY <1>2, <1>3, ConcatProperties
  <2>2. Len(a \o b) = Len(s)
    BY <1>1, <1>2, <1>3, <2>1
  <2>3. \A i \in 1 .. Len(s) : (a \o b)[i] = s[i]
    BY <1>1, <1>2, <1>3, <2>1
  <2> QED
    BY <2>1, <2>2, <2>3, SeqEqual
<1> QED
  BY <1>2, <1>3, <1>4 DEF a, b

LEMMA Together ==
  ASSUME NEW S, NEW s \in Seq(S), NEW t \in Seq(S)
  PROVE  /\ s \o t \in Seq(S) /\ Len(s \o t) = Len(s) + Len(t)
         /\ \A i \in 1 .. Len(s) : (s \o t)[i] = s[i]
         /\ \A i \in 1 .. Len(t) : (s \o t)[Len(s) + i] = t[i]
<1>1. /\ s \o t \in Seq(S) /\ Len(s \o t) = Len(s) + Len(t)
      /\ \A i \in 1 .. Len(s) + Len(t) :
           (s \o t)[i] = IF i <= Len(s) THEN s[i] ELSE t[i - Len(s)]
  BY ConcatProperties
<1>2. Len(s) \in Nat /\ Len(t) \in Nat
  OBVIOUS
<1> QED
  BY <1>1, <1>2

LEMMA MovedOver ==
  ASSUME NEW S, NEW q \in Seq(S), NEW s \in Seq(S), NEW n \in 0 .. Len(s)
  PROVE  (q \o SubSeq(s, 1, n)) \o SubSeq(s, n + 1, Len(s)) = q \o s
<1>1. PICK a \in Seq(S) : a = SubSeq(s, 1, n)
  BY CutInTwo
<1>2. PICK b \in Seq(S) : b = SubSeq(s, n + 1, Len(s))
  BY CutInTwo
<1>3. a \o b = s
  BY <1>1, <1>2, CutInTwo
<1>4. (q \o a) \o b = q \o (a \o b)
  OBVIOUS
<1>5. (q \o a) \o b = q \o s
  BY <1>3, <1>4
<1> QED
  BY <1>1, <1>2, <1>5

LEMMA Regrouped ==
  ASSUME NEW S, NEW q \in Seq(S), NEW a \in Seq(S), NEW b \in Seq(S), NEW c \in Seq(S),
         c = a \o b
  PROVE  (q \o a) \o b = q \o c
<1>1. (q \o a) \o b = q \o (a \o b)
  OBVIOUS
<1> QED
  BY <1>1

LEMMA OneElement ==
  ASSUME NEW S, NEW s \in Seq(S), Len(s) = 1
  PROVE  s = <<s[1]>>
<1>1. s[1] \in S /\ \A i \in 1 .. Len(s) : i = 1
  OBVIOUS
<1>2. <<s[1]>> \in Seq(S) /\ Len(<<s[1]>>) = 1 /\ <<s[1]>>[1] = s[1]
  BY <1>1
<1> QED
  BY <1>1, <1>2, SeqEqual

LEMMA InSet ==
  ASSUME NEW S, NEW s \in Seq(S)
  PROVE  /\ \A x : x \in ToSet(s) <=> \E i \in 1 .. Len(s) : s[i] = x
         /\ ToSet(s) \subseteq S
  BY DEF ToSet

LEMMA AppendedSet ==
  ASSUME NEW S, NEW s \in Seq(S), NEW x \in S
  PROVE  ToSet(Append(s, x)) = ToSet(s) \cup {x}
<1>1. PICK a \in Seq(S) : a = Append(s, x)
  <2>1. Append(s, x) \in Seq(S)
    OBVIOUS
  <2> QED
    BY <2>1, Zenon
<1>2. /\ Len(a) = Len(s) + 1 /\ a[Len(s) + 1] = x
      /\ \A i \in 1 .. Len(s) : a[i] = s[i]
  BY <1>1
<1>3. \A y : y \in ToSet(a) <=> \E i \in 1 .. Len(s) + 1 : a[i] = y
  BY <1>2, InSet
<1>4. \A y : y \in ToSet(s) <=> \E i \in 1 .. Len(s) : s[i] = y
  BY InSet
<1>5. /\ Len(s) + 1 \in 1 .. Len(s) + 1
      /\ \A i \in 1 .. Len(s) + 1 : i \in 1 .. Len(s) \/ i = Len(s) + 1
      /\ \A i \in 1 .. Len(s) : i \in 1 .. Len(s) + 1
  OBVIOUS
<1>6. \A y : y \in ToSet(a) <=> y \in ToSet(s) \cup {x}
  BY <1>2, <1>3, <1>4, <1>5, Zenon
<1> QED
  BY <1>1, <1>6

-----------------------------------------------------------------------------
(* Bytes and packets.                                                      *)

LEMMA ByteIs ==
  /\ \A b \in Byte : b.pkg \in Pkgs /\ b.at \in Nat \ {0} /\ b.body \in BodyLens /\ b.body \in Nat
  /\ \A b \in Byte : Size(b.body) \in Nat
<1>1. \A b \in Byte : b.pkg \in Pkgs /\ b.at \in Nat \ {0} /\ b.body \in BodyLens
  BY Zenon DEF Byte
<1>2. \A n \in BodyLens : n \in Nat /\ Size(n) \in Nat
  BY FramingAssumption DEF Size
<1> QED
  BY <1>1, <1>2

LEMMA PacketIs ==
  ASSUME NEW p \in Pkgs, NEW n \in BodyLens, NEW misleading \in BOOLEAN
  PROVE  /\ Packet(p, n, misleading) \in Seq(Byte)
         /\ Len(Packet(p, n, misleading)) = Size(n)
         /\ \A k \in 1 .. Size(n) :
              LET b == Packet(p, n, misleading)[k]
              IN  b.pkg = p /\ b.at = k /\ b.body = n /\ (k = 1 => b.tag)
<1> DEFINE look(k) == [pkg |-> p, at |-> k, body |-> n, tag |-> k = 1 \/ misleading]
<1>1. Size(n) \in Nat
  BY FramingAssumption DEF Size
<1>2. ASSUME NEW k \in 1 .. Size(n)
      PROVE  look(k) \in Byte
  <2>1. (k = 1 \/ misleading) \in BOOLEAN
    BY Zenon
  <2>2. k \in Nat \ {0}
    BY <1>1
  <2> QED
    BY <2>1, <2>2, Zenon DEF Byte
<1>3. \A k : look(k).pkg = p /\ look(k).at = k /\ look(k).body = n /\ (k = 1 => look(k).tag)
  OBVIOUS
<1>4. Packet(p, n, misleading) = [k \in 1 .. Size(n) |-> look(k)]
  BY DEF Packet
<1> HIDE DEF look
<1> QED
  BY <1>1, <1>2, <1>3, <1>4

LEMMA PkgsOfIs ==
  ASSUME NEW s \in Seq(Byte)
  PROVE  /\ PkgsOf(s) \subseteq Pkgs
         /\ \A p : p \in PkgsOf(s) <=> \E i \in 1 .. Len(s) : s[i].pkg = p
  BY ByteIs, InSet DEF PkgsOf

LEMMA SwallowIs ==
  ASSUME NEW s \in Seq(Byte), swallowed \in SUBSET Pkgs, Swallow(s)
  PROVE  /\ swallowed' \in SUBSET Pkgs
         /\ \A p : p \in swallowed' <=> \/ p \in swallowed
                                        \/ \E i \in 1 .. Len(s) : s[i].pkg = p /\ s[i].at = 1
  BY ByteIs, InSet DEF Swallow

(* n bytes more of the packet.                                             *)
LEMMA TakeIs ==
  ASSUME TypeOK, NEW n \in Nat, Take(n)
  PROVE  /\ n <= Len(rb)
         /\ rb' \in Seq(Byte) /\ Len(rb') = Len(rb) - n
         /\ pkgBuffer' \in Seq(Byte) /\ Len(pkgBuffer') = Len(pkgBuffer) + n
         /\ pkgBuffer' \o rb' = pkgBuffer \o rb
         /\ swallowed' \in SUBSET Pkgs
         /\ \A p : p \in swallowed' <=> \/ p \in swallowed
                                        \/ \E i \in 1 .. n : rb[i].pkg = p /\ rb[i].at = 1
<1> DEFINE a == SubSeq(rb, 1, n)
           b == SubSeq(rb, n + 1, Len(rb))
<1>1. /\ n <= Len(rb) /\ rb' = b /\ pkgBuffer' = pkgBuffer \o a /\ Swallow(a)
  BY DEF Take
<1>2. rb \in Seq(Byte) /\ pkgBuffer \in Seq(Byte) /\ swallowed \in SUBSET Pkgs
  BY DEF TypeOK
<1>3. n \in 0 .. Len(rb)
  BY <1>1, <1>2
<1>4. /\ a \in Seq(Byte) /\ Len(a) = n /\ \A i \in 1 .. n : a[i] = rb[i]
      /\ b \in Seq(Byte) /\ Len(b) = Len(rb) - n /\ a \o b = rb
  BY <1>2, <1>3, CutInTwo
<1> HIDE DEF a, b
<1>5. pkgBuffer' \in Seq(Byte) /\ Len(pkgBuffer') = Len(pkgBuffer) + n
  BY <1>1, <1>2, <1>4, Together
<1>6. (pkgBuffer \o a) \o b = pkgBuffer \o rb
  BY <1>2, <1>3, MovedOver DEF a, b
<1>7. /\ swallowed' \in SUBSET Pkgs
      /\ \A p : p \in swallowed' <=> \/ p \in swallowed
                                     \/ \E i \in 1 .. Len(a) : a[i].pkg = p /\ a[i].at = 1
  BY <1>1, <1>2, <1>4, SwallowIs
<1>8. pkgBuffer' \o rb' = pkgBuffer \o rb
  BY <1>1, <1>4, <1>6, Zenon
<1>9. \A p : p \in swallowed' <=> \/ p \in swallowed
                                 \/ \E i \in 1 .. n : rb[i].pkg = p /\ rb[i].at = 1
  <2>1. \A i \in 1 .. n : a[i] = rb[i]
    BY <1>4
  <2>2. ASSUME NEW p
        PROVE  (\E i \in 1 .. Len(a) : a[i].pkg = p /\ a[i].at = 1)
                 <=> \E i \in 1 .. n : rb[i].pkg = p /\ rb[i].at = 1
    BY <1>4, <2>1, Zenon
  <2> QED
    BY <1>7, <2>2, Zenon
<1>10. rb' \in Seq(Byte) /\ Len(rb') = Len(rb) - n
  BY <1>1, <1>4
<1>11. Len(pkgBuffer') = Len(pkgBuffer) + n
  BY <1>4, <1>5
<1> QED
  BY <1>1, <1>5, <1>7, <1>8, <1>9, <1>10, <1>11, Zenon

LEMMA StartIs ==
  ASSUME TypeOK, Start
  PROVE  /\ rb # <<>> /\ Head(rb) = rb[1] /\ rb[1] \in Byte /\ pkgBuffer = <<>>
         /\ rb' = SubSeq(rb, 2, Len(rb)) /\ rb' \in Seq(Byte) /\ Len(rb') = Len(rb) - 1
         /\ rb = <<rb[1]>> \o rb'
         /\ \/ /\ rb[1].tag /\ status' = "GetHead"
               /\ pkgBuffer' = <<rb[1]>>
            \/ ~rb[1].tag /\ UNCHANGED <<status, pkgBuffer>>
<1>1. rb \in Seq(Byte) /\ rb # <<>>
  BY DEF Start, TypeOK
<1>2. /\ Head(rb) = rb[1] /\ rb[1] \in Byte /\ 1 \in 0 .. Len(rb)
      /\ Tail(rb) = SubSeq(rb, 2, Len(rb))
  BY <1>1
<1>3. /\ rb' \in Seq(Byte) /\ Len(rb') = Len(rb) - 1
      /\ SubSeq(rb, 1, 1) \o rb' = rb /\ SubSeq(rb, 1, 1) = <<rb[1]>>
  <2>1. rb' = SubSeq(rb, 1 + 1, Len(rb))
    BY <1>2 DEF Start
  <2>2. /\ rb' \in Seq(Byte) /\ Len(rb') = Len(rb) - 1
        /\ SubSeq(rb, 1, 1) \o rb' = rb
    BY <1>1, <1>2, <2>1, CutInTwo
  <2>3. SubSeq(rb, 1, 1) = <<rb[1]>>
    <3>1. SubSeq(rb, 1, 1) \in Seq(Byte) /\ Len(SubSeq(rb, 1, 1)) = 1 /\ SubSeq(rb, 1, 1)[1] = rb[1]
      BY <1>1, <1>2, CutInTwo
    <3> QED
      BY <3>1, OneElement
  <2> QED
    BY <2>2, <2>3
<1>4. \/ rb[1].tag /\ status' = "GetHead" /\ pkgBuffer' = <<rb[1]>>
      \/ ~rb[1].tag /\ UNCHANGED <<status, pkgBuffer>>
  BY <1>2 DEF Start
<1> QED
  BY <1>1, <1>2, <1>3, <1>4 DEF Start, TypeOK

(* A length read as an unsigned word, and back.                            *)
LEMMA BodyOfIs ==
  /\ \A n \in Nat : BodyOf(n) \in Nat
  /\ \A m \in BodyLens : Size(m) \in Nat /\ BodyOf(Size(m)) = m
<1>1. WordSize \in Nat \ {0} /\ HeadLen \in Nat /\ CrcLen \in Nat
  BY FramingAssumption
<1>2. \A k \in Int : k % WordSize \in 0 .. WordSize - 1
  BY <1>1
<1>3. \A m \in 0 .. WordSize - 1 : m % WordSize = m
  BY <1>1
<1>4. \A n \in Nat : BodyOf(n) \in Nat
  BY <1>1, <1>2 DEF BodyOf
<1>5. ASSUME NEW m \in BodyLens
      PROVE  Size(m) \in Nat /\ BodyOf(Size(m)) = m
  <2>1. m \in 0 .. WordSize - 1 /\ m \in Nat
    BY FramingAssumption
  <2>2. Size(m) \in Nat /\ Size(m) - (1 + HeadLen + CrcLen) = m
    BY <1>1, <2>1 DEF Size
  <2> QED
    BY <1>3, <2>1, <2>2 DEF BodyOf
<1> QED
  BY <1>4, <1>5

LEMMA GetHeadIs ==
  ASSUME TypeOK, GetHead
  PROVE  /\ Take(HeadLen) /\ pkgLen' \in Nat /\ HeadGives(pkgLen')
         /\ bodyLen' \in Nat /\ bodyLen' = BodyOf(pkgLen')
         /\ status = "GetHead" /\ status' = "GetBody"
         /\ UNCHANGED <<peerVars, pkgs, processed, dropped, cut>>
<1>1. PICK n \in GarbageLens \cup {Size(m) : m \in BodyLens} :
        HeadGives(n) /\ pkgLen' = n /\ bodyLen' = BodyOf(n)
  BY DEF GetHead
<1>2. n \in Nat
  BY BodyOfIs, FramingAssumption
<1> QED
  BY <1>1, <1>2, BodyOfIs DEF GetHead

LEMMA GetBodyIs ==
  ASSUME TypeOK, GetBody
  PROVE  /\ Readable \in Nat /\ Take(Readable)
         /\ bodyLen' \in Nat /\ bodyLen' = bodyLen - Readable
         /\ status = "GetBody"
         /\ \/ status' = "GetCRC" /\ bodyLen' = 0
            \/ status' = "GetBody"
         /\ UNCHANGED <<peerVars, pkgLen, pkgs, processed, dropped, cut>>
<1>1. Len(rb) \in Nat /\ bodyLen \in Nat
  BY DEF TypeOK
<1> QED
  BY <1>1 DEF GetBody, Readable

(* The packet GetCRC makes of what was read.                               *)
Done == pkgBuffer \o SubSeq(rb, 1, CrcLen)
LEMMA GetCRCIs ==
  ASSUME TypeOK, GetCRC
  PROVE  /\ CrcLen <= Len(rb) /\ Done \in Seq(Byte) /\ Len(Done) = Len(pkgBuffer) + CrcLen
         /\ pkgBuffer # <<>> /\ Done[1] = pkgBuffer[1] /\ Done[1] \in Byte
         /\ rb' = SubSeq(rb, CrcLen + 1, Len(rb)) /\ rb' \in Seq(Byte)
         /\ Len(rb') = Len(rb) - CrcLen /\ Done \o rb' = pkgBuffer \o rb
         /\ swallowed' \in SUBSET Pkgs
         /\ \A p : p \in swallowed' <=> \/ p \in swallowed
                                        \/ \E i \in 1 .. CrcLen : rb[i].pkg = p /\ rb[i].at = 1
         /\ \/ Whole(Done) /\ Len(pkgs) < MaxPkgs
                 /\ pkgs' = Append(pkgs, Done[1].pkg) /\ dropped' = dropped
            \/ Whole(Done) /\ Len(pkgs) >= MaxPkgs
                 /\ pkgs' = pkgs /\ dropped' = dropped \cup {Done[1].pkg}
            \/ ~Whole(Done) /\ UNCHANGED <<pkgs, dropped>>
<1> DEFINE a == SubSeq(rb, 1, CrcLen)
           b == SubSeq(rb, CrcLen + 1, Len(rb))
<1>1. /\ CrcLen <= Len(rb) /\ rb' = b /\ Swallow(a) /\ status = "GetCRC"
  BY DEF GetCRC
<1>2. rb \in Seq(Byte) /\ pkgBuffer \in Seq(Byte) /\ swallowed \in SUBSET Pkgs
  BY DEF TypeOK
<1>3. CrcLen \in 0 .. Len(rb) /\ CrcLen \in Nat
  BY <1>1, <1>2, FramingAssumption
<1>4. /\ a \in Seq(Byte) /\ Len(a) = CrcLen /\ \A i \in 1 .. CrcLen : a[i] = rb[i]
      /\ b \in Seq(Byte) /\ Len(b) = Len(rb) - CrcLen /\ a \o b = rb
  BY <1>2, <1>3, CutInTwo
<1>5. pkgBuffer # <<>>
  BY <1>1 DEF TypeOK
<1>6. Done = pkgBuffer \o a
  BY DEF Done
<1>7. /\ pkgs' = IF Whole(Done) /\ Len(pkgs) < MaxPkgs THEN Append(pkgs, Done[1].pkg) ELSE pkgs
      /\ dropped' = IF Whole(Done) /\ Len(pkgs) >= MaxPkgs
                      THEN dropped \cup {Done[1].pkg} ELSE dropped
  BY DEF GetCRC, Done
<1> HIDE DEF a, b
<1>8. /\ Done \in Seq(Byte) /\ Len(Done) = Len(pkgBuffer) + CrcLen
      /\ Done[1] = pkgBuffer[1] /\ Done[1] \in Byte
  <2>1. Len(pkgBuffer) \in Nat \ {0} /\ pkgBuffer[1] \in Byte
    BY <1>2, <1>5
  <2>2. /\ Done \in Seq(Byte) /\ Len(Done) = Len(pkgBuffer) + CrcLen
        /\ \A i \in 1 .. Len(pkgBuffer) : Done[i] = pkgBuffer[i]
    BY <1>2, <1>4, <1>6, Together
  <2> QED
    BY <2>1, <2>2
<1>9. (pkgBuffer \o a) \o b = pkgBuffer \o rb
  BY <1>2, <1>3, MovedOver DEF a, b
<1>10. /\ swallowed' \in SUBSET Pkgs
       /\ \A p : p \in swallowed' <=> \/ p \in swallowed
                                      \/ \E i \in 1 .. Len(a) : a[i].pkg = p /\ a[i].at = 1
  BY <1>1, <1>2, <1>4, SwallowIs
<1>11. Len(pkgs) \in Nat /\ MaxPkgs \in Nat
  BY FramingAssumption DEF TypeOK
<1>12. \/ Whole(Done) /\ Len(pkgs) < MaxPkgs
            /\ pkgs' = Append(pkgs, Done[1].pkg) /\ dropped' = dropped
       \/ Whole(Done) /\ Len(pkgs) >= MaxPkgs
            /\ pkgs' = pkgs /\ dropped' = dropped \cup {Done[1].pkg}
       \/ ~Whole(Done) /\ UNCHANGED <<pkgs, dropped>>
  BY <1>7, <1>11
<1>13. rb' = SubSeq(rb, CrcLen + 1, Len(rb))
  BY <1>1 DEF b
<1>14. Done \o rb' = pkgBuffer \o rb
  BY <1>1, <1>4, <1>6, <1>9, Zenon
<1>15. rb' \in Seq(Byte) /\ Len(rb') = Len(rb) - CrcLen
  BY <1>1, <1>4
<1>16. \A p : p \in swallowed' <=> \/ p \in swallowed
                                  \/ \E i \in 1 .. CrcLen : rb[i].pkg = p /\ rb[i].at = 1
  BY <1>4, <1>10
<1> QED
  BY <1>1, <1>5, <1>8, <1>10, <1>12, <1>13, <1>14, <1>15, <1>16, Zenon

LEMMA SendIs ==
  ASSUME TypeOK, NEW n \in BodyLens, NEW misleading \in BOOLEAN, Send(n, misleading)
  PROVE  /\ sent' = sent + 1 /\ sent' \in Pkgs
         /\ wire' = wire \o Packet(sent + 1, n, misleading)
         /\ Packet(sent + 1, n, misleading) \in Seq(Byte)
         /\ wire' \in Seq(Byte)
<1>1. sent \in Nat /\ sent < MaxSent /\ sent' = sent + 1 /\ MaxSent \in Nat
  BY FramingAssumption DEF Send, TypeOK
<1>2. sent' \in Pkgs
  BY <1>1 DEF Pkgs
<1>3. wire' = wire \o Packet(sent + 1, n, misleading)
  BY <1>1 DEF Send
<1>4. Packet(sent + 1, n, misleading) \in Seq(Byte)
  BY <1>1, <1>2, PacketIs
<1>5. wire' \in Seq(Byte)
  BY <1>3, <1>4, Together DEF TypeOK
<1> QED
  BY <1>1, <1>2, <1>3, <1>4, <1>5

LEMMA ReceiveIs ==
  ASSUME TypeOK, NEW n \in 1 .. RingSize, Receive(n)
  PROVE  /\ rb' \in Seq(Byte) /\ wire' \in Seq(Byte) /\ Len(rb') <= RingSize
         /\ rb' \o wire' = rb \o wire
         /\ Len(rb') >= Len(rb)
<1>1. rb \in Seq(Byte) /\ wire \in Seq(Byte)
  BY DEF TypeOK
<1>2. /\ n <= RingSize - Len(rb) /\ n <= Len(wire)
      /\ rb' = rb \o SubSeq(wire, 1, n) /\ wire' = SubSeq(wire, n + 1, Len(wire))
  BY DEF Receive, Room
<1>3. n \in 0 .. Len(wire)
  BY <1>1, <1>2
<1>4. PICK a \in Seq(Byte) : a = SubSeq(wire, 1, n) /\ Len(a) = n
  <2>1. SubSeq(wire, 1, n) \in Seq(Byte) /\ Len(SubSeq(wire, 1, n)) = n
    BY <1>1, <1>3, CutInTwo
  <2> QED
    BY <2>1, Zenon
<1>5. wire' \in Seq(Byte)
  BY <1>1, <1>2, <1>3, CutInTwo
<1>6. rb' \in Seq(Byte) /\ Len(rb') = Len(rb) + n
  <2>1. rb' = rb \o a
    BY <1>2, <1>4
  <2> QED
    BY <1>1, <1>4, <2>1, Together
<1>7. rb' \o wire' = rb \o wire
  BY <1>1, <1>2, <1>3, MovedOver
<1>8. Len(rb') <= RingSize /\ Len(rb') >= Len(rb)
  <2>1. Len(rb) \in Nat /\ RingSize \in Nat
    BY <1>1, FramingAssumption
  <2> QED
    BY <1>2, <1>6, <2>1
<1> QED
  BY <1>5, <1>6, <1>7, <1>8

LEMMA AfreshIs ==
  ASSUME TypeOK, Afresh
  PROVE  /\ wire' = <<>> /\ cut' \in SUBSET Pkgs /\ rb' = <<>> /\ pkgs' = <<>>
         /\ status' = "Start" /\ pkgLen' = 0 /\ bodyLen' = 0 /\ pkgBuffer' = <<>>
         /\ cut' = cut \cup PkgsOf(wire) \cup PkgsOf(rb) \cup ToSet(pkgs)
                       \cup PkgsOf(pkgBuffer)
<1>1. /\ PkgsOf(wire) \subseteq Pkgs /\ PkgsOf(rb) \subseteq Pkgs
      /\ PkgsOf(pkgBuffer) \subseteq Pkgs
  BY PkgsOfIs DEF TypeOK
<1>2. ToSet(pkgs) \subseteq Pkgs
  BY InSet DEF TypeOK
<1> QED
  BY <1>1, <1>2 DEF Afresh, TypeOK

LEMMA DisconnectedIs ==
  ASSUME TypeOK, Disconnected
  PROVE  \/ role = "server" /\ Afresh
         \/ /\ role # "server" /\ wire' = <<>>
            /\ cut' \in SUBSET Pkgs /\ cut' = cut \cup PkgsOf(wire)
            /\ UNCHANGED <<rb, machineVars, pkgs>>
<1>1. PkgsOf(wire) \subseteq Pkgs
  BY PkgsOfIs DEF TypeOK
<1> QED
  BY <1>1 DEF Disconnected, TypeOK

(* The parts of TypeOK that a step changes one by one.                     *)
LEMMA EmptyIs == <<>> \in Seq(Byte) /\ <<>> \in Seq(Pkgs) /\ Len(<<>>) = 0
  OBVIOUS

LEMMA AfreshTypes ==
  ASSUME TypeOK, Afresh, UNCHANGED <<role, sent, processed, dropped, swallowed>>,
         breaks' \in 0 .. MaxBreaks
  PROVE  TypeOK'
<1>1. /\ wire' = <<>> /\ rb' = <<>> /\ pkgs' = <<>> /\ pkgBuffer' = <<>>
      /\ status' = "Start" /\ pkgLen' = 0 /\ bodyLen' = 0 /\ cut' \in SUBSET Pkgs
  BY AfreshIs
<1>2. Len(<<>>) <= RingSize /\ Len(<<>>) <= MaxPkgs
  BY FramingAssumption, EmptyIs
<1> QED
  BY <1>1, <1>2, EmptyIs DEF TypeOK

LEMMA DisconnectedTypes ==
  ASSUME TypeOK, Disconnected, UNCHANGED <<role, sent, processed, dropped, swallowed>>,
         breaks' \in 0 .. MaxBreaks
  PROVE  TypeOK'
<1>1. CASE Afresh
  BY <1>1, AfreshTypes
<1>2. CASE role # "server" /\ ~Afresh
  BY <1>2, DisconnectedIs, EmptyIs DEF TypeOK, machineVars
<1> QED
  BY <1>1, <1>2, DisconnectedIs

LEMMA PeerTypes ==
  ASSUME TypeOK, NEW n \in BodyLens, NEW misleading \in BOOLEAN, Send(n, misleading)
  PROVE  TypeOK'
<1>1. sent' \in 0 .. MaxSent
  BY SendIs, FramingAssumption DEF Pkgs, TypeOK
<1>2. UNCHANGED <<role, breaks, rb, machineVars, pkgs, historyVars>>
  BY DEF Send
<1> QED
  BY <1>1, <1>2, SendIs DEF TypeOK, machineVars, historyVars

LEMMA ReceiveTypes ==
  ASSUME TypeOK, NEW n \in 1 .. RingSize, Receive(n)
  PROVE  TypeOK'
<1>1. UNCHANGED <<role, sent, breaks, machineVars, pkgs, historyVars>>
  BY DEF Receive
<1> QED
  BY <1>1, ReceiveIs DEF TypeOK, machineVars, historyVars

LEMMA StartTypes ==
  ASSUME TypeOK, Start
  PROVE  TypeOK'
<1>1. UNCHANGED <<peerVars, pkgLen, bodyLen, pkgs, historyVars>> /\ status = "Start"
  BY DEF Start
<1>2. Len(rb') <= RingSize
  BY StartIs, FramingAssumption DEF TypeOK
<1>3. CASE status' = "GetHead" /\ pkgBuffer' = <<rb[1]>>
  <2>1. pkgBuffer' \in Seq(Byte) /\ pkgBuffer' # <<>>
    BY <1>3, StartIs
  <2> QED
    BY <1>1, <1>2, <1>3, <2>1, StartIs DEF TypeOK, peerVars, historyVars
<1>4. CASE UNCHANGED <<status, pkgBuffer>>
  BY <1>1, <1>2, <1>4, StartIs DEF TypeOK, peerVars, historyVars
<1> QED
  BY <1>3, <1>4, StartIs

LEMMA TakeTypes ==
  ASSUME TypeOK, NEW n \in Nat, Take(n), status # "Start",
         pkgLen' \in Nat, bodyLen' \in Nat,
         status' = "GetBody" \/ (status' = "GetCRC" /\ bodyLen' = 0),
         UNCHANGED <<peerVars, pkgs, processed, dropped, cut>>
  PROVE  TypeOK'
<1>1. pkgBuffer \in Seq(Byte) /\ pkgBuffer # <<>> /\ rb \in Seq(Byte) /\ RingSize \in Nat
  BY FramingAssumption DEF TypeOK
<1>2. pkgBuffer' # <<>> /\ Len(rb') <= RingSize
  BY <1>1, TakeIs DEF TypeOK
<1> QED
  BY <1>2, TakeIs DEF TypeOK, peerVars

LEMMA MachineTypes ==
  ASSUME TypeOK, ThreadStateMachine
  PROVE  TypeOK'
<1>1. CASE Start
  BY <1>1, StartTypes
<1>2. CASE GetHead
  <2>1. HeadLen \in Nat
    BY FramingAssumption
  <2>2. /\ Take(HeadLen) /\ status # "Start" /\ status' = "GetBody"
        /\ pkgLen' \in Nat /\ bodyLen' \in Nat
        /\ UNCHANGED <<peerVars, pkgs, processed, dropped, cut>>
    BY <1>2, GetHeadIs
  <2>3. PICK n \in Nat : n = HeadLen /\ Take(n)
    BY <2>1, <2>2
  <2> QED
    BY <2>2, <2>3, TakeTypes
<1>3. CASE GetBody
  <2>1. /\ Readable \in Nat /\ Take(Readable) /\ status # "Start"
        /\ pkgLen' \in Nat /\ bodyLen' \in Nat
        /\ status' = "GetBody" \/ (status' = "GetCRC" /\ bodyLen' = 0)
        /\ UNCHANGED <<peerVars, pkgs, processed, dropped, cut>>
    BY <1>3, GetBodyIs DEF TypeOK
  <2>2. PICK n \in Nat : n = Readable /\ Take(n)
    BY <2>1
  <2> QED
    BY <2>1, <2>2, TakeTypes
<1>4. CASE GetCRC
  <2>1. UNCHANGED <<peerVars, processed, cut>>
        /\ status' = "Start" /\ pkgLen' = 0 /\ bodyLen' = 0 /\ pkgBuffer' = <<>>
    BY <1>4 DEF GetCRC
  <2>2. Len(rb') <= RingSize
    BY <1>4, GetCRCIs, FramingAssumption DEF TypeOK
  <2>3. pkgs' \in Seq(Pkgs) /\ Len(pkgs') <= MaxPkgs /\ dropped' \in SUBSET Pkgs
    <3>1. Done[1].pkg \in Pkgs
      BY <1>4, GetCRCIs, ByteIs
    <3>2. pkgs \in Seq(Pkgs) /\ MaxPkgs \in Nat /\ dropped \in SUBSET Pkgs
      BY FramingAssumption DEF TypeOK
    <3>3. /\ Append(pkgs, Done[1].pkg) \in Seq(Pkgs)
          /\ Len(Append(pkgs, Done[1].pkg)) = Len(pkgs) + 1
      BY <3>1, <3>2
    <3>4. \/ pkgs' = pkgs
          \/ Len(pkgs) < MaxPkgs /\ pkgs' = Append(pkgs, Done[1].pkg)
      BY <1>4, GetCRCIs
    <3>5. pkgs' \in Seq(Pkgs) /\ Len(pkgs') <= MaxPkgs
      <4>1. Len(pkgs) \in Nat /\ Len(pkgs) <= MaxPkgs
        BY <3>2 DEF TypeOK
      <4>2. CASE pkgs' = pkgs
        BY <3>2, <4>1, <4>2
      <4>3. CASE Len(pkgs) < MaxPkgs /\ pkgs' = Append(pkgs, Done[1].pkg)
        BY <3>2, <3>3, <4>1, <4>3
      <4> QED
        BY <3>4, <4>2, <4>3
    <3>6. dropped' = dropped \/ dropped' = dropped \cup {Done[1].pkg}
      BY <1>4, GetCRCIs
    <3> QED
      BY <3>1, <3>2, <3>5, <3>6
  <2> QED
    BY <1>4, <2>1, <2>2, <2>3, GetCRCIs, EmptyIs DEF TypeOK, peerVars
<1> QED
  BY <1>1, <1>2, <1>3, <1>4 DEF ThreadStateMachine

LEMMA ProcessTypes ==
  ASSUME TypeOK, ThreadProcessPkg
  PROVE  TypeOK'
<1>1. pkgs \in Seq(Pkgs) /\ pkgs # <<>> /\ MaxPkgs \in Nat
  BY FramingAssumption DEF ThreadProcessPkg, TypeOK
<1>2. /\ Head(pkgs) \in Pkgs /\ Tail(pkgs) \in Seq(Pkgs) /\ Len(Tail(pkgs)) = Len(pkgs) - 1
  BY <1>1
<1>3. pkgs' \in Seq(Pkgs) /\ Len(pkgs') <= MaxPkgs /\ processed' \in SUBSET Pkgs
  BY <1>1, <1>2 DEF ThreadProcessPkg, TypeOK
<1>4. UNCHANGED <<peerVars, rb, machineVars, dropped, cut, swallowed>>
  BY DEF ThreadProcessPkg
<1> QED
  BY <1>3, <1>4 DEF TypeOK, peerVars, machineVars

LEMMA TypeStep ==
  ASSUME TypeOK, [Next]_vars
  PROVE  TypeOK'
<1>1. ASSUME Break PROVE TypeOK'
  <2>1. breaks' \in 0 .. MaxBreaks
    BY <1>1, FramingAssumption DEF Break, TypeOK
  <2> QED
    BY <1>1, <2>1, DisconnectedTypes DEF Break
<1>2. ASSUME HangUp PROVE TypeOK'
  <2>1. breaks' \in 0 .. MaxBreaks
    BY <1>2 DEF HangUp, TypeOK
  <2> QED
    BY <1>2, <2>1, DisconnectedTypes DEF HangUp
<1>3. ASSUME Falls PROVE TypeOK'
  <2>1. breaks' \in 0 .. MaxBreaks
    BY <1>3 DEF Falls, TypeOK
  <2> QED
    BY <1>3, <2>1, AfreshTypes DEF Falls
<1>4. CASE UNCHANGED vars
  BY <1>4 DEF TypeOK, vars, peerVars, machineVars, historyVars
<1> QED
  BY <1>1, <1>2, <1>3, <1>4, PeerTypes, ReceiveTypes, MachineTypes, ProcessTypes
     DEF Next, ReceiveSome

LEMMA InitTypes == Init => TypeOK
  BY EmptyIs, FramingAssumption DEF Init, TypeOK

(* The ring buffer stays within its size and the queue of packets within   *)
(* its bound, whatever the lengths read where there is no head.            *)
THEOREM TypeCorrect == Spec => []TypeOK
  BY InitTypes, TypeStep, PTL DEF Spec

-----------------------------------------------------------------------------
(* The stream: what has been read of a packet, what is in the ring buffer  *)
(* and what is on its way.                                                 *)
Stream == pkgBuffer \o rb \o wire

LEMMA StreamIs ==
  ASSUME NEW q \in Seq(Byte), NEW r \in Seq(Byte), NEW w \in Seq(Byte)
  PROVE  /\ (q \o r) \o w \in Seq(Byte)
         /\ Len((q \o r) \o w) = Len(q) + Len(r) + Len(w)
         /\ \A i \in 1 .. Len(q) : ((q \o r) \o w)[i] = q[i]
         /\ \A i \in 1 .. Len(r) : ((q \o r) \o w)[Len(q) + i] = r[i]
         /\ \A i \in 1 .. Len(w) : ((q \o r) \o w)[Len(q) + Len(r) + i] = w[i]
<1>1. PICK x \in Seq(Byte) : x = q \o r
  BY Together
<1>2. /\ Len(x) = Len(q) + Len(r) /\ \A i \in 1 .. Len(q) : x[i] = q[i]
      /\ \A i \in 1 .. Len(r) : x[Len(q) + i] = r[i]
  BY <1>1, Together
<1>3. PICK s \in Seq(Byte) : s = x \o w
  BY Together
<1>4. /\ Len(s) = Len(x) + Len(w) /\ \A i \in 1 .. Len(x) : s[i] = x[i]
      /\ \A i \in 1 .. Len(w) : s[Len(x) + i] = w[i]
  BY <1>3, Together
<1>5. Len(q) \in Nat /\ Len(r) \in Nat /\ Len(w) \in Nat
  OBVIOUS
<1>6. \A i \in 1 .. Len(q) : s[i] = q[i]
  BY <1>2, <1>4, <1>5
<1>7. \A i \in 1 .. Len(r) : s[Len(q) + i] = r[i]
  BY <1>2, <1>4, <1>5
<1>8. Len(s) = Len(q) + Len(r) + Len(w)
      /\ \A i \in 1 .. Len(w) : s[Len(q) + Len(r) + i] = w[i]
  BY <1>2, <1>4
<1> QED
  BY <1>1, <1>3, <1>6, <1>7, <1>8

(* The first n bytes are gone.                                             *)
IsDrop(s, t, n) ==
  n <= Len(s) /\ Len(t) = Len(s) - n /\ \A i \in 1 .. Len(t) : t[i] = s[n + i]

LEMMA DropCat ==
  ASSUME NEW x \in Seq(Byte), NEW y \in Seq(Byte), NEW w \in Seq(Byte), NEW n \in Nat,
         IsDrop(x, y, n)
  PROVE  IsDrop(x \o w, y \o w, n)
<1>1. PICK s \in Seq(Byte) : s = x \o w
  BY Together
<1>2. PICK t \in Seq(Byte) : t = y \o w
  BY Together
<1>3. /\ Len(s) = Len(x) + Len(w) /\ \A i \in 1 .. Len(x) : s[i] = x[i]
      /\ \A i \in 1 .. Len(w) : s[Len(x) + i] = w[i]
  BY <1>1, Together
<1>4. /\ Len(t) = Len(y) + Len(w) /\ \A i \in 1 .. Len(y) : t[i] = y[i]
      /\ \A i \in 1 .. Len(w) : t[Len(y) + i] = w[i]
  BY <1>2, Together
<1>5. n <= Len(x) /\ Len(y) = Len(x) - n /\ \A i \in 1 .. Len(y) : y[i] = x[n + i]
  BY DEF IsDrop
<1>6. Len(x) \in Nat /\ Len(w) \in Nat /\ Len(y) \in Nat
  OBVIOUS
<1>7. n <= Len(s) /\ Len(t) = Len(s) - n
  BY <1>3, <1>4, <1>5, <1>6
<1>8. ASSUME NEW i \in 1 .. Len(t) PROVE t[i] = s[n + i]
  <2>1. CASE i <= Len(y)
    <3>1. i \in 1 .. Len(y) /\ n + i \in 1 .. Len(x)
      BY <1>5, <1>6, <2>1
    <3> QED
      BY <1>3, <1>4, <1>5, <3>1
  <2>2. CASE i > Len(y)
    <3>1. i - Len(y) \in 1 .. Len(w) /\ i = Len(y) + (i - Len(y))
      BY <1>4, <1>6, <2>2
    <3>2. PICK k \in 1 .. Len(w) : i = Len(y) + k
      BY <3>1
    <3>3. n + i = Len(x) + k
      BY <1>5, <1>6, <3>2
    <3> QED
      BY <1>3, <1>4, <3>2, <3>3
  <2> QED
    BY <1>6, <2>1, <2>2
<1> QED
  BY <1>1, <1>2, <1>7, <1>8 DEF IsDrop

-----------------------------------------------------------------------------
(* What is right of a stream: a tag begins every packet, and after a byte  *)
(* of a packet that lost none follow the others of it.                     *)
Right(s, n) ==
  \A i \in 1 .. Len(s) : /\ s[i].at <= Size(s[i].body)
                         /\ s[i].at = 1 => s[i].tag
                         /\ s[i].pkg <= n
Next1(s, i, j) == /\ j <= Len(s) /\ s[j].pkg = s[i].pkg /\ s[j].body = s[i].body
                  /\ s[j].at = s[i].at + (j - i)
Follows(s, lost) ==
  \A i \in 1 .. Len(s) : s[i].pkg \notin lost =>
    \A j \in i .. i + Size(s[i].body) - s[i].at : Next1(s, i, j)

(* The stream stands at the beginning of a packet, and only whole packets  *)
(* are in it.                                                              *)
Steady(s, lost) ==
  /\ \A i \in 1 .. Len(s) : s[i].pkg \notin lost
  /\ Len(s) > 0 => s[1].at = 1
  /\ \A i \in 1 .. Len(s) : i < Len(s) /\ s[i].at = Size(s[i].body) => s[i + 1].at = 1

LEMMA DropKeeps ==
  ASSUME NEW s \in Seq(Byte), NEW t \in Seq(Byte), NEW n \in Nat, IsDrop(s, t, n)
  PROVE  /\ \A k : Right(s, k) => Right(t, k)
         /\ \A lost : Follows(s, lost) => Follows(t, lost)
<1>1. /\ n <= Len(s) /\ Len(t) = Len(s) - n /\ \A i \in 1 .. Len(t) : t[i] = s[n + i]
      /\ Len(s) \in Nat /\ Len(t) \in Nat
  BY DEF IsDrop
<1>2. \A i \in 1 .. Len(t) : n + i \in 1 .. Len(s)
  BY <1>1
<1>3. \A k : Right(s, k) => Right(t, k)
  BY <1>1, <1>2, Zenon DEF Right
<1>4. ASSUME NEW lost, Follows(s, lost), NEW i \in 1 .. Len(t), t[i].pkg \notin lost,
             NEW j \in i .. i + Size(t[i].body) - t[i].at
      PROVE  Next1(t, i, j)
  <2>1. t[i] = s[n + i] /\ t[i] \in Byte /\ n + i \in 1 .. Len(s)
    BY <1>1, <1>2
  <2>2. Size(t[i].body) \in Nat /\ t[i].at \in Nat
    BY <2>1, ByteIs
  <2>3. n + j \in n + i .. n + i + Size(s[n + i].body) - s[n + i].at
    BY <2>1, <2>2
  <2>4. Next1(s, n + i, n + j)
    BY <1>4, <2>1, <2>3 DEF Follows
  <2>5. j \in 1 .. Len(t)
    <3>1. n + j <= Len(s)
      BY <2>4 DEF Next1
    <3>2. j \in Int /\ j >= 1
      BY <1>1, <2>2
    <3> QED
      BY <1>1, <3>1, <3>2
  <2>6. t[j] = s[n + j] /\ (n + j) - (n + i) = j - i
    BY <1>1, <2>2, <2>5
  <2> QED
    BY <2>1, <2>4, <2>5, <2>6 DEF Next1
<1> QED
  BY <1>3, <1>4 DEF Follows

(* Another packet p is sent, with the first of its bytes a tag.            *)
IsPacket(w, p, n) ==
  /\ Len(w) = Size(n)
  /\ \A k \in 1 .. Size(n) :
       w[k].pkg = p /\ w[k].at = k /\ w[k].body = n /\ (k = 1 => w[k].tag)

LEMMA SendKeeps ==
  ASSUME NEW s \in Seq(Byte), NEW w \in Seq(Byte), NEW p \in Nat, NEW n \in BodyLens,
         IsPacket(w, p + 1, n)
  PROVE  /\ Right(s, p) => Right(s \o w, p + 1)
         /\ \A lost : Follows(s, lost) => Follows(s \o w, lost)
         /\ \A lost : Steady(s, lost) /\ p + 1 \notin lost => Steady(s \o w, lost)
<1>1. PICK t \in Seq(Byte) : t = s \o w
  BY Together
<1>2. /\ Len(t) = Len(s) + Len(w) /\ \A i \in 1 .. Len(s) : t[i] = s[i]
      /\ \A i \in 1 .. Len(w) : t[Len(s) + i] = w[i]
  BY <1>1, Together
<1>3. Len(s) \in Nat /\ Size(n) \in Nat /\ Size(n) > 0 /\ Len(w) = Size(n)
  BY FramingAssumption DEF IsPacket, Size
<1>4. \A k \in 1 .. Len(w) : /\ w[k].pkg = p + 1 /\ w[k].at = k /\ w[k].body = n
                             /\ k = 1 => w[k].tag
  BY DEF IsPacket
<1>5. ASSUME NEW i \in 1 .. Len(t)
      PROVE  i \in 1 .. Len(s) \/ \E k \in 1 .. Len(w) : i = Len(s) + k
  <2>1. CASE i <= Len(s)
    BY <1>3, <2>1
  <2>2. CASE i > Len(s)
    <3>1. i - Len(s) \in 1 .. Len(w) /\ i = Len(s) + (i - Len(s))
      BY <1>2, <1>3, <2>2
    <3> QED
      BY <3>1
  <2> QED
    BY <1>3, <2>1, <2>2
<1>6. ASSUME Right(s, p), NEW i \in 1 .. Len(t)
      PROVE  /\ t[i].at <= Size(t[i].body) /\ (t[i].at = 1 => t[i].tag)
             /\ t[i].pkg <= p + 1
  <2>1. CASE i \in 1 .. Len(s)
    <3>1. s[i].pkg \in Nat
      BY <2>1, ByteIs DEF Pkgs
    <3>2. /\ s[i].at <= Size(s[i].body) /\ (s[i].at = 1 => s[i].tag)
          /\ s[i].pkg <= p /\ t[i] = s[i]
      BY <1>2, <1>6, <2>1, Zenon DEF Right
    <3>3. t[i].pkg <= p + 1
      BY <3>1, <3>2
    <3> QED
      BY <3>2, <3>3, Zenon
  <2>2. ASSUME NEW k \in 1 .. Len(w), i = Len(s) + k
        PROVE  /\ t[i].at <= Size(t[i].body) /\ (t[i].at = 1 => t[i].tag)
               /\ t[i].pkg <= p + 1
    <3>1. t[i] = w[k]
      BY <1>2, <2>2
    <3>2. w[k].at = k /\ w[k].body = n /\ w[k].pkg = p + 1 /\ k <= Size(n) /\ p + 1 <= p + 1
      BY <1>3, <1>4
    <3>3. w[k].at = 1 => w[k].tag
      BY <1>4, <3>2, Zenon
    <3> QED
      BY <3>1, <3>2, <3>3, Zenon
  <2> QED
    BY <1>5, <2>1, <2>2
<1>7. ASSUME NEW lost, Follows(s, lost), NEW i \in 1 .. Len(t), t[i].pkg \notin lost,
             NEW j \in i .. i + Size(t[i].body) - t[i].at
      PROVE  Next1(t, i, j)
  <2>1. CASE i \in 1 .. Len(s)
    <3>1. t[i] = s[i] /\ s[i] \in Byte /\ Size(s[i].body) \in Nat /\ s[i].at \in Nat
      <4>1. t[i] = s[i] /\ s[i] \in Byte
        BY <1>2, <2>1
      <4> QED
        BY <4>1, ByteIs
    <3>2. Next1(s, i, j)
      BY <1>7, <2>1, <3>1 DEF Follows
    <3>3. j \in 1 .. Len(s)
      BY <1>3, <3>1, <3>2 DEF Next1
    <3> QED
      BY <1>2, <1>3, <3>1, <3>2, <3>3 DEF Next1
  <2>2. ASSUME NEW k \in 1 .. Len(w), i = Len(s) + k PROVE Next1(t, i, j)
    <3>1. t[i] = w[k] /\ w[k].at = k /\ w[k].body = n
      BY <1>2, <1>4, <2>2
    <3>2. j \in i .. Len(s) + Size(n)
      BY <1>3, <2>2, <3>1
    <3>3. j - Len(s) \in 1 .. Len(w) /\ j = Len(s) + (j - Len(s)) /\ j <= Len(t)
      BY <1>2, <1>3, <2>2, <3>2
    <3>4. PICK l \in 1 .. Len(w) : j = Len(s) + l
      BY <3>3
    <3>5. t[j] = w[l] /\ l = k + (j - i)
      BY <1>2, <1>3, <2>2, <3>4
    <3> QED
      BY <1>4, <3>1, <3>3, <3>5 DEF Next1
  <2> QED
    BY <1>5, <2>1, <2>2
<1>8. ASSUME NEW lost, Steady(s, lost), p + 1 \notin lost PROVE Steady(t, lost)
  <2>1. \A i \in 1 .. Len(t) : t[i].pkg \notin lost
    <3>1. \A i \in 1 .. Len(s) : t[i].pkg \notin lost
      BY <1>2, <1>8 DEF Steady
    <3>2. \A k \in 1 .. Len(w) : t[Len(s) + k].pkg \notin lost
      BY <1>2, <1>4, <1>8
    <3> QED
      BY <1>5, <3>1, <3>2, Zenon
  <2>2. w[1].at = 1 /\ t[Len(s) + 1] = w[1]
    BY <1>2, <1>3, <1>4
  <2>3. t[1].at = 1
    <3>1. CASE Len(s) = 0
      BY <2>2, <3>1
    <3>2. CASE Len(s) > 0
      BY <1>2, <1>3, <1>8, <3>2 DEF Steady
    <3> QED
      BY <1>3, <3>1, <3>2
  <2>4. ASSUME NEW i \in 1 .. Len(t), i < Len(t), t[i].at = Size(t[i].body)
        PROVE  t[i + 1].at = 1
    <3>1. CASE i < Len(s)
      <4>1. i \in 1 .. Len(s) /\ i + 1 \in 1 .. Len(s)
        BY <1>3, <3>1
      <4> QED
        BY <1>2, <1>8, <2>4, <3>1, <4>1 DEF Steady
    <3>2. CASE i = Len(s)
      BY <2>2, <3>2
    <3>3. ASSUME NEW k \in 1 .. Len(w), i = Len(s) + k PROVE FALSE
      BY <1>2, <1>3, <1>4, <2>4, <3>3
    <3> QED
      BY <1>3, <1>5, <3>1, <3>2, <3>3
  <2> QED
    BY <2>1, <2>3, <2>4 DEF Steady
<1> QED
  BY <1>1, <1>6, <1>7, <1>8 DEF Right, Follows

(* What is behind s is lost.                                               *)
LEMMA LossKeeps ==
  ASSUME NEW s \in Seq(Byte), NEW w \in Seq(Byte), NEW lost, NEW k,
         Right(s \o w, k), Follows(s \o w, lost)
  PROVE  Right(s, k) /\ Follows(s, lost \cup PkgsOf(w))
<1>1. PICK t \in Seq(Byte) : t = s \o w
  BY Together
<1>2. /\ Len(t) = Len(s) + Len(w) /\ \A i \in 1 .. Len(s) : t[i] = s[i]
      /\ \A i \in 1 .. Len(w) : t[Len(s) + i] = w[i]
  BY <1>1, Together
<1>3. Len(s) \in Nat /\ Len(w) \in Nat /\ Right(t, k) /\ Follows(t, lost)
  BY <1>1
<1>4. \A i \in 1 .. Len(s) : i \in 1 .. Len(t)
  BY <1>2, <1>3
<1>5. Right(s, k)
  BY <1>2, <1>3, <1>4, Zenon DEF Right
<1>6. ASSUME NEW i \in 1 .. Len(s), s[i].pkg \notin lost \cup PkgsOf(w),
             NEW j \in i .. i + Size(s[i].body) - s[i].at
      PROVE  Next1(s, i, j)
  <2>1. t[i] = s[i] /\ s[i] \in Byte /\ Size(s[i].body) \in Nat /\ s[i].at \in Nat
    BY <1>2, ByteIs
  <2>2. Next1(t, i, j)
    BY <1>3, <1>4, <1>6, <2>1 DEF Follows
  <2>3. j <= Len(s)
    <3> SUFFICES ASSUME j > Len(s) PROVE FALSE
      BY <1>3, <2>1
    <3>1. j - Len(s) \in 1 .. Len(w) /\ j = Len(s) + (j - Len(s))
      BY <1>2, <1>3, <2>1, <2>2 DEF Next1
    <3>2. PICK l \in 1 .. Len(w) : j = Len(s) + l
      BY <3>1
    <3>3. w[l].pkg = s[i].pkg
      BY <1>2, <2>1, <2>2, <3>2 DEF Next1
    <3> QED
      BY <1>6, <3>3, PkgsOfIs
  <2> QED
    BY <1>2, <1>3, <2>1, <2>2, <2>3 DEF Next1
<1> QED
  BY <1>5, <1>6 DEF Follows

(* A packet at the beginning that lost no byte is there as a whole, and in *)
(* a steady stream the next one is behind it.                              *)
LEMMA FirstWhole ==
  ASSUME NEW s \in Seq(Byte), NEW lost, Follows(s, lost), Len(s) > 0, s[1].at = 1,
         s[1].pkg \notin lost
  PROVE  /\ Size(s[1].body) <= Len(s)
         /\ \A j \in 1 .. Size(s[1].body) :
              s[j].pkg = s[1].pkg /\ s[j].body = s[1].body /\ s[j].at = j
<1>1. s[1] \in Byte /\ Len(s) \in Nat
  OBVIOUS
<1>2. Size(s[1].body) \in Nat /\ Size(s[1].body) > 0
  BY <1>1, ByteIs, FramingAssumption DEF Size
<1>3. \A j \in 1 .. Size(s[1].body) : Next1(s, 1, j)
  BY <1>1, <1>2 DEF Follows
<1> QED
  BY <1>2, <1>3 DEF Next1

LEMMA SteadyNext ==
  ASSUME NEW s \in Seq(Byte), NEW t \in Seq(Byte), NEW lost, Follows(s, lost), Len(s) > 0,
         Steady(s, lost), IsDrop(s, t, Size(s[1].body))
  PROVE  Steady(t, lost)
<1> DEFINE n == Size(s[1].body)
<1>1. s[1].at = 1 /\ s[1].pkg \notin lost /\ s[1] \in Byte
  BY DEF Steady
<1>2. n \in Nat /\ n > 0
  BY <1>1, ByteIs, FramingAssumption DEF Size
<1>3. n <= Len(s) /\ s[n].at = n /\ s[n].body = s[1].body
  BY <1>1, <1>2, FirstWhole
<1>4. /\ Len(t) = Len(s) - n /\ \A i \in 1 .. Len(t) : t[i] = s[n + i]
  BY DEF IsDrop
<1> HIDE DEF n
<1>5. \A i \in 1 .. Len(t) : n + i \in 1 .. Len(s)
  BY <1>2, <1>3, <1>4
<1>6. \A i \in 1 .. Len(t) : t[i].pkg \notin lost
  BY <1>4, <1>5 DEF Steady
<1>7. ASSUME Len(t) > 0 PROVE t[1].at = 1
  <2>1. n \in 1 .. Len(s) /\ n < Len(s) /\ t[1] = s[n + 1]
    BY <1>2, <1>3, <1>4, <1>7
  <2>2. s[n].at = Size(s[n].body)
    BY <1>3 DEF n
  <2> QED
    BY <2>1, <2>2 DEF Steady
<1>8. ASSUME NEW i \in 1 .. Len(t), i < Len(t), t[i].at = Size(t[i].body)
      PROVE  t[i + 1].at = 1
  <2>1. /\ n + i \in 1 .. Len(s) /\ n + i < Len(s) /\ i + 1 \in 1 .. Len(t)
        /\ (n + i) + 1 = n + (i + 1)
    BY <1>2, <1>4, <1>5, <1>8
  <2> QED
    BY <1>4, <1>8, <2>1 DEF Steady
<1> QED
  BY <1>6, <1>7, <1>8 DEF Steady

-----------------------------------------------------------------------------
(* The invariants.                                                         *)

Sound == /\ Right(Stream, sent) /\ Follows(Stream, cut)
         /\ ToSet(pkgs) \cup cut \subseteq 1 .. sent

(* How much has been read of a packet whose first byte really begins one,  *)
(* and how much room there is for it.                                      *)
Reading ==
  /\ status = "GetHead" => Len(pkgBuffer) = 1
  /\ status \in {"GetBody", "GetCRC"} /\ pkgBuffer[1].at = 1 /\ pkgBuffer[1].pkg \notin cut
       => /\ pkgLen = Size(pkgBuffer[1].body)
          /\ Len(pkgBuffer) + bodyLen = 1 + HeadLen + pkgBuffer[1].body

Uncut == role = "server" \/ cut = {}
InStep == Uncut => Steady(Stream, cut) /\ swallowed = {}

(* A packet nothing has happened to yet: its first byte is still to be     *)
(* read, or the packet is being read from it on.                           *)
HeadAt(s, k, p) == \E i \in 1 .. Len(s) : s[i].pkg = p /\ s[i].at = 1 /\ (i = 1 \/ i > k)
Settled == ToSet(pkgs) \cup processed \cup dropped \cup cut \cup swallowed
Kept == \A p \in 1 .. sent : p \in Settled \/ HeadAt(Stream, Len(pkgBuffer), p)

Inv == Sound /\ Reading /\ InStep /\ Kept

LEMMA StreamType ==
  ASSUME TypeOK
  PROVE  /\ Stream \in Seq(Byte) /\ pkgBuffer \in Seq(Byte) /\ rb \in Seq(Byte)
         /\ wire \in Seq(Byte)
         /\ Len(Stream) = Len(pkgBuffer) + Len(rb) + Len(wire)
         /\ \A i \in 1 .. Len(pkgBuffer) : Stream[i] = pkgBuffer[i]
         /\ \A i \in 1 .. Len(rb) : Stream[Len(pkgBuffer) + i] = rb[i]
         /\ \A i \in 1 .. Len(wire) : Stream[Len(pkgBuffer) + Len(rb) + i] = wire[i]
         /\ Len(pkgBuffer) \in Nat /\ Len(rb) \in Nat /\ Len(wire) \in Nat
<1>1. pkgBuffer \in Seq(Byte) /\ rb \in Seq(Byte) /\ wire \in Seq(Byte)
  BY DEF TypeOK
<1>2. Len(pkgBuffer) \in Nat /\ Len(rb) \in Nat /\ Len(wire) \in Nat
  BY <1>1
<1> QED
  BY <1>1, <1>2, StreamIs, Zenon DEF Stream

(* What the threads do to the stream.  Receiving moves bytes within it.    *)
LEMMA ReceiveStream ==
  ASSUME TypeOK, NEW n \in 1 .. RingSize, Receive(n)
  PROVE  Stream' = Stream
<1>1. UNCHANGED pkgBuffer
  BY DEF Receive, machineVars
<1>2. PICK q \in Seq(Byte) : q = pkgBuffer
  BY StreamType
<1>3. PICK r \in Seq(Byte), w \in Seq(Byte) : r = rb /\ w = wire
  BY StreamType
<1>4. PICK a \in Seq(Byte), b \in Seq(Byte) : a = rb' /\ b = wire'
  BY ReceiveIs
<1>5. Stream = (q \o r) \o w /\ Stream' = (q \o a) \o b
  BY <1>1, <1>2, <1>3, <1>4 DEF Stream
<1>6. a \o b = r \o w
  BY <1>3, <1>4, ReceiveIs
<1>7. PICK c \in Seq(Byte) : c = r \o w
  BY Together
<1>8. (q \o r) \o w = q \o c
  BY <1>7, Regrouped
<1>9. c = a \o b
  BY <1>6, <1>7, Zenon
<1>10. (q \o a) \o b = q \o c
  BY <1>9, Regrouped
<1> QED
  BY <1>5, <1>8, <1>10, Zenon

(* Start leaves it when it finds a tag, and skips a byte otherwise.        *)
LEMMA StartStream ==
  ASSUME TypeOK, Start
  PROVE  /\ Stream' \in Seq(Byte)
         /\ pkgBuffer' = <<rb[1]>> => Stream' = Stream
         /\ UNCHANGED pkgBuffer => IsDrop(Stream, Stream', 1)
<1>1. UNCHANGED wire /\ pkgBuffer = <<>>
  BY StartIs DEF Start, peerVars
<1>2. PICK r \in Seq(Byte) : r = rb
  BY StreamType
<1>3. PICK t \in Seq(Byte) : t = rb'
  BY StartIs
<1>4. Len(r) > 0 /\ Len(t) = Len(r) - 1 /\ \A i \in 1 .. Len(t) : t[i] = r[1 + i]
  <2>1. r # <<>> /\ t = SubSeq(r, 2, Len(r))
    BY <1>2, <1>3, StartIs
  <2>2. Len(r) \in Nat /\ Len(r) > 0
    BY <2>1
  <2>3. /\ Len(t) = (IF 2 <= Len(r) THEN Len(r) - 2 + 1 ELSE 0)
        /\ \A i \in 1 .. Len(r) - 2 + 1 : t[i] = r[2 + i - 1]
    <3>1. \A i \in 2 .. Len(r) : r[i] \in Byte
      BY <2>2
    <3> QED
      BY <2>1, <2>2, <3>1, SubSeqProperties
  <2>4. Len(t) = Len(r) - 1
    <3>1. Len(t) = IF 2 <= Len(r) THEN Len(r) - 2 + 1 ELSE 0
      BY <2>3
    <3>2. CASE 2 <= Len(r)
      BY <2>2, <3>1, <3>2
    <3>3. CASE Len(r) = 1
      BY <3>1, <3>3
    <3>4. 2 <= Len(r) \/ Len(r) = 1
      <4>1. \A m \in Nat : m > 0 => 2 <= m \/ m = 1
        OBVIOUS
      <4> QED
        BY <2>2, <4>1, Zenon
    <3> QED
      BY <3>2, <3>3, <3>4, Zenon
  <2>5. ASSUME NEW i \in 1 .. Len(t) PROVE t[i] = r[1 + i]
    <3>1. i \in 1 .. Len(r) - 2 + 1 /\ 2 + i - 1 = 1 + i
      BY <2>2, <2>4
    <3> QED
      BY <2>3, <3>1
  <2> QED
    BY <2>2, <2>4, <2>5
<1>5. Stream = r \o wire
  <2>1. <<>> \o r = r
    OBVIOUS
  <2> QED
    BY <1>1, <1>2, <2>1 DEF Stream
<1>6. ASSUME pkgBuffer' = <<rb[1]>> PROVE Stream' = Stream
  <2>1. pkgBuffer' \o rb' = rb
    BY <1>6, StartIs, Zenon
  <2>2. Stream' = (pkgBuffer' \o rb') \o wire
    BY <1>1 DEF Stream
  <2> QED
    BY <1>2, <1>5, <2>1, <2>2, Zenon
<1>7. ASSUME UNCHANGED pkgBuffer PROVE Stream' \in Seq(Byte) /\ IsDrop(Stream, Stream', 1)
  <2>1. IsDrop(r, t, 1)
    BY <1>4 DEF IsDrop
  <2>2. Stream' = t \o wire
    <3>1. <<>> \o t = t
      OBVIOUS
    <3> QED
      BY <1>1, <1>3, <1>7, <3>1 DEF Stream
  <2>3. t \o wire \in Seq(Byte)
    BY StreamType, Together
  <2> QED
    BY <1>5, <2>1, <2>2, <2>3, StreamType, DropCat
<1> QED
  BY <1>6, <1>7, StartIs, StreamType

(* GetCRC takes the whole of what was read from its front.                 *)
LEMMA GetCRCStream ==
  ASSUME TypeOK, GetCRC
  PROVE  /\ Stream' \in Seq(Byte) /\ IsDrop(Stream, Stream', Len(Done))
         /\ \A i \in 1 .. Len(Done) : Done[i] = Stream[i]
<1>1. UNCHANGED wire /\ pkgBuffer' = <<>>
  BY DEF GetCRC, peerVars
<1>2. PICK d \in Seq(Byte) : d = Done /\ Len(d) = Len(pkgBuffer) + CrcLen
  BY GetCRCIs
<1>3. PICK r \in Seq(Byte) : r = rb'
  BY GetCRCIs
<1>4. PICK s \in Seq(Byte) : s = Stream
  BY StreamType
<1>5. PICK c \in Nat : c = CrcLen /\ c > 0 /\ c <= Len(rb)
  BY FramingAssumption, GetCRCIs
<1>6. PICK k \in Nat : k = Len(pkgBuffer) /\ k > 0 /\ Len(d) = k + c
  BY <1>2, <1>5, StreamType, GetCRCIs
<1>7. s = (d \o r) \o wire
  BY <1>2, <1>3, <1>4, GetCRCIs, Zenon DEF Stream
<1>8. Stream' = r \o wire
  <2>1. <<>> \o r = r
    OBVIOUS
  <2> QED
    BY <1>1, <1>3, <2>1, Zenon DEF Stream
<1>9. PICK u \in Seq(Byte) : u = Stream'
  BY <1>8, StreamType, Together
<1>10. IsDrop(s, u, k + c)
  <2>1. IsDrop(d \o r, r, k + c)
    <3>1. PICK x \in Seq(Byte) : x = d \o r
      BY Together
    <3>2. Len(x) = Len(d) + Len(r) /\ \A i \in 1 .. Len(r) : x[Len(d) + i] = r[i]
      BY <3>1, Together
    <3>3. Len(r) \in Nat
      OBVIOUS
    <3>4. IsDrop(x, r, k + c)
      BY <1>6, <3>2, <3>3 DEF IsDrop
    <3> QED
      BY <3>1, <3>4
  <2>2. d \o r \in Seq(Byte) /\ k + c \in Nat /\ wire \in Seq(Byte)
    BY Together, StreamType
  <2>3. IsDrop((d \o r) \o wire, r \o wire, k + c)
    BY <2>1, <2>2, DropCat
  <2> QED
    BY <1>7, <1>8, <1>9, <2>3
<1>11. \A i \in 1 .. k + c : d[i] = s[i]
  BY <1>3, <1>4, <1>6, <1>7, StreamIs, StreamType
<1> QED
  BY <1>2, <1>4, <1>6, <1>9, <1>10, <1>11

(* Sending puts a packet behind it.                                        *)
LEMMA SendStream ==
  ASSUME TypeOK, NEW n \in BodyLens, NEW misleading \in BOOLEAN, Send(n, misleading)
  PROVE  /\ Stream' \in Seq(Byte)
         /\ Stream' = Stream \o Packet(sent + 1, n, misleading)
<1>1. UNCHANGED <<rb, pkgBuffer>>
  BY DEF Send, machineVars
<1>2. PICK w \in Seq(Byte) : w = Packet(sent + 1, n, misleading)
  BY SendIs
<1>3. PICK s \in Seq(Byte) : s = Stream
  BY StreamType
<1>4. PICK u \in Seq(Byte) : u = Stream'
  <2>1. PICK v \in Seq(Byte) : v = wire'
    BY SendIs, Zenon
  <2>2. PICK q \in Seq(Byte), r \in Seq(Byte) : q = pkgBuffer /\ r = rb
    BY DEF TypeOK
  <2>3. Stream' = (q \o r) \o v
    BY <1>1, <2>1, <2>2 DEF Stream
  <2>4. (q \o r) \o v \in Seq(Byte)
    BY StreamIs
  <2> QED
    BY <2>3, <2>4, Zenon
<1>5. u = s \o w
  <2>1. PICK x \in Seq(Byte) : x = pkgBuffer \o rb
    BY Together, StreamType
  <2>2. PICK v \in Seq(Byte) : v = wire
    BY StreamType
  <2>3. u = x \o (v \o w)
    BY <1>1, <1>2, <1>4, <2>1, <2>2, SendIs DEF Stream
  <2>4. s = x \o v
    BY <1>3, <2>1, <2>2 DEF Stream
  <2>5. (x \o v) \o w = x \o (v \o w)
    OBVIOUS
  <2> QED
    BY <2>3, <2>4, <2>5
<1> QED
  BY <1>2, <1>3, <1>4, <1>5

(* A disconnection takes all of it from a server, from a client what is on *)
(* its way.                                                                *)
LEMMA NoStream ==
  ASSUME TypeOK, Afresh
  PROVE  Stream' = <<>>
<1>1. <<>> \o <<>> = <<>>
  OBVIOUS
<1>2. wire' = <<>> /\ rb' = <<>> /\ pkgBuffer' = <<>>
  BY AfreshIs
<1> QED
  BY <1>1, <1>2, Zenon DEF Stream

LEMMA LostStream ==
  ASSUME TypeOK, Disconnected
  PROVE  /\ role = "server" => Stream' = <<>>
         /\ role # "server" => Stream = (pkgBuffer \o rb) \o wire /\ Stream' = pkgBuffer \o rb
<1>2. CASE role = "server"
  BY <1>2, DisconnectedIs, NoStream
<1>3. CASE role # "server"
  <2>1. wire' = <<>> /\ UNCHANGED <<rb, pkgBuffer>>
    BY <1>3, DisconnectedIs DEF machineVars
  <2>2. PICK s \in Seq(Byte) : s = pkgBuffer \o rb
    BY StreamType, Together
  <2>3. s \o <<>> = s
    OBVIOUS
  <2>4. Stream' = s \o <<>>
    BY <2>1, <2>2 DEF Stream
  <2> QED
    BY <1>3, <2>2, <2>3, <2>4, Zenon DEF Stream
<1> QED
  BY <1>2, <1>3

LEMMA LossesFollow == TypeOK /\ Kept => LossesExplained
<1> SUFFICES ASSUME TypeOK, Kept, NEW p \in 1 .. sent, HeadAt(Stream, Len(pkgBuffer), p)
             PROVE  p \in UnderWay
  BY DEF LossesExplained, Kept, Settled, UnderWay
<1>1. PICK i \in 1 .. Len(Stream) : Stream[i].pkg = p
  BY DEF HeadAt
<1>2. CASE i <= Len(pkgBuffer)
  <2>1. i \in 1 .. Len(pkgBuffer)
    BY <1>1, <1>2, StreamType
  <2> QED
    BY <1>1, <2>1, StreamType, PkgsOfIs DEF UnderWay
<1>3. CASE i > Len(pkgBuffer) /\ i <= Len(pkgBuffer) + Len(rb)
  <2>1. i - Len(pkgBuffer) \in 1 .. Len(rb) /\ i = Len(pkgBuffer) + (i - Len(pkgBuffer))
    BY <1>3, StreamType
  <2>2. PICK k \in 1 .. Len(rb) : i = Len(pkgBuffer) + k
    BY <2>1
  <2> QED
    BY <1>1, <2>2, StreamType, PkgsOfIs DEF UnderWay
<1>4. CASE i > Len(pkgBuffer) + Len(rb)
  <2>1. /\ i - (Len(pkgBuffer) + Len(rb)) \in 1 .. Len(wire)
        /\ i = Len(pkgBuffer) + Len(rb) + (i - (Len(pkgBuffer) + Len(rb)))
    BY <1>4, StreamType
  <2>2. PICK k \in 1 .. Len(wire) : i = Len(pkgBuffer) + Len(rb) + k
    BY <2>1
  <2> QED
    BY <1>1, <2>2, StreamType, PkgsOfIs DEF UnderWay
<1> QED
  BY <1>2, <1>3, <1>4, StreamType

LEMMA InStepFollows == TypeOK /\ Inv => OutOfStepOnlyAfterCut
<1> SUFFICES ASSUME TypeOK, Inv, Uncut PROVE swallowed = {} /\ ~Overrun
  BY FramingAssumption DEF TypeOK, Uncut, OutOfStepOnlyAfterCut
<1>1. swallowed = {} /\ Steady(Stream, cut)
  BY DEF Inv, InStep
<1>2. ASSUME status = "GetBody" PROVE Len(pkgBuffer) <= pkgLen
  <2>1. pkgBuffer # <<>>
    BY <1>2 DEF TypeOK
  <2>2. /\ Len(pkgBuffer) \in Nat /\ 1 \in 1 .. Len(Stream)
        /\ pkgBuffer[1] = Stream[1] /\ pkgBuffer[1] \in Byte
    BY <2>1, StreamType
  <2>3. pkgBuffer[1].at = 1 /\ pkgBuffer[1].pkg \notin cut
    BY <1>1, <2>2 DEF Steady
  <2>4. /\ pkgLen = Size(pkgBuffer[1].body)
        /\ Len(pkgBuffer) + bodyLen = 1 + HeadLen + pkgBuffer[1].body
    BY <1>2, <2>3 DEF Inv, Reading
  <2>5. /\ pkgBuffer[1].body \in Nat /\ bodyLen \in Nat
        /\ HeadLen \in Nat /\ CrcLen \in Nat
    BY <2>2, ByteIs, FramingAssumption DEF TypeOK
  <2> QED
    BY <2>2, <2>4, <2>5 DEF Size
<1>3. pkgLen \in Nat /\ Len(pkgBuffer) \in Nat
  BY StreamType DEF TypeOK
<1> QED
  BY <1>1, <1>2, <1>3 DEF Overrun

-----------------------------------------------------------------------------
(* The bytes a step reads on: those of the packet that is being read.      *)
LEMMA NoHeadRead ==
  ASSUME TypeOK, Inv, Uncut, pkgBuffer # <<>>, NEW n \in Nat, n <= Len(rb),
         Len(pkgBuffer) + n <= Size(Stream[1].body)
  PROVE  \A i \in 1 .. n : rb[i].at # 1
<1>1. PICK s \in Seq(Byte) : s = Stream
  BY StreamType
<1>2. PICK k \in Nat : k = Len(pkgBuffer)
  BY StreamType
<1>3. k > 0 /\ Len(s) > 0 /\ \A i \in 1 .. Len(rb) : s[k + i] = rb[i]
  <2>1. /\ Len(s) = k + Len(rb) + Len(wire) /\ Len(rb) \in Nat /\ Len(wire) \in Nat
        /\ \A i \in 1 .. Len(rb) : s[k + i] = rb[i]
    BY <1>1, <1>2, StreamType, Zenon
  <2>2. pkgBuffer \in Seq(Byte)
    BY StreamType
  <2>3. k > 0
    BY <1>2, <2>2
  <2> QED
    BY <2>1, <2>3
<1>4. s[1].at = 1 /\ s[1].pkg \notin cut /\ Follows(s, cut)
  <2>1. 1 \in 1 .. Len(s)
    BY <1>3
  <2> QED
    BY <1>1, <1>3, <2>1 DEF Inv, InStep, Steady, Sound
<1>5. \A j \in 1 .. Size(s[1].body) : s[j].at = j
  BY <1>3, <1>4, FirstWhole
<1>6. Size(s[1].body) \in Nat /\ Len(rb) \in Nat
  BY <1>3, ByteIs, StreamType
<1>7. ASSUME NEW i \in 1 .. n PROVE rb[i].at # 1
  <2>1. i \in 1 .. Len(rb) /\ k + i \in 1 .. Size(s[1].body) /\ k + i # 1
    BY <1>1, <1>2, <1>3, <1>6
  <2> QED
    BY <1>3, <1>5, <2>1
<1> QED
  BY <1>7

LEMMA HeadTaken ==
  ASSUME TypeOK, NEW n \in Nat, n <= Len(rb), NEW p, HeadAt(Stream, Len(pkgBuffer), p)
  PROVE  \/ \E i \in 1 .. n : rb[i].pkg = p /\ rb[i].at = 1
         \/ HeadAt(Stream, Len(pkgBuffer) + n, p)
<1>1. PICK i \in 1 .. Len(Stream) :
        Stream[i].pkg = p /\ Stream[i].at = 1 /\ (i = 1 \/ i > Len(pkgBuffer))
  BY DEF HeadAt
<1>2. CASE i = 1 \/ i > Len(pkgBuffer) + n
  BY <1>1, <1>2 DEF HeadAt
<1>3. CASE i > Len(pkgBuffer) /\ i <= Len(pkgBuffer) + n
  <2>1. i - Len(pkgBuffer) \in 1 .. n /\ i = Len(pkgBuffer) + (i - Len(pkgBuffer))
    BY <1>3, StreamType
  <2>2. PICK k \in 1 .. n : i = Len(pkgBuffer) + k
    BY <2>1
  <2>3. k \in 1 .. Len(rb)
    BY StreamType
  <2> QED
    BY <1>1, <2>2, <2>3, StreamType
<1> QED
  BY <1>1, <1>2, <1>3, StreamType

LEMMA AllInStream ==
  ASSUME TypeOK
  PROVE  /\ \A i \in 1 .. Len(pkgBuffer) :
              \E j \in 1 .. Len(Stream) : Stream[j] = pkgBuffer[i]
         /\ \A i \in 1 .. Len(rb) : \E j \in 1 .. Len(Stream) : Stream[j] = rb[i]
         /\ \A i \in 1 .. Len(wire) : \E j \in 1 .. Len(Stream) : Stream[j] = wire[i]
<1>1. \A i \in 1 .. Len(pkgBuffer) : i \in 1 .. Len(Stream)
  BY StreamType
<1>2. \A i \in 1 .. Len(rb) : Len(pkgBuffer) + i \in 1 .. Len(Stream)
  BY StreamType
<1>3. \A i \in 1 .. Len(wire) : Len(pkgBuffer) + Len(rb) + i \in 1 .. Len(Stream)
  BY StreamType
<1> QED
  BY <1>1, <1>2, <1>3, StreamType

(* What is read of a packet changes nothing in the stream.                 *)
LEMMA TakeKeeps ==
  ASSUME TypeOK, Inv, NEW n \in Nat, Take(n), pkgBuffer # <<>>,
         UNCHANGED <<peerVars, pkgs, processed, dropped, cut>>,
         Stream[1].at = 1 /\ Stream[1].pkg \notin cut
           => Len(pkgBuffer) + n <= Size(Stream[1].body)
  PROVE  Sound' /\ InStep' /\ Kept' /\ Stream' = Stream /\ pkgBuffer'[1] = pkgBuffer[1]
<1>1. UNCHANGED <<role, wire, sent, pkgs, processed, dropped, cut>>
  BY DEF peerVars
<1>2. Stream' = Stream
  BY <1>1, TakeIs, Zenon DEF Stream
<1>3. Sound'
  BY <1>1, <1>2 DEF Inv, Sound
<1>4. InStep'
  <2> SUFFICES ASSUME Uncut PROVE Steady(Stream, cut) /\ swallowed' = {}
    BY <1>1, <1>2 DEF InStep, Uncut
  <2>1. Steady(Stream, cut) /\ swallowed = {}
    BY DEF Inv, InStep
  <2>2. Len(Stream) > 0 /\ Len(Stream) \in Nat
    BY StreamType
  <2>3. Stream[1].at = 1 /\ Stream[1].pkg \notin cut
    BY <2>1, <2>2 DEF Steady
  <2>4. \A i \in 1 .. n : rb[i].at # 1
    BY <2>3, TakeIs, NoHeadRead
  <2>5. \A p : p \notin swallowed'
    BY <2>1, <2>4, TakeIs
  <2> QED
    BY <2>1, <2>5
<1>5. Kept'
  <2> SUFFICES ASSUME NEW p \in 1 .. sent, p \notin Settled'
               PROVE  HeadAt(Stream', Len(pkgBuffer'), p)
    BY <1>1 DEF Kept
  <2>1. p \notin Settled /\ ~\E i \in 1 .. n : rb[i].pkg = p /\ rb[i].at = 1
    BY <1>1, TakeIs DEF Settled
  <2>2. HeadAt(Stream, Len(pkgBuffer), p)
    BY <2>1 DEF Inv, Kept
  <2>3. HeadAt(Stream, Len(pkgBuffer) + n, p)
    BY <2>1, <2>2, TakeIs, HeadTaken
  <2> QED
    BY <1>2, <2>3, TakeIs
<1>6. pkgBuffer'[1] = pkgBuffer[1]
  <2>1. Len(pkgBuffer) > 0
    BY StreamType
  <2>2. PICK a \in Seq(Byte) : pkgBuffer' = pkgBuffer \o a
    <3>1. n \in 0 .. Len(rb)
      BY TakeIs, StreamType
    <3>2. SubSeq(rb, 1, n) \in Seq(Byte)
      BY <3>1, StreamType, CutInTwo
    <3>3. pkgBuffer' = pkgBuffer \o SubSeq(rb, 1, n)
      BY DEF Take
    <3> QED
      BY <3>2, <3>3, Zenon
  <2> QED
    BY <2>1, <2>2, StreamType, Together
<1> QED
  BY <1>2, <1>3, <1>4, <1>5, <1>6

LEMMA GetHeadKeeps ==
  ASSUME TypeOK, Inv, GetHead
  PROVE  Inv'
<1> DEFINE n == Stream[1].body
<1>1. /\ Take(HeadLen) /\ HeadGives(pkgLen') /\ bodyLen' = BodyOf(pkgLen')
      /\ status' = "GetBody" /\ bodyLen' \in Nat
      /\ UNCHANGED <<peerVars, pkgs, processed, dropped, cut>> /\ status = "GetHead"
  BY GetHeadIs
<1>2. PICK h \in Nat : h = HeadLen
  BY FramingAssumption
<1>3. Take(h) /\ h > 0 /\ CrcLen \in Nat
  BY <1>1, <1>2, FramingAssumption
<1>4. Len(pkgBuffer) = 1 /\ pkgBuffer # <<>> /\ Stream[1] = pkgBuffer[1] /\ Stream[1] \in Byte
  <2>1. Len(pkgBuffer) = 1
    BY <1>1 DEF Inv, Reading
  <2>2. 1 \in 1 .. Len(pkgBuffer) /\ 1 \in 1 .. Len(Stream) /\ pkgBuffer # <<>>
    <3>1. pkgBuffer # <<>>
      BY <1>1 DEF TypeOK
    <3>2. Len(Stream) >= 1 /\ Len(Stream) \in Nat
      <4>1. Len(Stream) = 1 + Len(rb) + Len(wire) /\ Len(rb) \in Nat /\ Len(wire) \in Nat
        BY <2>1, StreamType
      <4> QED
        BY <4>1
    <3> QED
      BY <2>1, <3>1, <3>2
  <2>3. Stream[1] = pkgBuffer[1]
    BY <2>2, StreamType, Zenon
  <2>4. Stream[1] \in Byte
    <3>1. Stream \in Seq(Byte)
      BY StreamType
    <3> QED
      BY <2>2, <3>1
  <2> QED
    BY <2>1, <2>2, <2>3, <2>4
<1>5. n \in Nat /\ Size(n) = 1 + h + n + CrcLen
  BY <1>2, <1>4, ByteIs DEF Size
<1>6. Sound' /\ InStep' /\ Kept' /\ Stream' = Stream /\ pkgBuffer'[1] = pkgBuffer[1]
  BY <1>1, <1>3, <1>4, <1>5, TakeKeeps
<1>7. Len(pkgBuffer') = 1 + h
  BY <1>3, <1>4, TakeIs
<1>8. ASSUME Stream[1].at = 1, Stream[1].pkg \notin cut
      PROVE  pkgLen' = Size(n) /\ bodyLen' = n
  <2>1. Len(Stream) > 0 /\ Follows(Stream, cut) /\ Stream \in Seq(Byte)
    BY <1>4, StreamType DEF Inv, Sound
  <2>2. \A j \in 1 .. Size(n) : /\ Stream[j].pkg = Stream[1].pkg /\ Stream[j].body = n
                                /\ Stream[j].at = j
    BY <1>8, <2>1, FirstWhole
  <2>3. ASSUME NEW k \in 1 .. h
        PROVE  rb[k].pkg = Stream[1].pkg /\ rb[k].body = n /\ rb[k].at = k + 1
    <3>1. h <= Len(rb) /\ k \in 1 .. Len(rb) /\ 1 + k \in 1 .. Size(n)
      <4>1. h <= Len(rb) /\ Len(rb) \in Nat
        BY <1>3, TakeIs, StreamType
      <4>2. 1 + k <= 1 + h + n + CrcLen
        BY <1>3, <1>5
      <4> QED
        BY <1>5, <4>1, <4>2
    <3>2. Stream[1 + k] = rb[k]
      BY <1>4, <3>1, StreamType
    <3> QED
      BY <2>2, <3>1, <3>2
  <2>4. PICK a \in Seq(Byte) : a = SubSeq(rb, 1, HeadLen) /\ Len(a) = h
                               /\ \A k \in 1 .. h : a[k] = rb[k]
    <3>1. HeadLen \in 0 .. Len(rb)
      BY <1>2, <1>3, TakeIs
    <3>2. PICK b : b = SubSeq(rb, 1, HeadLen)
      OBVIOUS
    <3>3. b \in Seq(Byte) /\ Len(b) = HeadLen /\ \A k \in 1 .. HeadLen : b[k] = rb[k]
      BY <3>1, <3>2, StreamType, CutInTwo
    <3> QED
      BY <1>2, <3>2, <3>3, Zenon
  <2>5. IsHead(a)
    BY <1>3, <2>3, <2>4 DEF IsHead
  <2>6. pkgLen' = Size(rb[1].body) /\ rb[1].body = n
    BY <1>1, <1>3, <2>3, <2>4, <2>5 DEF HeadGives
  <2>7. BodyOf(Size(n)) = n
    BY <1>4, BodyOfIs, ByteIs
  <2> QED
    BY <1>1, <2>6, <2>7
<1>9. Reading'
  BY <1>1, <1>2, <1>4, <1>5, <1>6, <1>7, <1>8 DEF Reading
<1> QED
  BY <1>6, <1>9 DEF Inv

(* The first byte of what is being read, and of the stream.                *)
LEMMA FirstRead ==
  ASSUME TypeOK, pkgBuffer # <<>>
  PROVE  /\ Len(pkgBuffer) > 0 /\ Len(Stream) > 0 /\ Stream[1] = pkgBuffer[1]
         /\ Stream[1] \in Byte /\ Stream[1].body \in Nat
         /\ Size(Stream[1].body) = 1 + HeadLen + Stream[1].body + CrcLen
<1>1. Len(pkgBuffer) > 0 /\ Len(Stream) > 0 /\ Stream[1] = pkgBuffer[1] /\ Stream[1] \in Byte
  BY StreamType
<1> QED
  BY <1>1, ByteIs DEF Size

LEMMA GetBodyKeeps ==
  ASSUME TypeOK, Inv, GetBody
  PROVE  Inv'
<1>1. /\ Readable \in Nat /\ Take(Readable) /\ bodyLen' = bodyLen - Readable
      /\ status = "GetBody" /\ status' # "GetHead" /\ status' # "Start" /\ bodyLen' \in Nat
      /\ UNCHANGED <<peerVars, pkgLen, pkgs, processed, dropped, cut>>
  BY GetBodyIs
<1>2. PICK n \in Nat : n = Readable /\ Take(n)
  BY <1>1
<1>3. n <= bodyLen /\ bodyLen \in Nat /\ bodyLen' = bodyLen - n
  BY <1>1, <1>2 DEF TypeOK
<1>4. pkgBuffer # <<>>
  BY <1>1 DEF TypeOK
<1>5. pkgBuffer[1].at = 1 /\ pkgBuffer[1].pkg \notin cut
        => /\ pkgLen = Size(pkgBuffer[1].body)
           /\ Len(pkgBuffer) + bodyLen = 1 + HeadLen + pkgBuffer[1].body
  BY <1>1 DEF Inv, Reading
<1>6. HeadLen \in Nat /\ CrcLen \in Nat /\ Len(pkgBuffer) \in Nat
  BY FramingAssumption, StreamType
<1>7. Stream[1].at = 1 /\ Stream[1].pkg \notin cut
        => Len(pkgBuffer) + n <= Size(Stream[1].body)
  <2>1. /\ Stream[1] = pkgBuffer[1] /\ Stream[1].body \in Nat
        /\ Size(Stream[1].body) = 1 + HeadLen + Stream[1].body + CrcLen
    BY <1>4, FirstRead
  <2> QED
    BY <1>3, <1>5, <1>6, <2>1
<1>8. Sound' /\ InStep' /\ Kept' /\ Stream' = Stream /\ pkgBuffer'[1] = pkgBuffer[1]
  BY <1>1, <1>2, <1>4, <1>7, TakeKeeps
<1>9. Len(pkgBuffer') + bodyLen' = Len(pkgBuffer) + bodyLen
  <2>1. Len(pkgBuffer') = Len(pkgBuffer) + n
    BY <1>2, TakeIs
  <2> QED
    BY <1>3, <1>6, <2>1
<1>10. Reading'
  BY <1>1, <1>5, <1>8, <1>9 DEF Reading
<1> QED
  BY <1>8, <1>10 DEF Inv

LEMMA StartKeeps ==
  ASSUME TypeOK, Inv, Start
  PROVE  Inv'
<1>1. /\ UNCHANGED <<role, wire, sent, pkgs, processed, dropped, cut, swallowed>>
      /\ pkgBuffer = <<>> /\ Len(pkgBuffer) = 0
  BY StartIs DEF Start, peerVars, historyVars
<1>2. Stream[1] = rb[1] /\ Len(Stream) > 0 /\ Len(Stream) \in Nat
  <2>1. rb # <<>>
    BY StartIs
  <2>2. Len(rb) > 0
    BY <2>1, StreamType
  <2> QED
    BY <1>1, <2>2, StreamType
<1>3. CASE status' = "GetHead" /\ pkgBuffer' = <<rb[1]>>
  <2>1. Stream' = Stream
    BY <1>3, StartStream
  <2>2. Len(pkgBuffer') = 1
    BY <1>3
  <2>3. Sound' /\ InStep'
    BY <1>1, <2>1 DEF Inv, Sound, InStep, Uncut
  <2>4. Reading'
    BY <1>3, <2>2 DEF Reading
  <2>5. \A p : HeadAt(Stream, 0, p) => HeadAt(Stream, 1, p)
    BY <1>2 DEF HeadAt
  <2>6. Kept'
    BY <1>1, <2>1, <2>2, <2>5 DEF Inv, Kept, Settled
  <2> QED
    BY <2>3, <2>4, <2>6 DEF Inv
<1>4. CASE ~rb[1].tag /\ UNCHANGED <<status, pkgBuffer>>
  <2>1. PICK s \in Seq(Byte) : s = Stream
    BY StreamType
  <2>2. PICK u \in Seq(Byte) : u = Stream'
    BY StartStream
  <2>3. IsDrop(s, u, 1)
    BY <1>4, <2>1, <2>2, StartStream
  <2>4. s[1].at # 1
    <3>1. 1 \in 1 .. Len(s) /\ Right(s, sent) /\ s[1] = rb[1]
      BY <1>2, <2>1 DEF Inv, Sound
    <3> QED
      BY <1>4, <3>1, Zenon DEF Right
  <2>5. Sound'
    <3>1. Right(s, sent) /\ Follows(s, cut) /\ ToSet(pkgs) \cup cut \subseteq 1 .. sent
      BY <2>1 DEF Inv, Sound
    <3>2. Right(u, sent) /\ Follows(u, cut)
      BY <2>3, <3>1, DropKeeps
    <3> QED
      BY <1>1, <2>2, <3>1, <3>2 DEF Sound
  <2>6. ~Uncut
    BY <1>2, <2>1, <2>4 DEF Inv, InStep, Steady
  <2>7. InStep'
    BY <1>1, <2>6 DEF InStep, Uncut
  <2>8. Reading'
    BY <1>4, StartIs DEF Start, Reading
  <2>9. ASSUME NEW p, HeadAt(s, 0, p) PROVE HeadAt(u, 0, p)
    <3>1. PICK i \in 1 .. Len(s) : s[i].pkg = p /\ s[i].at = 1
      BY <2>9 DEF HeadAt
    <3>2. i # 1
      BY <2>4, <3>1
    <3>3. i - 1 \in 1 .. Len(u) /\ u[i - 1] = s[i] /\ i - 1 > 0
      BY <2>3, <3>2 DEF IsDrop
    <3> QED
      BY <3>1, <3>3 DEF HeadAt
  <2>10. Kept'
    BY <1>1, <1>4, <2>1, <2>2, <2>9 DEF Inv, Kept, Settled
  <2> QED
    BY <2>5, <2>7, <2>8, <2>10 DEF Inv
<1> QED
  BY <1>3, <1>4, StartIs

LEMMA GetCRCKeeps ==
  ASSUME TypeOK, Inv, GetCRC
  PROVE  Inv'
<1>1. /\ UNCHANGED <<role, wire, sent, breaks, processed, cut>> /\ status = "GetCRC"
      /\ status' = "Start" /\ pkgBuffer' = <<>> /\ Len(pkgBuffer') = 0
  BY DEF GetCRC, peerVars
<1>2. PICK d \in Seq(Byte) : d = Done /\ Len(d) = Len(pkgBuffer) + CrcLen
  BY GetCRCIs
<1>3. PICK s \in Seq(Byte) : s = Stream
  BY StreamType
<1>4. PICK c \in Nat : c = CrcLen /\ c > 0 /\ c <= Len(rb)
  BY FramingAssumption, GetCRCIs
<1>5. PICK k \in Nat : k = Len(pkgBuffer) /\ k > 0 /\ Len(d) = k + c
  BY <1>2, <1>4, StreamType, GetCRCIs
<1>6. PICK u \in Seq(Byte) : u = Stream'
  BY GetCRCStream
<1>7. IsDrop(s, u, k + c)
  BY <1>2, <1>3, <1>5, <1>6, GetCRCStream
<1>8. \A i \in 1 .. k + c : d[i] = s[i]
  BY <1>2, <1>3, <1>5, GetCRCStream
<1>9. Right(s, sent) /\ Follows(s, cut) /\ ToSet(pkgs) \cup cut \subseteq 1 .. sent
  BY <1>3 DEF Inv, Sound
<1>10. Len(s) > 0 /\ s[1] = pkgBuffer[1] /\ s[1] = d[1] /\ s[1] \in Byte
       /\ s[1].body \in Nat /\ Size(s[1].body) = 1 + HeadLen + s[1].body + CrcLen
  BY <1>2, <1>3, FirstRead, GetCRCIs
<1>11. ASSUME s[1].at = 1, s[1].pkg \notin cut
       PROVE  Size(s[1].body) = k + c /\ Whole(d)
  <2>1. k = 1 + HeadLen + s[1].body
    <3>1. k + bodyLen = 1 + HeadLen + pkgBuffer[1].body
      BY <1>1, <1>5, <1>10, <1>11 DEF Inv, Reading
    <3>2. bodyLen = 0
      BY <1>1 DEF TypeOK
    <3> QED
      BY <1>10, <3>1, <3>2
  <2>2. Size(s[1].body) = k + c
    BY <1>4, <1>10, <2>1
  <2>3. \A j \in 1 .. k + c : s[j].pkg = s[1].pkg /\ s[j].at = j
    BY <1>9, <1>10, <1>11, <2>2, FirstWhole
  <2>4. Whole(d)
    <3>1. Len(d) = Size(d[1].body) /\ DOMAIN d = 1 .. k + c
      BY <1>5, <1>10, <2>2
    <3>2. \A j \in 1 .. k + c : d[j].pkg = d[1].pkg /\ d[j].at = j
      BY <1>8, <1>10, <2>3
    <3> QED
      BY <3>1, <3>2 DEF Whole
  <2> QED
    BY <2>2, <2>4
<1>12. \/ Whole(d) /\ pkgs' = Append(pkgs, s[1].pkg) /\ dropped' = dropped
       \/ Whole(d) /\ pkgs' = pkgs /\ dropped' = dropped \cup {s[1].pkg}
       \/ ~Whole(d) /\ UNCHANGED <<pkgs, dropped>>
  BY <1>2, <1>10, GetCRCIs
<1>13. ToSet(pkgs') \subseteq ToSet(pkgs) \cup {s[1].pkg} /\ ToSet(pkgs) \subseteq ToSet(pkgs')
       /\ (pkgs' = Append(pkgs, s[1].pkg) => s[1].pkg \in ToSet(pkgs'))
  <2>1. pkgs \in Seq(Pkgs) /\ s[1].pkg \in Pkgs
    BY <1>10, ByteIs DEF TypeOK
  <2>2. ToSet(Append(pkgs, s[1].pkg)) = ToSet(pkgs) \cup {s[1].pkg}
    BY <2>1, AppendedSet
  <2> QED
    BY <1>12, <2>2
<1>14. Sound'
  <2>1. Right(u, sent) /\ Follows(u, cut)
    BY <1>7, <1>9, DropKeeps
  <2>2. s[1].pkg \in 1 .. sent
    <3>1. 1 \in 1 .. Len(s) /\ s[1].pkg \in Pkgs
      BY <1>10, ByteIs
    <3>2. s[1].pkg <= sent
      BY <1>9, <3>1 DEF Right
    <3> QED
      BY <3>1, <3>2 DEF Pkgs, TypeOK
  <2> QED
    BY <1>1, <1>6, <1>9, <1>13, <2>1, <2>2 DEF Sound
<1>15. InStep'
  <2> SUFFICES ASSUME Uncut PROVE Steady(u, cut) /\ swallowed' = {}
    BY <1>1, <1>6 DEF InStep, Uncut
  <2>1. Steady(s, cut) /\ swallowed = {}
    BY <1>3 DEF Inv, InStep
  <2>2. s[1].at = 1 /\ s[1].pkg \notin cut
    BY <1>10, <2>1 DEF Steady
  <2>3. Size(s[1].body) = k + c
    BY <1>11, <2>2
  <2>4. Steady(u, cut)
    BY <1>7, <1>9, <1>10, <2>1, <2>3, SteadyNext
  <2>5. \A i \in 1 .. c : rb[i].at # 1
    <3>1. pkgBuffer # <<>> /\ Len(pkgBuffer) + c <= Size(Stream[1].body)
      BY <1>3, <1>5, <2>3, GetCRCIs
    <3> QED
      BY <1>4, <3>1, NoHeadRead
  <2>6. \A p : p \notin swallowed'
    BY <1>4, <2>1, <2>5, GetCRCIs
  <2> QED
    BY <2>4, <2>6
<1>16. Kept'
  <2> SUFFICES ASSUME NEW p \in 1 .. sent, p \notin Settled' PROVE HeadAt(u, 0, p)
    BY <1>1, <1>6 DEF Kept
  <2>1. p \notin Settled /\ p \notin cut /\ ~\E i \in 1 .. c : rb[i].pkg = p /\ rb[i].at = 1
    BY <1>1, <1>4, <1>12, <1>13, GetCRCIs DEF Settled
  <2>2. HeadAt(s, k, p)
    BY <1>3, <1>5, <2>1 DEF Inv, Kept
  <2>3. HeadAt(s, k + c, p)
    BY <1>3, <1>4, <1>5, <2>1, <2>2, HeadTaken
  <2>4. PICK i \in 1 .. Len(s) : s[i].pkg = p /\ s[i].at = 1 /\ (i = 1 \/ i > k + c)
    BY <2>3 DEF HeadAt
  <2>5. i # 1
    <3> SUFFICES ASSUME i = 1 PROVE FALSE
      OBVIOUS
    <3>1. Whole(d)
      BY <1>11, <2>1, <2>4
    <3>2. p \in ToSet(pkgs') \/ p \in dropped'
      BY <1>12, <1>13, <2>4, <3>1
    <3> QED
      BY <3>2 DEF Settled
  <2>6. PICK l \in 1 .. Len(u) : i = k + c + l
    <3>1. Len(u) = Len(s) - (k + c) /\ Len(s) \in Nat
      BY <1>7 DEF IsDrop
    <3>2. i - (k + c) \in 1 .. Len(u) /\ i = k + c + (i - (k + c))
      BY <2>4, <2>5, <3>1
    <3> QED
      BY <3>2
  <2>7. u[l] = s[i] /\ l > 0
    BY <1>7, <2>6 DEF IsDrop
  <2> QED
    BY <2>4, <2>7 DEF HeadAt
<1>17. Reading'
  BY <1>1 DEF Reading
<1> QED
  BY <1>14, <1>15, <1>16, <1>17 DEF Inv

LEMMA SendStepKeeps ==
  ASSUME TypeOK, Inv, NEW n \in BodyLens, NEW misleading \in BOOLEAN, Send(n, misleading)
  PROVE  Inv'
<1>1. UNCHANGED <<role, breaks, rb, status, pkgLen, bodyLen, pkgBuffer, pkgs, processed, dropped,
                  cut, swallowed>>
  BY DEF Send, machineVars, historyVars
<1>2. sent' = sent + 1 /\ sent' \in Pkgs /\ sent \in Nat
  BY SendIs DEF TypeOK
<1>3. PICK w \in Seq(Byte) : w = Packet(sent + 1, n, misleading)
  BY SendIs
<1>4. IsPacket(w, sent + 1, n)
  BY <1>2, <1>3, PacketIs DEF IsPacket
<1>5. PICK s \in Seq(Byte) : s = Stream
  BY StreamType
<1>6. PICK u \in Seq(Byte) : u = Stream'
  BY SendStream
<1>7. u = s \o w
  BY <1>3, <1>5, <1>6, SendStream
<1>8. /\ Right(s, sent) => Right(u, sent + 1)
      /\ \A lost : Follows(s, lost) => Follows(u, lost)
      /\ \A lost : Steady(s, lost) /\ sent + 1 \notin lost => Steady(u, lost)
  BY <1>2, <1>4, <1>7, SendKeeps
<1>9. Right(s, sent) /\ Follows(s, cut) /\ ToSet(pkgs) \cup cut \subseteq 1 .. sent
  BY <1>5 DEF Inv, Sound
<1>10. Sound'
  <2>1. 1 .. sent \subseteq 1 .. sent + 1
    BY <1>2
  <2> QED
    BY <1>1, <1>2, <1>6, <1>8, <1>9, <2>1 DEF Sound
<1>11. InStep'
  <2> SUFFICES ASSUME Uncut PROVE Steady(u, cut) /\ swallowed = {}
    BY <1>1, <1>6 DEF InStep, Uncut
  <2>1. Steady(s, cut) /\ swallowed = {}
    BY <1>5 DEF Inv, InStep
  <2>2. sent + 1 \notin cut
    BY <1>2, <1>9
  <2> QED
    BY <1>8, <2>1, <2>2
<1>12. Reading'
  BY <1>1 DEF Inv, Reading
<1>13. /\ Len(u) = Len(s) + Len(w) /\ \A i \in 1 .. Len(s) : u[i] = s[i]
       /\ \A i \in 1 .. Len(w) : u[Len(s) + i] = w[i]
  BY <1>7, Together
<1>14. Len(w) > 0 /\ w[1].pkg = sent + 1 /\ w[1].at = 1 /\ Len(w) \in Nat /\ Len(s) \in Nat
  <2>1. Size(n) \in Nat /\ Size(n) > 0
    BY FramingAssumption DEF Size
  <2> QED
    BY <1>4, <2>1 DEF IsPacket
<1>15. PICK k \in Nat : k = Len(pkgBuffer) /\ k <= Len(s)
  BY <1>5, StreamType
<1>16. Kept'
  <2>1. ASSUME NEW p \in 1 .. sent + 1 PROVE p \in Settled \/ HeadAt(u, k, p)
    <3>1. CASE p = sent + 1
      <4>1. Len(s) + 1 \in 1 .. Len(u) /\ u[Len(s) + 1] = w[1] /\ Len(s) + 1 > k
        BY <1>13, <1>14, <1>15
      <4> QED
        BY <1>14, <3>1, <4>1 DEF HeadAt
    <3>2. CASE p # sent + 1
      <4>1. p \in 1 .. sent
        BY <1>2, <3>2
      <4>2. p \in Settled \/ HeadAt(s, k, p)
        BY <1>5, <1>15, <4>1 DEF Inv, Kept
      <4>3. \A i \in 1 .. Len(s) : i \in 1 .. Len(u)
        BY <1>13, <1>14
      <4> QED
        BY <1>13, <4>2, <4>3 DEF HeadAt
    <3> QED
      BY <3>1, <3>2
  <2> QED
    BY <1>1, <1>2, <1>6, <1>15, <2>1 DEF Kept, Settled
<1> QED
  BY <1>10, <1>11, <1>12, <1>16 DEF Inv

LEMMA ReceiveKeeps ==
  ASSUME TypeOK, Inv, NEW n \in 1 .. RingSize, Receive(n)
  PROVE  Inv'
<1>1. UNCHANGED <<role, sent, status, pkgLen, bodyLen, pkgBuffer, pkgs, processed, dropped, cut,
                  swallowed>>
  BY DEF Receive, machineVars, historyVars
<1>2. Stream' = Stream
  BY ReceiveStream
<1> QED
  BY <1>1, <1>2 DEF Inv, Sound, InStep, Uncut, Reading, Kept, Settled

LEMMA DisconnectedKeeps ==
  ASSUME TypeOK, Inv, Disconnected \/ Afresh,
         UNCHANGED <<role, sent, processed, dropped, swallowed>>
  PROVE  Inv'
<1>1. /\ \A p : p \in PkgsOf(wire) <=> \E i \in 1 .. Len(wire) : wire[i].pkg = p
      /\ \A p : p \in PkgsOf(rb) <=> \E i \in 1 .. Len(rb) : rb[i].pkg = p
      /\ \A p : p \in PkgsOf(pkgBuffer) <=> \E i \in 1 .. Len(pkgBuffer) : pkgBuffer[i].pkg = p
  BY StreamType, PkgsOfIs
<1>2. ASSUME NEW i \in 1 .. Len(Stream)
      PROVE  Stream[i].pkg \in PkgsOf(wire) \cup PkgsOf(rb) \cup PkgsOf(pkgBuffer)
  <2>1. CASE i <= Len(pkgBuffer)
    <3>1. i \in 1 .. Len(pkgBuffer)
      BY <2>1, StreamType
    <3> QED
      BY <1>1, <3>1, StreamType
  <2>2. CASE i > Len(pkgBuffer) /\ i <= Len(pkgBuffer) + Len(rb)
    <3>1. i - Len(pkgBuffer) \in 1 .. Len(rb) /\ i = Len(pkgBuffer) + (i - Len(pkgBuffer))
      BY <2>2, StreamType
    <3>2. PICK k \in 1 .. Len(rb) : i = Len(pkgBuffer) + k
      BY <3>1
    <3> QED
      BY <1>1, <3>2, StreamType
  <2>3. CASE i > Len(pkgBuffer) + Len(rb)
    <3>1. /\ i - (Len(pkgBuffer) + Len(rb)) \in 1 .. Len(wire)
          /\ i = Len(pkgBuffer) + Len(rb) + (i - (Len(pkgBuffer) + Len(rb)))
      BY <2>3, StreamType
    <3>2. PICK k \in 1 .. Len(wire) : i = Len(pkgBuffer) + Len(rb) + k
      BY <3>1
    <3> QED
      BY <1>1, <3>2, StreamType
  <2> QED
    BY <2>1, <2>2, <2>3, StreamType
<1>3. /\ Right(Stream, sent) /\ ToSet(pkgs) \cup cut \subseteq 1 .. sent
      /\ \A i \in 1 .. Len(Stream) : Stream[i].pkg \in 1 .. sent
  <2>1. Right(Stream, sent) /\ ToSet(pkgs) \cup cut \subseteq 1 .. sent
    BY DEF Inv, Sound
  <2>2. \A i \in 1 .. Len(Stream) : Stream[i] \in Byte
    BY StreamType
  <2>3. \A i \in 1 .. Len(Stream) : Stream[i].pkg \in Pkgs /\ Stream[i].pkg <= sent
    BY <2>1, <2>2, ByteIs DEF Right
  <2> QED
    BY <2>1, <2>3 DEF Pkgs, TypeOK
<1>4. ToSet(<<>>) = {}
  BY DEF ToSet
<1>5. /\ PkgsOf(wire) \subseteq 1 .. sent /\ PkgsOf(rb) \subseteq 1 .. sent
      /\ PkgsOf(pkgBuffer) \subseteq 1 .. sent
  <2>1. ASSUME NEW p \in PkgsOf(wire) PROVE p \in 1 .. sent
    <3>1. PICK i \in 1 .. Len(wire) : wire[i].pkg = p
      BY <1>1
    <3>2. PICK j \in 1 .. Len(Stream) : Stream[j] = wire[i]
      BY AllInStream
    <3> QED
      BY <1>3, <3>1, <3>2
  <2>2. ASSUME NEW p \in PkgsOf(rb) PROVE p \in 1 .. sent
    <3>1. PICK i \in 1 .. Len(rb) : rb[i].pkg = p
      BY <1>1
    <3>2. PICK j \in 1 .. Len(Stream) : Stream[j] = rb[i]
      BY AllInStream
    <3> QED
      BY <1>3, <3>1, <3>2
  <2>3. ASSUME NEW p \in PkgsOf(pkgBuffer) PROVE p \in 1 .. sent
    <3>1. PICK i \in 1 .. Len(pkgBuffer) : pkgBuffer[i].pkg = p
      BY <1>1
    <3>2. PICK j \in 1 .. Len(Stream) : Stream[j] = pkgBuffer[i]
      BY AllInStream
    <3> QED
      BY <1>3, <3>1, <3>2
  <2> QED
    BY <2>1, <2>2, <2>3
<1>6. CASE Afresh
  <2>1. /\ wire' = <<>> /\ rb' = <<>> /\ pkgs' = <<>> /\ pkgBuffer' = <<>> /\ status' = "Start"
        /\ cut' = cut \cup PkgsOf(wire) \cup PkgsOf(rb) \cup ToSet(pkgs) \cup PkgsOf(pkgBuffer)
    BY <1>6, AfreshIs
  <2>2. Stream' = <<>> /\ Len(Stream') = 0
    BY <1>6, NoStream
  <2>3. Sound'
    <3>1. cut' \subseteq 1 .. sent
      BY <1>3, <1>5, <2>1
    <3> QED
      BY <1>4, <2>1, <2>2, <3>1 DEF Sound, Right, Follows
  <2>4. Reading'
    BY <2>1 DEF Reading
  <2>5. InStep'
    <3>1. Uncut' => Uncut
      BY <2>1 DEF Uncut
    <3> QED
      BY <2>2, <3>1 DEF Inv, InStep, Steady
  <2>6. ASSUME NEW p \in 1 .. sent PROVE p \in Settled'
    <3>1. HeadAt(Stream, Len(pkgBuffer), p) => p \in cut'
      BY <1>2, <2>1 DEF HeadAt
    <3> QED
      BY <2>1, <3>1 DEF Inv, Kept, Settled
  <2>7. Kept'
    BY <2>6 DEF Kept
  <2> QED
    BY <2>3, <2>4, <2>5, <2>7 DEF Inv
<1>7. CASE Disconnected /\ role # "server"
  <2>1. /\ wire' = <<>> /\ cut' = cut \cup PkgsOf(wire)
        /\ UNCHANGED <<rb, status, pkgLen, bodyLen, pkgBuffer, pkgs>>
    BY <1>7, DisconnectedIs DEF machineVars
  <2>2. PICK s \in Seq(Byte) : s = pkgBuffer \o rb
    BY StreamType, Together
  <2>3. PICK w \in Seq(Byte) : w = wire
    BY StreamType
  <2>4. Stream = s \o w /\ Stream' = s
    BY <1>7, <2>2, <2>3, LostStream, Zenon
  <2>5. Sound'
    <3>1. Right(s \o w, sent) /\ Follows(s \o w, cut)
      BY <2>4 DEF Inv, Sound
    <3>2. Right(s, sent) /\ Follows(s, cut \cup PkgsOf(w))
      BY <3>1, LossKeeps
    <3> QED
      BY <1>3, <1>5, <2>1, <2>3, <2>4, <3>2 DEF Sound
  <2>6. Reading'
    BY <2>1 DEF Inv, Reading
  <2>7. InStep'
    <3> SUFFICES ASSUME cut' = {} PROVE Steady(Stream', cut') /\ swallowed = {}
      BY <1>7 DEF InStep, Uncut
    <3>1. cut = {} /\ PkgsOf(wire) = {}
      BY <2>1
    <3>2. Len(w) = 0
      <4>1. ~(1 \in 1 .. Len(w))
        BY <1>1, <2>3, <3>1
      <4> QED
        BY <4>1
    <3>3. w = <<>>
      BY <3>2
    <3>4. s \o w = s
      BY <3>3
    <3> QED
      BY <2>1, <2>4, <3>1, <3>4 DEF Inv, InStep, Uncut
  <2>8. ASSUME NEW p \in 1 .. sent, p \notin Settled' PROVE HeadAt(s, Len(pkgBuffer), p)
    <3>1. p \notin Settled /\ p \notin PkgsOf(w)
      BY <2>1, <2>3, <2>8 DEF Settled
    <3>2. PICK i \in 1 .. Len(s \o w) : /\ (s \o w)[i].pkg = p /\ (s \o w)[i].at = 1
                                        /\ i = 1 \/ i > Len(pkgBuffer)
      BY <2>4, <3>1 DEF Inv, Kept, HeadAt
    <3>3. PICK t \in Seq(Byte) : t = s \o w
      BY Together
    <3>4. /\ Len(t) = Len(s) + Len(w) /\ \A j \in 1 .. Len(s) : t[j] = s[j]
          /\ \A j \in 1 .. Len(w) : t[Len(s) + j] = w[j]
      BY <3>3, Together
    <3>5. CASE i <= Len(s)
      <4>1. i \in 1 .. Len(s) /\ t[i] = s[i]
        BY <3>4, <3>5
      <4> QED
        BY <3>2, <3>3, <4>1 DEF HeadAt
    <3>6. CASE i > Len(s)
      <4>1. i - Len(s) \in 1 .. Len(w) /\ i = Len(s) + (i - Len(s))
        BY <3>2, <3>3, <3>4, <3>6
      <4>2. PICK l \in 1 .. Len(w) : i = Len(s) + l
        BY <4>1
      <4>3. w[l].pkg = p
        BY <3>2, <3>3, <3>4, <4>2
      <4> QED
        BY <1>1, <2>3, <3>1, <4>3
    <3> QED
      BY <3>5, <3>6
  <2>9. Kept'
    BY <2>1, <2>4, <2>8 DEF Kept
  <2> QED
    BY <2>5, <2>6, <2>7, <2>9 DEF Inv
<1> QED
  BY <1>6, <1>7, DisconnectedIs

LEMMA ProcessKeeps ==
  ASSUME TypeOK, Inv, ThreadProcessPkg
  PROVE  Inv'
<1>1. /\ UNCHANGED <<role, wire, sent, rb, status, pkgLen, bodyLen, pkgBuffer, dropped, cut,
                     swallowed>>
      /\ pkgs # <<>> /\ pkgs' = Tail(pkgs) /\ processed' = processed \cup {Head(pkgs)}
  BY DEF ThreadProcessPkg, peerVars, machineVars
<1>2. Stream' = Stream
  BY <1>1 DEF Stream
<1>3. PICK q \in Seq(Pkgs) : q = pkgs
  BY DEF TypeOK
<1>4. Len(q) > 0 /\ Len(q) \in Nat /\ Head(q) = q[1] /\ Tail(q) \in Seq(Pkgs)
      /\ Len(Tail(q)) = Len(q) - 1 /\ \A i \in 1 .. Len(q) - 1 : Tail(q)[i] = q[i + 1]
  BY <1>1, <1>3
<1>5. ToSet(q) \subseteq ToSet(Tail(q)) \cup {Head(q)} /\ ToSet(Tail(q)) \subseteq ToSet(q)
  <2>1. ASSUME NEW i \in 1 .. Len(q) PROVE i = 1 \/ \E j \in 1 .. Len(q) - 1 : i = j + 1
    <3>1. i = 1 \/ (i - 1 \in 1 .. Len(q) - 1 /\ i = (i - 1) + 1)
      BY <1>4
    <3> QED
      BY <3>1
  <2>2. \A j \in 1 .. Len(q) - 1 : j + 1 \in 1 .. Len(q)
    BY <1>4
  <2>3. PICK t \in Seq(Pkgs) : t = Tail(q)
    BY <1>4
  <2>4. Len(t) = Len(q) - 1 /\ \A i \in 1 .. Len(q) - 1 : t[i] = q[i + 1]
    BY <1>4, <2>3
  <2>5. ASSUME NEW x \in ToSet(q) PROVE x \in ToSet(t) \cup {q[1]}
    <3>1. PICK i \in 1 .. Len(q) : q[i] = x
      BY InSet
    <3>2. CASE i = 1
      BY <3>1, <3>2
    <3>3. CASE i # 1
      <4>1. PICK j \in 1 .. Len(q) - 1 : i = j + 1
        BY <2>1, <3>3
      <4>2. j \in 1 .. Len(t) /\ t[j] = x
        BY <2>4, <3>1, <4>1
      <4> QED
        BY <4>2, InSet
    <3> QED
      BY <3>2, <3>3
  <2>6. \A x : x \in ToSet(t) => x \in ToSet(q)
    BY <2>2, <2>4, InSet
  <2> QED
    BY <1>4, <2>3, <2>5, <2>6
<1>6. Settled \subseteq Settled'
  BY <1>1, <1>3, <1>5 DEF Settled
<1>7. Sound'
  BY <1>1, <1>2, <1>3, <1>5 DEF Inv, Sound
<1>8. Kept'
  BY <1>1, <1>2, <1>6 DEF Inv, Kept
<1> QED
  BY <1>1, <1>2, <1>7, <1>8 DEF Inv, InStep, Uncut, Reading

LEMMA InvStep ==
  ASSUME TypeOK, Inv, [Next]_vars
  PROVE  Inv'
<1>1. CASE UNCHANGED vars
  <2>1. UNCHANGED <<role, wire, sent, rb, status, pkgLen, bodyLen, pkgBuffer, pkgs, processed,
                    dropped, cut, swallowed>>
    BY <1>1 DEF vars, peerVars, machineVars, historyVars
  <2> QED
    BY <2>1 DEF Inv, Sound, InStep, Uncut, Reading, Kept, Settled, Stream
<1>2. ASSUME Break PROVE Inv'
  BY <1>2, DisconnectedKeeps DEF Break
<1>3. ASSUME HangUp PROVE Inv'
  BY <1>3, DisconnectedKeeps DEF HangUp
<1>4. ASSUME Falls PROVE Inv'
  BY <1>4, DisconnectedKeeps DEF Falls
<1> QED
  BY <1>1, <1>2, <1>3, <1>4, SendStepKeeps, ReceiveKeeps, StartKeeps, GetHeadKeeps, GetBodyKeeps,
     GetCRCKeeps, ProcessKeeps DEF Next, ReceiveSome, ThreadStateMachine

LEMMA InvCorrect == Spec => [](TypeOK /\ Inv)
<1>1. Init => Inv
  <2> SUFFICES ASSUME Init PROVE Inv
    OBVIOUS
  <2>1. /\ Stream = <<>> /\ Len(Stream) = 0 /\ sent = 0 /\ pkgs = <<>> /\ cut = {}
        /\ swallowed = {} /\ status = "Start"
    BY DEF Init, Stream
  <2>2. ToSet(pkgs) = {} /\ 1 .. sent = {}
    BY <2>1 DEF ToSet
  <2> QED
    BY <2>1, <2>2 DEF Inv, Sound, Right, Follows, Reading, InStep, Steady, Kept
<1> QED
  BY <1>1, InitTypes, TypeStep, InvStep, PTL DEF Spec

(* Whatever the sizes, and however the stream is cut into pieces and       *)
(* connections, a packet is lost only to a full queue, with bytes that a   *)
(* disconnection lost, or because its tag was read as part of another one. *)
THEOREM LossesExplainedHolds == Spec => []LossesExplained
  BY InvCorrect, LossesFollow, PTL DEF Inv

(* A server's connection never reads a tag as anything else nor writes past*)
(* the packet's buffer, and a client only after a disconnection took bytes *)
(* away: without one, the state machine takes every byte for what it was   *)
(* sent as, and has room for as many as the packet has.                    *)
THEOREM OutOfStepOnlyAfterCutHolds == Spec => []OutOfStepOnlyAfterCut
<1>1. TypeOK /\ Inv => OutOfStepOnlyAfterCut
  BY InStepFollows
<1> QED
  BY <1>1, InvCorrect, PTL

-----------------------------------------------------------------------------
(* The order of the packets.                                               *)

(* A byte of a packet is behind those of the packets before, and behind    *)
(* the bytes of its own that come before it.                               *)
Rising(s) ==
  \A i, j \in 1 .. Len(s) : i < j =>
    \/ s[i].pkg < s[j].pkg
    \/ s[i].pkg = s[j].pkg /\ s[i].at < s[j].at /\ s[i].body = s[j].body

(* All of it is of later packets than those of S.                          *)
Behind(s, S) == \A i \in 1 .. Len(s) : \A p \in S : p < s[i].pkg

(* The packets that have been read.                                        *)
Earlier == processed \cup ToSet(pkgs)

Ordered ==
  /\ Rising(Stream)
  /\ Behind(Stream, Earlier)
  /\ processed \subseteq 1 .. sent
  /\ \A i, j \in 1 .. Len(pkgs) : i < j => pkgs[i] < pkgs[j]
  /\ \A i \in 1 .. Len(pkgs) : \A p \in processed : p < pkgs[i]

LEMMA DropOrdered ==
  ASSUME NEW s \in Seq(Byte), NEW t \in Seq(Byte), NEW n \in Nat, IsDrop(s, t, n), Rising(s)
  PROVE  Rising(t) /\ \A S : Behind(s, S) => Behind(t, S)
<1>1. /\ n <= Len(s) /\ Len(t) = Len(s) - n /\ Len(s) \in Nat
      /\ \A i \in 1 .. Len(t) : t[i] = s[n + i]
  BY DEF IsDrop
<1>2. \A i \in 1 .. Len(t) : n + i \in 1 .. Len(s)
  BY <1>1
<1>3. ASSUME NEW i \in 1 .. Len(t), NEW j \in 1 .. Len(t), i < j
      PROVE  \/ t[i].pkg < t[j].pkg
             \/ t[i].pkg = t[j].pkg /\ t[i].at < t[j].at /\ t[i].body = t[j].body
  <2>1. n + i \in 1 .. Len(s) /\ n + j \in 1 .. Len(s) /\ n + i < n + j
    BY <1>1, <1>2, <1>3
  <2>2. t[i] = s[n + i] /\ t[j] = s[n + j]
    BY <1>1
  <2> QED
    BY <2>1, <2>2 DEF Rising
<1>4. ASSUME NEW S, Behind(s, S) PROVE Behind(t, S)
  BY <1>1, <1>2, <1>4, Zenon DEF Behind
<1> QED
  BY <1>3, <1>4 DEF Rising

LEMMA FrontOrdered ==
  ASSUME NEW s \in Seq(Byte), NEW w \in Seq(Byte), Rising(s \o w)
  PROVE  Rising(s) /\ \A S : Behind(s \o w, S) => Behind(s, S)
<1>1. PICK t \in Seq(Byte) : t = s \o w
  BY Together
<1>2. Len(t) = Len(s) + Len(w) /\ \A i \in 1 .. Len(s) : t[i] = s[i]
  BY <1>1, Together
<1>3. \A i \in 1 .. Len(s) : i \in 1 .. Len(t)
  <2>1. Len(s) \in Nat /\ Len(w) \in Nat
    OBVIOUS
  <2> QED
    BY <1>2, <2>1
<1>4. Rising(t)
  BY <1>1
<1>5. Rising(s)
  <2> SUFFICES ASSUME NEW i \in 1 .. Len(s), NEW j \in 1 .. Len(s), i < j
               PROVE  \/ s[i].pkg < s[j].pkg
                      \/ s[i].pkg = s[j].pkg /\ s[i].at < s[j].at /\ s[i].body = s[j].body
    BY DEF Rising
  <2>1. /\ i \in 1 .. Len(t) /\ t[i] = s[i]
        /\ j \in 1 .. Len(t) /\ t[j] = s[j]
    BY <1>2, <1>3
  <2> QED
    BY <1>4, <2>1 DEF Rising
<1>6. ASSUME NEW S, Behind(t, S) PROVE Behind(s, S)
  BY <1>2, <1>3, <1>6, Zenon DEF Behind
<1> QED
  BY <1>1, <1>5, <1>6

LEMMA SendOrdered ==
  ASSUME NEW s \in Seq(Byte), NEW w \in Seq(Byte), NEW p \in Nat, NEW n \in BodyLens,
         IsPacket(w, p + 1, n), Rising(s), \A i \in 1 .. Len(s) : s[i].pkg <= p,
         NEW S \in SUBSET (1 .. p), Behind(s, S)
  PROVE  Rising(s \o w) /\ Behind(s \o w, S)
<1>1. PICK t \in Seq(Byte) : t = s \o w
  BY Together
<1>2. /\ Len(t) = Len(s) + Len(w) /\ \A i \in 1 .. Len(s) : t[i] = s[i]
      /\ \A i \in 1 .. Len(w) : t[Len(s) + i] = w[i]
  BY <1>1, Together
<1>3. Len(s) \in Nat /\ Len(w) \in Nat /\ Len(w) = Size(n)
  BY DEF IsPacket
<1>4. \A k \in 1 .. Len(w) : w[k].pkg = p + 1 /\ w[k].at = k /\ w[k].body = n
  BY DEF IsPacket
<1>5. ASSUME NEW i \in 1 .. Len(t)
      PROVE  i \in 1 .. Len(s) \/ \E k \in 1 .. Len(w) : i = Len(s) + k
  <2>1. CASE i <= Len(s)
    BY <1>3, <2>1
  <2>2. CASE i > Len(s)
    <3>1. i - Len(s) \in 1 .. Len(w) /\ i = Len(s) + (i - Len(s))
      BY <1>2, <1>3, <2>2
    <3> QED
      BY <3>1
  <2> QED
    BY <1>3, <2>1, <2>2
<1>6. \A i \in 1 .. Len(s) : s[i].pkg \in Nat
  BY ByteIs DEF Pkgs
<1>7. ASSUME NEW i \in 1 .. Len(t), NEW j \in 1 .. Len(t), i < j
      PROVE  \/ t[i].pkg < t[j].pkg
             \/ t[i].pkg = t[j].pkg /\ t[i].at < t[j].at /\ t[i].body = t[j].body
  <2>1. CASE j \in 1 .. Len(s)
    <3>1. i \in 1 .. Len(s)
      BY <1>3, <1>7, <2>1
    <3> QED
      BY <1>2, <1>7, <2>1, <3>1 DEF Rising
  <2>2. ASSUME NEW l \in 1 .. Len(w), j = Len(s) + l
        PROVE  \/ t[i].pkg < t[j].pkg
               \/ t[i].pkg = t[j].pkg /\ t[i].at < t[j].at /\ t[i].body = t[j].body
    <3>1. t[j] = w[l] /\ w[l].pkg = p + 1 /\ w[l].at = l /\ w[l].body = n
      BY <1>2, <1>4, <2>2
    <3>2. CASE i \in 1 .. Len(s)
      <4>1. t[i] = s[i] /\ s[i].pkg <= p /\ s[i].pkg \in Nat
        BY <1>2, <1>6, <3>2
      <4> QED
        BY <3>1, <4>1
    <3>3. ASSUME NEW k \in 1 .. Len(w), i = Len(s) + k
          PROVE  t[i].pkg = t[j].pkg /\ t[i].at < t[j].at /\ t[i].body = t[j].body
      <4>1. t[i] = w[k] /\ w[k].pkg = p + 1 /\ w[k].at = k /\ w[k].body = n
        BY <1>2, <1>4, <3>3
      <4>2. k < l
        BY <1>3, <1>7, <2>2, <3>3
      <4> QED
        BY <3>1, <4>1, <4>2
    <3> QED
      BY <1>5, <3>2, <3>3
  <2> QED
    BY <1>5, <2>1, <2>2
<1>8. ASSUME NEW i \in 1 .. Len(t), NEW q \in S PROVE q < t[i].pkg
  <2>1. CASE i \in 1 .. Len(s)
    BY <1>2, <2>1 DEF Behind
  <2>2. ASSUME NEW k \in 1 .. Len(w), i = Len(s) + k PROVE q < t[i].pkg
    <3>1. t[i].pkg = p + 1
      BY <1>2, <1>4, <2>2
    <3>2. q \in 1 .. p
      OBVIOUS
    <3> QED
      BY <3>1, <3>2
  <2> QED
    BY <1>5, <2>1, <2>2
<1> QED
  BY <1>1, <1>7, <1>8 DEF Rising, Behind

(* What is behind a whole packet is of later ones: it has no byte more.    *)
LEMMA WholeOrdered ==
  ASSUME NEW s \in Seq(Byte), NEW d \in Seq(Byte), NEW t \in Seq(Byte), Len(d) > 0,
         IsDrop(s, t, Len(d)), \A i \in 1 .. Len(d) : d[i] = s[i],
         Whole(d), Rising(s), NEW k, Right(s, k)
  PROVE  Behind(t, {d[1].pkg})
<1>1. PICK n \in Nat : n = Len(d) /\ n > 0
  OBVIOUS
<1>2. /\ n <= Len(s) /\ Len(t) = Len(s) - n /\ Len(s) \in Nat
      /\ \A i \in 1 .. Len(t) : t[i] = s[n + i]
  BY <1>1 DEF IsDrop
<1>3. d[1] \in Byte /\ d[1].pkg \in Nat /\ n = Size(d[1].body)
  <2>1. d[1] \in Byte
    BY <1>1
  <2> QED
    BY <1>1, <2>1, ByteIs DEF Whole, Pkgs
<1>4. s[n].pkg = d[1].pkg /\ s[n].at = n /\ s[n].body = d[1].body
  <2>1. DOMAIN d = 1 .. n /\ n \in 1 .. n /\ 1 \in 1 .. n
    BY <1>1
  <2>2. d[n] = s[n] /\ d[1] = s[1] /\ d[n].pkg = d[1].pkg /\ d[n].at = n
    BY <1>1, <2>1 DEF Whole
  <2>3. n = 1 \/ s[1].body = s[n].body
    <3>1. CASE n > 1
      <4>1. 1 \in 1 .. Len(s) /\ n \in 1 .. Len(s)
        BY <1>2, <3>1
      <4>2. s[1].pkg < s[n].pkg \/ s[1].body = s[n].body
        BY <3>1, <4>1 DEF Rising
      <4> QED
        BY <1>3, <2>2, <4>2
    <3> QED
      BY <1>1, <3>1
  <2> QED
    BY <2>2, <2>3
<1>5. ASSUME NEW i \in 1 .. Len(t) PROVE d[1].pkg < t[i].pkg
  <2>1. n \in 1 .. Len(s) /\ n + i \in 1 .. Len(s) /\ n < n + i /\ t[i] = s[n + i]
    <3>1. i \in Nat /\ i > 0 /\ i <= Len(s) - n /\ t[i] = s[n + i]
      BY <1>2
    <3>2. n \in Nat /\ n > 0 /\ n <= Len(s) /\ Len(s) \in Nat
      BY <1>1, <1>2
    <3> QED
      BY <3>1, <3>2
  <2>2. s[n + i].at <= Size(s[n + i].body) /\ s[n + i].at \in Nat
    <3>1. s[n + i] \in Byte
      BY <2>1
    <3> QED
      BY <2>1, <3>1, ByteIs DEF Right
  <2>3. \/ s[n].pkg < s[n + i].pkg
        \/ s[n].at < s[n + i].at /\ s[n].body = s[n + i].body
    BY <2>1 DEF Rising
  <2> QED
    BY <1>3, <1>4, <2>1, <2>2, <2>3
<1> QED
  BY <1>5 DEF Behind

(* A step that reads no packet and hands none over keeps the order when it *)
(* leaves the stream or takes its first byte.                              *)
LEMMA ReadingOrdered ==
  ASSUME TypeOK, Ordered, UNCHANGED <<pkgs, processed, sent>>,
         \/ Stream' = Stream
         \/ Stream' \in Seq(Byte) /\ IsDrop(Stream, Stream', 1)
  PROVE  Ordered'
<1>1. Rising(Stream') /\ Behind(Stream', Earlier)
  <2>1. CASE Stream' = Stream
    BY <2>1 DEF Ordered
  <2>2. CASE Stream' \in Seq(Byte) /\ IsDrop(Stream, Stream', 1)
    <3>1. PICK s \in Seq(Byte), t \in Seq(Byte) : s = Stream /\ t = Stream'
      BY <2>2, StreamType
    <3>2. IsDrop(s, t, 1) /\ Rising(s) /\ Behind(s, Earlier)
      BY <2>2, <3>1 DEF Ordered
    <3> QED
      BY <3>1, <3>2, DropOrdered
  <2> QED
    BY <2>1, <2>2
<1>2. Earlier' = Earlier
  BY DEF Earlier
<1> QED
  BY <1>1, <1>2 DEF Ordered

LEMMA GetCRCOrdered ==
  ASSUME TypeOK, Inv, Ordered, GetCRC
  PROVE  Ordered'
<1>1. UNCHANGED <<processed, sent>>
  BY DEF GetCRC, peerVars
<1>2. PICK s \in Seq(Byte), t \in Seq(Byte) : s = Stream /\ t = Stream'
  BY StreamType, GetCRCStream
<1>3. PICK d \in Seq(Byte) : d = Done /\ Len(d) \in Nat /\ Len(d) > 0 /\ d[1].pkg \in Pkgs
  <2>1. PICK d \in Seq(Byte) : d = Done
    BY GetCRCIs
  <2>2. Len(d) = Len(pkgBuffer) + CrcLen /\ Len(pkgBuffer) \in Nat /\ d[1] \in Byte
    BY <2>1, GetCRCIs, StreamType
  <2> QED
    BY <2>1, <2>2, ByteIs, FramingAssumption
<1>4. IsDrop(s, t, Len(d)) /\ \A i \in 1 .. Len(d) : d[i] = s[i]
  BY <1>2, <1>3, GetCRCStream
<1>5. Rising(s) /\ Behind(s, Earlier) /\ Right(s, sent)
  BY <1>2 DEF Ordered, Inv, Sound
<1>6. Rising(t) /\ Behind(t, Earlier)
  BY <1>3, <1>4, <1>5, DropOrdered
<1>7. CASE UNCHANGED pkgs
  BY <1>1, <1>2, <1>6, <1>7 DEF Ordered, Earlier
<1>8. CASE Whole(d) /\ pkgs' = Append(pkgs, d[1].pkg)
  <2>1. PICK q \in Seq(Pkgs) : q = pkgs
    BY DEF TypeOK
  <2>2. PICK r \in Seq(Pkgs) : r = pkgs'
    <3>1. Append(q, d[1].pkg) \in Seq(Pkgs)
      BY <1>3
    <3> QED
      BY <1>8, <2>1, <3>1
  <2>3. /\ Len(r) = Len(q) + 1 /\ Len(q) \in Nat
        /\ \A i \in 1 .. Len(q) : r[i] = q[i]
        /\ r[Len(q) + 1] = d[1].pkg
    BY <1>3, <1>8, <2>1, <2>2
  <2>4. \A i \in 1 .. Len(r) : i \in 1 .. Len(q) \/ i = Len(q) + 1
    BY <2>3
  <2>5. Behind(t, {d[1].pkg})
    BY <1>3, <1>4, <1>5, <1>8, WholeOrdered
  <2>6. Earlier' = Earlier \cup {d[1].pkg}
    <3>1. ToSet(pkgs') = ToSet(pkgs) \cup {d[1].pkg}
      BY <1>3, <1>8, <2>1, AppendedSet
    <3> QED
      BY <1>1, <3>1 DEF Earlier
  <2>7. Behind(t, Earlier')
    BY <1>6, <2>5, <2>6 DEF Behind
  <2>8. \A p \in Earlier : p < d[1].pkg
    <3>1. 1 \in 1 .. Len(s) /\ d[1] = s[1]
      BY <1>3, <1>4 DEF IsDrop
    <3> QED
      BY <1>5, <3>1 DEF Behind
  <2>9. \A i \in 1 .. Len(q) : q[i] < d[1].pkg
    <3>1. \A i \in 1 .. Len(q) : q[i] \in ToSet(q)
      BY InSet
    <3> QED
      BY <2>1, <2>8, <3>1 DEF Earlier
  <2>10. ASSUME NEW i \in 1 .. Len(r), NEW j \in 1 .. Len(r), i < j PROVE r[i] < r[j]
    <3>1. i \in 1 .. Len(q)
      BY <2>3, <2>10
    <3>2. CASE j \in 1 .. Len(q)
      BY <2>1, <2>3, <2>10, <3>1, <3>2 DEF Ordered
    <3>3. CASE j = Len(q) + 1
      BY <2>3, <2>9, <3>1, <3>3
    <3> QED
      BY <2>4, <3>2, <3>3
  <2>11. ASSUME NEW i \in 1 .. Len(r), NEW p \in processed PROVE p < r[i]
    <3>1. CASE i \in 1 .. Len(q)
      BY <2>1, <2>3, <3>1 DEF Ordered
    <3>2. CASE i = Len(q) + 1
      BY <2>3, <2>8, <3>2 DEF Earlier
    <3> QED
      BY <2>4, <3>1, <3>2
  <2> QED
    BY <1>1, <1>2, <1>6, <2>2, <2>7, <2>10, <2>11 DEF Ordered
<1> QED
  BY <1>3, <1>7, <1>8, GetCRCIs

LEMMA SendStepOrdered ==
  ASSUME TypeOK, Inv, Ordered, NEW n \in BodyLens, NEW misleading \in BOOLEAN,
         Send(n, misleading)
  PROVE  Ordered'
<1>1. UNCHANGED <<pkgs, processed>> /\ sent' = sent + 1 /\ sent \in Nat /\ sent + 1 \in Pkgs
  <2>1. UNCHANGED <<pkgs, processed>>
    BY DEF Send, historyVars
  <2>2. sent \in Nat
    BY DEF TypeOK
  <2>3. sent' = sent + 1 /\ sent' \in Pkgs
    BY SendIs
  <2> QED
    BY <2>1, <2>2, <2>3
<1>2. PICK w \in Seq(Byte) : w = Packet(sent + 1, n, misleading)
  BY SendIs
<1>3. IsPacket(w, sent + 1, n)
  BY <1>1, <1>2, PacketIs DEF IsPacket
<1>4. PICK s \in Seq(Byte) : s = Stream
  BY StreamType
<1>5. Stream' = s \o w
  BY <1>2, <1>4, SendStream
<1>6. Rising(s) /\ Behind(s, Earlier) /\ \A i \in 1 .. Len(s) : s[i].pkg <= sent
  BY <1>4 DEF Ordered, Inv, Sound, Right
<1>7. Earlier \in SUBSET (1 .. sent)
  BY DEF Earlier, Ordered, Inv, Sound
<1>8. Rising(s \o w) /\ Behind(s \o w, Earlier)
  BY <1>1, <1>3, <1>6, <1>7, SendOrdered
<1>9. 1 .. sent \subseteq 1 .. sent + 1
  BY <1>1
<1> QED
  BY <1>1, <1>5, <1>8, <1>9 DEF Ordered, Earlier

LEMMA DisconnectedOrdered ==
  ASSUME TypeOK, Ordered, Disconnected \/ Afresh, UNCHANGED <<sent, processed>>
  PROVE  Ordered'
<1>1. CASE Afresh
  <2>1. pkgs' = <<>> /\ Len(pkgs') = 0 /\ Stream' = <<>> /\ Len(Stream') = 0
    BY <1>1, AfreshIs, NoStream
  <2> QED
    BY <2>1 DEF Ordered, Rising, Behind
<1>2. CASE Disconnected /\ role # "server"
  <2>1. UNCHANGED pkgs
    BY <1>2, DisconnectedIs
  <2>2. PICK s \in Seq(Byte) : s = pkgBuffer \o rb
    BY StreamType, Together
  <2>3. PICK w \in Seq(Byte) : w = wire
    BY StreamType
  <2>4. Stream = s \o w /\ Stream' = s
    BY <1>2, <2>2, <2>3, LostStream, Zenon
  <2>5. Rising(s \o w) /\ Behind(s \o w, Earlier)
    BY <2>4 DEF Ordered
  <2>6. Rising(s) /\ Behind(s, Earlier)
    BY <2>5, FrontOrdered
  <2> QED
    BY <2>1, <2>4, <2>6 DEF Ordered, Earlier
<1> QED
  BY <1>1, <1>2, DisconnectedIs

LEMMA ProcessOrdered ==
  ASSUME TypeOK, Inv, Ordered, ThreadProcessPkg
  PROVE  Ordered' /\ \A p \in processed : p < Head(pkgs)
<1>1. /\ UNCHANGED <<sent, wire, rb, pkgBuffer>> /\ pkgs # <<>>
      /\ pkgs' = Tail(pkgs) /\ processed' = processed \cup {Head(pkgs)}
  BY DEF ThreadProcessPkg, peerVars, machineVars
<1>2. Stream' = Stream
  BY <1>1 DEF Stream
<1>3. PICK q \in Seq(Pkgs) : q = pkgs
  BY DEF TypeOK
<1>4. Len(q) > 0 /\ Len(q) \in Nat /\ Head(q) = q[1] /\ Tail(q) \in Seq(Pkgs)
      /\ Len(Tail(q)) = Len(q) - 1 /\ \A i \in 1 .. Len(q) - 1 : Tail(q)[i] = q[i + 1]
  BY <1>1, <1>3
<1>5. PICK r \in Seq(Pkgs) : r = pkgs'
  BY <1>1, <1>3, <1>4
<1>6. /\ Len(r) = Len(q) - 1 /\ \A i \in 1 .. Len(r) : r[i] = q[i + 1]
      /\ \A i \in 1 .. Len(r) : i + 1 \in 1 .. Len(q) /\ 1 < i + 1
  BY <1>1, <1>3, <1>4, <1>5
<1>7. /\ \A i, j \in 1 .. Len(q) : i < j => q[i] < q[j]
      /\ \A i \in 1 .. Len(q) : \A p \in processed : p < q[i]
      /\ 1 \in 1 .. Len(q)
  BY <1>3, <1>4 DEF Ordered
<1>8. Earlier' \subseteq Earlier
  <2>1. \A x : x \in ToSet(r) => x \in ToSet(q)
    BY <1>6, InSet
  <2>2. q[1] \in ToSet(q)
    BY <1>7, InSet
  <2> QED
    BY <1>1, <1>3, <1>4, <1>5, <2>1, <2>2 DEF Earlier
<1>9. processed' \subseteq 1 .. sent
  <2>1. ToSet(q) \subseteq 1 .. sent /\ q[1] \in ToSet(q)
    BY <1>3, <1>7, InSet DEF Inv, Sound
  <2> QED
    BY <1>1, <1>3, <1>4, <2>1 DEF Ordered
<1>10. \A i, j \in 1 .. Len(r) : i < j => r[i] < r[j]
  <2> SUFFICES ASSUME NEW i \in 1 .. Len(r), NEW j \in 1 .. Len(r), i < j PROVE r[i] < r[j]
    OBVIOUS
  <2>1. i + 1 < j + 1
    BY <1>4, <1>6
  <2> QED
    BY <1>6, <1>7, <2>1
<1>11. \A i \in 1 .. Len(r) : \A p \in processed' : p < r[i]
  BY <1>1, <1>3, <1>4, <1>6, <1>7
<1>12. Behind(Stream', Earlier')
  BY <1>2, <1>8 DEF Ordered, Behind
<1>13. Ordered'
  BY <1>1, <1>2, <1>5, <1>9, <1>10, <1>11, <1>12 DEF Ordered
<1> QED
  BY <1>3, <1>4, <1>7, <1>13

LEMMA OrderedStep ==
  ASSUME TypeOK, Inv, Ordered, [Next]_vars
  PROVE  Ordered'
<1>1. CASE UNCHANGED vars
  <2>1. UNCHANGED <<wire, sent, rb, pkgBuffer, pkgs, processed>>
    BY <1>1 DEF vars, peerVars, machineVars, historyVars
  <2>2. Stream' = Stream
    BY <2>1 DEF Stream
  <2> QED
    BY <2>1, <2>2, ReadingOrdered
<1>2. ASSUME NEW n \in 1 .. RingSize, Receive(n) PROVE Ordered'
  <2>1. UNCHANGED <<pkgs, processed, sent>>
    BY <1>2 DEF Receive, historyVars
  <2> QED
    BY <1>2, <2>1, ReceiveStream, ReadingOrdered
<1>3. CASE Start
  <2>1. UNCHANGED <<pkgs, processed, sent>>
    BY <1>3 DEF Start, historyVars, peerVars
  <2> QED
    BY <1>3, <2>1, StartIs, StartStream, ReadingOrdered
<1>4. ASSUME NEW n \in Nat, Take(n), UNCHANGED <<peerVars, pkgs, processed>> PROVE Ordered'
  <2>1. UNCHANGED <<wire, sent, pkgs, processed>>
    BY <1>4 DEF peerVars
  <2>2. Stream' = Stream
    BY <1>4, <2>1, TakeIs, Zenon DEF Stream
  <2> QED
    BY <2>1, <2>2, ReadingOrdered
<1>5. CASE GetHead
  BY <1>4, <1>5, GetHeadIs, FramingAssumption
<1>6. CASE GetBody
  BY <1>4, <1>6, GetBodyIs
<1>7. CASE Break \/ HangUp \/ Falls
  BY <1>7, DisconnectedOrdered DEF Break, HangUp, Falls
<1> QED
  BY <1>1, <1>2, <1>3, <1>5, <1>6, <1>7, SendStepOrdered, GetCRCOrdered, ProcessOrdered
     DEF Next, ReceiveSome, ThreadStateMachine

(* Packets reach their handlers in the order the peer sent them, and each  *)
(* at most once: no packet a handler gets is one it has had, or was sent   *)
(* before one it has had.  What a client read before its connection broke, *)
(* and the garbage it reads after, change nothing in this.                 *)
THEOREM ProcessedInOrderOnce ==
  Spec => [][ThreadProcessPkg => \A p \in processed : p < Head(pkgs)]_vars
<1>1. Init => Ordered
  <2> SUFFICES ASSUME Init PROVE Ordered
    OBVIOUS
  <2>1. /\ Stream = <<>> /\ Len(Stream) = 0 /\ pkgs = <<>> /\ Len(pkgs) = 0
        /\ processed = {}
    BY DEF Init, Stream
  <2> QED
    BY <2>1 DEF Ordered, Rising, Behind
<1>2. TypeOK /\ Inv /\ Ordered /\ [Next]_vars
        => [ThreadProcessPkg => \A p \in processed : p < Head(pkgs)]_vars
  BY ProcessOrdered
<1> QED
  BY <1>1, <1>2, InvCorrect, OrderedStep, PTL DEF Spec
=============================================================================
