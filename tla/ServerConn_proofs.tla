-------------------------- MODULE ServerConn_proofs --------------------------
(***************************************************************************)
(* Why the server falls, why a connection is left without its thread and   *)
(* what conns holds, for every number of connections, ports and addresses. *)
(*                                                                         *)
(* The loop of the destructor passes by the handler that moves up behind an*)
(* erased one.  Erased says what it leaves, each place of conns once, and  *)
(* ErasedOne that the one handler of an address is erased: the function    *)
(* that marks what is passed by is recursive, and there it is the one that *)
(* marks what stands behind an erased handler.  A connection that shares   *)
(* its address with another does so for good (WasAlone), so ConnsAreLive is*)
(* inductive as it stands.                                                 *)
(*                                                                         *)
(* FallIsExplained rests on Ends.  A handler is freed, and the reactor goes*)
(* on behind its erase, only when the two threads of the connection have   *)
(* finished, because the destructor waits for them; and a thread that was  *)
(* told not to run was told by the one that deletes.  So whoever touches a *)
(* freed handler is one of the two cases the invariant names.              *)
(***************************************************************************)
EXTENDS ServerConn, FiniteSetTheorems, TLAPS

(* The elements of a finite set of numbers, counted from the smallest.     *)
UpTo(K, k) == {i \in K : i <= k}

LEMMA Enumerated ==
  ASSUME NEW K, K \subseteq Nat, IsFiniteSet(K)
  PROVE  /\ Cardinality(K) \in Nat
         /\ \A j \in 1 .. Cardinality(K) : \E k \in K : Cardinality(UpTo(K, k)) = j
         /\ \A k \in K : Cardinality(UpTo(K, k)) \in 1 .. Cardinality(K)
         /\ \A k, l \in K : Cardinality(UpTo(K, k)) = Cardinality(UpTo(K, l)) => k = l
<1> DEFINE n == Cardinality(K)
           r == [k \in K |-> Cardinality(UpTo(K, k))]
<1>1. n \in Nat
  BY FS_CardinalityType
<1>2. ASSUME NEW k \in K
      PROVE  /\ IsFiniteSet(UpTo(K, k)) /\ Cardinality(UpTo(K, k)) \in 1 .. n
  <2>1. UpTo(K, k) \in SUBSET K /\ k \in UpTo(K, k)
    BY DEF UpTo
  <2>2. IsFiniteSet(UpTo(K, k)) /\ Cardinality(UpTo(K, k)) <= n
    BY <2>1, FS_Subset
  <2>3. Cardinality(UpTo(K, k)) \in Nat
    BY <2>2, FS_CardinalityType
  <2>4. Cardinality(UpTo(K, k)) # 0
    BY <2>1, <2>2, FS_EmptySet
  <2> QED
    BY <1>1, <2>2, <2>3, <2>4
<1>3. ASSUME NEW k \in K, NEW l \in K, k < l
      PROVE  Cardinality(UpTo(K, k)) # Cardinality(UpTo(K, l))
  <2>1. UpTo(K, k) \in SUBSET UpTo(K, l) /\ l \in UpTo(K, l) /\ l \notin UpTo(K, k)
    <3>1. k \in Nat /\ l \in Nat /\ \A i \in K : i \in Nat
      OBVIOUS
    <3>2. \A i \in K : i <= k => i <= l
      BY <1>3, <3>1
    <3>3. l <= l /\ ~(l <= k)
      BY <1>3, <3>1
    <3> QED
      BY <3>2, <3>3, Zenon DEF UpTo
  <2> QED
    BY <1>2, <2>1, FS_Subset
<1>4. \A k, l \in K : Cardinality(UpTo(K, k)) = Cardinality(UpTo(K, l)) => k = l
  <2>1. \A k, l \in K : k < l \/ l < k \/ k = l
    OBVIOUS
  <2> QED
    BY <1>3, <2>1
<1>5. r \in Injection(K, 1 .. n)
  <2>1. r \in [K -> 1 .. n]
    BY <1>2
  <2>2. \A k, l \in K : r[k] = r[l] => k = l
    BY <1>4
  <2> HIDE DEF r, n
  <2> QED
    BY <2>1, <2>2 DEF Injection, IsInjective
<1>6. IsFiniteSet(1 .. n) /\ Cardinality(1 .. n) = n
  BY <1>1, FS_Interval
<1>7. r \in Surjection(K, 1 .. n)
  <2> HIDE DEF r
  <2> QED
    BY <1>5, <1>6, FS_Injection
<1>8. \A j \in 1 .. n : \E k \in K : r[k] = j
  BY <1>7 DEF Surjection
<1> QED
  BY <1>1, <1>2, <1>4, <1>8

-----------------------------------------------------------------------------
(* What the loop of the destructor leaves of conns.                        *)

SkippedBy(q, c) ==
  LET skipped[k \in 0 .. Len(q)] == k > 1 /\ SamePeer(q[k - 1], c) /\ ~skipped[k - 1]
  IN  skipped
KeptBy(q, c) == {k \in DOMAIN q : ~SamePeer(q[k], c) \/ SkippedBy(q, c)[k]}
Nth(K, j) == CHOOSE k \in K : Cardinality(UpTo(K, k)) = j

LEMMA ErasedIs ==
  ASSUME NEW q, NEW c
  PROVE  ErasedFrom(q, c) =
           [j \in 1 .. Cardinality(KeptBy(q, c)) |-> q[Nth(KeptBy(q, c), j)]]
  BY DEF ErasedFrom, KeptBy, SkippedBy, Nth, UpTo

LEMMA Erased ==
  ASSUME NEW S, NEW q \in Seq(S), NEW c
  PROVE  /\ ErasedFrom(q, c) \in Seq(S)
         /\ \A j \in DOMAIN ErasedFrom(q, c) :
              /\ Nth(KeptBy(q, c), j) \in KeptBy(q, c)
              /\ ErasedFrom(q, c)[j] = q[Nth(KeptBy(q, c), j)]
         /\ \A i, j \in DOMAIN ErasedFrom(q, c) :
              Nth(KeptBy(q, c), i) = Nth(KeptBy(q, c), j) => i = j
         /\ \A k \in KeptBy(q, c) :
              \E j \in DOMAIN ErasedFrom(q, c) : ErasedFrom(q, c)[j] = q[k]
<1> DEFINE K == KeptBy(q, c)
           n == Cardinality(K)
<1>1. K \subseteq 1 .. Len(q) /\ DOMAIN q = 1 .. Len(q)
  BY DEF KeptBy
<1>2. IsFiniteSet(K)
  BY <1>1, FS_Interval, FS_Subset
<1> HIDE DEF K
<1>3. /\ n \in Nat
      /\ \A j \in 1 .. n : \E k \in K : Cardinality(UpTo(K, k)) = j
      /\ \A k \in K : Cardinality(UpTo(K, k)) \in 1 .. n
      /\ \A k, l \in K : Cardinality(UpTo(K, k)) = Cardinality(UpTo(K, l)) => k = l
  <2>1. K \subseteq Nat
    BY <1>1
  <2> QED
    BY <1>2, <2>1, Enumerated
<1> HIDE DEF n
<1>4. \A j \in 1 .. n : Nth(K, j) \in K /\ Cardinality(UpTo(K, Nth(K, j))) = j
  BY <1>3 DEF Nth
<1>5. ErasedFrom(q, c) = [j \in 1 .. n |-> q[Nth(K, j)]]
  BY ErasedIs DEF K, n
<1>6. \A j \in 1 .. n : q[Nth(K, j)] \in S
  <2>1. \A k \in 1 .. Len(q) : q[k] \in S
    OBVIOUS
  <2> QED
    BY <1>1, <1>4, <2>1
<1>7. ErasedFrom(q, c) \in Seq(S) /\ DOMAIN ErasedFrom(q, c) = 1 .. n
  BY <1>3, <1>5, <1>6
<1>8. \A i, j \in 1 .. n : Nth(K, i) = Nth(K, j) => i = j
  BY <1>4
<1>9. ASSUME NEW k \in K PROVE \E j \in 1 .. n : ErasedFrom(q, c)[j] = q[k]
  <2> DEFINE j == Cardinality(UpTo(K, k))
  <2>1. j \in 1 .. n /\ Nth(K, j) = k
    BY <1>3, <1>4
  <2> QED
    BY <1>5, <2>1
<1> QED
  BY <1>4, <1>5, <1>7, <1>8, <1>9 DEF K

(* Where only one handler has the address, it is erased.                   *)
LEMMA ErasedOne ==
  ASSUME NEW S, NEW q \in Seq(S), NEW c,
         \A i, j \in DOMAIN q : SamePeer(q[i], c) /\ SamePeer(q[j], c) => i = j
  PROVE  \A k \in KeptBy(q, c) : ~SamePeer(q[k], c)
<1> DEFINE Def(f) == [k \in 0 .. Len(q) |-> k > 1 /\ SamePeer(q[k - 1], c) /\ ~f[k - 1]]
           behind == [k \in 0 .. Len(q) |-> k > 1 /\ SamePeer(q[k - 1], c)]
<1>1. SkippedBy(q, c) = CHOOSE f : f = Def(f)
  BY DEF SkippedBy
<1>2. behind = Def(behind)
  <2>1. ASSUME NEW k \in 0 .. Len(q), k > 1, SamePeer(q[k - 1], c) PROVE ~behind[k - 1]
    <3>1. k - 1 \in DOMAIN q /\ k - 1 \in 0 .. Len(q)
      BY <2>1
    <3>2. ~(k - 1 > 1 /\ SamePeer(q[k - 1 - 1], c))
      <4>1. ASSUME k - 1 > 1, SamePeer(q[k - 1 - 1], c) PROVE FALSE
        <5>1. k - 1 - 1 \in DOMAIN q /\ k - 1 - 1 # k - 1
          BY <2>1, <4>1
        <5> QED
          BY <2>1, <3>1, <4>1, <5>1
      <4> QED
        BY <4>1
    <3> QED
      BY <3>1, <3>2
  <2> QED
    BY <2>1
<1>3. SkippedBy(q, c) = Def(SkippedBy(q, c))
  <2> HIDE DEF Def, behind
  <2> QED
    BY <1>1, <1>2
<1>4. ASSUME NEW k \in KeptBy(q, c), SamePeer(q[k], c) PROVE FALSE
  <2>1. k \in DOMAIN q /\ SkippedBy(q, c)[k]
    BY <1>4 DEF KeptBy
  <2>2. k \in 0 .. Len(q)
    BY <2>1
  <2>3. k > 1 /\ SamePeer(q[k - 1], c)
    BY <1>3, <2>1, <2>2
  <2>4. k - 1 \in DOMAIN q /\ k - 1 # k
    BY <2>2, <2>3
  <2> QED
    BY <1>4, <2>1, <2>3, <2>4
<1> QED
  BY <1>4

-----------------------------------------------------------------------------
(* The parts of TypeOK, and what they rest on: only a handler that was     *)
(* made has threads, stands in conns, and is deleted by its reactor.       *)

T2Places == {"none", "loop", "kick", "stage", "send", "over", "threw"} \cup Deleting
Holding == {"send"} \cup Deleting

Objects ==
  /\ origin \in Origins
  /\ sock \in [Conns -> {"none", "up", "eof", "reset", "shut"}]
  /\ handler \in [Conns -> {"none", "live", "freed"}]
  /\ \A c \in Conns : Made(c) <=> sock[c] # "none"
  /\ conns \in Seq(Conns)
  /\ \A k \in DOMAIN conns : Made(conns[k])
  /\ \A i, j \in DOMAIN conns : conns[i] = conns[j] => i = j
Flags ==
  /\ _isRun \in [Conns -> BOOLEAN]
  /\ isLocalThreadRun \in [Conns -> BOOLEAN]
Threads ==
  /\ t1 \in [Conns -> {"none", "run", "over"}]
  /\ t2 \in [Conns -> T2Places]
  /\ stageMutex \in Conns \cup {None}
  /\ \A c \in Conns : t2[c] \in Holding <=> stageMutex = c
  /\ \A c \in Conns : ~Made(c) => t1[c] = "none" /\ t2[c] = "none"
Steps == {"serve", "wait1", "wait2", "erase", "join"}
Reactors ==
  /\ reactor \in [Ports -> [of : Conns \cup {None}, at : Steps]]
  /\ \A p \in Ports :
       \/ reactor[p] = Serving
       \/ /\ reactor[p].at \in Steps \ {"serve"}
          /\ reactor[p].of \in Conns /\ origin[reactor[p].of].port = p
          /\ Made(reactor[p].of)
Rest ==
  /\ matrixNoFits \in BOOLEAN
  /\ alive \in BOOLEAN

Types == Objects /\ Flags /\ Threads /\ Reactors /\ Rest

LEMMA TypesAreOK == Types => TypeOK
<1> SUFFICES ASSUME Types PROVE TypeOK
  OBVIOUS
<1>1. conns \in Seq({c \in Conns : Made(c)})
  <2> DEFINE S == {c \in Conns : Made(c)}
  <2>1. conns \in Seq(Conns) /\ \A k \in 1 .. Len(conns) : conns[k] \in S
    BY DEF Types, Objects
  <2> HIDE DEF S
  <2>2. conns \in [1 .. Len(conns) -> S] /\ Len(conns) \in Nat
    BY <2>1
  <2>3. conns \in Seq(S)
    BY <2>2
  <2> QED
    BY <2>3 DEF S
<1>2. ASSUME NEW c \in Conns
      PROVE  Cardinality({k \in DOMAIN conns : conns[k] = c}) <= 1
  <2> DEFINE K == {k \in DOMAIN conns : conns[k] = c}
  <2>1. K = {} \/ \E k : K = {k}
    BY DEF Types, Objects
  <2>2. Cardinality({}) = 0 /\ \A k : Cardinality({k}) = 1
    BY FS_EmptySet, FS_Singleton, Zenon
  <2> HIDE DEF K
  <2>3. Cardinality(K) = 0 \/ Cardinality(K) = 1
    BY <2>1, <2>2, Zenon
  <2> QED
    BY <2>3 DEF K
<1> QED
  BY <1>1, <1>2 DEF Types, Objects, Flags, Threads, Reactors, Rest, Steps, TypeOK, T2Places, Holding

LEMMA OriginOf ==
  ASSUME Objects
  PROVE  origin \in [Conns -> [port : Ports, peer : Addresses]]
  BY ServerConnAssumption DEF Objects

(* The objects: a socket of a handler that was made changes, or a handler  *)
(* is freed and erased.                                                    *)
LEMMA SockChanges ==
  ASSUME Objects, NEW c \in Conns, Made(c), NEW v \in {"up", "eof", "reset", "shut"},
         sock' = [sock EXCEPT ![c] = v], UNCHANGED <<origin, handler, conns>>
  PROVE  Objects'
<1>1. \A d \in Conns : Made(d)' <=> Made(d)
  BY DEF Made
<1> QED
  BY <1>1 DEF Objects, Made

LEMMA Freed ==
  ASSUME Objects, NEW c \in Conns, Made(c), handler' = [handler EXCEPT ![c] = "freed"],
         conns' = ErasedFrom(conns, c), UNCHANGED <<origin, sock>>
  PROVE  Objects' /\ \A d \in Conns : Made(d)' <=> Made(d)
<1>1. handler' \in [Conns -> {"none", "live", "freed"}]
  BY DEF Objects
<1>2. \A d \in Conns : Made(d)' <=> Made(d)
  BY DEF Objects, Made
<1> DEFINE K == KeptBy(conns, c)
<1>3. conns \in Seq(Conns)
  BY DEF Objects
<1>4. /\ conns' \in Seq(Conns)
      /\ \A j \in DOMAIN conns' : Nth(K, j) \in K /\ conns'[j] = conns[Nth(K, j)]
      /\ \A i, j \in DOMAIN conns' : Nth(K, i) = Nth(K, j) => i = j
  BY <1>3, Erased
<1>5. K \subseteq DOMAIN conns
  BY DEF KeptBy
<1> HIDE DEF K
<1>6. \A j \in DOMAIN conns' : Made(conns'[j])
  BY <1>4, <1>5 DEF Objects
<1>7. \A j \in DOMAIN conns' : Made(conns[j])'
  <2>1. \A j \in DOMAIN conns' : conns'[j] \in Conns
    BY <1>4
  <2>2. \A d \in Conns : Made(d) => handler'[d] # "none"
    BY <1>2 DEF Made
  <2> QED
    BY <1>6, <2>1, <2>2 DEF Made
<1>8. \A i, j \in DOMAIN conns' : conns'[i] = conns'[j] => i = j
  BY <1>4, <1>5 DEF Objects
<1> QED
  BY <1>1, <1>2, <1>4, <1>7, <1>8 DEF Objects

LEMMA SameObjects ==
  ASSUME Objects, UNCHANGED <<origin, sock, handler, conns>>
  PROVE  Objects' /\ \A d \in Conns : Made(d)' <=> Made(d)
  BY DEF Objects, Made

LEMMA AcceptObjects ==
  ASSUME Objects, NEW c \in Conns, Accept(c)
  PROVE  Objects' /\ Made(c)' /\ \A d \in Conns \ {c} : Made(d)' <=> Made(d)
<1>1. /\ ~Made(c) /\ sock' = [sock EXCEPT ![c] = "up"]
      /\ handler' = [handler EXCEPT ![c] = "live"] /\ conns' = Append(conns, c)
      /\ UNCHANGED origin
  BY DEF Accept, fixed
<1>2. /\ sock' \in [Conns -> {"none", "up", "eof", "reset", "shut"}]
      /\ handler' \in [Conns -> {"none", "live", "freed"}]
      /\ sock'[c] = "up" /\ handler'[c] = "live"
      /\ \A d \in Conns \ {c} : sock'[d] = sock[d] /\ handler'[d] = handler[d]
  BY <1>1 DEF Objects
<1>3. Made(c)' /\ \A d \in Conns \ {c} : Made(d)' <=> Made(d)
  BY <1>2 DEF Made
<1>4. \A d \in Conns : Made(d)' <=> sock'[d] # "none"
  BY <1>2, <1>3 DEF Objects
<1>5. /\ conns' \in Seq(Conns) /\ Len(conns') = Len(conns) + 1
      /\ \A k \in 1 .. Len(conns) : conns'[k] = conns[k] /\ conns[k] \in Conns
      /\ conns'[Len(conns) + 1] = c
  BY <1>1 DEF Objects
<1>6. \A k \in 1 .. Len(conns) : conns[k] # c
  BY <1>1 DEF Objects
<1>7. DOMAIN conns' = 1 .. Len(conns) + 1 /\ DOMAIN conns = 1 .. Len(conns) /\ Len(conns) \in Nat
  BY <1>5 DEF Objects
<1>8. ASSUME NEW i \in DOMAIN conns', NEW j \in DOMAIN conns', conns'[i] = conns'[j]
      PROVE  i = j
  <2>1. i \in 1 .. Len(conns) \/ i = Len(conns) + 1
    BY <1>7
  <2>2. j \in 1 .. Len(conns) \/ j = Len(conns) + 1
    BY <1>7
  <2> QED
    BY <1>5, <1>6, <1>7, <1>8, <2>1, <2>2 DEF Objects
<1>9. \A k \in DOMAIN conns' : Made(conns[k])'
  <2> SUFFICES ASSUME NEW k \in 1 .. Len(conns) + 1 PROVE handler'[conns'[k]] # "none"
    BY <1>7 DEF Made
  <2>1. CASE k = Len(conns) + 1
    BY <1>2, <1>5, <2>1
  <2>2. CASE k \in 1 .. Len(conns)
    BY <1>2, <1>5, <1>6, <1>7, <2>2 DEF Objects, Made
  <2> QED
    BY <1>7, <2>1, <2>2
<1> QED
  BY <1>1, <1>2, <1>3, <1>4, <1>5, <1>8, <1>9 DEF Objects

(* The threads.                                                            *)
LEMMA T2Goes ==
  ASSUME Threads, NEW c \in Conns, Made(c), NEW place \in T2Places, T2Is(c, place),
         UNCHANGED t1, \A d \in Conns : Made(d)' <=> Made(d),
         stageMutex' \in Conns \cup {None}, place \in Holding <=> stageMutex' = c,
         \A d \in Conns \ {c} : stageMutex' = d <=> stageMutex = d
  PROVE  Threads'
<1>1. /\ t2' \in [Conns -> T2Places] /\ t2'[c] = place
      /\ \A d \in Conns \ {c} : t2'[d] = t2[d]
  BY DEF Threads, T2Is
<1>2. \A d \in Conns : t2'[d] \in Holding <=> stageMutex' = d
  BY <1>1 DEF Threads
<1>3. \A d \in Conns : ~Made(d)' => t1'[d] = "none" /\ t2'[d] = "none"
  BY <1>1 DEF Threads
<1> QED
  BY <1>1, <1>2, <1>3 DEF Threads

LEMMA T2GoesOn ==
  ASSUME Threads, NEW c \in Conns, t2[c] # "none", NEW place \in T2Places, T2Is(c, place),
         UNCHANGED <<t1, stageMutex>>, \A d \in Conns : Made(d)' <=> Made(d),
         place \in Holding <=> t2[c] \in Holding
  PROVE  Threads'
<1>1. Made(c) /\ (place \in Holding <=> stageMutex = c)
  BY DEF Threads
<1> QED
  BY <1>1, T2Goes DEF Threads

LEMMA SameThreads ==
  ASSUME Threads, UNCHANGED <<t1, t2, stageMutex>>, \A d \in Conns : Made(d)' <=> Made(d)
  PROVE  Threads'
  BY DEF Threads

LEMMA FlagsFall ==
  ASSUME Flags, NEW c \in Conns, StopBusiness(c)
  PROVE  Flags' /\ ~isLocalThreadRun'[c]
                /\ \A d \in Conns \ {c} : isLocalThreadRun'[d] = isLocalThreadRun[d]
<1>1. /\ _isRun' = [_isRun EXCEPT ![c] = FALSE]
      /\ isLocalThreadRun' = [isLocalThreadRun EXCEPT ![c] = FALSE]
  BY DEF StopBusiness
<1>2. FALSE \in BOOLEAN
  OBVIOUS
<1>3. _isRun' \in [Conns -> BOOLEAN]
  BY <1>1, <1>2, Zenon DEF Flags
<1>4. isLocalThreadRun' \in [Conns -> BOOLEAN]
  BY <1>1, <1>2, Zenon DEF Flags
<1>5. /\ ~isLocalThreadRun'[c]
      /\ \A d \in Conns \ {c} : isLocalThreadRun'[d] = isLocalThreadRun[d]
  BY <1>1 DEF Flags
<1> QED
  BY <1>3, <1>4, <1>5 DEF Flags

(* The reactors.                                                           *)
LEMMA ReactorGoes ==
  ASSUME Reactors, NEW p \in Ports, NEW c \in Conns, NEW place \in Steps \ {"serve"},
         origin[c].port = p, Made(c), reactor' = [reactor EXCEPT ![p] = [of |-> c, at |-> place]],
         UNCHANGED origin, \A d \in Conns : Made(d) => Made(d)'
  PROVE  Reactors'
<1> DEFINE turn == [of |-> c, at |-> place]
<1>1. turn \in [of : Conns \cup {None}, at : Steps] /\ turn.of = c /\ turn.at = place
  OBVIOUS
<1> HIDE DEF turn
<1>2. /\ reactor' \in [Ports -> [of : Conns \cup {None}, at : Steps]]
      /\ reactor'[p] = turn /\ \A q \in Ports \ {p} : reactor'[q] = reactor[q]
  BY <1>1 DEF Reactors, turn
<1> QED
  BY <1>1, <1>2 DEF Reactors

LEMMA ReactorServes ==
  ASSUME Reactors, NEW p \in Ports, reactor' = [reactor EXCEPT ![p] = Serving],
         UNCHANGED origin, \A d \in Conns : Made(d) => Made(d)'
  PROVE  Reactors'
<1>1. Serving \in [of : Conns \cup {None}, at : Steps]
  BY DEF Serving, Steps
<1>2. /\ reactor' \in [Ports -> [of : Conns \cup {None}, at : Steps]]
      /\ reactor'[p] = Serving /\ \A q \in Ports \ {p} : reactor'[q] = reactor[q]
  BY <1>1 DEF Reactors
<1> QED
  BY <1>2 DEF Reactors

LEMMA SameReactors ==
  ASSUME Reactors, UNCHANGED <<origin, reactor>>, \A d \in Conns : Made(d) => Made(d)'
  PROVE  Reactors'
  BY DEF Reactors

LEMMA Deletes ==
  ASSUME Reactors, NEW p \in Ports, NEW c \in Conns, NEW place \in Steps, NEW next,
         ReactorIs(p, c, place, next)
  PROVE  /\ reactor[p].of = c /\ reactor[p].at = place /\ reactor[p] # Serving
         /\ origin[c].port = p /\ Made(c) /\ reactor' = [reactor EXCEPT ![p] = next]
<1>1. reactor[p].of = c /\ reactor[p].at = place /\ reactor' = [reactor EXCEPT ![p] = next]
  BY DEF ReactorIs
<1>2. reactor[p] # Serving
  BY <1>1, ServerConnAssumption DEF Serving
<1> QED
  BY <1>1, <1>2 DEF Reactors

LEMMA WalkKeeps ==
  ASSUME Rest, NEW q, Walk(q), UNCHANGED matrixNoFits
  PROVE  Rest'
<1>1. alive' \in BOOLEAN
  BY Zenon DEF Walk
<1> QED
  BY <1>1 DEF Rest

LEMMA FallKeeps == ASSUME Rest, alive' = FALSE, UNCHANGED matrixNoFits PROVE Rest'
<1>1. alive' \in BOOLEAN
  BY Zenon
<1> QED
  BY <1>1 DEF Rest

-----------------------------------------------------------------------------
LEMMA AcceptTypes ==
  ASSUME Types, NEW c \in Conns, Accept(c)
  PROVE  Types'
<1>1. Objects' /\ Made(c)' /\ \A d \in Conns \ {c} : Made(d)' <=> Made(d)
  BY AcceptObjects DEF Types
<1>2. ~Made(c) /\ UNCHANGED <<origin, matrixNoFits, stageMutex, reactor, alive>>
  BY DEF Accept, fixed
<1>3. Flags'
  <2>1. TRUE \in BOOLEAN
    OBVIOUS
  <2>2. /\ _isRun' = [_isRun EXCEPT ![c] = TRUE]
        /\ isLocalThreadRun' = [isLocalThreadRun EXCEPT ![c] = TRUE]
    BY DEF Accept
  <2>3. _isRun' \in [Conns -> BOOLEAN]
    BY <2>1, <2>2, Zenon DEF Types, Flags
  <2>4. isLocalThreadRun' \in [Conns -> BOOLEAN]
    BY <2>1, <2>2, Zenon DEF Types, Flags
  <2> QED
    BY <2>3, <2>4 DEF Flags
<1>4. Threads'
  <2>1. t1' = [t1 EXCEPT ![c] = "run"] /\ t2' = [t2 EXCEPT ![c] = "loop"]
    BY DEF Accept, T2Is
  <2>2. /\ t1' \in [Conns -> {"none", "run", "over"}] /\ t2' \in [Conns -> T2Places]
        /\ t2'[c] = "loop" /\ \A d \in Conns \ {c} : t1'[d] = t1[d] /\ t2'[d] = t2[d]
    BY <2>1 DEF Types, Threads, T2Places
  <2>3. stageMutex # c
    BY <1>2 DEF Types, Threads, Holding, Deleting
  <2>4. \A d \in Conns : t2'[d] \in Holding <=> stageMutex' = d
    BY <1>2, <2>2, <2>3 DEF Types, Threads, Holding, Deleting
  <2>5. \A d \in Conns : ~Made(d)' => t1'[d] = "none" /\ t2'[d] = "none"
    BY <1>1, <2>2 DEF Types, Threads
  <2> QED
    BY <1>2, <2>2, <2>4, <2>5 DEF Types, Threads
<1>5. Reactors'
  BY <1>1, <1>2, SameReactors DEF Types
<1> QED
  BY <1>1, <1>2, <1>3, <1>4, <1>5 DEF Types, Rest

LEMMA NetTypes ==
  ASSUME Types, NEW c \in Conns, DeviceCloses(c)
  PROVE  Types'
<1>1. Made(c) /\ UNCHANGED <<objVars, t1, t2, stageMutex, reactor, alive, fixed>>
  BY DEF DeviceCloses, Types, Objects
<1>2. Objects'
  BY <1>1, SockChanges DEF DeviceCloses, Types, objVars, fixed
<1>3. \A d \in Conns : Made(d)' <=> Made(d)
  BY <1>1 DEF Made, objVars
<1> QED
  BY <1>1, <1>2, <1>3, SameThreads, SameReactors DEF Types, Flags, Rest, objVars, fixed

LEMMA OnReadableTypes ==
  ASSUME Types, NEW c \in Conns, OnReadable(c)
  PROVE  Types'
<1> DEFINE p == origin[c].port
           place == IF isLocalThreadRun[c] THEN "wait1" ELSE "erase"
<1>1. p \in Ports /\ Made(c)
  BY OriginOf DEF OnReadable, Types, Made
<1>2. UNCHANGED <<sock, handler, conns, t1, t2, stageMutex, alive, fixed>>
  BY DEF OnReadable
<1>3. Objects' /\ \A d \in Conns : Made(d)' <=> Made(d)
  BY <1>2, SameObjects DEF Types, fixed
<1>4. Flags'
  BY FlagsFall DEF OnReadable, Types
<1>5. Reactors'
  <2>1. reactor' = [reactor EXCEPT ![p] = [of |-> c, at |-> place]]
    BY DEF OnReadable
  <2>2. place \in Steps \ {"serve"}
    BY DEF Steps
  <2> HIDE DEF place
  <2> QED
    BY <1>1, <1>2, <1>3, <2>1, <2>2, ReactorGoes DEF Types, fixed
<1> QED
  BY <1>2, <1>3, <1>4, <1>5, SameThreads DEF Types, Rest, fixed

LEMMA ReactorTypes ==
  ASSUME Types, NEW p \in Ports, Reactor(p)
  PROVE  Types'
<1>1. PICK c \in Conns : WaitT1(p, c) \/ WaitT2(p, c) \/ Destroy(p, c) \/ Join(p, c)
  BY DEF Reactor
<1>2. CASE WaitT1(p, c) \/ WaitT2(p, c)
  <2>1. /\ UNCHANGED <<sock, objVars, t1, t2, stageMutex, alive, fixed>>
        /\ \/ ReactorIs(p, c, "wait1", [of |-> c, at |-> "wait2"])
           \/ ReactorIs(p, c, "wait2", [of |-> c, at |-> "erase"])
    BY <1>2 DEF WaitT1, WaitT2
  <2>2. Objects' /\ \A d \in Conns : Made(d)' <=> Made(d)
    BY <2>1, SameObjects DEF Types, objVars, fixed
  <2>3. Reactors'
    BY <2>1, <2>2, Deletes, ReactorGoes DEF Types, Steps, fixed
  <2> QED
    BY <2>1, <2>2, <2>3, SameThreads DEF Types, Flags, Rest, objVars, fixed
<1>3. CASE Destroy(p, c)
  <2>1. /\ ReactorIs(p, c, "erase", [of |-> c, at |-> "join"])
        /\ UNCHANGED <<sock, _isRun, isLocalThreadRun, t1, t2, stageMutex, fixed>>
    BY <1>3 DEF Destroy
  <2>2. Made(c) /\ origin[c].port = p
    BY <2>1, Deletes DEF Types, Steps
  <2>3. Objects' /\ \A d \in Conns : Made(d)' <=> Made(d)
    BY <1>3, <2>2, Freed DEF Destroy, Types, fixed
  <2>4. Reactors'
    BY <2>1, <2>2, <2>3, Deletes, ReactorGoes DEF Types, Steps, fixed
  <2>5. Rest'
    BY <1>3, WalkKeeps DEF Destroy, Types, fixed
  <2> QED
    BY <2>1, <2>3, <2>4, <2>5, SameThreads DEF Types, Flags
<1>4. CASE Join(p, c)
  <2>1. /\ ReactorIs(p, c, "join", Serving) /\ sock' = [sock EXCEPT ![c] = "shut"]
        /\ UNCHANGED <<objVars, t1, t2, stageMutex, alive, fixed>>
    BY <1>4 DEF Join
  <2>2. Made(c)
    BY <2>1, Deletes DEF Types, Steps
  <2>3. Objects'
    BY <2>1, <2>2, SockChanges DEF Types, objVars, fixed
  <2>4. \A d \in Conns : Made(d)' <=> Made(d)
    BY <2>1 DEF Made, objVars
  <2>5. Reactors'
    BY <2>1, <2>4, Deletes, ReactorServes DEF Types, Steps, fixed
  <2> QED
    BY <2>1, <2>3, <2>4, <2>5, SameThreads DEF Types, Flags, Rest, objVars, fixed
<1> QED
  BY <1>1, <1>2, <1>3, <1>4

(* Steps of the threads of a connection that change no object.             *)
LEMMA ThreadTypes ==
  ASSUME Types, NEW c \in Conns,
         T1Ends(c) \/ TakePacket(c) \/ T2Ends(c) \/ StageLock(c) \/ SendReturns(c) \/ DeleteWait(c)
  PROVE  Types'
<1>1. UNCHANGED <<sock, objVars, reactor, alive, fixed>>
  BY DEF T1Ends, TakePacket, T2Ends, StageLock, SendReturns, DeleteWait
<1>2. Objects' /\ \A d \in Conns : Made(d)' <=> Made(d)
  BY <1>1, SameObjects DEF Types, objVars, fixed
<1>3. Flags' /\ Reactors' /\ Rest'
  BY <1>1, <1>2, SameReactors DEF Types, Flags, Rest, objVars, fixed
<1>4. c # None
  BY ServerConnAssumption
<1> USE DEF Holding, Deleting, T2Places
<1>5. CASE T1Ends(c)
  <2>1. t1' = [t1 EXCEPT ![c] = "over"] /\ t1[c] = "run" /\ UNCHANGED <<t2, stageMutex>>
    BY <1>5 DEF T1Ends
  <2>2. /\ t1' \in [Conns -> {"none", "run", "over"}]
        /\ \A d \in Conns \ {c} : t1'[d] = t1[d]
    BY <2>1 DEF Types, Threads
  <2>3. Threads'
    BY <1>2, <2>1, <2>2 DEF Types, Threads
  <2> QED
    BY <1>2, <1>3, <2>3 DEF Types
<1>6. CASE TakePacket(c)
  <2>1. /\ t2[c] = "loop" /\ (T2Is(c, "kick") \/ T2Is(c, "stage"))
        /\ UNCHANGED <<t1, stageMutex>>
    BY <1>6 DEF TakePacket
  <2>2. Threads'
    BY <1>2, <2>1, T2GoesOn DEF Types
  <2> QED
    BY <1>2, <1>3, <2>2 DEF Types
<1>7. CASE T2Ends(c)
  <2>1. t2[c] = "loop" /\ T2Is(c, "over") /\ UNCHANGED <<t1, stageMutex>>
    BY <1>7 DEF T2Ends
  <2>2. Threads'
    BY <1>2, <2>1, T2GoesOn DEF Types
  <2> QED
    BY <1>2, <1>3, <2>2 DEF Types
<1>8. CASE StageLock(c)
  <2>1. t2[c] = "stage" /\ stageMutex = None /\ UNCHANGED t1 /\ Made(c)
    BY <1>8 DEF StageLock, StageIsFree, Types, Threads
  <2>2. CASE matrixNoFits
    <3>1. T2Is(c, "send") /\ stageMutex' = c
      BY <1>8, <2>2 DEF StageLock
    <3>2. \A d \in Conns \ {c} : stageMutex' = d <=> stageMutex = d
      BY <2>1, <3>1, ServerConnAssumption
    <3>3. Threads'
      BY <1>2, <2>1, <3>1, <3>2, T2Goes DEF Types
    <3> QED
      BY <1>2, <1>3, <3>3 DEF Types
  <2>3. CASE ~matrixNoFits
    <3>1. T2Is(c, "threw") /\ UNCHANGED stageMutex
      BY <1>8, <2>3 DEF StageLock
    <3>2. Threads'
      BY <1>2, <2>1, <3>1, T2GoesOn DEF Types
    <3> QED
      BY <1>2, <1>3, <3>2 DEF Types
  <2> QED
    BY <2>2, <2>3
<1>9. CASE SendReturns(c)
  <2>1. /\ t2[c] = "send" /\ T2Is(c, "loop") /\ stageMutex' = None /\ UNCHANGED t1 /\ Made(c)
        /\ stageMutex = c
    BY <1>9 DEF SendReturns, Types, Threads
  <2>2. \A d \in Conns \ {c} : stageMutex' = d <=> stageMutex = d
    BY <2>1, ServerConnAssumption
  <2>3. Threads'
    BY <1>2, <1>4, <2>1, <2>2, T2Goes DEF Types
  <2> QED
    BY <1>2, <1>3, <2>3 DEF Types
<1>10. CASE DeleteWait(c)
  <2>1. t2[c] = "deleteWait" /\ T2Is(c, "delete") /\ UNCHANGED <<t1, stageMutex>>
    BY <1>10 DEF DeleteWait
  <2>2. Threads'
    BY <1>2, <2>1, T2GoesOn DEF Types
  <2> QED
    BY <1>2, <1>3, <2>2 DEF Types
<1> QED
  BY <1>5, <1>6, <1>7, <1>8, <1>9, <1>10

LEMMA SendFailsTypes ==
  ASSUME Types, NEW c \in Conns, SendFails(c)
  PROVE  Types'
<1>1. UNCHANGED <<sock, handler, conns, t1, stageMutex, reactor, alive, fixed>>
  BY DEF SendFails
<1>2. Objects' /\ \A d \in Conns : Made(d)' <=> Made(d)
  BY <1>1, SameObjects DEF Types, fixed
<1>3. Flags'
  BY FlagsFall DEF SendFails, Types
<1>4. t2[c] = "send" /\ (T2Is(c, "deleteWait") \/ T2Is(c, "delete"))
  BY DEF SendFails
<1>5. Threads'
  BY <1>1, <1>2, <1>4, T2GoesOn DEF Types, T2Places, Holding, Deleting
<1> QED
  BY <1>1, <1>2, <1>3, <1>5, SameReactors DEF Types, Rest, fixed

(* What a walk of deleteFromConns does to a connection's socket.           *)
LEMMA KickDoes ==
  ASSUME Types, NEW c \in Conns, Kick(c)
  PROVE  /\ sock' \in [Conns -> {"none", "up", "eof", "reset", "shut"}]
         /\ \A d \in Conns : sock'[d] = sock[d] \/ (Made(d) /\ sock'[d] = "shut")
         /\ T2Is(c, "loop") \/ T2Is(c, "threw")
         /\ T2Is(c, "threw") =>
              \E k \in Matches(c) : sock[conns[k]] \in {"reset", "shut"}
<1>1. PICK k \in Matches(c) \cup {None} :
        LET before == {j \in Matches(c) : k = None \/ j < k} IN
        /\ k # None => TRUE \in ShutThrows(conns[k])
        /\ \A j \in before : FALSE \in ShutThrows(conns[j])
        /\ sock' = [d \in Conns |->
                      IF \E j \in before : conns[j] = d THEN "shut" ELSE sock[d]]
        /\ T2Is(c, IF k = None THEN "loop" ELSE "threw")
  BY DEF Kick
<1> DEFINE before == {j \in Matches(c) : k = None \/ j < k}
<1>2. \A j \in before : Made(conns[j])
  BY DEF Matches, Types, Objects
<1>3. sock' = [d \in Conns |-> IF \E j \in before : conns[j] = d THEN "shut" ELSE sock[d]]
  BY <1>1
<1> HIDE DEF before
<1>4. \A d \in Conns : sock'[d] = sock[d] \/ (Made(d) /\ sock'[d] = "shut")
  BY <1>2, <1>3
<1>5. sock' \in [Conns -> {"none", "up", "eof", "reset", "shut"}]
  BY <1>3 DEF Types, Objects
<1>6. T2Is(c, "loop") \/ T2Is(c, "threw")
  BY <1>1
<1>7. CASE k = None
  <2>1. T2Is(c, "loop")
    BY <1>1, <1>7
  <2>2. ~T2Is(c, "threw")
    <3>1. t2 \in [Conns -> T2Places]
      BY DEF Types, Threads
    <3> QED
      BY <2>1, <3>1 DEF T2Is
  <2> QED
    BY <1>4, <1>5, <1>6, <2>2
<1>8. CASE k # None
  <2>1. k \in Matches(c) /\ TRUE \in ShutThrows(conns[k])
    BY <1>1, <1>8
  <2>2. sock[conns[k]] \in {"reset", "shut"}
    BY <2>1 DEF ShutThrows
  <2> QED
    BY <1>4, <1>5, <1>6, <2>1, <2>2
<1> QED
  BY <1>7, <1>8

LEMMA KickTypes ==
  ASSUME Types, NEW c \in Conns, Kick(c)
  PROVE  Types'
<1>1. UNCHANGED <<objVars, t1, stageMutex, reactor, fixed>> /\ t2[c] = "kick" /\ Walk(conns)
  BY DEF Kick
<1>2. \A d \in Conns : Made(d)' <=> Made(d)
  BY <1>1 DEF Made, objVars
<1>3. Objects'
  <2>1. /\ sock' \in [Conns -> {"none", "up", "eof", "reset", "shut"}]
        /\ \A d \in Conns : sock'[d] = sock[d] \/ (Made(d) /\ sock'[d] = "shut")
    BY KickDoes
  <2>2. \A d \in Conns : Made(d)' <=> sock'[d] # "none"
    BY <1>2, <2>1 DEF Types, Objects
  <2>3. UNCHANGED <<origin, handler, conns>>
    BY <1>1 DEF objVars, fixed
  <2> QED
    BY <2>1, <2>2, <2>3 DEF Types, Objects, Made
<1>4. Threads'
  BY <1>1, <1>2, KickDoes, T2GoesOn DEF Types, T2Places, Holding, Deleting
<1>5. Rest'
  BY <1>1, WalkKeeps DEF Types, fixed
<1> QED
  BY <1>1, <1>2, <1>3, <1>4, <1>5, SameReactors DEF Types, Flags, objVars, fixed

LEMMA FallTypes ==
  ASSUME Types, NEW c \in Conns, DeleteThis(c) \/ Stray(c)
  PROVE  Types'
<1>1. CASE DeleteThis(c)
  <2>1. /\ t2[c] = "delete" /\ conns' = ErasedFrom(conns, c) /\ alive' = FALSE
        /\ handler' = [handler EXCEPT ![c] = "freed"]
        /\ UNCHANGED <<sock, _isRun, isLocalThreadRun, t1, t2, stageMutex, reactor, fixed>>
    BY <1>1 DEF DeleteThis
  <2>2. Made(c)
    BY <2>1 DEF Types, Threads
  <2>3. Objects' /\ \A d \in Conns : Made(d)' <=> Made(d)
    BY <2>1, <2>2, Freed DEF Types, fixed
  <2> QED
    BY <2>1, <2>3, SameThreads, SameReactors, FallKeeps DEF Types, Flags, fixed
<1>2. CASE Stray(c)
  <2>1. /\ alive' = FALSE
        /\ UNCHANGED <<sock, objVars, t1, t2, stageMutex, reactor, fixed>>
    BY <1>2 DEF Stray
  <2>2. Objects' /\ \A d \in Conns : Made(d)' <=> Made(d)
    BY <2>1, SameObjects DEF Types, objVars, fixed
  <2> QED
    BY <2>1, <2>2, SameThreads, SameReactors, FallKeeps DEF Types, Flags, objVars, fixed
<1> QED
  BY <1>1, <1>2

LEMMA IdleTypes ==
  ASSUME Types, UNCHANGED vars
  PROVE  Types'
<1>1. UNCHANGED <<sock, objVars, t1, t2, stageMutex, reactor, alive, fixed>>
  BY DEF vars
<1>2. Objects' /\ \A d \in Conns : Made(d)' <=> Made(d)
  BY <1>1, SameObjects DEF Types, objVars, fixed
<1> QED
  BY <1>1, <1>2, SameThreads, SameReactors DEF Types, Flags, Rest, objVars, fixed

LEMMA TypesStep ==
  ASSUME Types, [Next]_vars
  PROVE  Types'
  BY AcceptTypes, NetTypes, OnReadableTypes, ReactorTypes, ThreadTypes, SendFailsTypes,
     KickTypes, FallTypes, IdleTypes
     DEF Next, OnClosed, OnFull, ThreadProcessPkg, Fallen

LEMMA InitTypes == Init => Types
<1> SUFFICES ASSUME Init PROVE Types
  OBVIOUS
<1>1. \A c \in Conns : ~Made(c)
  BY DEF Init, Made
<1>2. Objects
  BY <1>1 DEF Init, Objects
<1>3. Flags
  <2>1. FALSE \in BOOLEAN
    OBVIOUS
  <2> QED
    BY <2>1, Zenon DEF Init, Flags
<1>4. Threads
  BY <1>1, ServerConnAssumption DEF Init, Threads, T2Places, Holding, Deleting
<1>5. Reactors
  BY DEF Init, Reactors, Serving, Steps
<1>6. Rest
  <2>1. alive \in BOOLEAN
    BY Zenon DEF Init
  <2> QED
    BY <2>1 DEF Init, Rest
<1> QED
  BY <1>2, <1>3, <1>4, <1>5, <1>6 DEF Types

LEMMA TypesCorrect == Spec => []Types
  BY InitTypes, TypesStep, PTL DEF Spec

(* Whatever the reactors and the threads do, the variables keep their      *)
(* types: conns names a handler once, and who holds the stage mutex is     *)
(* sending or deleting.                                                    *)
THEOREM TypeCorrect == Spec => []TypeOK
  BY TypesCorrect, TypesAreOK, PTL

-----------------------------------------------------------------------------
(* What every step keeps.                                                  *)

(* A connection keeps its port and its address, and once made is made.     *)
LEMMA StaysMade ==
  ASSUME Types, [Next]_vars
  PROVE  UNCHANGED <<origin, matrixNoFits>> /\ \A d \in Conns : Made(d) => Made(d)'
<1>1. UNCHANGED fixed
  BY DEF Next, DeviceCloses, Accept, OnClosed, OnFull, OnReadable, T1Ends, TakePacket, StageLock,
         Stray, Reactor, WaitT1, WaitT2, Destroy, Join, ThreadProcessPkg, T2Ends, Kick,
         SendReturns, SendFails, DeleteWait, DeleteThis, Fallen, vars
<1>2. \/ \E c \in Conns : handler' \in {[handler EXCEPT ![c] = "live"],
                                        [handler EXCEPT ![c] = "freed"]}
      \/ handler' = handler
  BY DEF Next, DeviceCloses, Accept, OnClosed, OnFull, OnReadable, T1Ends, TakePacket, StageLock,
         Stray, Reactor, WaitT1, WaitT2, Destroy, Join, ThreadProcessPkg, T2Ends, Kick,
         SendReturns, SendFails, DeleteWait, DeleteThis, Fallen, objVars, vars
<1>3. \A d \in Conns : Made(d) => Made(d)'
  BY <1>2 DEF Types, Objects, Made
<1> QED
  BY <1>1, <1>3 DEF fixed

LEMMA FallenStays ==
  ASSUME [Next]_vars, ~alive
  PROVE  UNCHANGED vars
  BY DEF Next, DeviceCloses, Accept, OnClosed, OnFull, OnReadable, T1Ends, TakePacket, StageLock,
         Stray, Reactor, ReactorIs, WaitT1, WaitT2, Destroy, Join, ThreadProcessPkg, T2Ends, Kick,
         SendReturns, SendFails, DeleteWait, DeleteThis, Fallen

(* Only one whose threads are over, or whose own thread deletes it.        *)
Finished(c) == \/ t1[c] = "over" /\ t2[c] \in T2Over
               \/ t2[c] \in Deleting

LEMMA StaysFinished ==
  ASSUME Types, [Next]_vars, NEW c \in Conns, Made(c)
  PROVE  /\ t1[c] = "over" => t1'[c] = "over"
         /\ t2[c] \in T2Over => t2'[c] = t2[c]
         /\ t2[c] \in Deleting => t2'[c] \in Deleting
<1>1. t1 \in [Conns -> {"none", "run", "over"}] /\ t2 \in [Conns -> T2Places]
  BY DEF Types, Threads
<1> USE DEF T2Over, Deleting
<1>2. ASSUME NEW d \in Conns, Accept(d)
      PROVE  t1'[c] = t1[c] /\ t2'[c] = t2[c]
  <2>1. c # d
    BY <1>2 DEF Accept
  <2> QED
    BY <1>1, <1>2, <2>1 DEF Accept, T2Is
<1>3. ASSUME NEW d \in Conns, T1Ends(d)
      PROVE  (t1[c] = "over" => t1'[c] = "over") /\ t2'[c] = t2[c]
  BY <1>1, <1>3 DEF T1Ends
<1>4. ASSUME NEW d \in Conns, NEW place, T2Is(d, place), UNCHANGED t1,
             \/ t2[d] \in {"loop", "kick", "stage", "send"}
             \/ t2[d] \in Deleting /\ place \in Deleting
      PROVE  /\ t1'[c] = t1[c] /\ (t2[c] \in T2Over => t2'[c] = t2[c])
             /\ t2[c] \in Deleting => t2'[c] \in Deleting
  BY <1>1, <1>4 DEF T2Is
<1>5. ASSUME NEW d \in Conns,
             \/ TakePacket(d) \/ T2Ends(d) \/ Kick(d) \/ StageLock(d)
             \/ SendReturns(d) \/ SendFails(d) \/ DeleteWait(d)
      PROVE  /\ t1'[c] = t1[c] /\ (t2[c] \in T2Over => t2'[c] = t2[c])
             /\ t2[c] \in Deleting => t2'[c] \in Deleting
  <2>1. CASE TakePacket(d)
    BY <1>4, <2>1 DEF TakePacket
  <2>2. CASE T2Ends(d)
    BY <1>4, <2>2 DEF T2Ends
  <2>3. CASE Kick(d)
    <3>1. t2[d] = "kick" /\ UNCHANGED t1 /\ (T2Is(d, "loop") \/ T2Is(d, "threw"))
      BY <2>3, KickDoes DEF Kick
    <3> QED
      BY <1>4, <3>1
  <2>4. CASE StageLock(d)
    BY <1>4, <2>4 DEF StageLock
  <2>5. CASE SendReturns(d)
    BY <1>4, <2>5 DEF SendReturns
  <2>6. CASE SendFails(d)
    BY <1>4, <2>6 DEF SendFails
  <2>7. CASE DeleteWait(d)
    BY <1>4, <2>7 DEF DeleteWait
  <2> QED
    BY <1>5, <2>1, <2>2, <2>3, <2>4, <2>5, <2>6, <2>7
<1>6. ASSUME NEW d \in Conns, DeviceCloses(d) \/ OnReadable(d) \/ DeleteThis(d) \/ Stray(d)
      PROVE  UNCHANGED <<t1, t2>>
  BY <1>6 DEF DeviceCloses, OnReadable, DeleteThis, Stray
<1>7. ASSUME NEW p \in Ports, Reactor(p) PROVE UNCHANGED <<t1, t2>>
  BY <1>7 DEF Reactor, WaitT1, WaitT2, Destroy, Join
<1>8. CASE UNCHANGED vars
  BY <1>8 DEF vars
<1> HIDE DEF T2Over, Deleting
<1> QED
  BY <1>2, <1>3, <1>5, <1>6, <1>7, <1>8 DEF Next, OnClosed, OnFull, ThreadProcessPkg, Fallen

LEMMA FinishedStays ==
  ASSUME Types, [Next]_vars, NEW c \in Conns, Made(c), Finished(c)
  PROVE  Finished(c)'
<1>1. /\ t1[c] = "over" => t1'[c] = "over"
      /\ t2[c] \in T2Over => t2'[c] = t2[c]
      /\ t2[c] \in Deleting => t2'[c] \in Deleting
  BY StaysFinished
<1> QED
  BY <1>1 DEF Finished

-----------------------------------------------------------------------------
(* Why an object is freed when its threads have ended: the reactor waits   *)
(* for them, and one that does not was told that they do not run by the    *)
(* thread that deletes the object itself.                                  *)
InReactor(c) == reactor[origin[c].port].of = c
Ends ==
  /\ \A p \in Ports : reactor[p].at = "wait2" => t1[reactor[p].of] = "over"
  /\ \A p \in Ports : reactor[p].at \in {"erase", "join"} => Finished(reactor[p].of)
  /\ \A p \in Ports : reactor[p].at = "join" => handler[reactor[p].of] = "freed"
  /\ \A c \in Conns : handler[c] = "freed" => Finished(c)
  /\ \A c \in Conns :
       handler[c] = "live" /\ ~isLocalThreadRun[c] => t2[c] \in Deleting \/ InReactor(c)

(* The thread-wise conjuncts hold on; reactor and handler stay.            *)
LEMMA EndsStays ==
  ASSUME Types, Ends, [Next]_vars, UNCHANGED <<reactor, handler>>,
         \A c \in Conns : isLocalThreadRun'[c] = isLocalThreadRun[c] \/ t2'[c] \in Deleting
  PROVE  Ends'
<1>1. \A c \in Conns :
        Made(c) => /\ t1[c] = "over" => t1'[c] = "over"
                   /\ Finished(c) => Finished(c)'
                   /\ t2[c] \in Deleting => t2'[c] \in Deleting
  BY StaysFinished, FinishedStays
<1>2. \A p \in Ports : reactor[p].at # "serve" => reactor[p].of \in Conns /\ Made(reactor[p].of)
  BY DEF Types, Reactors, Serving
<1>3. \A p \in Ports : reactor'[p].at = "wait2" => t1'[reactor'[p].of] = "over"
  BY <1>1, <1>2 DEF Ends
<1>4. ASSUME NEW p \in Ports, reactor'[p].at \in {"erase", "join"} PROVE Finished(reactor[p].of)'
  BY <1>1, <1>2, <1>4 DEF Ends
<1>5. \A c \in Conns : handler'[c] = "freed" => Finished(c)'
  BY <1>1 DEF Ends, Made
<1>6. \A c \in Conns : handler'[c] = "live" /\ ~isLocalThreadRun'[c]
                         => t2'[c] \in Deleting \/ InReactor(c)'
  BY <1>1, StaysMade DEF Ends, Made, InReactor
<1> QED
  BY <1>3, <1>4, <1>5, <1>6 DEF Ends

LEMMA EndsStep ==
  ASSUME Types, Ends, [Next]_vars
  PROVE  Ends'
<1> USE DEF Finished
<1>1. ASSUME NEW c \in Conns, Accept(c) PROVE Ends'
  <2>1. /\ ~Made(c) /\ UNCHANGED <<origin, reactor>>
        /\ handler' = [handler EXCEPT ![c] = "live"]
        /\ isLocalThreadRun' = [isLocalThreadRun EXCEPT ![c] = TRUE]
        /\ t1' = [t1 EXCEPT ![c] = "run"] /\ t2' = [t2 EXCEPT ![c] = "loop"]
    BY <1>1 DEF Accept, T2Is, fixed
  <2>2. /\ handler'[c] = "live" /\ isLocalThreadRun'[c]
        /\ \A d \in Conns \ {c} : /\ handler'[d] = handler[d] /\ t1'[d] = t1[d] /\ t2'[d] = t2[d]
                                  /\ isLocalThreadRun'[d] = isLocalThreadRun[d]
    BY <2>1 DEF Types, Objects, Flags, Threads
  <2>3. \A p \in Ports : reactor[p].at # "serve" => reactor[p].of \in Conns \ {c}
    BY <2>1 DEF Types, Reactors, Serving
  <2>4. \A p \in Ports : reactor'[p].at = "wait2" => t1'[reactor'[p].of] = "over"
    BY <2>1, <2>2, <2>3 DEF Ends
  <2>5. \A p \in Ports : reactor'[p].at \in {"erase", "join"} =>
                           \/ t1'[reactor'[p].of] = "over" /\ t2'[reactor'[p].of] \in T2Over
                           \/ t2'[reactor'[p].of] \in Deleting
    BY <2>1, <2>2, <2>3 DEF Ends
  <2>6. \A p \in Ports : reactor'[p].at = "join" => handler'[reactor'[p].of] = "freed"
    BY <2>1, <2>2, <2>3 DEF Ends
  <2>7. \A d \in Conns : handler'[d] = "freed" => \/ t1'[d] = "over" /\ t2'[d] \in T2Over
                                                  \/ t2'[d] \in Deleting
    BY <2>2 DEF Ends
  <2>8. \A d \in Conns : handler'[d] = "live" /\ ~isLocalThreadRun'[d]
                           => t2'[d] \in Deleting \/ InReactor(d)'
    BY <2>1, <2>2 DEF Ends, InReactor
  <2> QED
    BY <2>4, <2>5, <2>6, <2>7, <2>8 DEF Ends
<1>2. ASSUME NEW c \in Conns, OnReadable(c) PROVE Ends'
  <2> DEFINE p == origin[c].port
             place == IF isLocalThreadRun[c] THEN "wait1" ELSE "erase"
  <2>1. /\ p \in Ports /\ reactor[p] = Serving /\ handler[c] = "live"
        /\ reactor' = [reactor EXCEPT ![p] = [of |-> c, at |-> place]]
        /\ UNCHANGED <<origin, handler, t1, t2>>
    BY <1>2, OriginOf DEF OnReadable, Types, fixed
  <2>2. /\ ~isLocalThreadRun'[c]
        /\ \A d \in Conns \ {c} : isLocalThreadRun'[d] = isLocalThreadRun[d]
    BY <1>2, FlagsFall DEF OnReadable, Types
  <2>3. /\ reactor'[p].of = c /\ reactor'[p].at = place
        /\ \A q \in Ports \ {p} : reactor'[q] = reactor[q]
    BY <2>1 DEF Types, Reactors
  <2>4. reactor[p].of = None /\ None \notin Conns
    BY <2>1, ServerConnAssumption DEF Serving
  <2>5. place = "erase" => t2[c] \in Deleting
    BY <2>1, <2>4 DEF Ends, InReactor
  <2>6. place \in {"wait1", "erase"}
    OBVIOUS
  <2>7. ASSUME NEW d \in Conns, handler'[d] = "live", ~isLocalThreadRun'[d]
        PROVE  t2'[d] \in Deleting \/ InReactor(d)'
    <3>1. CASE d = c
      BY <2>1, <2>3, <3>1 DEF InReactor
    <3>2. CASE d # c
      <4>1. t2[d] \in Deleting \/ InReactor(d)
        BY <2>1, <2>2, <2>7, <3>2 DEF Ends
      <4>2. origin[d].port \in Ports
        BY OriginOf DEF Types
      <4>3. InReactor(d) => origin[d].port # p
        BY <2>4 DEF InReactor
      <4> QED
        BY <2>1, <2>3, <4>1, <4>2, <4>3 DEF InReactor
    <3> QED
      BY <3>1, <3>2
  <2> HIDE DEF p, place
  <2>8. \A q \in Ports : reactor'[q].at = "wait2" => t1'[reactor'[q].of] = "over"
    BY <2>1, <2>3, <2>6 DEF Ends
  <2>9. \A q \in Ports : reactor'[q].at \in {"erase", "join"} =>
                           \/ t1'[reactor'[q].of] = "over" /\ t2'[reactor'[q].of] \in T2Over
                           \/ t2'[reactor'[q].of] \in Deleting
    BY <2>1, <2>3, <2>5, <2>6 DEF Ends
  <2>10. \A q \in Ports : reactor'[q].at = "join" => handler'[reactor'[q].of] = "freed"
    BY <2>1, <2>3, <2>6 DEF Ends
  <2>11. \A d \in Conns : handler'[d] = "freed" => \/ t1'[d] = "over" /\ t2'[d] \in T2Over
                                                   \/ t2'[d] \in Deleting
    BY <2>1 DEF Ends
  <2> QED
    BY <2>7, <2>8, <2>9, <2>10, <2>11 DEF Ends
<1>3. ASSUME NEW p \in Ports, NEW c \in Conns, WaitT1(p, c) \/ WaitT2(p, c) \/ Destroy(p, c)
      PROVE  Ends'
  <2> DEFINE Goes(at, next) ==
               /\ at \in Steps /\ next \in Steps
               /\ ReactorIs(p, c, at, [of |-> c, at |-> next])
               /\ next \notin {"serve", "wait1"}
               /\ next = "wait2" => t1[c] = "over"
               /\ next = "erase" => at = "wait2" /\ t2[c] \in T2Over
               /\ next = "join" => at = "erase" /\ Destroy(p, c)
               /\ next # "join" => UNCHANGED handler
               /\ UNCHANGED <<origin, isLocalThreadRun, t1, t2>>
  <2>1. PICK at, next : Goes(at, next)
    <3>1. WaitT1(p, c) => Goes("wait1", "wait2")
      BY DEF WaitT1, Steps, objVars, fixed
    <3>2. WaitT2(p, c) => Goes("wait2", "erase")
      BY DEF WaitT2, WaitForT2, Steps, objVars, fixed
    <3>3. Destroy(p, c) => Goes("erase", "join")
      BY DEF Destroy, Steps, fixed
    <3> HIDE DEF Goes
    <3> QED
      BY <1>3, <3>1, <3>2, <3>3, Zenon
  <2>2. /\ reactor[p].of = c /\ reactor[p].at = at
        /\ reactor' = [reactor EXCEPT ![p] = [of |-> c, at |-> next]]
    BY <2>1, Deletes DEF Types
  <2>3. /\ reactor'[p].of = c /\ reactor'[p].at = next
        /\ \A q \in Ports \ {p} : reactor'[q] = reactor[q]
    BY <2>2 DEF Types, Reactors
  <2>4. next \in {"erase", "join"} => Finished(c)
    BY <2>1, <2>2 DEF Ends
  <2>5. /\ \A d \in Conns : handler'[d] = handler[d] \/ (d = c /\ handler'[d] = "freed")
        /\ next = "join" => handler'[c] = "freed"
    BY <2>1 DEF Destroy, Types, Objects
  <2>6. \A d \in Conns : handler'[d] # handler[d] => next = "join"
    BY <2>1
  <2>7. \A q \in Ports : reactor'[q].at = "wait2" => t1'[reactor'[q].of] = "over"
    BY <2>1, <2>3 DEF Ends
  <2>8. \A q \in Ports : reactor'[q].at \in {"erase", "join"} =>
                           \/ t1'[reactor'[q].of] = "over" /\ t2'[reactor'[q].of] \in T2Over
                           \/ t2'[reactor'[q].of] \in Deleting
    BY <2>1, <2>3, <2>4 DEF Ends
  <2>9. ASSUME NEW q \in Ports, reactor'[q].at = "join" PROVE handler'[reactor'[q].of] = "freed"
    <3>1. q # p => reactor[q].of \in Conns /\ handler[reactor[q].of] = "freed"
      BY <2>3, <2>9 DEF Ends, Types, Reactors, Serving
    <3> QED
      BY <2>3, <2>5, <2>9, <3>1
  <2>10. \A d \in Conns : handler'[d] = "freed" => \/ t1'[d] = "over" /\ t2'[d] \in T2Over
                                                   \/ t2'[d] \in Deleting
    BY <2>1, <2>4, <2>5, <2>6 DEF Ends
  <2>11. \A d \in Conns : InReactor(d) => InReactor(d)'
    <3>1. \A d \in Conns : origin[d].port \in Ports
      BY OriginOf DEF Types
    <3> QED
      BY <2>1, <2>2, <2>3, <3>1 DEF InReactor
  <2>12. \A d \in Conns : handler'[d] = "live" /\ ~isLocalThreadRun'[d]
                            => t2'[d] \in Deleting \/ InReactor(d)'
    BY <2>1, <2>5, <2>11 DEF Ends
  <2> QED
    BY <2>7, <2>8, <2>9, <2>10, <2>12 DEF Ends
<1>4. ASSUME NEW p \in Ports, NEW c \in Conns, Join(p, c) PROVE Ends'
  <2>1. /\ reactor[p].of = c /\ reactor[p].at = "join"
        /\ reactor' = [reactor EXCEPT ![p] = Serving]
        /\ UNCHANGED <<origin, handler, isLocalThreadRun, t1, t2>>
    BY <1>4, Deletes DEF Join, Types, Steps, objVars, fixed
  <2>2. reactor'[p].at = "serve" /\ \A q \in Ports \ {p} : reactor'[q] = reactor[q]
    BY <2>1 DEF Types, Reactors, Serving
  <2>3. handler[c] = "freed"
    BY <2>1 DEF Ends
  <2>4. ASSUME NEW d \in Conns, handler[d] = "live", InReactor(d) PROVE InReactor(d)'
    <3>1. origin[d].port \in Ports /\ origin[d].port # p
      BY <2>1, <2>3, <2>4, OriginOf DEF Types, InReactor
    <3> QED
      BY <2>1, <2>2, <2>4, <3>1 DEF InReactor
  <2> QED
    BY <2>1, <2>2, <2>4 DEF Ends
<1>5. ASSUME NEW c \in Conns, DeleteThis(c) PROVE Ends'
  <2>1. /\ t2[c] = "delete" /\ handler' = [handler EXCEPT ![c] = "freed"]
        /\ UNCHANGED <<origin, reactor, isLocalThreadRun, t1, t2>>
    BY <1>5 DEF DeleteThis, fixed
  <2>2. handler'[c] = "freed" /\ \A d \in Conns \ {c} : handler'[d] = handler[d]
    BY <2>1 DEF Types, Objects
  <2>3. Finished(c)
    BY <2>1 DEF Deleting
  <2>4. ASSUME NEW q \in Ports, reactor'[q].at = "join" PROVE handler'[reactor'[q].of] = "freed"
    <3>1. reactor[q].of \in Conns /\ handler[reactor[q].of] = "freed"
      BY <2>1, <2>4 DEF Ends, Types, Reactors, Serving
    <3> QED
      BY <2>1, <2>2, <3>1
  <2>5. \A d \in Conns : handler'[d] = "freed" => \/ t1'[d] = "over" /\ t2'[d] \in T2Over
                                                  \/ t2'[d] \in Deleting
    BY <2>1, <2>2, <2>3 DEF Ends
  <2>6. \A d \in Conns : handler'[d] = "live" /\ ~isLocalThreadRun'[d]
                           => t2'[d] \in Deleting \/ InReactor(d)'
    BY <2>1, <2>2 DEF Ends, InReactor
  <2> QED
    BY <2>1, <2>4, <2>5, <2>6 DEF Ends
<1>6. ASSUME NEW c \in Conns, SendFails(c) PROVE Ends'
  <2>1. UNCHANGED <<reactor, handler>>
    BY <1>6 DEF SendFails
  <2>2. \A d \in Conns \ {c} : isLocalThreadRun'[d] = isLocalThreadRun[d]
    BY <1>6, FlagsFall DEF SendFails, Types
  <2>3. t2'[c] \in Deleting
    BY <1>6 DEF SendFails, T2Is, Types, Threads, Deleting
  <2> QED
    BY <2>1, <2>2, <2>3, EndsStays
<1>7. ASSUME NEW c \in Conns,
             \/ DeviceCloses(c) \/ T1Ends(c) \/ TakePacket(c) \/ T2Ends(c) \/ Kick(c)
             \/ StageLock(c) \/ SendReturns(c) \/ DeleteWait(c) \/ Stray(c)
      PROVE  Ends'
  <2>1. UNCHANGED <<reactor, handler, isLocalThreadRun>>
    BY <1>7 DEF DeviceCloses, T1Ends, TakePacket, T2Ends, Kick, StageLock, SendReturns,
                DeleteWait, Stray, objVars
  <2> QED
    BY <2>1, EndsStays
<1>8. CASE UNCHANGED vars
  <2>1. UNCHANGED <<reactor, handler, isLocalThreadRun>>
    BY <1>8 DEF vars, objVars
  <2> QED
    BY <2>1, EndsStays
<1> QED
  BY <1>1, <1>2, <1>3, <1>4, <1>5, <1>6, <1>7, <1>8
     DEF Next, OnClosed, OnFull, Reactor, ThreadProcessPkg, Fallen

LEMMA EndsCorrect == Spec => [](Types /\ Ends)
<1>1. Init => Types
  BY InitTypes
<1>2. Init => Ends
  BY DEF Init, Ends, Serving
<1>3. Types /\ Ends /\ [Next]_vars => Types' /\ Ends'
  BY TypesStep, EndsStep
<1> QED
  BY <1>1, <1>2, <1>3, PTL DEF Spec

-----------------------------------------------------------------------------
(* Who shares its address with nobody has shared it with nobody.           *)
LEMMA WasAlone ==
  ASSUME Types, [Next]_vars, NEW c \in Conns, Alone(c)'
  PROVE  Alone(c)
  BY StaysMade DEF Alone, SamePeer

LEMMA AloneInConns ==
  ASSUME Types, NEW c \in Conns, Alone(c)
  PROVE  \A k \in DOMAIN conns : SamePeer(conns[k], c) => conns[k] = c
<1>1. \A k \in DOMAIN conns : conns[k] \in Conns /\ Made(conns[k])
  BY DEF Types, Objects
<1> QED
  BY <1>1 DEF Alone, SamePeer

LEMMA LiveStep ==
  ASSUME Types, ConnsAreLive, [Next]_vars
  PROVE  ConnsAreLive'
<1> DEFINE In(c) == \E k \in DOMAIN conns : conns[k] = c
<1> SUFFICES ASSUME alive', NEW d \in Conns, Made(d)', Alone(d)'
             PROVE  In(d)' <=> handler'[d] = "live"
  BY DEF ConnsAreLive
<1>1. alive
  BY FallenStays DEF vars
<1>2. Alone(d) /\ UNCHANGED origin
  BY WasAlone, StaysMade
<1>3. Made(d) => (In(d) <=> handler[d] = "live")
  BY <1>1, <1>2 DEF ConnsAreLive
<1>4. ASSUME NEW c \in Conns, Accept(c) PROVE In(d)' <=> handler'[d] = "live"
  <2>1. /\ conns' = Append(conns, c) /\ handler' = [handler EXCEPT ![c] = "live"]
    BY <1>4 DEF Accept
  <2>2. /\ conns \in Seq(Conns) /\ handler \in [Conns -> {"none", "live", "freed"}]
    BY DEF Types, Objects
  <2>3. /\ DOMAIN conns' = 1 .. Len(conns) + 1 /\ DOMAIN conns = 1 .. Len(conns)
        /\ Len(conns) \in Nat /\ conns'[Len(conns) + 1] = c
        /\ \A k \in 1 .. Len(conns) : conns'[k] = conns[k]
    BY <2>1, <2>2
  <2>4. CASE d = c
    BY <2>1, <2>2, <2>3, <2>4
  <2>5. CASE d # c
    <3>1. handler'[d] = handler[d] /\ Made(d)
      BY <2>1, <2>2, <2>5 DEF Made
    <3>2. (\E k \in DOMAIN conns' : conns'[k] = d) <=> In(d)
      <4>1. \A k \in 1 .. Len(conns) + 1 : k \in 1 .. Len(conns) \/ k = Len(conns) + 1
        BY <2>3
      <4>2. \A k \in 1 .. Len(conns) : k \in 1 .. Len(conns) + 1
        BY <2>3
      <4> QED
        BY <2>3, <2>5, <4>1, <4>2
    <3> QED
      BY <1>3, <3>1, <3>2
  <2> QED
    BY <2>4, <2>5
<1>5. ASSUME NEW p \in Ports, NEW c \in Conns, Destroy(p, c)
      PROVE  In(d)' <=> handler'[d] = "live"
  <2>1. /\ conns' = ErasedFrom(conns, c) /\ handler' = [handler EXCEPT ![c] = "freed"]
        /\ Made(c)
    BY <1>5, Deletes DEF Destroy, Types, Steps
  <2>2. /\ conns \in Seq(Conns) /\ handler \in [Conns -> {"none", "live", "freed"}]
    BY DEF Types, Objects
  <2> DEFINE K == KeptBy(conns, c)
  <2>3. /\ \A j \in DOMAIN conns' : \E k \in K : conns'[j] = conns[k]
        /\ \A k \in K : \E j \in DOMAIN conns' : conns'[j] = conns[k]
    BY <2>1, <2>2, Erased
  <2>4. K \subseteq DOMAIN conns
    BY DEF KeptBy
  <2>5. CASE d = c
    <3>1. \A i, j \in DOMAIN conns : SamePeer(conns[i], c) /\ SamePeer(conns[j], c) => i = j
      BY <1>2, <2>5, AloneInConns DEF Types, Objects
    <3>2. \A k \in K : ~SamePeer(conns[k], c)
      BY <2>2, <3>1, ErasedOne
    <3> HIDE DEF K
    <3>3. \A j \in DOMAIN conns' : conns'[j] # c
      BY <2>3, <3>2 DEF SamePeer
    <3> QED
      BY <2>1, <2>2, <2>5, <3>3
  <2>6. CASE d # c
    <3>1. handler'[d] = handler[d] /\ Made(d)
      BY <2>1, <2>2, <2>6 DEF Made
    <3>2. ~SamePeer(d, c)
      BY <1>2, <2>1, <2>6 DEF Alone
    <3>3. \A k \in DOMAIN conns : conns[k] = d => k \in K
      BY <3>2 DEF KeptBy
    <3> HIDE DEF K
    <3>4. (\E j \in DOMAIN conns' : conns'[j] = d) <=> In(d)
      BY <2>3, <2>4, <3>3
    <3> QED
      BY <1>3, <3>1, <3>4
  <2> QED
    BY <2>5, <2>6
<1>6. CASE UNCHANGED <<handler, conns>>
  BY <1>3, <1>6 DEF Made
<1>7. \/ UNCHANGED <<handler, conns>>
      \/ \E c \in Conns : Accept(c)
      \/ \E p \in Ports, c \in Conns : Destroy(p, c)
  <2>1. ASSUME NEW c \in Conns, DeleteThis(c) PROVE FALSE
    BY <2>1 DEF DeleteThis
  <2> QED
    BY <2>1 DEF Next, DeviceCloses, OnClosed, OnFull, OnReadable, T1Ends, TakePacket, StageLock,
         Stray, Reactor, WaitT1, WaitT2, Join, ThreadProcessPkg, T2Ends, Kick,
         SendReturns, SendFails, DeleteWait, Fallen, objVars, vars
<1> QED
  BY <1>4, <1>5, <1>6, <1>7

(* conns names the live handlers and no freed one, but for those that      *)
(* shared their address: the loop of the destructor, which passes by the   *)
(* handler that moves up, erases the one handler of an address.            *)
THEOREM ConnsAreLiveHolds == Spec => []ConnsAreLive
<1>1. Init => Types /\ ConnsAreLive
  BY InitTypes DEF Init, ConnsAreLive, Made
<1>2. Types /\ ConnsAreLive /\ [Next]_vars => Types' /\ ConnsAreLive'
  BY TypesStep, LiveStep
<1> QED
  BY <1>1, <1>2, PTL DEF Spec

LEMMA FallStep ==
  ASSUME Types, Ends, ConnsAreLive, FallIsExplained, [Next]_vars
  PROVE  FallIsExplained'
<1> SUFFICES ASSUME ~alive'
             PROVE  \/ \E c \in Conns : t2'[c] \in Deleting
                    \/ \E c \in Conns : handler'[c] = "freed" /\ ~Alone(c)'
  BY DEF FallIsExplained
<1>1. CASE ~alive
  <2>1. UNCHANGED <<handler, t2, origin>>
    BY <1>1, FallenStays DEF vars, objVars, fixed
  <2> QED
    BY <1>1, <2>1 DEF FallIsExplained, Alone, Made, SamePeer
<1>2. CASE alive
  <2>1. ASSUME Stale(conns), \A d \in Conns : handler'[d] \in {handler[d], "freed"}
        PROVE  \E c \in Conns : handler'[c] = "freed" /\ ~Alone(c)'
    <3>1. PICK k \in DOMAIN conns : handler[conns[k]] = "freed"
      BY <2>1 DEF Stale
    <3>2. conns[k] \in Conns
      BY DEF Types, Objects
    <3>3. ~Alone(conns[k])
      BY <1>2, <3>1, <3>2 DEF ConnsAreLive, Made
    <3>4. PICK c \in Conns : c = conns[k]
      BY <3>2
    <3> QED
      BY <2>1, <3>1, <3>3, <3>4, WasAlone
  <2>2. ASSUME NEW c \in Conns, Kick(c)
        PROVE  \E d \in Conns : handler'[d] = "freed" /\ ~Alone(d)'
    <3>1. Stale(conns) /\ UNCHANGED handler
      BY <2>2 DEF Kick, Walk, objVars
    <3> QED
      BY <2>1, <3>1
  <2>3. ASSUME NEW p \in Ports, NEW c \in Conns, Destroy(p, c)
        PROVE  \E d \in Conns : handler'[d] = "freed" /\ ~Alone(d)'
    <3>1. Stale(conns) /\ handler' = [handler EXCEPT ![c] = "freed"]
      BY <2>3 DEF Destroy, Walk
    <3>2. \A d \in Conns : handler'[d] \in {handler[d], "freed"}
      BY <3>1 DEF Types, Objects
    <3> QED
      BY <2>1, <3>1, <3>2
  <2>4. ASSUME NEW c \in Conns, DeleteThis(c) PROVE t2'[c] \in Deleting
    BY <2>4 DEF DeleteThis, Deleting
  <2>5. ASSUME NEW c \in Conns, Stray(c) PROVE t2'[c] \in Deleting
    BY <2>5 DEF Stray, Ends, Finished, T2Over
  <2>6. \/ \E c \in Conns : Kick(c) \/ DeleteThis(c) \/ Stray(c)
        \/ \E p \in Ports, c \in Conns : Destroy(p, c)
    BY <1>2 DEF Next, DeviceCloses, Accept, OnClosed, OnFull, OnReadable, T1Ends, TakePacket,
         StageLock, Reactor, WaitT1, WaitT2, Join, ThreadProcessPkg, T2Ends,
         SendReturns, SendFails, DeleteWait, Fallen, vars
  <2> QED
    BY <2>2, <2>3, <2>4, <2>5, <2>6
<1> QED
  BY <1>1, <1>2

(* The process falls only by a thread that deletes its own handler, or     *)
(* where two connections shared an address: no reactor frees a handler     *)
(* under a thread of it.                                                   *)
THEOREM FallIsExplainedHolds == Spec => []FallIsExplained
<1>1. Init => FallIsExplained
  BY DEF Init, FallIsExplained
<1>2. Types /\ Ends /\ ConnsAreLive /\ FallIsExplained /\ [Next]_vars => FallIsExplained'
  BY FallStep
<1> QED
  BY <1>1, <1>2, EndsCorrect, ConnsAreLiveHolds, PTL DEF Spec

-----------------------------------------------------------------------------
(* A connection that is gone does not come back.                           *)
LEMMA StaysGone ==
  ASSUME Types, [Next]_vars, NEW d \in Conns, Gone(d)
  PROVE  Gone(d)'
<1> USE DEF Gone
<1>1. sock \in [Conns -> {"none", "up", "eof", "reset", "shut"}]
  BY DEF Types, Objects
<1>2. ASSUME NEW c \in Conns, DeviceCloses(c) PROVE Gone(d)'
  BY <1>1, <1>2 DEF DeviceCloses
<1>3. ASSUME NEW c \in Conns, Accept(c) PROVE Gone(d)'
  BY <1>1, <1>3 DEF Accept, Types, Objects
<1>4. ASSUME NEW p \in Ports, NEW c \in Conns, Join(p, c) PROVE Gone(d)'
  BY <1>1, <1>4 DEF Join
<1>5. ASSUME NEW c \in Conns, Kick(c) PROVE Gone(d)'
  BY <1>5, KickDoes
<1>6. \/ UNCHANGED sock
      \/ \E c \in Conns : DeviceCloses(c) \/ Accept(c) \/ Kick(c)
      \/ \E p \in Ports, c \in Conns : Join(p, c)
  BY DEF Next, OnClosed, OnFull, OnReadable, T1Ends, TakePacket, StageLock,
         Stray, Reactor, WaitT1, WaitT2, Destroy, ThreadProcessPkg, T2Ends,
         SendReturns, SendFails, DeleteWait, DeleteThis, Fallen, vars
<1> QED
  BY <1>2, <1>3, <1>4, <1>5, <1>6

(* Where a thread throws: in the walk, or over the number of the device.   *)
LEMMA ThrowsWhere ==
  ASSUME Types, [Next]_vars, NEW d \in Conns, t2[d] # "threw", t2'[d] = "threw"
  PROVE  (Kick(d) /\ T2Is(d, "threw")) \/ ~matrixNoFits
<1>1. t2 \in [Conns -> T2Places]
  BY DEF Types, Threads
<1>2. ASSUME NEW c \in Conns, NEW place, T2Is(c, place) PROVE c = d /\ place = "threw"
  BY <1>1, <1>2 DEF T2Is
<1>3. ASSUME NEW c \in Conns,
             \/ Accept(c) \/ TakePacket(c) \/ T2Ends(c) \/ SendReturns(c)
             \/ SendFails(c) \/ DeleteWait(c)
      PROVE  FALSE
  <2>1. PICK place \in {"loop", "kick", "stage", "over", "deleteWait", "delete"} : T2Is(c, place)
    BY <1>3 DEF Accept, TakePacket, T2Ends, SendReturns, SendFails, DeleteWait
  <2> QED
    BY <1>2, <2>1
<1>4. ASSUME NEW c \in Conns, Kick(c) PROVE Kick(d) /\ T2Is(d, "threw")
  <2>1. PICK place : T2Is(c, place)
    BY <1>4, KickDoes
  <2>2. c = d /\ place = "threw"
    BY <1>2, <2>1
  <2> QED
    BY <1>4, <2>1, <2>2
<1>5. ASSUME NEW c \in Conns, StageLock(c), matrixNoFits PROVE FALSE
  BY <1>2, <1>5 DEF StageLock
<1>6. \/ UNCHANGED t2
      \/ \E c \in Conns : \/ Accept(c) \/ TakePacket(c) \/ T2Ends(c) \/ SendReturns(c)
                          \/ SendFails(c) \/ DeleteWait(c) \/ Kick(c) \/ StageLock(c)
  BY DEF Next, DeviceCloses, OnClosed, OnFull, OnReadable, T1Ends, Stray, Reactor, WaitT1, WaitT2,
         Destroy, Join, ThreadProcessPkg, DeleteThis, Fallen, vars
<1> QED
  BY <1>3, <1>4, <1>5, <1>6

(* A live connection is not left without the thread that handles its       *)
(* packets, but for a bad number of the device and shared addresses: the   *)
(* handler that throws out a device finds only that device's connection.   *)
THEOREM ThrewOnlyIfGoneHolds == Spec => []ThrewOnlyIfGone
<1>1. Init => ThrewOnlyIfGone
  BY DEF Init, ThrewOnlyIfGone
<1>2. ASSUME Types, ThrewOnlyIfGone, [Next]_vars PROVE ThrewOnlyIfGone'
  <2> SUFFICES ASSUME NEW d \in Conns, t2'[d] = "threw", matrixNoFits', Alone(d)'
               PROVE  Gone(d)'
    BY DEF ThrewOnlyIfGone
  <2>1. matrixNoFits /\ Alone(d)
    BY <1>2, StaysMade, WasAlone
  <2>2. CASE t2[d] = "threw"
    BY <1>2, <2>1, <2>2, StaysGone DEF ThrewOnlyIfGone
  <2>3. CASE t2[d] # "threw"
    <3>1. Kick(d) /\ T2Is(d, "threw")
      BY <1>2, <2>1, <2>3, ThrowsWhere
    <3>2. PICK k \in Matches(d) : sock[conns[k]] \in {"reset", "shut"}
      BY <1>2, <3>1, KickDoes
    <3>3. conns[k] = d
      BY <1>2, <2>1, <3>2, AloneInConns DEF Matches
    <3> QED
      BY <1>2, <3>2, <3>3, StaysGone DEF Gone
  <2> QED
    BY <2>2, <2>3
<1> QED
  BY <1>1, <1>2, TypesCorrect, PTL DEF Spec
=============================================================================
