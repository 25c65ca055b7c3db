---------------------------- MODULE BufferLemmas ----------------------------
(***************************************************************************)
(* What the clients' proofs share: ByteBuffer's operations, and            *)
(* SocketClient's use of them, on buffers of every capacity; and the least *)
(* and the greatest element of a set of natural numbers.                   *)
(***************************************************************************)
EXTENDS SocketBuffers, FiniteSetsExt, WellFoundedInduction, TLAPS

(* The fields of a well-formed buffer. *)
LEMMA BufferFields ==
  ASSUME NEW cap \in Nat \ {0}, NEW b \in Buffers(cap)
  PROVE  /\ b.cap = cap /\ b.pos \in 0..cap /\ b.lim \in 0..cap /\ b.pos <= b.lim
         /\ b.data \in [0..cap-1 -> Nat]
  BY DEF Buffers

(* ByteBuffer's operations keep a buffer well formed. *)
LEMMA BufferOps ==
  ASSUME NEW cap \in Nat \ {0}, NEW b \in Buffers(cap)
  PROVE  /\ Clear(b) \in Buffers(cap)
         /\ Flip(b) \in Buffers(cap)
         /\ Compact(b) \in Buffers(cap)
         /\ ReverseFlip(b) \in Buffers(cap)
         /\ EmptyRead(b) \in Buffers(cap)
         /\ \A n \in 0..cap : SetLimit(b, n) \in Buffers(cap)
         /\ \A n \in 0..Remaining(b) : Advance(b, n) \in Buffers(cap)
         /\ \A n \in 0..Remaining(b), after \in Nat : PutRun(b, after, n) \in Buffers(cap)
  <1>0. /\ b.cap = cap /\ b.pos \in 0..cap /\ b.lim \in 0..cap /\ b.pos <= b.lim
        /\ b.data \in [0..cap-1 -> Nat]
    BY BufferFields
  <1>1. Clear(b) \in Buffers(cap)
    BY <1>0 DEF Buffers, Set, Clear
  <1>2. Flip(b) \in Buffers(cap)
    BY <1>0 DEF Buffers, Set, Flip
  <1>3. Compact(b) \in Buffers(cap)
    <2> DEFINE d == [i \in 0..b.cap-1 |->
                       IF i < b.lim - b.pos THEN b.data[b.pos + i] ELSE b.data[i]]
    <2>1. d \in [0..cap-1 -> Nat]
      BY <1>0
    <2> QED
      BY <1>0, <2>1 DEF Buffers, Set, Compact
  <1>4. ReverseFlip(b) \in Buffers(cap)
    BY <1>0 DEF Buffers, Set, ReverseFlip
  <1>5. EmptyRead(b) \in Buffers(cap)
    BY <1>0 DEF Buffers, Set, EmptyRead, Clear, SetLimit
  <1>6. \A n \in 0..cap : SetLimit(b, n) \in Buffers(cap)
    BY <1>0 DEF Buffers, Set, SetLimit
  <1>7. \A n \in 0..Remaining(b) : Advance(b, n) \in Buffers(cap)
    BY <1>0 DEF Buffers, Set, Advance, Remaining
  <1>8. ASSUME NEW n \in 0..Remaining(b), NEW after \in Nat
        PROVE  PutRun(b, after, n) \in Buffers(cap)
    <2> DEFINE d == [i \in 0..b.cap-1 |->
                       IF b.pos <= i /\ i < b.pos + n
                       THEN after + (i - b.pos) + 1 ELSE b.data[i]]
    <2>0. n \in Int /\ b.pos \in Int
      BY <1>0 DEF Remaining
    <2>1. d \in [0..cap-1 -> Nat]
      <3>1. ASSUME NEW i \in 0..cap-1, b.pos <= i
            PROVE  after + (i - b.pos) + 1 \in Nat
        <4>1. i \in Int
          BY <1>0
        <4> QED
          BY <2>0, <3>1, <4>1
      <3>2. ASSUME NEW i \in 0..cap-1
            PROVE  b.data[i] \in Nat
        BY <1>0
      <3> QED
        BY <1>0, <2>0, <3>1, <3>2
    <2> QED
      BY <1>0, <2>1 DEF Buffers, Set, PutRun, Remaining
  <1> QED
    BY <1>1, <1>2, <1>3, <1>4, <1>5, <1>6, <1>7, <1>8

(* SocketClient.read, up to the socket: the unread bytes are moved to the   *)
(* front, and the free space behind them is offered to the socket.          *)
LEMMA BeforeReadKeepsUnread ==
  ASSUME NEW cap \in Nat \ {0}, NEW b \in Buffers(cap), ~Full(b), NEW after \in Nat,
         Holds(b, b.pos, b.lim, after)
  PROVE  /\ BeforeRead(b).pos = Remaining(b) /\ BeforeRead(b).lim = cap
         /\ Holds(BeforeRead(b), 0, Remaining(b), after)
  <1> USE BufferFields
  <1>1. CASE b.pos > 0 /\ Remaining(b) = 0
    BY <1>1 DEF BeforeRead, Set, Clear, Remaining, Holds
  <1>2. CASE b.pos > 0 /\ Remaining(b) # 0
    <2>1. BeforeRead(b) = Compact(b)
      BY <1>2 DEF BeforeRead
    <2>2. Compact(b).cap = cap /\ Compact(b).pos = Remaining(b) /\ Compact(b).lim = cap
      BY DEF Compact, Set, Remaining
    <2>3. ASSUME NEW i \in 0..cap-1, i < Remaining(b)
          PROVE  Compact(b).data[i] = after + i + 1
      <3>1. b.pos + i \in 0..cap-1 /\ b.pos <= b.pos + i /\ b.pos + i < b.lim
        BY <2>3 DEF Remaining
      <3>2. b.data[b.pos + i] = after + ((b.pos + i) - b.pos) + 1
        BY <3>1 DEF Holds
      <3>3. Compact(b).data[i] = b.data[b.pos + i]
        BY <2>3 DEF Compact, Set, Remaining
      <3>4. b.pos \in Int /\ i \in Int /\ (b.pos + i) - b.pos = i
        BY BufferFields
      <3> QED
        BY <3>2, <3>3, <3>4, Zenon
    <2>4. Holds(Compact(b), 0, Remaining(b), after)
      <3>1. ASSUME NEW i \in 0..cap-1, i < Remaining(b)
            PROVE  Compact(b).data[i] = after + (i - 0) + 1
        <4>1. i - 0 = i
          OBVIOUS
        <4> QED
          BY <2>3, <3>1, <4>1, Zenon
      <3> QED
        BY <2>2, <3>1, Zenon DEF Holds
    <2> QED
      BY <2>1, <2>2, <2>4, Zenon
  <1>3. CASE b.pos = 0
    BY <1>3 DEF BeforeRead, Set, ReverseFlip, Remaining, Holds, Full
  <1> QED
    BY <1>1, <1>2, <1>3

LEMMA BeforeReadType ==
  ASSUME NEW cap \in Nat \ {0}, NEW b \in Buffers(cap)
  PROVE  BeforeRead(b) \in Buffers(cap)
  BY BufferOps DEF BeforeRead

(* The application takes n bytes. *)
LEMMA AdvanceKeepsUnread ==
  ASSUME NEW cap \in Nat \ {0}, NEW b \in Buffers(cap), NEW n \in 0..Remaining(b),
         NEW after \in Nat, Holds(b, b.pos, b.lim, after)
  PROVE  LET c == Advance(b, n) IN
         /\ c \in Buffers(cap) /\ c.data = b.data /\ Remaining(c) = Remaining(b) - n
         /\ Holds(c, c.pos, c.lim, after + n)
  <1> DEFINE c == Advance(b, n)
  <1>1. b.cap = cap /\ b.pos \in 0..cap /\ b.lim \in 0..cap /\ b.pos <= b.lim
    BY BufferFields
  <1>2. c \in Buffers(cap)
    BY BufferOps
  <1>3. c.cap = b.cap /\ c.pos = b.pos + n /\ c.lim = b.lim /\ c.data = b.data
    BY DEF Advance, Set
  <1>4. n \in Nat
    BY <1>1 DEF Remaining
  <1> HIDE DEF c
  <1>5. Remaining(c) = Remaining(b) - n
    BY <1>1, <1>3, <1>4 DEF Remaining
  <1>6. ASSUME NEW i \in 0..cap-1, c.pos <= i, i < c.lim
        PROVE  c.data[i] = (after + n) + (i - c.pos) + 1
    <2>1. b.pos <= i /\ i < b.lim
      BY <1>1, <1>3, <1>4, <1>6
    <2>2. b.data[i] = after + (i - b.pos) + 1
      BY <1>1, <2>1, Zenon DEF Holds
    <2>3. after + (i - b.pos) + 1 = (after + n) + (i - (b.pos + n)) + 1
      BY <1>1, <1>4
    <2> QED
      BY <1>3, <2>2, <2>3, Zenon
  <1>7. Holds(c, c.pos, c.lim, after + n)
    BY <1>1, <1>3, <1>6, Zenon DEF Holds
  <1> QED
    BY <1>2, <1>3, <1>5, <1>7, Zenon DEF c

(* Bytes that arrive in stream order extend what the buffer holds. *)
LEMMA PutRunExtends ==
  ASSUME NEW cap \in Nat \ {0}, NEW b \in Buffers(cap), NEW base \in Nat,
         NEW n \in 0..Remaining(b), Holds(b, 0, b.pos, base)
  PROVE  LET c == PutRun(b, base + b.pos, n) IN
         /\ c.cap = cap /\ c.pos = b.pos + n /\ c.lim = b.lim
         /\ Holds(c, 0, b.pos + n, base)
  <1> DEFINE c == PutRun(b, base + b.pos, n)
  <1>0. /\ b.cap = cap /\ b.pos \in 0..cap /\ b.lim \in 0..cap /\ b.pos <= b.lim
        /\ b.data \in [0..cap-1 -> Nat] /\ n \in Nat
    BY BufferFields DEF Remaining
  <1>1. c.cap = cap /\ c.pos = b.pos + n /\ c.lim = b.lim
    BY <1>0 DEF PutRun, Set
  <1>2. ASSUME NEW i \in 0..cap-1, i < b.pos + n
        PROVE  c.data[i] = base + i + 1
    <2>1. CASE i < b.pos
      <3>1. c.data[i] = b.data[i]
        BY <1>0, <2>1 DEF PutRun, Set
      <3>2. b.data[i] = base + (i - 0) + 1
        BY <1>0, <2>1 DEF Holds
      <3> QED
        BY <3>1, <3>2
    <2>2. CASE b.pos <= i
      <3>1. c.data[i] = (base + b.pos) + (i - b.pos) + 1
        BY <1>0, <1>2, <2>2, Zenon DEF PutRun, Set
      <3>2. (base + b.pos) + (i - b.pos) + 1 = base + i + 1
        BY <1>0
      <3> QED
        BY <3>1, <3>2, Zenon
    <2> QED
      BY <1>0, <2>1, <2>2
  <1> HIDE DEF c
  <1>3. Holds(c, 0, b.pos + n, base)
    <2>1. ASSUME NEW i \in 0..cap-1, i < b.pos + n
          PROVE  c.data[i] = base + (i - 0) + 1
      <3>1. i - 0 = i
        OBVIOUS
      <3> QED
        BY <1>2, <2>1, <3>1, Zenon
    <2> QED
      BY <1>1, <2>1, Zenon DEF Holds
  <1> QED
    BY <1>1, <1>3, Zenon DEF c

(* SocketClient.read, after the socket answered with n >= 0 bytes: the      *)
(* buffer is in get mode and everything put so far is readable.             *)
LEMMA AfterReadFlips ==
  ASSUME NEW cap \in Nat \ {0}, NEW b \in Buffers(cap), NEW n \in Nat, b.pos = 0 => n = 0
  PROVE  /\ AfterRead(b, n).cap = cap /\ AfterRead(b, n).data = b.data
         /\ AfterRead(b, n).pos = 0 /\ AfterRead(b, n).lim = b.pos
  BY BufferFields DEF AfterRead, Flip, SetLimit, Set

LEMMA AfterReadType ==
  ASSUME NEW cap \in Nat \ {0}, NEW b \in Buffers(cap), NEW n \in Int, n <= cap
  PROVE  AfterRead(b, n) \in Buffers(cap)
  BY BufferOps DEF AfterRead

LEMMA AfterWriteType ==
  ASSUME NEW cap \in Nat \ {0}, NEW b \in Buffers(cap), NEW n \in Int
  PROVE  AfterWrite(b, n) \in Buffers(cap)
  BY BufferOps DEF AfterWrite

LEMMA ClampBounds ==
  ASSUME NEW cap \in Nat \ {0}, NEW b \in Buffers(cap), NEW len \in Nat
  PROVE  Clamp(len, b) \in 0..Remaining(b) /\ Remaining(b) \in 0..cap
  BY BufferFields DEF Clamp, Min2, Remaining

(* The buffers that the constructor allocates. *)
LEMMA AllocateType ==
  ASSUME NEW cap \in Nat \ {0}
  PROVE  Allocate(cap) \in Buffers(cap)
  BY DEF Allocate, Buffers

(* No byte number appears in the buffer but those that were there and those *)
(* that are put.                                                            *)
LEMMA CellsBounded ==
  ASSUME NEW cap \in Nat \ {0}, NEW b \in Buffers(cap), NEW m \in Nat,
         \A i \in 0..cap-1 : b.data[i] <= m
  PROVE  /\ \A i \in 0..cap-1 : BeforeRead(b).data[i] <= m
         /\ \A n \in Int : \A i \in 0..cap-1 : AfterRead(b, n).data[i] <= m
         /\ \A n \in 0..Remaining(b), after \in Nat : after + n <= m =>
              \A i \in 0..cap-1 : PutRun(b, after, n).data[i] <= m
  <1>0. /\ b.cap = cap /\ b.pos \in 0..cap /\ b.lim \in 0..cap /\ b.pos <= b.lim
        /\ b.data \in [0..cap-1 -> Nat]
    BY BufferFields
  <1>1. ASSUME NEW i \in 0..cap-1
        PROVE  BeforeRead(b).data[i] <= m
    <2>1. CASE b.pos > 0 /\ Remaining(b) # 0
      <3>1. BeforeRead(b).data[i] = IF i < b.lim - b.pos THEN b.data[b.pos + i] ELSE b.data[i]
        BY <1>0, <2>1 DEF BeforeRead, Compact, Set
      <3>2. i < b.lim - b.pos => b.pos + i \in 0..cap-1
        BY <1>0
      <3> QED
        BY <3>1, <3>2
    <2>2. CASE ~(b.pos > 0 /\ Remaining(b) # 0)
      <3>1. BeforeRead(b).data = b.data
        BY <1>0, <2>2 DEF BeforeRead, Clear, ReverseFlip, Set
      <3> QED
        BY <3>1
    <2> QED
      BY <2>1, <2>2
  <1>2. ASSUME NEW n \in Int
        PROVE  AfterRead(b, n).data = b.data
    BY DEF AfterRead, Flip, SetLimit, Set
  <1>3. ASSUME NEW n \in 0..Remaining(b), NEW after \in Nat, after + n <= m,
               NEW i \in 0..cap-1
        PROVE  PutRun(b, after, n).data[i] <= m
    <2>1. PutRun(b, after, n).data[i] =
            IF b.pos <= i /\ i < b.pos + n THEN after + (i - b.pos) + 1 ELSE b.data[i]
      BY <1>0 DEF PutRun, Set
    <2>2. i \in Int /\ n \in Int
      BY <1>0 DEF Remaining
    <2>3. b.pos <= i /\ i < b.pos + n => after + (i - b.pos) + 1 <= m
      BY <1>0, <1>3, <2>2
    <2> QED
      BY <2>1, <2>3
  <1> QED
    BY <1>1, <1>2, <1>3
-----------------------------------------------------------------------------
(* Induction over the natural numbers, in the form of a least counterexample. *)
LEMMA LeastNat ==
  ASSUME NEW S, S \subseteq Nat, S # {}
  PROVE  \E x \in S : \A y \in S : x <= y
  <1> DEFINE R == OpToRel(<, Nat)
  <1>0. R = {ss \in Nat \X Nat : ss[1] < ss[2]}
    BY Zenon DEF OpToRel
  <1>1. IsWellFoundedOn(R, Nat)
    BY NatLessThanWellFounded
  <1> HIDE DEF R
  <1>2. PICK x \in S : \A y \in S : <<y, x>> \notin R
    BY <1>1, WFMin
  <1>3. ASSUME NEW y \in S
        PROVE  x <= y
    <2>1. y < x => <<y, x>> \in R
      BY <1>0
    <2>2. ~(y < x)
      BY <1>2, <2>1
    <2> QED
      BY <2>2
  <1> QED
    BY <1>3

(* The greatest element of a bounded set, as FiniteSetsExt's Max picks it. *)
LEMMA MaxBounded ==
  ASSUME NEW n \in Nat, NEW S, S \subseteq 0..n, S # {}
  PROVE  Max(S) \in S /\ \A y \in S : y <= Max(S)
  <1> DEFINE T == {n - y : y \in S}
  <1>0. \A y \in S : y \in 0..n
    OBVIOUS
  <1>1. T \subseteq Nat /\ T # {}
    <2>1. \A y \in 0..n : n - y \in Nat
      OBVIOUS
    <2>2. PICK y \in S : TRUE
      OBVIOUS
    <2>3. n - y \in T
      BY Zenon
    <2>4. \A t \in T : t \in Nat
      BY <1>0, <2>1, Zenon
    <2> QED
      BY <2>3, <2>4, Zenon
  <1>2. PICK t \in T : \A u \in T : t <= u
    <2> HIDE DEF T
    <2> QED
      BY <1>1, LeastNat
  <1>3. PICK x \in S : t = n - x
    BY Zenon
  <1>4. ASSUME NEW y \in S
        PROVE  x >= y
    <2>1. n - x <= n - y
      BY <1>2, <1>3, Zenon
    <2>2. x \in 0..n /\ y \in 0..n
      BY <1>0
    <2> QED
      BY <2>1, <2>2
  <1>5. \E z \in S : \A y \in S : z >= y
    BY <1>4
  <1>6. Max(S) \in S /\ \A y \in S : Max(S) >= y
    BY <1>5, Zenon DEF Max
  <1>7. ASSUME NEW y \in S
        PROVE  y <= Max(S)
    BY <1>0, <1>6
  <1> QED
    BY <1>6, <1>7, Zenon

(* The least element, as FiniteSetsExt's Min picks it. *)
LEMMA MinLeast ==
  ASSUME NEW S, S \subseteq Nat, S # {}
  PROVE  Min(S) \in S /\ \A y \in S : Min(S) <= y
  <1>1. \E x \in S : \A y \in S : x <= y
    BY LeastNat
  <1> QED
    BY <1>1 DEF Min
=============================================================================
