------------------------- MODULE SocketClientProofs -------------------------
(***************************************************************************)
(* For every pair of buffer capacities: the buffers stay well formed, and  *)
(* SocketClient's read and write lose, repeat and reorder nothing.         *)
(***************************************************************************)
EXTENDS SocketClient, BufferLemmas

(* The socket never answers with more bytes than it was offered. *)
LEMMA SocketAnswers ==
  ASSUME TypeOK, NEW len \in Nat
  PROVE  /\ \A n \in SocketReads(len) : n \in Int /\ -1 <= n /\ n <= len
         /\ \A n \in SocketWrites(len) : n \in Int /\ -1 <= n /\ n <= len
  BY BoundAssumption DEF SocketReads, SocketWrites, Min2, TypeOK
-----------------------------------------------------------------------------
(* Every step keeps both buffers well formed. *)
LEMMA TypeStep == TypeOK /\ [Next]_vars => TypeOK'
  <1> SUFFICES ASSUME TypeOK, [Next]_vars PROVE TypeOK'
    OBVIOUS
  <1> USE CapAssumption, BoundAssumption
  <1>0. ASSUME NEW s \in {"UNCONNECTED", "CONNECTED"}, NEW l \in {"up", "eof", "down"},
               ClearBuffers(s, l), wire' = wire \/ wire' = <<>>
        PROVE  TypeOK'
    <2>1. EmptyRead(readBuffer) \in Buffers(ReadCap) /\ Clear(writeBuffer) \in Buffers(WriteCap)
      BY BufferOps DEF TypeOK
    <2>2. wire' \in Seq(Nat)
      <3>1. wire \in Seq(Nat) /\ <<>> \in Seq(Nat)
        BY DEF TypeOK
      <3> QED
        BY <1>0, <3>1, Zenon
    <2> QED
      BY <1>0, <2>1, <2>2 DEF ClearBuffers, TypeOK
  <1>1. CASE Connect
    <2>1. socketState \in {"UNCONNECTED", "CONNECTED"} /\ link \in {"up", "eof", "down"}
      BY DEF TypeOK
    <2>2. PICK s \in {"UNCONNECTED", "CONNECTED"}, l \in {"up", "eof", "down"} :
            ClearBuffers(s, l) /\ (wire' = wire \/ wire' = <<>>)
      BY <1>1, <2>1 DEF Connect
    <2> QED
      BY <1>0, <2>2
  <1>2. CASE Close
    BY <1>2 DEF Close, TypeOK
  <1>3. CASE Reconnect
    <2>1. CASE Close
      BY <1>2, <2>1
    <2>2. CASE ~Close
      <3>1. PICK s \in {"UNCONNECTED", "CONNECTED"}, l \in {"up", "eof", "down"} :
              ClearBuffers(s, l) /\ (wire' = wire \/ wire' = <<>>)
        BY <1>3, <2>2 DEF Reconnect
      <3> QED
        BY <1>0, <3>1
    <2> QED
      BY <2>1, <2>2
  <1>4. CASE Reset
    BY <1>0, <1>4 DEF Reset, TypeOK
  <1>5. CASE PeerClose
    BY <1>5 DEF PeerClose, TypeOK
  <1>6. ASSUME NEW len \in 0..ReadCap, Read(len)
        PROVE  TypeOK'
    <2> DEFINE b == BeforeRead(readBuffer)
    <2>1. b \in Buffers(ReadCap)
      BY BeforeReadType DEF TypeOK
    <2>2. CASE socketState # "CONNECTED"
      BY <1>6, <2>1, <2>2 DEF Read, TypeOK
    <2>3. CASE socketState = "CONNECTED"
      <3>1. PICK n \in SocketReads(Clamp(len, b)) :
              /\ readBuffer' = AfterRead(IF n > 0 THEN PutRun(b, rcvd, n) ELSE b, n)
              /\ rcvd' = rcvd + (IF n > 0 THEN n ELSE 0)
              /\ readFailed' = (readFailed \/ n < 0)
        BY <1>6, <2>3 DEF Read
      <3>2. Clamp(len, b) \in 0..Remaining(b) /\ Remaining(b) \in 0..ReadCap
        BY <2>1, ClampBounds
      <3>3. n \in Int /\ -1 <= n /\ n <= Clamp(len, b)
        BY <3>2, SocketAnswers
      <3>4. n > 0 => n \in 0..Remaining(b)
        BY <3>2, <3>3
      <3>5. (IF n > 0 THEN PutRun(b, rcvd, n) ELSE b) \in Buffers(ReadCap)
        BY <2>1, <3>4, BufferOps DEF TypeOK
      <3>6. readBuffer' \in Buffers(ReadCap)
        BY <3>1, <3>2, <3>3, <3>5, AfterReadType
      <3> QED
        BY <1>6, <3>1, <3>3, <3>6 DEF Read, TypeOK
    <2> QED
      BY <2>2, <2>3
  <1>7. ASSUME NEW k \in 1..ReadCap, Consume(k)
        PROVE  TypeOK'
    <2>1. k \in 0..Remaining(readBuffer)
      BY <1>7, BufferFields DEF Consume, TypeOK, Remaining
    <2> QED
      BY <1>7, <2>1, BufferOps DEF Consume, TypeOK
  <1>8. ASSUME NEW k \in 1..WriteCap, Put(k)
        PROVE  TypeOK'
    <2>1. k \in 0..Remaining(writeBuffer)
      BY <1>8, BufferFields DEF Put, TypeOK, Remaining
    <2> QED
      BY <1>8, <2>1, BufferOps DEF Put, TypeOK
  <1>9. ASSUME NEW len \in 0..WriteCap, Write(len)
        PROVE  TypeOK'
    <2> DEFINE b == Flip(writeBuffer)
    <2>1. b \in Buffers(WriteCap)
      BY BufferOps DEF TypeOK
    <2>2. CASE socketState # "CONNECTED"
      BY <1>9, <2>1, <2>2 DEF Write, TypeOK
    <2>3. CASE socketState = "CONNECTED"
      <3>1. PICK n \in SocketWrites(Clamp(len, b)) :
              LET m == IF n > 0 THEN n ELSE 0 IN
              /\ writeBuffer' = AfterWrite(Advance(b, m), n)
              /\ flushed' = flushed + m
              /\ wire' = wire \o [i \in 1..m |-> b.data[i-1]]
        BY <1>9, <2>3 DEF Write
      <3> DEFINE m == IF n > 0 THEN n ELSE 0
      <3>2. Clamp(len, b) \in 0..Remaining(b) /\ Remaining(b) \in 0..WriteCap
        BY <2>1, ClampBounds
      <3>3. n \in Int /\ m \in 0..Remaining(b) /\ m \in 0..WriteCap
        BY <3>2, SocketAnswers
      <3>4. writeBuffer' \in Buffers(WriteCap)
        BY <2>1, <3>1, <3>3, BufferOps, AfterWriteType
      <3>5. \A i \in 1..m : b.data[i-1] \in Nat
        BY <2>1, <3>3, BufferFields
      <3>6. wire' \in Seq(Nat)
        BY <3>1, <3>3, <3>5 DEF TypeOK
      <3> QED
        BY <1>9, <3>1, <3>3, <3>4, <3>6 DEF Write, TypeOK
    <2> QED
      BY <2>2, <2>3
  <1>10. CASE UNCHANGED vars
    BY <1>10 DEF vars, TypeOK
  <1> QED
    BY <1>1, <1>2, <1>3, <1>4, <1>5, <1>6, <1>7, <1>8, <1>9, <1>10 DEF Next

(* SocketClient's buffers are always in a state ByteBuffer allows, so the   *)
(* native code is never given a range outside the buffer, for every pair of *)
(* capacities.                                                              *)
THEOREM BuffersWellFormed == Spec => []TypeOK
  <1>1. Init => TypeOK
    <2> SUFFICES ASSUME Init PROVE TypeOK
      OBVIOUS
    <2>1. /\ EmptyRead(Allocate(ReadCap)) \in Buffers(ReadCap)
          /\ Clear(Allocate(WriteCap)) \in Buffers(WriteCap)
      BY CapAssumption, AllocateType, BufferOps
    <2>2. readBuffer \in Buffers(ReadCap) /\ writeBuffer \in Buffers(WriteCap)
      BY <2>1, Zenon DEF Init
    <2>3. <<>> \in Seq(Nat)
      OBVIOUS
    <2>4. wire \in Seq(Nat)
      BY <2>3, Zenon DEF Init
    <2>5. /\ socketState = "UNCONNECTED" /\ link = "down"
          /\ rcvd = 0 /\ taken = 0 /\ put = 0 /\ flushed = 0 /\ readFailed = FALSE
      BY DEF Init
    <2> QED
      BY <2>2, <2>4, <2>5 DEF TypeOK
  <1> QED
    BY <1>1, TypeStep, PTL DEF Spec

-----------------------------------------------------------------------------
(* clearBuffers leaves nothing to read and nothing to send. *)
LEMMA ClearedBuffers ==
  ASSUME NEW cap \in Nat \ {0}, NEW b \in Buffers(cap)
  PROVE  /\ EmptyRead(b).pos = 0 /\ EmptyRead(b).lim = 0 /\ EmptyRead(b).cap = cap
         /\ Clear(b).pos = 0 /\ Clear(b).lim = cap /\ Clear(b).cap = cap
  BY BufferFields DEF EmptyRead, Clear, SetLimit, Set

(* Every step keeps ReadWindow, if read() is never called on a buffer full  *)
(* of unread bytes.                                                         *)
LEMMA ReadWindowStep ==
  ASSUME ~FullReads, TypeOK, ReadWindow, [Next]_vars
  PROVE  ReadWindow'
  <1> USE CapAssumption
  <1>0. /\ readBuffer \in Buffers(ReadCap) /\ rcvd \in Nat /\ taken \in Nat
        /\ readBuffer' \in Buffers(ReadCap)
    BY TypeStep DEF TypeOK
  <1>1. ASSUME readBuffer' = EmptyRead(readBuffer), taken' = rcvd, rcvd' = rcvd
        PROVE  ReadWindow'
    BY <1>0, <1>1, ClearedBuffers DEF ReadWindow, Remaining, Holds
  <1>2. ASSUME UNCHANGED <<readBuffer, rcvd, taken, readFailed>>
        PROVE  ReadWindow'
    BY <1>2 DEF ReadWindow
  <1>3. CASE Connect
    BY <1>1, <1>3 DEF Connect, ClearBuffers
  <1>4. CASE Close
    BY <1>2, <1>4 DEF Close
  <1>5. CASE Reconnect
    BY <1>1, <1>4, <1>5 DEF Reconnect, ClearBuffers
  <1>6. CASE Reset
    BY <1>1, <1>6 DEF Reset, ClearBuffers
  <1>7. CASE PeerClose
    BY <1>2, <1>7 DEF PeerClose
  <1>8. ASSUME NEW len \in 0..ReadCap, Read(len)
        PROVE  ReadWindow'
    <2> SUFFICES ASSUME ~readFailed' PROVE ReadWindow'
      BY DEF ReadWindow
    <2> DEFINE b == BeforeRead(readBuffer)
    <2>1. PICK n \in SocketReads(Clamp(len, b)) :
            /\ readBuffer' = AfterRead(IF n > 0 THEN PutRun(b, rcvd, n) ELSE b, n)
            /\ rcvd' = rcvd + (IF n > 0 THEN n ELSE 0)
            /\ readFailed' = (readFailed \/ n < 0)
      BY <1>8 DEF Read
    <2>2. ~readFailed /\ ~Full(readBuffer) /\ taken' = taken
      BY <1>8, <2>1 DEF Read
    <2>3. /\ rcvd = taken + Remaining(readBuffer) /\ Remaining(readBuffer) \in Nat
          /\ Holds(readBuffer, readBuffer.pos, readBuffer.lim, taken)
      BY <1>0, <2>2, BufferFields DEF ReadWindow, Remaining
    <2>4. /\ b.pos = Remaining(readBuffer) /\ b.lim = ReadCap
          /\ Holds(b, 0, b.pos, taken)
      BY <1>0, <2>2, <2>3, BeforeReadKeepsUnread
    <2>5. b \in Buffers(ReadCap)
      BY <1>0, BeforeReadType
    <2>6. n \in Nat /\ n \in 0..Remaining(b)
      <3>1. Clamp(len, b) \in 0..Remaining(b) /\ Remaining(b) \in 0..ReadCap
        BY <2>5, ClampBounds
      <3>2. n \in Int /\ n <= Clamp(len, b)
        BY <3>1, SocketAnswers
      <3>3. ~(n < 0)
        BY <2>1, Zenon
      <3> QED
        BY <3>1, <3>2, <3>3
    <2> DEFINE c == IF n > 0 THEN PutRun(b, rcvd, n) ELSE b
    <2>7. /\ c \in Buffers(ReadCap) /\ c.cap = ReadCap /\ c.pos = b.pos + n
          /\ Holds(c, 0, c.pos, taken)
      <3>1. CASE n > 0
        <4>1. rcvd = taken + b.pos
          BY <2>3, <2>4
        <4>2. PutRun(b, rcvd, n) \in Buffers(ReadCap)
          BY <1>0, <2>5, <2>6, BufferOps
        <4> QED
          BY <1>0, <2>4, <2>5, <2>6, <3>1, <4>1, <4>2, PutRunExtends
      <3>2. CASE n = 0
        BY <2>4, <2>5, <3>2, BufferFields
      <3> QED
        BY <2>6, <3>1, <3>2
    <2>8. /\ readBuffer'.cap = ReadCap /\ readBuffer'.data = c.data
          /\ readBuffer'.pos = 0 /\ readBuffer'.lim = c.pos
      <3>1. c.pos = 0 => n = 0
        BY <2>3, <2>4, <2>6, <2>7
      <3> QED
        BY <2>1, <2>6, <2>7, <3>1, AfterReadFlips
    <2>9. rcvd' - taken' = Remaining(readBuffer')
      BY <1>0, <2>1, <2>2, <2>3, <2>4, <2>6, <2>7, <2>8 DEF Remaining
    <2>10. Holds(readBuffer', readBuffer'.pos, readBuffer'.lim, taken')
      BY <2>2, <2>7, <2>8 DEF Holds
    <2> QED
      BY <2>9, <2>10 DEF ReadWindow
  <1>9. ASSUME NEW k \in 1..ReadCap, Consume(k)
        PROVE  ReadWindow'
    <2> SUFFICES ASSUME ~readFailed' PROVE ReadWindow'
      BY DEF ReadWindow
    <2>1. /\ readBuffer'.cap = ReadCap /\ readBuffer'.data = readBuffer.data
          /\ readBuffer'.pos = readBuffer.pos + k /\ readBuffer'.lim = readBuffer.lim
          /\ taken' = taken + k /\ rcvd' = rcvd /\ ~readFailed
      BY <1>0, <1>9, BufferFields DEF Consume, Advance, Set
    <2>2. /\ readBuffer.cap = ReadCap /\ readBuffer.pos \in Nat /\ readBuffer.lim \in Nat
      BY <1>0, BufferFields
    <2>3. rcvd' - taken' = Remaining(readBuffer')
      BY <1>0, <2>1, <2>2 DEF ReadWindow, Remaining
    <2>4. Holds(readBuffer', readBuffer'.pos, readBuffer'.lim, taken')
      BY <1>0, <2>1, <2>2 DEF ReadWindow, Holds
    <2> QED
      BY <2>3, <2>4 DEF ReadWindow
  <1>10. ASSUME NEW k \in 1..WriteCap, Put(k)
         PROVE  ReadWindow'
    BY <1>2, <1>10 DEF Put
  <1>11. ASSUME NEW len \in 0..WriteCap, Write(len)
         PROVE  ReadWindow'
    BY <1>2, <1>11 DEF Write
  <1>12. CASE UNCHANGED vars
    BY <1>2, <1>12 DEF vars
  <1> QED
    BY <1>3, <1>4, <1>5, <1>6, <1>7, <1>8, <1>9, <1>10, <1>11, <1>12 DEF Next

(* SocketClient.read loses, repeats and reorders nothing, for every buffer  *)
(* size, as long as the reader never asks for more while the buffer is full *)
(* of unread bytes.                                                         *)
THEOREM ReadIntegrity == ~FullReads => (Spec => []ReadWindow)
  <1> SUFFICES ASSUME ~FullReads PROVE Spec => []ReadWindow
    OBVIOUS
  <1>1. Init => ReadWindow
    <2> SUFFICES ASSUME Init PROVE ReadWindow
      OBVIOUS
    <2>1. Allocate(ReadCap) \in Buffers(ReadCap)
      BY CapAssumption, AllocateType
    <2>2. readBuffer.pos = 0 /\ readBuffer.lim = 0 /\ readBuffer.cap = ReadCap
      BY <2>1, CapAssumption, ClearedBuffers DEF Init
    <2> QED
      BY <2>2 DEF Init, ReadWindow, Remaining, Holds
  <1>2. TypeOK /\ ReadWindow /\ [Next]_vars => ReadWindow'
    BY ReadWindowStep
  <1> QED
    BY <1>1, <1>2, BuffersWellFormed, PTL DEF Spec

-----------------------------------------------------------------------------
(* WriteWindow is not inductive by itself: a write the socket does not      *)
(* accept needs room above the unsent bytes.                                *)
WriteInv ==
  /\ WriteWindow
  /\ socketState = "CONNECTED" => writeBuffer.pos < WriteCap

(* SocketClient.write on a buffer with room: the bytes the socket took are  *)
(* gone and the others have moved to the front.                             *)
LEMMA AfterWriteKeepsUnsent ==
  ASSUME NEW cap \in Nat \ {0}, NEW w \in Buffers(cap), w.pos < cap,
         NEW base \in Nat, Holds(w, 0, w.pos, base),
         NEW n \in Int, NEW m \in Nat, n > 0 => m = n, ~(n > 0) => m = 0, m <= w.pos
  PROVE  LET c == AfterWrite(Advance(Flip(w), m), n) IN
         /\ c.cap = cap /\ c.lim = cap /\ c.pos = w.pos - m
         /\ Holds(c, 0, w.pos - m, base + m)
  <1> DEFINE b == Advance(Flip(w), m)
             c == AfterWrite(b, n)
  <1>0. /\ w.cap = cap /\ w.pos \in 0..cap /\ w.data \in [0..cap-1 -> Nat]
        /\ b.cap = cap /\ b.pos = m /\ b.lim = w.pos /\ b.data = w.data
    BY BufferFields DEF Advance, Flip, Set
  <1> HIDE DEF b
  <1>1. CASE n > 0 /\ m = w.pos
    <2>1. c = Clear(b)
      BY <1>0, <1>1 DEF AfterWrite, Remaining
    <2> QED
      BY <1>0, <1>1, <2>1 DEF Clear, Set, Holds, b
  <1>2. CASE n > 0 /\ m < w.pos
    <2>1. c = Compact(b)
      BY <1>0, <1>2 DEF AfterWrite, Remaining
    <2>2. c.cap = cap /\ c.lim = cap /\ c.pos = w.pos - m
      BY <1>0, <2>1 DEF Compact, Set
    <2>3. ASSUME NEW i \in 0..cap-1, i < w.pos - m
          PROVE  c.data[i] = base + m + i + 1
      <3>1. m + i \in 0..cap-1 /\ 0 <= m + i /\ m + i < w.pos
        BY <1>0, <2>3
      <3>2. w.data[m + i] = base + ((m + i) - 0) + 1
        BY <1>0, <3>1 DEF Holds
      <3>3. c.data[i] = w.data[m + i]
        BY <1>0, <2>1, <2>3 DEF Compact, Set
      <3> QED
        BY <1>0, <3>1, <3>2, <3>3
    <2> QED
      BY <1>0, <2>2, <2>3 DEF Holds, b
  <1>3. CASE ~(n > 0)
    <2>1. c = ReverseFlip(b) /\ m = 0
      BY <1>0, <1>3 DEF AfterWrite
    <2> QED
      BY <1>0, <2>1 DEF ReverseFlip, Set, Holds, b
  <1> QED
    BY <1>0, <1>1, <1>2, <1>3

(* Every step keeps WriteInv, if the application leaves the last byte of    *)
(* the write buffer free.                                                   *)
LEMMA WriteInvStep ==
  ASSUME ~FullWrites, TypeOK, WriteInv, [Next]_vars
  PROVE  WriteInv'
  <1> USE CapAssumption
  <1>0. /\ writeBuffer \in Buffers(WriteCap) /\ put \in Nat /\ flushed \in Nat
        /\ writeBuffer' \in Buffers(WriteCap)
    BY TypeStep DEF TypeOK
  <1>1. ASSUME writeBuffer' = Clear(writeBuffer), flushed' = put, put' = put
        PROVE  WriteInv'
    BY <1>0, <1>1, ClearedBuffers DEF WriteInv, WriteWindow, Holds
  <1>2. ASSUME UNCHANGED <<writeBuffer, put, flushed>>,
               socketState' = "CONNECTED" => socketState = "CONNECTED"
        PROVE  WriteInv'
    BY <1>2 DEF WriteInv, WriteWindow
  <1>3. CASE Connect
    BY <1>1, <1>3 DEF Connect, ClearBuffers
  <1>4. CASE Close
    BY <1>2, <1>4 DEF Close
  <1>5. CASE Reconnect
    BY <1>1, <1>4, <1>5 DEF Reconnect, ClearBuffers
  <1>6. CASE Reset
    BY <1>1, <1>6 DEF Reset, ClearBuffers
  <1>7. CASE PeerClose
    BY <1>2, <1>7 DEF PeerClose
  <1>8. ASSUME NEW len \in 0..ReadCap, Read(len)
        PROVE  WriteInv'
    BY <1>2, <1>8 DEF Read
  <1>9. ASSUME NEW k \in 1..ReadCap, Consume(k)
        PROVE  WriteInv'
    BY <1>2, <1>9 DEF Consume
  <1>10. ASSUME NEW k \in 1..WriteCap, Put(k)
         PROVE  WriteInv'
    <2> SUFFICES ASSUME socketState' = "CONNECTED" PROVE WriteInv'
      BY DEF WriteInv, WriteWindow
    <2>1. /\ k < Remaining(writeBuffer) /\ flushed' = flushed /\ put' = put + k
          /\ writeBuffer' = PutRun(writeBuffer, put, k) /\ socketState = "CONNECTED"
      BY <1>10 DEF Put
    <2>2. /\ writeBuffer.lim = WriteCap /\ put = flushed + writeBuffer.pos
          /\ Holds(writeBuffer, 0, writeBuffer.pos, flushed)
          /\ writeBuffer.pos \in Nat
      BY <1>0, <2>1, BufferFields DEF WriteInv, WriteWindow
    <2>3. k \in 0..Remaining(writeBuffer)
      BY <1>0, <2>1, BufferFields DEF Remaining
    <2>4. /\ writeBuffer'.pos = writeBuffer.pos + k /\ writeBuffer'.lim = WriteCap
          /\ Holds(writeBuffer', 0, writeBuffer.pos + k, flushed)
      BY <1>0, <2>1, <2>2, <2>3, PutRunExtends
    <2> QED
      BY <1>0, <2>1, <2>2, <2>4 DEF WriteInv, WriteWindow, Remaining
  <1>11. ASSUME NEW len \in 0..WriteCap, Write(len)
         PROVE  WriteInv'
    <2> SUFFICES ASSUME socketState' = "CONNECTED" PROVE WriteInv'
      BY DEF WriteInv, WriteWindow
    <2> DEFINE b == Flip(writeBuffer)
    <2>1. PICK n \in SocketWrites(Clamp(len, b)) :
            LET m == IF n > 0 THEN n ELSE 0 IN
            /\ writeBuffer' = AfterWrite(Advance(b, m), n)
            /\ flushed' = flushed + m
            /\ wire' = wire \o [i \in 1..m |-> b.data[i-1]]
      BY <1>11 DEF Write
    <2> DEFINE m == IF n > 0 THEN n ELSE 0
    <2>2. socketState = "CONNECTED" /\ put' = put
      BY <1>11 DEF Write
    <2>3. /\ put = flushed + writeBuffer.pos /\ writeBuffer.pos < WriteCap
          /\ Holds(writeBuffer, 0, writeBuffer.pos, flushed) /\ writeBuffer.pos \in Nat
      BY <1>0, <2>2, BufferFields DEF WriteInv, WriteWindow
    <2>4. b \in Buffers(WriteCap) /\ Remaining(b) = writeBuffer.pos
      BY <1>0, <2>3, BufferOps DEF Remaining, Flip, Set
    <2>5. n \in Int /\ m \in Nat /\ m <= writeBuffer.pos
      <3>1. Clamp(len, b) \in 0..Remaining(b)
        BY <2>4, ClampBounds
      <3>2. n \in Int /\ n <= Clamp(len, b) /\ Clamp(len, b) \in Nat
        BY <2>3, <2>4, <3>1, SocketAnswers
      <3> QED
        BY <2>3, <2>4, <3>1, <3>2
    <2> HIDE DEF m
    <2>6. /\ writeBuffer'.lim = WriteCap /\ writeBuffer'.pos = writeBuffer.pos - m
          /\ Holds(writeBuffer', 0, writeBuffer.pos - m, flushed + m)
      <3>1. writeBuffer' = AfterWrite(Advance(Flip(writeBuffer), m), n)
        BY <2>1 DEF m
      <3>2. (n > 0 => m = n) /\ (~(n > 0) => m = 0)
        BY DEF m
      <3>3. LET c == AfterWrite(Advance(Flip(writeBuffer), m), n) IN
            /\ c.cap = WriteCap /\ c.lim = WriteCap /\ c.pos = writeBuffer.pos - m
            /\ Holds(c, 0, writeBuffer.pos - m, flushed + m)
        BY <1>0, <2>3, <2>5, <3>2, AfterWriteKeepsUnsent
      <3> QED
        BY <3>1, <3>3
    <2>7. flushed' = flushed + m
      BY <2>1 DEF m
    <2> QED
      BY <1>0, <2>2, <2>3, <2>5, <2>6, <2>7 DEF WriteInv, WriteWindow
  <1>12. CASE UNCHANGED vars
    BY <1>2, <1>12 DEF vars
  <1> QED
    BY <1>3, <1>4, <1>5, <1>6, <1>7, <1>8, <1>9, <1>10, <1>11, <1>12 DEF Next

(* WriteInv holds throughout, which is what the write theorems rest on. *)
LEMMA WriteInvariant == ~FullWrites => (Spec => []WriteInv)
  <1> SUFFICES ASSUME ~FullWrites PROVE Spec => []WriteInv
    OBVIOUS
  <1>1. Init => WriteInv
    BY DEF Init, WriteInv, WriteWindow
  <1>2. TypeOK /\ WriteInv /\ [Next]_vars => WriteInv'
    BY WriteInvStep
  <1> QED
    BY <1>1, <1>2, BuffersWellFormed, PTL DEF Spec

(* SocketClient.write keeps exactly the bytes that were put and not yet     *)
(* accepted, for every buffer size, as long as the application leaves the   *)
(* last byte of the buffer free.                                            *)
THEOREM WriteIntegrity == ~FullWrites => (Spec => []WriteWindow)
  <1>1. WriteInv => WriteWindow
    BY DEF WriteInv
  <1> QED
    BY <1>1, WriteInvariant, PTL

-----------------------------------------------------------------------------
(* What keeps WireInOrder: nothing on the wire is newer than `flushed'. *)
WireInv ==
  /\ WireInOrder
  /\ \A i \in 1..Len(wire) : wire[i] <= flushed
  /\ flushed <= put

(* The length of a concatenation. *)
LEMMA ConcatLength ==
  ASSUME NEW s \in Seq(Nat), NEW t \in Seq(Nat)
  PROVE  Len(s \o t) = Len(s) + Len(t) /\ Len(s) \in Nat
  OBVIOUS

(* Appending the next m bytes to an ordered sequence keeps it ordered. *)
LEMMA AppendInOrder ==
  ASSUME NEW s \in Seq(Nat), NEW m \in Nat, NEW last \in Nat,
         NEW t \in Seq(Nat), Len(t) = m, \A i \in 1..m : t[i] = last + i,
         \A i, j \in 1..Len(s) : i < j => s[i] < s[j],
         \A i \in 1..Len(s) : s[i] <= last
  PROVE  /\ \A i, j \in 1..Len(s \o t) : i < j => (s \o t)[i] < (s \o t)[j]
         /\ \A i \in 1..Len(s \o t) : (s \o t)[i] <= last + m
  <1> DEFINE u == s \o t
  <1>1. Len(u) = Len(s) + m /\ Len(s) \in Nat
    BY ConcatLength
  <1>2. ASSUME NEW i \in 1..Len(s)
        PROVE  u[i] = s[i] /\ s[i] \in Nat
    OBVIOUS
  <1>3. \A i \in 1..Len(u) : i > Len(s) => u[i] = last + (i - Len(s))
    <2> SUFFICES ASSUME NEW i \in 1..Len(u), i > Len(s)
                 PROVE  u[i] = last + (i - Len(s))
      OBVIOUS
    <2>1. i - Len(s) \in 1..m
      BY <1>1
    <2>2. u[i] = t[i - Len(s)]
      BY <1>1, <2>1
    <2> QED
      BY <2>1, <2>2
  <1> HIDE DEF u
  <1>4. ASSUME NEW i \in 1..Len(u), NEW j \in 1..Len(u), i < j
        PROVE  u[i] < u[j]
    <2>1. CASE j <= Len(s)
      <3>1. i \in 1..Len(s) /\ j \in 1..Len(s)
        BY <1>1, <1>4, <2>1
      <3> QED
        BY <1>2, <1>4, <3>1
    <2>2. CASE i <= Len(s) /\ j > Len(s)
      <3>1. i \in 1..Len(s)
        BY <1>1, <2>2
      <3>2. u[i] <= last /\ u[i] \in Nat
        BY <1>2, <3>1
      <3>3. u[j] = last + (j - Len(s))
        BY <1>3, <2>2
      <3> QED
        BY <1>1, <2>2, <3>2, <3>3
    <2>3. CASE i > Len(s)
      <3>1. u[i] = last + (i - Len(s)) /\ u[j] = last + (j - Len(s))
        BY <1>1, <1>3, <1>4, <2>3
      <3> QED
        BY <1>1, <1>4, <3>1
    <2> QED
      BY <1>1, <2>1, <2>2, <2>3
  <1>5. ASSUME NEW i \in 1..Len(u)
        PROVE  u[i] <= last + m
    <2>1. CASE i <= Len(s)
      <3>1. i \in 1..Len(s)
        BY <1>1, <2>1
      <3>2. u[i] <= last /\ u[i] \in Nat
        BY <1>2, <3>1
      <3> QED
        BY <3>2
    <2>2. CASE i > Len(s)
      BY <1>1, <1>3, <2>2
    <2> QED
      BY <1>1, <2>1, <2>2
  <1> QED
    BY <1>4, <1>5 DEF u

(* Every step keeps WireInv. *)
LEMMA WireInvStep ==
  ASSUME TypeOK, WriteInv, WireInv, [Next]_vars
  PROVE  WireInv'
  <1> USE CapAssumption
  <1>0. /\ writeBuffer \in Buffers(WriteCap) /\ put \in Nat /\ flushed \in Nat
        /\ wire \in Seq(Nat) /\ Len(wire) \in Nat /\ \A i \in 1..Len(wire) : wire[i] \in Nat
    BY DEF TypeOK
  <1>1. ASSUME wire' = wire, flushed <= flushed', flushed' <= put', flushed' \in Nat
        PROVE  WireInv'
    BY <1>0, <1>1 DEF WireInv, WireInOrder
  <1>2. ASSUME wire' = <<>>, flushed' <= put'
        PROVE  WireInv'
    BY <1>2 DEF WireInv, WireInOrder
  <1>3. ASSUME wire' = wire \/ wire' = <<>>, flushed' = put, put' = put
        PROVE  WireInv'
    BY <1>0, <1>1, <1>2, <1>3 DEF WireInv
  <1>4. ASSUME UNCHANGED <<wire, flushed, put>>
        PROVE  WireInv'
    BY <1>0, <1>1, <1>4 DEF WireInv
  <1>5. CASE Connect
    BY <1>3, <1>5 DEF Connect, ClearBuffers
  <1>6. CASE Close
    BY <1>4, <1>6 DEF Close
  <1>7. CASE Reconnect
    BY <1>3, <1>6, <1>7 DEF Reconnect, ClearBuffers
  <1>8. CASE Reset
    BY <1>3, <1>8 DEF Reset, ClearBuffers
  <1>9. CASE PeerClose
    BY <1>4, <1>9 DEF PeerClose
  <1>10. ASSUME NEW len \in 0..ReadCap, Read(len)
         PROVE  WireInv'
    BY <1>4, <1>10 DEF Read
  <1>11. ASSUME NEW k \in 1..ReadCap, Consume(k)
         PROVE  WireInv'
    BY <1>4, <1>11 DEF Consume
  <1>12. ASSUME NEW k \in 1..WriteCap, Put(k)
         PROVE  WireInv'
    <2>1. wire' = wire /\ flushed' = flushed /\ put' = put + k
      BY <1>12 DEF Put
    <2> QED
      BY <1>0, <1>1, <2>1 DEF WireInv
  <1>13. ASSUME NEW len \in 0..WriteCap, Write(len)
         PROVE  WireInv'
    <2>1. CASE socketState # "CONNECTED"
      BY <1>4, <1>13, <2>1 DEF Write
    <2>2. CASE socketState = "CONNECTED"
      <3> DEFINE b == Flip(writeBuffer)
      <3>1. PICK n \in SocketWrites(Clamp(len, b)) :
              LET m == IF n > 0 THEN n ELSE 0 IN
              /\ writeBuffer' = AfterWrite(Advance(b, m), n)
              /\ flushed' = flushed + m
              /\ wire' = wire \o [i \in 1..m |-> b.data[i-1]]
        BY <1>13, <2>2 DEF Write
      <3> DEFINE m == IF n > 0 THEN n ELSE 0
                 t == [i \in 1..m |-> b.data[i-1]]
      <3>2. /\ put = flushed + writeBuffer.pos /\ writeBuffer.pos \in 0..WriteCap
            /\ Holds(writeBuffer, 0, writeBuffer.pos, flushed)
            /\ writeBuffer.cap = WriteCap
        BY <1>0, <2>2, BufferFields DEF WriteInv, WriteWindow
      <3>3. /\ b \in Buffers(WriteCap) /\ Remaining(b) = writeBuffer.pos
            /\ b.data = writeBuffer.data
        BY <1>0, <3>2, BufferOps DEF Remaining, Flip, Set
      <3>4. n \in Int /\ m \in Nat /\ m <= writeBuffer.pos
        <4>1. Clamp(len, b) \in 0..Remaining(b)
          BY <3>3, ClampBounds
        <4>2. n \in Int /\ n <= Clamp(len, b) /\ Clamp(len, b) \in Nat
          BY <3>2, <3>3, <4>1, SocketAnswers
        <4> QED
          BY <3>2, <3>3, <4>1, <4>2
      <3>5. wire' = wire \o t /\ flushed' = flushed + m /\ put' = put
        BY <1>13, <3>1 DEF Write
      <3> HIDE DEF m
      <3>6. ASSUME NEW i \in 1..m
            PROVE  b.data[i-1] = flushed + i
        <4>1. i - 1 \in 0..writeBuffer.cap-1 /\ 0 <= i - 1 /\ i - 1 < writeBuffer.pos
          BY <3>2, <3>4, <3>6
        <4>2. writeBuffer.data[i-1] = flushed + ((i - 1) - 0) + 1
          BY <3>2, <4>1 DEF Holds
        <4> QED
          BY <1>0, <3>3, <4>1, <4>2
      <3>7. \A i \in 1..m : t[i] = flushed + i
        BY <3>6
      <3>8. t \in Seq(Nat) /\ Len(t) = m
        BY <1>0, <3>4, <3>6
      <3> HIDE DEF t
      <3>9. /\ \A i, j \in 1..Len(wire \o t) : i < j => (wire \o t)[i] < (wire \o t)[j]
            /\ \A i \in 1..Len(wire \o t) : (wire \o t)[i] <= flushed + m
        <4>1. /\ \A i, j \in 1..Len(wire) : i < j => wire[i] < wire[j]
              /\ \A i \in 1..Len(wire) : wire[i] <= flushed
          BY DEF WireInv, WireInOrder
        <4> QED
          BY <1>0, <3>4, <3>7, <3>8, <4>1, AppendInOrder
      <3>10. WireInOrder' /\ \A i \in 1..Len(wire') : wire'[i] <= flushed'
        BY <3>5, <3>9, Zenon DEF WireInOrder
      <3>11. flushed' <= put'
        BY <1>0, <3>2, <3>4, <3>5
      <3> QED
        BY <3>10, <3>11 DEF WireInv
    <2> QED
      BY <2>1, <2>2
  <1>14. CASE UNCHANGED vars
    BY <1>4, <1>14 DEF vars
  <1> QED
    BY <1>5, <1>6, <1>7, <1>8, <1>9, <1>10, <1>11, <1>12, <1>13, <1>14 DEF Next

(* On every connection the socket gets the application's bytes in order and *)
(* at most once, for every buffer size, as long as the application leaves   *)
(* the last byte of the write buffer free.                                  *)
THEOREM WireOrder == ~FullWrites => (Spec => []WireInOrder)
  <1> SUFFICES ASSUME ~FullWrites PROVE Spec => []WireInOrder
    OBVIOUS
  <1>1. Init => WireInv
    BY DEF Init, WireInv, WireInOrder
  <1>2. TypeOK /\ WriteInv /\ WireInv /\ [Next]_vars => WireInv'
    BY WireInvStep
  <1>3. WireInv => WireInOrder
    BY DEF WireInv
  <1> QED
    BY <1>1, <1>2, <1>3, BuffersWellFormed, WriteInvariant, PTL DEF Spec

=============================================================================
