------------------------ MODULE WebSocketReaderProofs -----------------------
(***************************************************************************)
(* For every buffer size, every handshake length and all peers that send   *)
(* whole frames: however the bytes are cut into pieces, the application is *)
(* told the frames in order, and the buffer never holds anything but the   *)
(* bytes not told yet.                                                     *)
(***************************************************************************)
EXTENDS WebSocketReader, BufferLemmas

LEMMA BytesRange ==
  ASSUME NEW bytes \in Bytes
  PROVE  Len(bytes) \in Nat /\ \A i \in 1..Len(bytes) : bytes[i] \in Byte
  BY DEF Bytes

LEMMA ByteInt == \A byte \in Byte : byte \in Int
  BY DEF Byte

LEMMA HeaderSizes ==
  ASSUME NEW byte \in Byte
  PROVE  HeaderSize(byte) \in 2..14 /\ (byte % 128 = 126 => HeaderSize(byte) >= 4)
         /\ (byte % 128 = 127 => HeaderSize(byte) >= 10)
  BY DEF HeaderSize, Byte

(* The bytes that give the size of a frame are bytes of the frame. *)
LEMMA FrameBytes ==
  ASSUME NEW bytes \in Bytes, NEW from \in Nat, NEW to \in Nat, to <= Len(bytes),
         IsFrame(bytes, from, to)
  PROVE  LET header == HeaderSize(bytes[from + 2]) IN
         /\ bytes[from + 2] \in Byte /\ header \in 2..14
         /\ to - from \in Int /\ header <= to - from /\ to - from <= MaxInt
         /\ \A i \in 1..14 : i <= header => from + i \in 1..Len(bytes)
                                            /\ bytes[from + i] \in Byte
  <1>1. to - from \in 2..MaxInt /\ to - from >= HeaderSize(bytes[from + 2])
    BY Zenon DEF IsFrame
  <1> DEFINE n == Len(bytes)
  <1>2. n \in Nat /\ \A i \in 1..n : bytes[i] \in Byte
    BY BytesRange
  <1>3. from + 2 \in 1..n
    <2> HIDE DEF n
    <2>1. to - from >= 2
      BY <1>1
    <2> QED
      BY <1>2, <2>1 DEF n
  <1>4. bytes[from + 2] \in Byte
    BY <1>2, <1>3, Zenon
  <1>5. HeaderSize(bytes[from + 2]) \in 2..14
    BY <1>4, HeaderSizes, Zenon
  <1> DEFINE header == HeaderSize(bytes[from + 2])
  <1>6. ASSUME NEW i \in 1..14, i <= header
        PROVE  from + i \in 1..n
    <2>1. header \in Int /\ header <= to - from
      BY <1>1, <1>5
    <2> HIDE DEF header
    <2>2. from + i <= to /\ i \in Int /\ 1 <= i
      BY <1>6, <2>1
    <2>3. n \in Nat
      BY <1>2
    <2> QED
      BY <2>2, <2>3
  <1>7. to - from \in Int /\ header <= to - from /\ to - from <= MaxInt
    <2> HIDE DEF header
    <2> QED
      BY <1>1 DEF header
  <1> QED
    BY <1>2, <1>4, <1>5, <1>6, <1>7, Zenon

(* f wraps the first f.limit bytes behind from. *)
Shows(f, bytes, from) ==
  /\ f.limit \in Nat /\ from + f.limit <= Len(bytes)
  /\ \A i \in 0..f.limit-1 : ByteAt(f, i) = bytes[from + i + 1]

(* hasCompleteHeader and headerLength. *)
LEMMA DecodesHeader ==
  ASSUME NEW bytes \in Bytes, NEW from \in Nat, NEW to \in Nat, to <= Len(bytes),
         IsFrame(bytes, from, to), NEW f, Shows(f, bytes, from)
  PROVE  LET header == HeaderSize(bytes[from + 2]) IN
         /\ HasCompleteHeader(f) <=> f.limit >= header
         /\ HasCompleteHeader(f) => /\ HeaderLength(f) = header
                                    /\ ByteAt(f, 1) = bytes[from + 2]
                                    /\ \A i \in 1..14 : i <= header =>
                                         ByteAt(f, i - 1) = bytes[from + i]
  <1> DEFINE second == bytes[from + 2]
             header == HeaderSize(second)
  <1>1. second \in Byte /\ header \in 2..14
    BY FrameBytes, Zenon
  <1>2. f.limit \in Nat /\ \A i \in 0..f.limit-1 : ByteAt(f, i) = bytes[from + i + 1]
    BY Zenon DEF Shows
  <1>3. ASSUME f.limit > 1
        PROVE  ByteAt(f, 1) = second
    <2>1. 1 \in 0..f.limit-1 /\ from + 1 + 1 = from + 2
      BY <1>2, <1>3
    <2> QED
      BY <1>2, <2>1, Zenon
  <1>4. ASSUME f.limit > 1
        PROVE  HeaderLength(f) = header /\ 1 + PayloadLengthOctets(f) <= header
    <2> HIDE DEF second
    <2> QED
      BY <1>1, <1>3, <1>4 DEF HeaderLength, HeaderSize, PayloadLengthOctets, MaskOctets, Masked
  <1>5. PayloadLengthOctets(f) \in Int
    BY DEF PayloadLengthOctets
  <1>6. HasCompleteHeader(f) <=> f.limit >= header
    <2> HIDE DEF second, header
    <2> QED
      BY <1>1, <1>2, <1>4, <1>5 DEF HasCompleteHeader
  <1>7. ASSUME f.limit >= header, NEW i \in 1..14, i <= header
        PROVE  ByteAt(f, i - 1) = bytes[from + i]
    <2>1. i - 1 \in 0..f.limit-1 /\ from + (i - 1) + 1 = from + i
      <3> HIDE DEF second, header
      <3> QED
        BY <1>1, <1>2, <1>7
    <2> QED
      BY <1>2, <2>1, Zenon
  <1>8. HasCompleteHeader(f) => f.limit > 1
    BY DEF HasCompleteHeader
  <1> QED
    BY <1>3, <1>4, <1>6, <1>7, <1>8, Zenon

(* The same, by the code in the second byte of a frame. *)
LEMMA HeaderCodes ==
  ASSUME NEW bytes \in Bytes, NEW from \in Nat, NEW to \in Nat, to <= Len(bytes),
         IsFrame(bytes, from, to)
  PROVE  LET header == HeaderSize(bytes[from + 2]) IN
         /\ bytes[from + 2] % 128 = 126 => header >= 4
         /\ bytes[from + 2] % 128 = 127 => header >= 10
  <1> DEFINE second == bytes[from + 2]
  <1>1. second \in Byte
    BY FrameBytes, Zenon
  <1> HIDE DEF second
  <1>2. /\ second % 128 = 126 => HeaderSize(second) >= 4
        /\ second % 128 = 127 => HeaderSize(second) >= 10
    BY <1>1, HeaderSizes
  <1> QED
    BY <1>2 DEF second

(* payloadLength: once the header is there, the size the frame has. *)
LEMMA DecodesPayload ==
  ASSUME NEW bytes \in Bytes, NEW from \in Nat, NEW to \in Nat, to <= Len(bytes),
         IsFrame(bytes, from, to), NEW f, Shows(f, bytes, from), HasCompleteHeader(f)
  PROVE  PayloadLength(f) = (to - from) - HeaderSize(bytes[from + 2])
  <1> DEFINE second == bytes[from + 2]
             header == HeaderSize(second)
             size   == to - from
  <1>0. \A i \in 1..14 : i <= header => bytes[from + i] \in Byte
    BY FrameBytes, Zenon
  <1>1. second \in Byte /\ header \in 2..14 /\ size \in Int
    BY FrameBytes, Zenon
  <1>2. header \in Int
    BY <1>1
  <1>3. \A i \in 1..14 : i <= header => ByteAt(f, i - 1) = bytes[from + i]
    BY DecodesHeader, Zenon
  <1>8. ByteAt(f, 1) = second
    BY DecodesHeader, Zenon
  <1>4. ASSUME second % 128 = 126
        PROVE  /\ ByteAt(f, 2) = bytes[from + 3] /\ ByteAt(f, 3) = bytes[from + 4]
               /\ bytes[from + 3] \in Byte /\ bytes[from + 4] \in Byte
    <2>0. header >= 4
      BY <1>4, HeaderCodes
    <2>1. \A i \in 1..4 : i \in 1..14 /\ i <= header
      <3> HIDE DEF header
      <3> QED
        BY <1>2, <2>0
    <2>2. \A i \in 1..4 : ByteAt(f, i - 1) = bytes[from + i] /\ bytes[from + i] \in Byte
      BY <1>0, <1>3, <2>1, Zenon
    <2>3. 3 \in 1..4 /\ 4 \in 1..4 /\ 3 - 1 = 2 /\ 4 - 1 = 3
      OBVIOUS
    <2> QED
      BY <2>2, <2>3, Zenon
  <1>5. ASSUME second % 128 = 127
        PROVE  /\ ByteAt(f, 6) = bytes[from + 7] /\ ByteAt(f, 7) = bytes[from + 8]
               /\ ByteAt(f, 8) = bytes[from + 9] /\ ByteAt(f, 9) = bytes[from + 10]
               /\ bytes[from + 7] \in Byte /\ bytes[from + 8] \in Byte
               /\ bytes[from + 9] \in Byte /\ bytes[from + 10] \in Byte
    <2>0. header >= 10
      BY <1>5, HeaderCodes
    <2>1. \A i \in 1..10 : i \in 1..14 /\ i <= header
      <3> HIDE DEF header
      <3> QED
        BY <1>2, <2>0
    <2>2. \A i \in 1..10 : ByteAt(f, i - 1) = bytes[from + i] /\ bytes[from + i] \in Byte
      BY <1>0, <1>3, <2>1, Zenon
    <2>3. /\ 7 \in 1..10 /\ 8 \in 1..10 /\ 9 \in 1..10 /\ 10 \in 1..10
          /\ 7 - 1 = 6 /\ 8 - 1 = 7 /\ 9 - 1 = 8 /\ 10 - 1 = 9
      OBVIOUS
    <2> QED
      BY <2>2, <2>3, Zenon
  <1> DEFINE b3 == bytes[from + 3]  b4 == bytes[from + 4]  b7  == bytes[from + 7]
             b8 == bytes[from + 8]  b9 == bytes[from + 9]  b10 == bytes[from + 10]
  <1>6. /\ second % 128 = 126 => size = header + (b3 * 256 + b4)
        /\ second % 128 = 127 =>
             b7 < 128 /\ size = header + (((b7 * 256 + b8) * 256 + b9) * 256 + b10)
        /\ second % 128 # 126 /\ second % 128 # 127 => size = header + (second % 128)
    BY DEF IsFrame
  <1> HIDE DEF second, header, size, b3, b4, b7, b8, b9, b10
  <1>7. CASE second % 128 = 126
    <2>1. PayloadLength(f) = b3 * 256 + b4
      BY <1>4, <1>7, <1>8 DEF PayloadLength, b3, b4
    <2>2. b3 \in Int /\ b4 \in Int
      BY <1>4, <1>7, ByteInt, Zenon DEF b3, b4
    <2>3. size = header + (b3 * 256 + b4)
      BY <1>1, <1>2, <1>6, <1>7, <2>2
    <2>4. PayloadLength(f) = size - header
      BY <1>1, <1>2, <2>1, <2>2, <2>3
    <2> QED
      BY <2>4, Zenon DEF second, header, size
  <1>9. CASE second % 128 = 127
    <2>1. b7 \in Int /\ b8 \in Int /\ b9 \in Int /\ b10 \in Int
      BY <1>5, <1>9, ByteInt, Zenon DEF b7, b8, b9, b10
    <2>2. Signed(ByteAt(f, 6)) = b7
      <3>1. b7 < 128
        BY <1>6, <1>9
      <3>2. ByteAt(f, 6) = b7
        BY <1>5, <1>9, Zenon DEF b7
      <3> QED
        BY <2>1, <3>1, <3>2 DEF Signed
    <2>3. PayloadLength(f) = ((b7 * 256 + b8) * 256 + b9) * 256 + b10
      BY <1>5, <1>8, <1>9, <2>2 DEF PayloadLength, b8, b9, b10
    <2>4. size = header + (((b7 * 256 + b8) * 256 + b9) * 256 + b10)
      BY <1>1, <1>2, <1>6, <1>9, <2>1
    <2>5. PayloadLength(f) = size - header
      BY <1>1, <1>2, <2>1, <2>3, <2>4
    <2> QED
      BY <2>5, Zenon DEF second, header, size
  <1>10. CASE second % 128 # 126 /\ second % 128 # 127
    <2>1. PayloadLength(f) = second % 128
      BY <1>8, <1>10 DEF PayloadLength
    <2>2. second % 128 \in Int
      BY <1>1 DEF Byte
    <2>3. size = header + (second % 128)
      BY <1>6, <1>10
    <2>4. PayloadLength(f) = size - header
      BY <1>1, <1>2, <2>1, <2>2, <2>3
    <2> QED
      BY <2>4, Zenon DEF second, header, size
  <1> QED
    BY <1>7, <1>9, <1>10

(* length and isIncomplete: a frame is taken for complete exactly when all  *)
(* its bytes are there.                                                     *)
LEMMA DecodesLength ==
  ASSUME NEW bytes \in Bytes, NEW from \in Nat, NEW to \in Nat, to <= Len(bytes),
         IsFrame(bytes, from, to), NEW f, Shows(f, bytes, from)
  PROVE  /\ HasCompleteHeader(f) => FrameLength(f) = to - from
         /\ IsIncomplete(f) <=> f.limit < to - from
  <1> DEFINE header == HeaderSize(bytes[from + 2])
             size   == to - from
  <1>1. header \in 2..14 /\ size \in Int /\ header <= size /\ size <= MaxInt
    BY FrameBytes, Zenon
  <1>2. (HasCompleteHeader(f) <=> f.limit >= header)
        /\ (HasCompleteHeader(f) => HeaderLength(f) = header)
    BY DecodesHeader, Zenon
  <1>3. HasCompleteHeader(f) => PayloadLength(f) = size - header
    BY DecodesPayload, Zenon
  <1>4. f.limit \in Nat
    BY Zenon DEF Shows
  <1>5. MaxInt \in Int
    BY DEF MaxInt
  <1> HIDE DEF header, size
  <1>6. HasCompleteHeader(f) => FrameLength(f) = size
    BY <1>1, <1>2, <1>3, <1>5 DEF FrameLength, Plus32
  <1>7. IsIncomplete(f) <=> f.limit < size
    BY <1>1, <1>2, <1>4, <1>6 DEF IsIncomplete
  <1> QED
    BY <1>6, <1>7 DEF size

LEMMA SameFrame ==
  ASSUME NEW bytes, NEW from \in Nat, NEW to \in Nat, IsFrame(bytes, from, to),
         NEW more, NEW first \in Nat, NEW last \in Nat, last - first = to - from,
         more[first + 2] = bytes[from + 2],
         bytes[from + 2] % 128 = 126 => /\ more[first + 3] = bytes[from + 3]
                                        /\ more[first + 4] = bytes[from + 4],
         bytes[from + 2] % 128 = 127 =>
           /\ more[first + 3] = bytes[from + 3] /\ more[first + 4] = bytes[from + 4]
           /\ more[first + 5] = bytes[from + 5] /\ more[first + 6] = bytes[from + 6]
           /\ more[first + 7] = bytes[from + 7] /\ more[first + 8] = bytes[from + 8]
           /\ more[first + 9] = bytes[from + 9] /\ more[first + 10] = bytes[from + 10]
  PROVE  IsFrame(more, first, last)
  <1>1. CASE bytes[from + 2] % 128 = 126
    BY <1>1 DEF IsFrame
  <1>2. CASE bytes[from + 2] % 128 = 127
    BY <1>2 DEF IsFrame
  <1>3. CASE bytes[from + 2] % 128 \notin {126, 127}
    BY <1>3 DEF IsFrame
  <1> QED
    BY <1>1, <1>2, <1>3

(* The bytes stand in more behind the first base bytes. *)
Within(bytes, more, base) == \A i \in 1..Len(bytes) : more[base + i] = bytes[i]

(* A frame stays one wherever in the stream it lies. *)
LEMMA FrameShifts ==
  ASSUME NEW bytes \in Bytes, NEW from \in Nat, NEW to \in Nat, to <= Len(bytes),
         IsFrame(bytes, from, to), NEW base \in Nat, NEW more, Within(bytes, more, base)
  PROVE  /\ IsFrame(more, base + from, base + to)
         /\ more[(base + from) + 2] = bytes[from + 2]
  <1> DEFINE second == bytes[from + 2]
             header == HeaderSize(second)
             first  == base + from
             last   == base + to
  <1>1. header \in 2..14
    BY FrameBytes, Zenon
  <1>2. ASSUME NEW i \in 1..14, i <= header
        PROVE  more[first + i] = bytes[from + i]
    <2>1. first + i = base + (from + i)
      OBVIOUS
    <2>2. from + i \in 1..Len(bytes)
      BY <1>2, FrameBytes, Zenon
    <2> QED
      BY <2>1, <2>2, Zenon DEF Within
  <1>3. more[first + 2] = second
    <2>1. 2 \in 1..14 /\ 2 <= header
      BY <1>1
    <2> QED
      BY <1>2, <2>1, Zenon
  <1>4. last - first = to - from /\ first \in Nat /\ last \in Nat
    OBVIOUS
  <1>5. /\ second % 128 = 126 => header >= 4
        /\ second % 128 = 127 => header >= 10
    BY HeaderCodes
  <1> HIDE DEF first, second, header
  <1>6. ASSUME second % 128 = 126
        PROVE  more[first + 3] = bytes[from + 3] /\ more[first + 4] = bytes[from + 4]
    <2>1. \A i \in 1..4 : more[first + i] = bytes[from + i]
      <3> SUFFICES ASSUME NEW i \in 1..4 PROVE more[first + i] = bytes[from + i]
        OBVIOUS
      <3>1. i \in 1..14 /\ i <= header
        BY <1>1, <1>5, <1>6
      <3> QED
        BY <1>2, <3>1, Zenon
    <2>2. 3 \in 1..4 /\ 4 \in 1..4
      OBVIOUS
    <2> QED
      BY <2>1, <2>2, Zenon
  <1>7. ASSUME second % 128 = 127
        PROVE  /\ more[first + 3] = bytes[from + 3] /\ more[first + 4] = bytes[from + 4]
               /\ more[first + 5] = bytes[from + 5] /\ more[first + 6] = bytes[from + 6]
               /\ more[first + 7] = bytes[from + 7] /\ more[first + 8] = bytes[from + 8]
               /\ more[first + 9] = bytes[from + 9] /\ more[first + 10] = bytes[from + 10]
    <2>1. \A i \in 1..10 : more[first + i] = bytes[from + i]
      <3> SUFFICES ASSUME NEW i \in 1..10 PROVE more[first + i] = bytes[from + i]
        OBVIOUS
      <3>1. i \in 1..14 /\ i <= header
        BY <1>1, <1>5, <1>7
      <3> QED
        BY <1>2, <3>1, Zenon
    <2>2. /\ 3 \in 1..10 /\ 4 \in 1..10 /\ 5 \in 1..10 /\ 6 \in 1..10
          /\ 7 \in 1..10 /\ 8 \in 1..10 /\ 9 \in 1..10 /\ 10 \in 1..10
      OBVIOUS
    <2> QED
      BY <2>1, <2>2, Zenon
  <1> HIDE DEF last
  <1>8. IsFrame(more, first, last)
    BY <1>3, <1>4, <1>6, <1>7, SameFrame DEF second
  <1> QED
    BY <1>3, <1>8, Zenon DEF first, last, second
-----------------------------------------------------------------------------
(* The bytes of this connection end with whole frames, one behind the other, *)
(* and next is one of them or the one behind the last.                       *)
Framed == AreFrames(stream, bounds) /\ next \in 1..Len(bounds)

(* b holds the bytes behind the frames told, up to byte number last. *)
AlignedAt(b, last) ==
  /\ b \in Buffers(ReadCap) /\ \A i \in 0..ReadCap-1 : b.data[i] <= Len(stream)
  /\ last = bounds[next] + Remaining(b) /\ last <= Len(stream)
  /\ Holds(b, b.pos, b.lim, bounds[next])

(* The inductive invariant. *)
ReaderInv == TypeOK /\ Framed /\ BufferAligned /\ FramesInOrder /\ BodyIsPayload

LEMMA BoundsType ==
  ASSUME stream \in Bytes, Framed
  PROVE  /\ Len(stream) \in Nat /\ Len(bounds) \in Nat
         /\ \A k \in 1..Len(bounds) : bounds[k] \in Nat /\ bounds[k] <= Len(stream)
         /\ next \in Nat /\ next \in 1..Len(bounds)
  <1>1. Len(stream) \in Nat
    BY BytesRange
  <1> DEFINE S == 0..Len(stream)
  <1>2. bounds \in Seq(S) /\ next \in 1..Len(bounds)
    BY Zenon DEF Framed, AreFrames
  <1> HIDE DEF S
  <1>3. Len(bounds) \in Nat /\ \A k \in 1..Len(bounds) : bounds[k] \in S
    BY <1>2
  <1>4. \A n \in S : n \in Nat /\ n <= Len(stream)
    BY <1>1 DEF S
  <1>5. next \in Nat
    BY <1>2, <1>3
  <1> QED
    BY <1>1, <1>2, <1>3, <1>4, <1>5, Zenon

(* The frame that must come next, while there is one. *)
LEMMA NextFrame ==
  ASSUME stream \in Bytes, Framed, next < Len(bounds)
  PROVE  /\ bounds[next] \in Nat /\ bounds[next+1] \in Nat /\ bounds[next+1] <= Len(stream)
         /\ bounds[next] < bounds[next+1]
         /\ next + 1 \in 1..Len(bounds)
         /\ IsFrame(stream, bounds[next], bounds[next+1])
         /\ HeaderSize(stream[bounds[next] + 2]) <= ReadCap
  <1>1. /\ Len(bounds) \in Nat /\ next \in Nat /\ next \in 1..Len(bounds)
        /\ \A k \in 1..Len(bounds) : bounds[k] \in Nat /\ bounds[k] <= Len(stream)
    BY BoundsType, Zenon
  <1>2. next \in 1..Len(bounds)-1 /\ next + 1 \in 1..Len(bounds) /\ next < next + 1
    BY <1>1
  <1>3. /\ IsFrame(stream, bounds[next], bounds[next+1])
        /\ HeaderSize(stream[bounds[next] + 2]) <= ReadCap
    BY <1>2, Zenon DEF Framed, AreFrames
  <1>4. bounds[next] < bounds[next+1]
    BY <1>1, <1>2, Zenon DEF Framed, AreFrames
  <1> QED
    BY <1>1, <1>2, <1>3, <1>4, Zenon

(* readFrame.wrap: the frame decoder sees the bytes of the stream. *)
LEMMA AlignedShows ==
  ASSUME stream \in Bytes, Framed, NEW b, NEW last, AlignedAt(b, last)
  PROVE  Shows(Wrap(b), stream, bounds[next]) /\ Wrap(b).limit = Remaining(b)
  <1> DEFINE s == bounds[next]  f == Wrap(b)
  <1>0. s \in Nat /\ Len(stream) \in Nat
    BY BoundsType, Zenon
  <1>1. /\ b \in Buffers(ReadCap) /\ last = s + Remaining(b) /\ last <= Len(stream)
        /\ Holds(b, b.pos, b.lim, s)
    BY Zenon DEF AlignedAt
  <1>2. /\ ReadCap \in Nat \ {0} /\ b.cap = ReadCap /\ b.pos \in 0..ReadCap
        /\ b.lim \in 0..ReadCap /\ b.pos <= b.lim
    BY <1>1, ReaderAssumption, BufferFields
  <1>3. f.limit = Remaining(b) /\ f.offset = b.pos
        /\ f.at = [i \in 0..b.cap-1 |-> Value(b.data[i])]
    BY DEF Wrap
  <1>4. Remaining(b) \in Nat
    BY <1>2 DEF Remaining
  <1>5. ASSUME NEW i \in 0..Remaining(b)-1
        PROVE  ByteAt(f, i) = stream[s + i + 1]
    <2>1. b.pos + i \in 0..ReadCap-1 /\ b.pos <= b.pos + i /\ b.pos + i < b.lim
      BY <1>2 DEF Remaining
    <2>2. b.data[b.pos + i] = s + ((b.pos + i) - b.pos) + 1
      BY <1>1, <1>2, <2>1, Zenon DEF Holds
    <2>3. s + ((b.pos + i) - b.pos) + 1 = s + i + 1 /\ s + i + 1 # 0
      <3> HIDE DEF s
      <3> QED
        BY <1>0, <1>2
    <2>4. f.at[b.pos + i] = Value(b.data[b.pos + i])
      BY <1>2, <1>3, <2>1, Zenon
    <2> QED
      BY <1>3, <2>2, <2>3, <2>4, Zenon DEF ByteAt, Value
  <1> HIDE DEF f, s
  <1>6. s + f.limit <= Len(stream)
    BY <1>1, <1>3
  <1> QED
    BY <1>3, <1>4, <1>5, <1>6, Zenon DEF Shows, f, s

(* checkMessage on an aligned buffer: a message is complete exactly when    *)
(* the whole frame is there, and the overflow check fires before the buffer *)
(* is full.                                                                 *)
LEMMA Checked ==
  ASSUME stream \in Bytes, Framed, NEW b, NEW last, AlignedAt(b, last)
  PROVE  /\ CheckMessage(b) = "complete" =>
              /\ next < Len(bounds) /\ bounds[next+1] - bounds[next] <= Remaining(b)
              /\ FrameLength(Wrap(b)) = bounds[next+1] - bounds[next]
              /\ HeaderLength(Wrap(b)) = HeaderSize(stream[bounds[next] + 2])
              /\ PayloadLength(Wrap(b)) = (bounds[next+1] - bounds[next])
                                           - HeaderSize(stream[bounds[next] + 2])
         /\ CheckMessage(b) = "incomplete" => ~Full(b)
  <1> DEFINE s == bounds[next]  e == bounds[next+1]  f == Wrap(b)
             header == HeaderSize(stream[s + 2])
  <1>0. /\ Len(bounds) \in Nat /\ next \in 1..Len(bounds) /\ next \in Nat
        /\ s \in Nat /\ Len(stream) \in Nat
    BY BoundsType, Zenon
  <1>1. Shows(f, stream, s) /\ f.limit = Remaining(b)
    BY AlignedShows, Zenon
  <1>2. /\ b \in Buffers(ReadCap) /\ last = s + Remaining(b) /\ last <= Len(stream)
    BY Zenon DEF AlignedAt
  <1>3. /\ ReadCap \in Nat \ {0} /\ b.cap = ReadCap /\ b.pos \in 0..ReadCap
        /\ b.lim \in 0..ReadCap /\ b.pos <= b.lim
    BY <1>2, ReaderAssumption, BufferFields
  <1>4. CASE next < Len(bounds)
    <2>1. s \in Nat /\ e \in Nat /\ e <= Len(stream) /\ s < e /\ IsFrame(stream, s, e)
          /\ header <= ReadCap
      BY <1>4, NextFrame, Zenon
    <2>2. /\ HasCompleteHeader(f) => FrameLength(f) = e - s
          /\ IsIncomplete(f) <=> f.limit < e - s
      BY <1>1, <2>1, DecodesLength, Zenon
    <2>3. /\ HasCompleteHeader(f) <=> f.limit >= header
          /\ HasCompleteHeader(f) => HeaderLength(f) = header
      BY <1>1, <2>1, DecodesHeader, Zenon
    <2>4. HasCompleteHeader(f) => PayloadLength(f) = (e - s) - header
      BY <1>1, <2>1, DecodesPayload, Zenon
    <2>5. CheckMessage(b) = "complete" <=> ~IsIncomplete(f)
      BY DEF CheckMessage
    <2>6. ~IsIncomplete(f) => HasCompleteHeader(f)
      BY DEF IsIncomplete
    <2>7. CheckMessage(b) = "incomplete" =>
            IsIncomplete(f) /\ ~(HasCompleteHeader(f) /\ b.cap < FrameLength(f))
      BY DEF CheckMessage
    <2>8. header \in Int
      <3>1. header \in 2..14
        BY <2>1, FrameBytes, Zenon
      <3> QED
        BY <3>1
    <2> HIDE DEF f, s, e, header
    <2>9. Remaining(b) \in Int
      BY <1>3 DEF Remaining
    <2>10. CheckMessage(b) = "incomplete" => ~Full(b)
      <3> SUFFICES ASSUME CheckMessage(b) = "incomplete", Full(b) PROVE FALSE
        OBVIOUS
      <3>1. Remaining(b) = ReadCap /\ b.cap = ReadCap
        BY <1>3 DEF Full, Remaining
      <3>2. HasCompleteHeader(f)
        BY <1>1, <2>1, <2>3, <2>8, <3>1
      <3>3. FrameLength(f) = e - s /\ IsIncomplete(f) /\ ~(b.cap < FrameLength(f))
        BY <2>2, <2>7, <3>2, Zenon
      <3> QED
        BY <1>1, <1>3, <2>1, <2>2, <3>1, <3>3
    <2>11. CheckMessage(b) = "complete" => e - s <= Remaining(b)
      BY <1>1, <2>1, <2>2, <2>5, <2>9
    <2> QED
      BY <1>4, <2>2, <2>3, <2>4, <2>5, <2>6, <2>10, <2>11, Zenon DEF f, s, e, header
  <1>5. CASE next = Len(bounds)
    <2>1. s = Len(stream)
      BY <1>5, Zenon DEF Framed, AreFrames
    <2> HIDE DEF s, f
    <2>2. Remaining(b) = 0 /\ f.limit = 0
      BY <1>0, <1>1, <1>2, <1>3, <2>1 DEF Remaining
    <2>3. ~HasCompleteHeader(f)
      BY <2>2 DEF HasCompleteHeader
    <2>4. CheckMessage(b) = "incomplete"
      BY <2>3 DEF CheckMessage, IsIncomplete, f
    <2>5. ~Full(b)
      BY <1>3, <2>2 DEF Full, Remaining
    <2> QED
      BY <2>4, <2>5
  <1> QED
    BY <1>0, <1>4, <1>5
-----------------------------------------------------------------------------
(* The cells of an aligned buffer, counted from its position. *)
LEMMA AlignedCells ==
  ASSUME stream \in Bytes, Framed, NEW b, NEW last, AlignedAt(b, last)
  PROVE  /\ bounds[next] \in Nat /\ Remaining(b) \in 0..ReadCap
         /\ \A i \in 0..Remaining(b)-1 :
              b.pos + i \in 0..ReadCap-1 /\ b.data[b.pos + i] = bounds[next] + i + 1
  <1>0. bounds[next] \in Nat
    BY BoundsType, Zenon
  <1>1. b \in Buffers(ReadCap) /\ Holds(b, b.pos, b.lim, bounds[next])
    BY Zenon DEF AlignedAt
  <1>2. /\ ReadCap \in Nat \ {0} /\ b.cap = ReadCap /\ b.pos \in 0..ReadCap
        /\ b.lim \in 0..ReadCap /\ b.pos <= b.lim
    BY <1>1, ReaderAssumption, BufferFields
  <1>3. Remaining(b) \in 0..ReadCap
    BY <1>2 DEF Remaining
  <1>4. ASSUME NEW i \in 0..Remaining(b)-1
        PROVE  b.pos + i \in 0..ReadCap-1 /\ b.data[b.pos + i] = bounds[next] + i + 1
    <2>1. b.pos + i \in 0..ReadCap-1 /\ b.pos <= b.pos + i /\ b.pos + i < b.lim
      BY <1>2 DEF Remaining
    <2>2. b.data[b.pos + i] = bounds[next] + ((b.pos + i) - b.pos) + 1
      BY <1>1, <1>2, <2>1, Zenon DEF Holds
    <2>3. (b.pos + i) - b.pos = i
      BY <1>2
    <2> QED
      BY <2>1, <2>2, <2>3, Zenon
  <1> QED
    BY <1>0, <1>3, <1>4

(* The position moves behind the frame: the buffer is aligned with the next *)
(* one.                                                                     *)
LEMMA AdvanceAligned ==
  ASSUME stream \in Bytes, Framed, NEW b, NEW last, AlignedAt(b, last), next < Len(bounds),
         bounds[next+1] - bounds[next] <= Remaining(b)
  PROVE  LET c == Advance(b, bounds[next+1] - bounds[next]) IN
         /\ c \in Buffers(ReadCap) /\ c.data = b.data
         /\ last = bounds[next+1] + Remaining(c)
         /\ Holds(c, c.pos, c.lim, bounds[next+1])
  <1> DEFINE s == bounds[next]  e == bounds[next+1]  n == e - s  c == Advance(b, n)
  <1>0. s \in Nat /\ e \in Nat /\ s < e
    BY NextFrame, Zenon
  <1>1. b \in Buffers(ReadCap) /\ Holds(b, b.pos, b.lim, s) /\ last = s + Remaining(b)
    BY Zenon DEF AlignedAt
  <1>2. ReadCap \in Nat \ {0} /\ Remaining(b) \in 0..ReadCap
    BY ReaderAssumption, AlignedCells, Zenon
  <1>3. n <= Remaining(b)
    OBVIOUS
  <1> HIDE DEF s, e
  <1>4. n \in 0..Remaining(b) /\ s + n = e
    BY <1>0, <1>2, <1>3
  <1>5. /\ c \in Buffers(ReadCap) /\ c.data = b.data /\ Remaining(c) = Remaining(b) - n
        /\ Holds(c, c.pos, c.lim, s + n)
    BY <1>0, <1>1, <1>2, <1>4, AdvanceKeepsUnread, Zenon
  <1>6. e + (Remaining(b) - n) = s + Remaining(b)
    BY <1>0, <1>2
  <1> QED
    BY <1>1, <1>4, <1>5, <1>6, Zenon DEF s, e

(* copyPayloadData: body becomes the bytes behind the header. *)
LEMMA PayloadCopied ==
  ASSUME stream \in Bytes, Framed, NEW b, NEW last, AlignedAt(b, last),
         CheckMessage(b) = "complete", body \in Buffers(ReadCap)
  PROVE  LET s      == bounds[next]
             size   == bounds[next+1] - s
             header == HeaderSize(stream[s + 2])
             p      == Payload(b, body)
         IN  /\ p \in Buffers(ReadCap) /\ p.pos = 0 /\ p.lim = size - header
             /\ header \in 2..14 /\ header <= size /\ size \in Nat
             /\ \A i \in 0..(size - header) - 1 : p.data[i] = s + header + i + 1
  <1> DEFINE s == bounds[next]  e == bounds[next+1]  size == e - s
             header == HeaderSize(stream[s + 2])  n == size - header  f == Wrap(b)
             p == Payload(b, body)
             d == [i \in 0..body.cap-1 |->
                     IF i < n THEN b.data[b.pos + header + i] ELSE body.data[i]]
  <1>0. /\ next < Len(bounds) /\ size <= Remaining(b)
        /\ HeaderLength(f) = header /\ PayloadLength(f) = n
    BY Checked, Zenon
  <1>1. s \in Nat /\ e \in Nat /\ e <= Len(stream) /\ s < e /\ IsFrame(stream, s, e)
    BY <1>0, NextFrame, Zenon
  <1>2. header \in 2..14 /\ header <= size
    BY <1>1, FrameBytes, Zenon
  <1>3. p = Set(body, 0, n, d)
    BY <1>0, Zenon DEF Payload
  <1>4. Remaining(b) \in 0..ReadCap
    BY AlignedCells, Zenon
  <1>5. /\ \A i \in 0..Remaining(b)-1 :
             b.pos + i \in 0..ReadCap-1 /\ b.data[b.pos + i] = s + i + 1
    BY AlignedCells, Zenon
  <1>6. /\ ReadCap \in Nat \ {0} /\ body.cap = ReadCap /\ body.data \in [0..ReadCap-1 -> Nat]
    BY ReaderAssumption, BufferFields
  <1>7. b.pos \in Nat
    <2>1. b \in Buffers(ReadCap)
      BY Zenon DEF AlignedAt
    <2> QED
      BY <1>6, <2>1, BufferFields
  <1> HIDE DEF s, e, header, f
  <1>8. size \in Nat /\ n \in 0..ReadCap
    BY <1>0, <1>1, <1>2, <1>4, <1>6
  <1>9. ASSUME NEW i \in 0..n-1
        PROVE  b.data[b.pos + header + i] = s + header + i + 1
    <2>1. header + i \in 0..Remaining(b)-1
      BY <1>0, <1>1, <1>2, <1>4
    <2>2. b.data[b.pos + (header + i)] = s + (header + i) + 1
      BY <1>5, <2>1, Zenon
    <2>3. b.pos + (header + i) = b.pos + header + i /\ s + (header + i) = s + header + i
      BY <1>1, <1>2, <1>7
    <2> QED
      BY <2>2, <2>3, Zenon
  <1>10. d \in [0..ReadCap-1 -> Nat]
    <2>1. ASSUME NEW i \in 0..ReadCap-1, i < n
          PROVE  b.data[b.pos + header + i] \in Nat
      <3>1. i \in 0..n-1
        BY <1>6, <1>8, <2>1
      <3>2. s + header + i + 1 \in Nat
        BY <1>1, <1>2
      <3> QED
        BY <1>9, <3>1, <3>2, Zenon
    <2>2. \A i \in 0..ReadCap-1 : body.data[i] \in Nat
      BY <1>6
    <2> QED
      BY <1>6, <2>1, <2>2
  <1>11. ASSUME NEW i \in 0..n-1
         PROVE  d[i] = s + header + i + 1
    <2>1. i \in 0..ReadCap-1 /\ i < n
      BY <1>6, <1>8
    <2>2. d[i] = b.data[b.pos + header + i]
      BY <1>6, <2>1
    <2> QED
      BY <1>9, <2>2, Zenon
  <1> HIDE DEF d, n
  <1>12. p \in Buffers(ReadCap) /\ p.pos = 0 /\ p.lim = n /\ p.data = d
    BY <1>3, <1>6, <1>8, <1>10 DEF Buffers, Set
  <1> QED
    BY <1>2, <1>8, <1>11, <1>12, Zenon DEF s, e, header, n
-----------------------------------------------------------------------------
(* read() hands out the complete frame at the front of b. *)
LEMMA HandleStep ==
  ASSUME TypeOK, Framed, intact, NEW b, NEW last \in Nat, AlignedAt(b, last), last <= end,
         CheckMessage(b) = "complete", Handle(b), rcvd' = last, intact' = TRUE,
         UNCHANGED <<socketState, link, stream, end, bounds, conns>>
  PROVE  ReaderInv'
  <1> DEFINE s == bounds[next]  e == bounds[next+1]  n == e - s  f == Wrap(b)
             header == HeaderSize(stream[s + 2])  opcode == GetOpcode(f)
  <1>0. /\ stream \in Bytes /\ end \in Nat /\ end <= Len(stream) /\ body \in Buffers(ReadCap)
        /\ socketState \in {"UNCONNECTED", "CONNECTED"} /\ link \in {"up", "eof", "down"}
    BY Zenon DEF TypeOK
  <1>1. /\ socketState' = socketState /\ link' = link /\ stream' = stream /\ end' = end
        /\ bounds' = bounds
    OBVIOUS
  <1>2. next < Len(bounds) /\ n <= Remaining(b) /\ FrameLength(f) = n
    BY <1>0, Checked, Zenon
  <1>3. /\ s \in Nat /\ e \in Nat /\ s < e /\ e <= Len(stream) /\ next + 1 \in 1..Len(bounds)
        /\ IsFrame(stream, s, e)
    BY <1>0, <1>2, NextFrame, Zenon
  <1>4. /\ next \in Nat /\ Len(bounds) \in Nat /\ next \in 1..Len(bounds)
    BY <1>0, BoundsType, Zenon
  <1>5. next' = next + 1 /\ readBuffer' = Advance(b, n)
    BY <1>2, Zenon DEF Handle
  <1>6. /\ readBuffer' \in Buffers(ReadCap) /\ readBuffer'.data = b.data
        /\ last = e + Remaining(readBuffer')
        /\ Holds(readBuffer', readBuffer'.pos, readBuffer'.lim, e)
    BY <1>0, <1>2, <1>5, AdvanceAligned, Zenon
  <1>7. \A i \in 0..ReadCap-1 : b.data[i] <= Len(stream)
    BY Zenon DEF AlignedAt
  <1>8. body' \in Buffers(ReadCap) /\ (opcode \in {"TEXT", "BINARY"} => body' = Payload(b, body))
    <2>1. Payload(b, body) \in Buffers(ReadCap)
      BY <1>0, PayloadCopied, Zenon
    <2>2. Clear(body) \in Buffers(ReadCap)
      BY <1>0, ReaderAssumption, BufferOps
    <2>3. body' = CASE opcode = "invalid" -> body
                    [] opcode \in {"TEXT", "BINARY"} -> Payload(b, body)
                    [] OTHER -> Clear(body)
      BY Zenon DEF Handle
    <2> HIDE DEF opcode
    <2> QED
      BY <1>0, <2>1, <2>2, <2>3
  <1>9. /\ result'.kind \in Consumed /\ result'.opcode = opcode
        /\ result'.cells = [i \in 1..n |-> b.data[b.pos + i - 1]]
    BY <1>2 DEF Handle, Result, Consumed
  <1>10. TypeOK'
    <2>1. result'.kind \in Consumed \cup {"none", "closed", "overflow", "exception", "handshake"}
      BY <1>9
    <2>2. next' \in Nat
      BY <1>4, <1>5
    <2>3. \A i \in 0..ReadCap-1 : readBuffer'.data[i] <= Len(stream')
      BY <1>1, <1>6, <1>7, Zenon
    <2> QED
      BY <1>0, <1>1, <1>6, <1>8, <2>1, <2>2, <2>3, Zenon DEF TypeOK
  <1>11. Framed'
    BY <1>1, <1>3, <1>5, Zenon DEF Framed
  <1>12. BufferAligned'
    BY <1>1, <1>5, <1>6, Zenon DEF BufferAligned
  <1>13. result'.cells = [i \in 1..n |-> s + i]
    <2>1. ASSUME NEW i \in 1..n
          PROVE  b.data[b.pos + i - 1] = s + i
      <3>1. b.pos \in Nat
        <4>1. b \in Buffers(ReadCap)
          BY Zenon DEF AlignedAt
        <4> QED
          BY <4>1, ReaderAssumption, BufferFields
      <3>2. Remaining(b) \in 0..ReadCap
        BY <1>0, AlignedCells, Zenon
      <3> HIDE DEF s, e
      <3>3. i - 1 \in 0..Remaining(b)-1
        BY <1>2, <1>3, <3>2
      <3>4. b.data[b.pos + (i - 1)] = s + (i - 1) + 1
        BY <1>0, <3>3, AlignedCells, Zenon DEF s
      <3>5. b.pos + (i - 1) = b.pos + i - 1 /\ s + (i - 1) + 1 = s + i
        BY <1>3, <3>1
      <3> QED
        BY <3>4, <3>5, Zenon
    <2> HIDE DEF n, s
    <2> QED
      BY <1>9, <2>1
  <1>14. FramesInOrder'
    <2>1. /\ next' > 1 /\ next' - 1 = next /\ (next' - 1) + 1 = next + 1
          /\ next' - 1 <= Len(bounds') - 1
      BY <1>1, <1>2, <1>4, <1>5
    <2>2. FrameCells(next - 1)' = [i \in 1..n |-> s + i]
      BY <1>1, <2>1, Zenon DEF FrameCells
    <2>3. FrameCount' = Len(bounds') - 1
      BY DEF FrameCount
    <2> QED
      BY <1>13, <2>1, <2>2, <2>3, Zenon DEF FramesInOrder
  <1>15. BodyIsPayload'
    <2> SUFFICES ASSUME opcode \in {"TEXT", "BINARY"}
                 PROVE  LET h == HeaderSize(Value(result.cells[2]))'
                        IN  /\ body'.pos = 0 /\ body'.lim = Len(result'.cells) - h
                            /\ \A i \in 0..body'.lim-1 : body'.data[i] = result'.cells[h + i + 1]
      BY <1>9, Zenon DEF BodyIsPayload
    <2> DEFINE p == Payload(b, body)
    <2>1. /\ p.pos = 0 /\ p.lim = n - header /\ header \in 2..14 /\ header <= n /\ n \in Nat
      BY <1>0, PayloadCopied, Zenon
    <2>2. \A i \in 0..(n - header) - 1 : p.data[i] = s + header + i + 1
      BY <1>0, PayloadCopied, Zenon
    <2>3. body' = p
      BY <1>8, Zenon
    <2> HIDE DEF p, n, header
    <2>4. 2 \in 1..n
      BY <2>1
    <2>5. result'.cells[2] = s + 2 /\ Len(result'.cells) = n
      <3> HIDE DEF s
      <3> QED
        BY <1>13, <2>1, <2>4
    <2>6. Value(result.cells[2])' = stream[s + 2]
      <3>1. s + 2 # 0
        BY <1>3
      <3> QED
        BY <1>1, <2>5, <3>1, Zenon DEF Value
    <2>7. HeaderSize(Value(result.cells[2]))' = header
      BY <2>6, Zenon DEF header
    <2>8. ASSUME NEW i \in 0..(n - header) - 1
          PROVE  p.data[i] = result'.cells[header + i + 1]
      <3>1. header + i + 1 \in 1..n
        BY <2>1
      <3>2. result'.cells[header + i + 1] = s + (header + i + 1)
        BY <1>13, <3>1, Zenon
      <3>3. s + (header + i + 1) = s + header + i + 1
        <4>1. s \in Nat
          BY <1>3
        <4> HIDE DEF s
        <4> QED
          BY <2>1, <4>1
      <3> QED
        BY <2>2, <3>2, <3>3, Zenon
    <2> QED
      BY <2>1, <2>3, <2>5, <2>7, <2>8, Zenon
  <1> QED
    BY <1>10, <1>11, <1>12, <1>14, <1>15, Zenon DEF ReaderInv

(* read() leaves the aligned buffer b and reports no frame. *)
LEMMA NoMessageStep ==
  ASSUME TypeOK, Framed, NEW b, NEW last \in Nat, AlignedAt(b, last), last <= end,
         NEW kind \in {"none", "overflow"}, NoMessage(b, kind), rcvd' = last,
         intact' \in BOOLEAN, UNCHANGED <<socketState, link, stream, end, bounds, conns>>
  PROVE  ReaderInv'
  <1>1. /\ stream \in Bytes /\ end \in Nat /\ end <= Len(stream) /\ body \in Buffers(ReadCap)
        /\ socketState \in {"UNCONNECTED", "CONNECTED"} /\ link \in {"up", "eof", "down"}
        /\ next \in Nat
    BY Zenon DEF TypeOK
  <1>2. /\ socketState' = socketState /\ link' = link /\ stream' = stream /\ end' = end
        /\ bounds' = bounds /\ next' = next /\ body' = body /\ readBuffer' = b
        /\ result' = Result(kind, "none", <<>>)
    BY DEF NoMessage
  <1>3. /\ b \in Buffers(ReadCap) /\ \A i \in 0..ReadCap-1 : b.data[i] <= Len(stream)
        /\ last = bounds[next] + Remaining(b) /\ Holds(b, b.pos, b.lim, bounds[next])
    BY Zenon DEF AlignedAt
  <1>4. result'.kind \notin Consumed /\ result'.kind \in {"none", "overflow"}
    BY <1>2 DEF Result, Consumed
  <1>5. TypeOK'
    BY <1>1, <1>2, <1>3, <1>4, Zenon DEF TypeOK
  <1>6. Framed'
    BY <1>2, Zenon DEF Framed
  <1>7. BufferAligned'
    BY <1>2, <1>3, Zenon DEF BufferAligned
  <1>8. FramesInOrder'
    BY <1>4, Zenon DEF FramesInOrder
  <1>9. BodyIsPayload'
    BY <1>4 DEF BodyIsPayload, Consumed
  <1> QED
    BY <1>5, <1>6, <1>7, <1>8, <1>9, Zenon DEF ReaderInv

(* A step after which the framing is broken. *)
LEMMA BrokenStep ==
  ASSUME TypeOK', Framed', intact' = FALSE
  PROVE  ReaderInv'
  BY Zenon DEF ReaderInv, BufferAligned, FramesInOrder, BodyIsPayload

(* read0 never hands over more than it was offered, nor more than arrives. *)
LEMMA SocketAnswers ==
  ASSUME TypeOK, NEW len \in Nat, NEW n \in SocketReads(len)
  PROVE  n \in Int /\ n <= len /\ rcvd + n <= end
  <1>1. /\ link \in {"up", "eof", "down"} /\ rcvd \in Nat /\ end \in Nat /\ rcvd <= end
    BY DEF TypeOK
  <1> QED
    BY <1>1 DEF SocketReads, Min2

(* SocketClient.read on an aligned buffer that is not full: the bytes that  *)
(* arrive continue it.                                                      *)
LEMMA ReadAligned ==
  ASSUME TypeOK, Framed, intact, BufferAligned, ~Full(readBuffer),
         NEW n \in SocketReads(Remaining(BeforeRead(readBuffer))), n >= 0
  PROVE  LET b == BeforeRead(readBuffer)
             c == AfterRead(IF n > 0 THEN PutRun(b, rcvd, n) ELSE b, n)
         IN  AlignedAt(c, rcvd + n) /\ n \in Nat /\ rcvd + n \in Nat /\ rcvd + n <= end
  <1> DEFINE s == bounds[next]  r == Remaining(readBuffer)  b == BeforeRead(readBuffer)
             p == IF n > 0 THEN PutRun(b, rcvd, n) ELSE b  c == AfterRead(p, n)
  <1>0. /\ stream \in Bytes /\ rcvd \in Nat /\ end \in Nat /\ end <= Len(stream)
        /\ readBuffer \in Buffers(ReadCap)
        /\ \A i \in 0..ReadCap-1 : readBuffer.data[i] <= Len(stream)
    BY Zenon DEF TypeOK
  <1>1. ReadCap \in Nat \ {0} /\ Len(stream) \in Nat /\ s \in Nat
    BY <1>0, ReaderAssumption, BoundsType, Zenon
  <1>2. rcvd = s + r /\ Holds(readBuffer, readBuffer.pos, readBuffer.lim, s)
    BY Zenon DEF BufferAligned
  <1>3. b.pos = r /\ b.lim = ReadCap /\ Holds(b, 0, r, s)
    BY <1>0, <1>1, <1>2, BeforeReadKeepsUnread, Zenon
  <1>4. b \in Buffers(ReadCap)
    BY <1>0, <1>1, BeforeReadType, Zenon
  <1>5. Remaining(b) \in 0..ReadCap
    BY <1>1, <1>4, BufferFields DEF Remaining
  <1>6. n \in Nat /\ n \in 0..Remaining(b) /\ rcvd + n <= end /\ rcvd + n \in Nat
    <2> HIDE DEF b
    <2>1. Remaining(b) \in Nat
      BY <1>1, <1>5
    <2>2. n \in Int /\ n <= Remaining(b) /\ rcvd + n <= end
      BY <2>1, SocketAnswers, Zenon DEF b
    <2> QED
      BY <1>0, <1>5, <2>2
  <1>7. \A i \in 0..ReadCap-1 : b.data[i] <= Len(stream)
    BY <1>0, <1>1, CellsBounded, Zenon
  <1>8. /\ p \in Buffers(ReadCap) /\ p.pos = r + n /\ Holds(p, 0, r + n, s)
        /\ \A i \in 0..ReadCap-1 : p.data[i] <= Len(stream)
    <2>1. CASE n > 0
      <3>1. rcvd + n <= Len(stream)
        BY <1>0, <1>1, <1>6
      <3>2. p = PutRun(b, s + b.pos, n) /\ p = PutRun(b, rcvd, n)
        BY <1>2, <1>3, <2>1, Zenon
      <3>3. p \in Buffers(ReadCap)
        BY <1>0, <1>1, <1>4, <1>6, <3>2, BufferOps, Zenon
      <3>4. Holds(b, 0, b.pos, s)
        BY <1>3, Zenon
      <3>5. p.pos = b.pos + n /\ Holds(p, 0, b.pos + n, s)
        <4> DEFINE q == PutRun(b, s + b.pos, n)
        <4>1. n \in 0..Remaining(b)
          BY <1>6
        <4>2. q.pos = b.pos + n /\ Holds(q, 0, b.pos + n, s)
          <5> HIDE DEF b, s
          <5> QED
            BY <1>1, <1>4, <3>4, <4>1, PutRunExtends
        <4>3. p = q
          BY <3>2, Zenon
        <4> HIDE DEF p, q
        <4> QED
          BY <4>2, <4>3, Zenon
      <3>6. \A i \in 0..ReadCap-1 : p.data[i] <= Len(stream)
        BY <1>0, <1>1, <1>4, <1>6, <1>7, <3>1, <3>2, CellsBounded, Zenon
      <3> QED
        BY <1>3, <3>3, <3>5, <3>6, Zenon
    <2>2. CASE ~(n > 0)
      <3>1. n = 0
        BY <1>6, <2>2
      <3>2. p = b
        BY <2>2, Zenon
      <3>3. r + n = r
        BY <1>0, <1>1, <3>1, BufferFields DEF Remaining
      <3> QED
        BY <1>3, <1>4, <1>7, <3>2, <3>3, Zenon
    <2> QED
      BY <2>1, <2>2
  <1> HIDE DEF p, b
  <1>9. r \in Nat
    BY <1>0, <1>1, BufferFields DEF Remaining
  <1>10. p.pos = 0 => n = 0
    BY <1>6, <1>8, <1>9
  <1>11. /\ c.cap = ReadCap /\ c.data = p.data /\ c.pos = 0 /\ c.lim = p.pos
    <2>1. p \in Buffers(ReadCap) /\ n \in Nat
      BY <1>6, <1>8, Zenon
    <2> QED
      BY <1>1, <1>10, <2>1, AfterReadFlips
  <1>12. c \in Buffers(ReadCap)
    <2>1. n <= ReadCap /\ n \in Int
      BY <1>1, <1>5, <1>6
    <2> QED
      BY <1>1, <1>8, <2>1, AfterReadType, Zenon
  <1>13. Holds(c, 0, r + n, s)
    <2>1. p.cap = ReadCap
      BY <1>1, <1>8, BufferFields, Zenon
    <2> QED
      BY <1>8, <1>11, <2>1, Zenon DEF Holds
  <1> HIDE DEF c, r
  <1>14. Remaining(c) = r + n
    BY <1>6, <1>8, <1>9, <1>11 DEF Remaining
  <1>15. rcvd + n = s + (r + n)
    <2> HIDE DEF s
    <2> QED
      BY <1>1, <1>2, <1>6, <1>9
  <1>16. rcvd + n <= Len(stream)
    BY <1>0, <1>1, <1>6
  <1>17. AlignedAt(c, rcvd + n)
    BY <1>8, <1>11, <1>12, <1>13, <1>14, <1>15, <1>16, Zenon DEF AlignedAt
  <1> QED
    BY <1>6, <1>17, Zenon DEF c, p, b
-----------------------------------------------------------------------------
LEMMA ConcatBehind ==
  ASSUME NEW S, NEW x \in Seq(S), NEW y \in Seq(S)
  PROVE  /\ x \o y \in Seq(S) /\ Len(x \o y) = Len(x) + Len(y)
         /\ \A i \in 1..Len(y) : (x \o y)[Len(x) + i] = y[i]
  OBVIOUS

(* A connection's bytes, numbered behind all earlier ones. *)
LEMMA StreamGrows ==
  ASSUME NEW old \in Bytes, NEW more \in Bytes
  PROVE  LET bytes == [i \in 1..HandshakeLen |-> 72] \o more IN
         /\ old \o bytes \in Bytes
         /\ Len(bytes) = HandshakeLen + Len(more) /\ Len(old \o bytes) = Len(old) + Len(bytes)
         /\ Within(more, old \o bytes, Len(old) + HandshakeLen)
  <1> DEFINE hello == [i \in 1..HandshakeLen |-> 72]
             bytes == hello \o more
             all   == old \o bytes
  <1>1. HandshakeLen \in Nat
    BY ReaderAssumption
  <1>2. hello \in Seq(Byte) /\ Len(hello) = HandshakeLen
    <2>1. 72 \in Byte
      BY DEF Byte
    <2> QED
      BY <1>1, <2>1
  <1>3. old \in Seq(Byte) /\ more \in Seq(Byte)
    BY DEF Bytes
  <1> HIDE DEF hello
  <1>4. bytes \in Seq(Byte) /\ Len(bytes) = HandshakeLen + Len(more)
        /\ \A i \in 1..Len(more) : bytes[HandshakeLen + i] = more[i]
    BY <1>2, <1>3, ConcatBehind, Zenon
  <1> HIDE DEF bytes
  <1>5. all \in Seq(Byte) /\ Len(all) = Len(old) + Len(bytes)
        /\ \A i \in 1..Len(bytes) : all[Len(old) + i] = bytes[i]
    <2>1. bytes \in Seq(Byte)
      BY <1>4, Zenon
    <2> QED
      BY <1>3, <2>1, ConcatBehind, Zenon
  <1> HIDE DEF all
  <1>6. Len(old) \in Nat /\ Len(more) \in Nat
    BY <1>3
  <1>7. ASSUME NEW i \in 1..Len(more)
        PROVE  all[(Len(old) + HandshakeLen) + i] = more[i]
    <2>1. (Len(old) + HandshakeLen) + i = Len(old) + (HandshakeLen + i)
      BY <1>1, <1>6
    <2>2. HandshakeLen + i \in 1..Len(bytes)
      BY <1>1, <1>4, <1>6
    <2> QED
      BY <1>4, <1>5, <2>1, <2>2, Zenon
  <1> QED
    BY <1>4, <1>5, <1>7, Zenon DEF Bytes, Within, all, bytes, hello

(* The frames of a script, behind all earlier bytes and the handshake. *)
LEMMA FramesAppended ==
  ASSUME NEW bytes \in Bytes, NEW bs, AreFrames(bytes, bs),
         NEW all, NEW base \in Nat, Len(all) = base + Len(bytes), Within(bytes, all, base)
  PROVE  LET new == [k \in 1..Len(bs) |-> base + bs[k]]
         IN  AreFrames(all, new) /\ 1 \in 1..Len(new) /\ new[1] = base + bs[1]
  <1> DEFINE n == Len(bs)  m == Len(bytes)  new == [k \in 1..n |-> base + bs[k]]
  <1>1. m \in Nat
    BY BytesRange
  <1>2. bs \in Seq(0..m) /\ n > 0 /\ bs[n] = m
    BY Zenon DEF AreFrames
  <1>3. \A j, k \in 1..n : j < k => bs[j] < bs[k]
    BY Zenon DEF AreFrames
  <1>4. \A k \in 1..n-1 : IsFrame(bytes, bs[k], bs[k+1])
                          /\ HeaderSize(bytes[bs[k] + 2]) <= ReadCap
    BY Zenon DEF AreFrames
  <1>5. n \in Nat /\ \A k \in 1..n : bs[k] \in 0..m
    <2> DEFINE S == 0..m
    <2>1. bs \in Seq(S)
      BY <1>2
    <2> HIDE DEF S
    <2>2. n \in Nat /\ \A k \in 1..n : bs[k] \in S
      BY <2>1
    <2> QED
      BY <2>2 DEF S
  <1>6. \A k \in 1..n : bs[k] \in Nat /\ bs[k] <= m
    BY <1>1, <1>5
  <1> HIDE DEF n, m
  <1>7. n \in 1..n /\ 1 \in 1..n
    BY <1>2, <1>5
  <1>8. \A k \in 1..n : new[k] = base + bs[k]
    OBVIOUS
  <1>9. new \in Seq(0..base+m) /\ Len(new) = n
    <2> DEFINE S == 0..base+m
    <2>1. \A k \in 1..n : base + bs[k] \in S
      <3>1. ASSUME NEW x \in Nat, x <= m
            PROVE  base + x \in S
        BY <1>1, <3>1
      <3> QED
        BY <1>6, <3>1, Zenon
    <2> HIDE DEF S
    <2>2. new \in Seq(S) /\ Len(new) = n
      BY <1>5, <2>1
    <2> QED
      BY <2>2 DEF S
  <1> HIDE DEF new
  <1>10. new[n] = base + m
    BY <1>2, <1>7, <1>8, Zenon
  <1>11. ASSUME NEW j \in 1..n, NEW k \in 1..n, j < k
         PROVE  new[j] < new[k]
    <2>1. bs[j] < bs[k] /\ bs[j] \in Nat /\ bs[k] \in Nat
      BY <1>3, <1>6, <1>11, Zenon
    <2>2. base + bs[j] < base + bs[k]
      BY <2>1
    <2> QED
      BY <1>8, <2>2, Zenon
  <1>12. ASSUME NEW k \in 1..n-1
         PROVE  IsFrame(all, new[k], new[k+1]) /\ HeaderSize(all[new[k] + 2]) <= ReadCap
    <2>1. k \in 1..n /\ k + 1 \in 1..n
      BY <1>5
    <2>2. bs[k] \in Nat /\ bs[k+1] \in Nat /\ bs[k+1] <= Len(bytes)
      BY <1>6, <2>1, Zenon DEF m
    <2>3. IsFrame(bytes, bs[k], bs[k+1]) /\ HeaderSize(bytes[bs[k] + 2]) <= ReadCap
      BY <1>4, Zenon
    <2>4. IsFrame(all, base + bs[k], base + bs[k+1])
          /\ all[(base + bs[k]) + 2] = bytes[bs[k] + 2]
      <3> DEFINE from == bs[k]  to == bs[k+1]
      <3>1. /\ from \in Nat /\ to \in Nat /\ to <= Len(bytes) /\ IsFrame(bytes, from, to)
        BY <2>2, <2>3, Zenon
      <3> HIDE DEF from, to
      <3>2. IsFrame(all, base + from, base + to)
            /\ all[(base + from) + 2] = bytes[from + 2]
        BY <3>1, FrameShifts
      <3> QED
        BY <3>2, Zenon DEF from, to
    <2> QED
      BY <1>8, <2>1, <2>3, <2>4, Zenon
  <1>13. AreFrames(all, new)
    <2>1. Len(all) = base + m
      BY Zenon DEF m
    <2> QED
      BY <1>2, <1>9, <1>10, <1>11, <1>12, <2>1, Zenon DEF AreFrames
  <1> QED
    BY <1>7, <1>8, <1>9, <1>13, Zenon DEF new, n

(* The buffer after the n bytes read by the handshake, and behind it. *)
LEMMA HandshakeBuffer ==
  ASSUME NEW old \in Buffers(ReadCap), NEW base \in Nat, NEW limit \in Nat,
         NEW n \in HandshakeLen..ReadCap, base + n <= limit,
         \A i \in 0..ReadCap-1 : old.data[i] <= base
  PROVE  LET b == BeforeRead(ForConnect(old))
             c == AfterRead(PutRun(b, base, n), n)
             d == Advance(c, HandshakeLen)
         IN  /\ Remaining(b) = ReadCap
             /\ c \in Buffers(ReadCap) /\ \A i \in 0..ReadCap-1 : c.data[i] <= limit
             /\ d \in Buffers(ReadCap) /\ \A i \in 0..ReadCap-1 : d.data[i] <= limit
             /\ Remaining(d) = n - HandshakeLen
             /\ Holds(d, d.pos, d.lim, base + HandshakeLen)
  <1> DEFINE a == ForConnect(old)  b == BeforeRead(a)  p == PutRun(b, base, n)
             c == AfterRead(p, n)  d == Advance(c, HandshakeLen)
  <1>0. ReadCap \in Nat \ {0} /\ HandshakeLen \in 1..ReadCap
    BY ReaderAssumption
  <1>1. a \in Buffers(ReadCap) /\ a.cap = ReadCap /\ a.pos = 0 /\ a.lim = 0 /\ a.data = old.data
    <2>1. a \in Buffers(ReadCap)
      BY <1>0, BufferOps DEF ForConnect
    <2> QED
      BY <1>0, <2>1, BufferFields DEF ForConnect, EmptyRead, Clear, SetLimit, Set
  <1> HIDE DEF a
  <1>2. ~Full(a) /\ Remaining(a) = 0 /\ Holds(a, a.pos, a.lim, base)
    BY <1>0, <1>1 DEF Full, Remaining, Holds
  <1>3. b.pos = 0 /\ b.lim = ReadCap /\ Holds(b, 0, 0, base) /\ b \in Buffers(ReadCap)
    <2>1. b.pos = Remaining(a) /\ b.lim = ReadCap /\ Holds(b, 0, Remaining(a), base)
      BY <1>0, <1>1, <1>2, BeforeReadKeepsUnread, Zenon
    <2> QED
      BY <1>0, <1>1, <1>2, <2>1, BeforeReadType, Zenon
  <1>4. \A i \in 0..ReadCap-1 : b.data[i] <= base
    BY <1>0, <1>1, CellsBounded, Zenon
  <1> HIDE DEF b
  <1>5. Remaining(b) = ReadCap /\ n \in Nat /\ n \in 0..Remaining(b) /\ base + b.pos = base
        /\ b.pos + n = n
    BY <1>0, <1>3 DEF Remaining
  <1>6. p \in Buffers(ReadCap) /\ p.cap = ReadCap /\ p.pos = n /\ Holds(p, 0, n, base)
    <2>1. p \in Buffers(ReadCap)
      BY <1>0, <1>3, <1>5, BufferOps, Zenon
    <2> DEFINE q == PutRun(b, base + b.pos, n)
    <2>2. q.cap = ReadCap /\ q.pos = b.pos + n /\ Holds(q, 0, b.pos + n, base)
      <3>1. Holds(b, 0, b.pos, base)
        BY <1>3, Zenon
      <3> QED
        BY <1>0, <1>3, <1>5, <3>1, PutRunExtends
    <2>3. q = p
      BY <1>5, Zenon
    <2> HIDE DEF p, q
    <2> QED
      BY <1>5, <2>1, <2>2, <2>3, Zenon
  <1>7. \A i \in 0..ReadCap-1 : p.data[i] <= limit
    <2>1. \A i \in 0..ReadCap-1 : b.data[i] <= limit
      <3>1. ASSUME NEW x \in Nat, x <= base
            PROVE  x <= limit
        BY <1>5, <3>1
      <3>2. b.data \in [0..ReadCap-1 -> Nat]
        BY <1>0, <1>3, BufferFields, Zenon
      <3>3. \A i \in 0..ReadCap-1 : b.data[i] \in Nat
        BY <3>2
      <3> QED
        BY <1>4, <3>1, <3>3, Zenon
    <2> QED
      BY <1>0, <1>3, <1>5, <2>1, CellsBounded, Zenon
  <1> HIDE DEF p
  <1>8. c.cap = ReadCap /\ c.data = p.data /\ c.pos = 0 /\ c.lim = n
    <2>1. p.pos = 0 => n = 0
      BY <1>6, Zenon
    <2>2. p \in Buffers(ReadCap) /\ n \in Nat
      BY <1>5, <1>6, Zenon
    <2>3. c.cap = ReadCap /\ c.data = p.data /\ c.pos = 0 /\ c.lim = p.pos
      BY <1>0, <2>1, <2>2, AfterReadFlips
    <2> QED
      BY <1>6, <2>3, Zenon
  <1>9. c \in Buffers(ReadCap)
    <2>1. n \in Int /\ n <= ReadCap
      BY <1>0
    <2> QED
      BY <1>0, <1>6, <2>1, AfterReadType, Zenon
  <1> HIDE DEF c
  <1>10. Holds(c, c.pos, c.lim, base)
    BY <1>6, <1>8, Zenon DEF Holds
  <1>11. Remaining(c) = n /\ HandshakeLen \in 0..Remaining(c)
    BY <1>0, <1>8 DEF Remaining
  <1>12. /\ d \in Buffers(ReadCap) /\ d.data = c.data /\ Remaining(d) = Remaining(c) - HandshakeLen
         /\ Holds(d, d.pos, d.lim, base + HandshakeLen)
    BY <1>0, <1>9, <1>10, <1>11, AdvanceKeepsUnread, Zenon
  <1> QED
    BY <1>5, <1>7, <1>8, <1>9, <1>11, <1>12, Zenon DEF a, b, p, c

(* connect(), which finds a script behind the handshake response, or fails. *)
LEMMA ConnectStep ==
  ASSUME TypeOK, Framed, NEW state \in {"UNCONNECTED", "CONNECTED"},
         NEW old \in {"up", "eof", "down"}, ConnectOutcome(state, old)
  PROVE  ReaderInv'
  <1>0. /\ stream \in Bytes /\ body \in Buffers(ReadCap) /\ readBuffer \in Buffers(ReadCap)
        /\ \A i \in 0..ReadCap-1 : readBuffer.data[i] <= Len(stream)
        /\ rcvd \in Nat /\ end \in Nat /\ next \in Nat /\ rcvd <= end /\ end <= Len(stream)
    BY Zenon DEF TypeOK
  <1>1. ReadCap \in Nat \ {0} /\ HandshakeLen \in 1..ReadCap /\ HandshakeLen \in Nat
    BY ReaderAssumption
  <1> DEFINE base == Len(stream)
  <1>2. base \in Nat
    BY <1>0, BytesRange, Zenon
  <1>3. ASSUME NEW script \in Scripts,
               stream' = stream \o ([i \in 1..HandshakeLen |-> 72] \o script.bytes),
               end' = base + Len([i \in 1..HandshakeLen |-> 72] \o script.bytes),
               bounds' = [k \in 1..Len(script.bounds) |-> base + HandshakeLen + script.bounds[k]],
               NEW n \in HandshakeLen..Min2(Remaining(BeforeRead(ForConnect(readBuffer))),
                           Len([i \in 1..HandshakeLen |-> 72] \o script.bytes)),
               NEW accepted \in BOOLEAN,
               readBuffer' =
                 IF accepted
                 THEN Advance(AfterRead(PutRun(BeforeRead(ForConnect(readBuffer)), base, n), n),
                              HandshakeLen)
                 ELSE AfterRead(PutRun(BeforeRead(ForConnect(readBuffer)), base, n), n),
               rcvd' = base + n, intact' = accepted,
               result' = Result(IF accepted THEN "none" ELSE "handshake", "none", <<>>),
               socketState' = "CONNECTED", link' = "up", next' = 1, body' = body
        PROVE  ReaderInv'
    <2> DEFINE bytes == [i \in 1..HandshakeLen |-> 72] \o script.bytes
               b     == BeforeRead(ForConnect(readBuffer))
               c     == AfterRead(PutRun(b, base, n), n)
    <2>1. script.bytes \in Bytes /\ AreFrames(script.bytes, script.bounds) /\ script.bounds[1] = 0
      BY ReaderAssumption, Zenon DEF IsScript
    <2>2. /\ stream' \in Bytes /\ Len(bytes) = HandshakeLen + Len(script.bytes)
          /\ Len(stream') = base + Len(bytes)
          /\ Within(script.bytes, stream', base + HandshakeLen)
      BY <1>0, <1>3, <2>1, StreamGrows, Zenon
    <2>3. Len(script.bytes) \in Nat
      BY <2>1, BytesRange, Zenon
    <2> HIDE DEF bytes
    <2>4. Len(bytes) \in Nat /\ base + HandshakeLen \in Nat
          /\ Len(stream') = (base + HandshakeLen) + Len(script.bytes)
      <3> DEFINE all == Len(stream')  some == Len(bytes)  more == Len(script.bytes)
      <3>1. some = HandshakeLen + more /\ all = base + some /\ more \in Nat
        BY <2>2, <2>3, Zenon
      <3> HIDE DEF all, some, more, base
      <3>2. some \in Nat /\ base + HandshakeLen \in Nat /\ all = (base + HandshakeLen) + more
        BY <1>1, <1>2, <3>1
      <3> QED
        BY <3>2, Zenon DEF all, some, more
    <2>5. AreFrames(stream', bounds') /\ 1 \in 1..Len(bounds')
          /\ bounds'[1] = (base + HandshakeLen) + 0
      <3> DEFINE at  == base + HandshakeLen
                 new == [k \in 1..Len(script.bounds) |-> at + script.bounds[k]]
      <3>1. Within(script.bytes, stream', at) /\ at \in Nat
            /\ Len(stream') = at + Len(script.bytes)
        BY <2>2, <2>4, Zenon
      <3>2. bounds' = new
        BY <1>3, Zenon
      <3> HIDE DEF at
      <3>3. AreFrames(stream', new) /\ 1 \in 1..Len(new) /\ new[1] = at + script.bounds[1]
        <4> DEFINE bs == script.bounds  by == script.bytes
        <4>1. by \in Bytes /\ AreFrames(by, bs) /\ Within(by, stream', at) /\ at \in Nat
              /\ Len(stream') = at + Len(by)
          BY <2>1, <3>1, Zenon
        <4> HIDE DEF bs, by
        <4>2. LET all == [k \in 1..Len(bs) |-> at + bs[k]]
              IN  AreFrames(stream', all) /\ 1 \in 1..Len(all) /\ all[1] = at + bs[1]
          BY <4>1, FramesAppended, Zenon
        <4> QED
          BY <4>2, Zenon DEF bs
      <3> HIDE DEF new
      <3>4. AreFrames(stream', bounds') /\ 1 \in 1..Len(bounds') /\ bounds'[1] = at + 0
        BY <2>1, <3>2, <3>3, Zenon
      <3> QED
        BY <3>4, Zenon DEF at
    <2>6. Remaining(b) = ReadCap
      <3>1. HandshakeLen \in HandshakeLen..ReadCap /\ base + HandshakeLen <= base + HandshakeLen
        BY <1>1, <1>2
      <3> QED
        BY <1>0, <1>2, <2>4, <3>1, HandshakeBuffer, Zenon
    <2>7. n \in HandshakeLen..ReadCap /\ n <= Len(bytes)
      <3>1. n \in HandshakeLen..Min2(Remaining(b), Len(bytes))
        BY Zenon DEF bytes
      <3> HIDE DEF b
      <3> QED
        BY <1>1, <2>4, <2>6, <3>1 DEF Min2
    <2>8. base + n <= Len(stream') /\ base + n \in Nat /\ Len(stream') \in Nat /\ n \in Nat
      BY <1>1, <1>2, <2>2, <2>4, <2>7
    <2>9. /\ c \in Buffers(ReadCap) /\ \A i \in 0..ReadCap-1 : c.data[i] <= Len(stream')
          /\ Advance(c, HandshakeLen) \in Buffers(ReadCap)
          /\ \A i \in 0..ReadCap-1 : Advance(c, HandshakeLen).data[i] <= Len(stream')
          /\ Remaining(Advance(c, HandshakeLen)) = n - HandshakeLen
          /\ Holds(Advance(c, HandshakeLen), Advance(c, HandshakeLen).pos,
                   Advance(c, HandshakeLen).lim, base + HandshakeLen)
      <3>1. /\ base \in Nat /\ n \in HandshakeLen..ReadCap
            /\ Len(stream') \in Nat /\ base + n <= Len(stream')
            /\ readBuffer \in Buffers(ReadCap)
            /\ \A i \in 0..ReadCap-1 : readBuffer.data[i] <= base
        BY <1>0, <1>2, <2>7, <2>8, Zenon
      <3> HIDE DEF base
      <3> QED
        BY <3>1, HandshakeBuffer, Zenon
    <2> HIDE DEF c, b
    <2>10. LET d == Advance(c, HandshakeLen)
           IN  /\ Remaining(d) = n - HandshakeLen
               /\ Holds(d, d.pos, d.lim, base + HandshakeLen)
      BY <2>9, Zenon
    <2>11. readBuffer' = IF accepted THEN Advance(c, HandshakeLen) ELSE c
      BY <1>3, Zenon DEF c, b
    <2>12. /\ readBuffer' \in Buffers(ReadCap)
           /\ \A i \in 0..ReadCap-1 : readBuffer'.data[i] <= Len(stream')
      BY <2>9, <2>11, Zenon
    <2>13. end' = Len(stream') /\ end' \in Nat /\ rcvd' \in Nat /\ rcvd' <= end'
           /\ end' <= Len(stream')
      <3>1. end' = base + Len(bytes)
        BY <1>3, Zenon DEF bytes
      <3>2. end' = Len(stream')
        BY <2>2, <3>1, Zenon
      <3>3. Len(stream') <= Len(stream')
        BY <2>8
      <3> QED
        BY <1>3, <2>8, <3>2, <3>3, Zenon
    <2>14. result'.kind \in {"none", "handshake"}
      BY <1>3 DEF Result
    <2>15. TypeOK'
      <3>1. result'.kind \in Consumed \cup {"none", "closed", "overflow", "exception", "handshake"}
        BY <2>14
      <3>2. next' \in Nat /\ intact' \in BOOLEAN
        BY <1>3
      <3> QED
        BY <1>0, <1>3, <2>2, <2>12, <2>13, <3>1, <3>2, Zenon DEF TypeOK
    <2>16. Framed'
      BY <1>3, <2>5, Zenon DEF Framed
    <2>17. BufferAligned'
      <3> SUFFICES ASSUME accepted
                   PROVE  /\ rcvd' = bounds'[next'] + Remaining(readBuffer')
                          /\ Holds(readBuffer', readBuffer'.pos, readBuffer'.lim, bounds'[next'])
        BY <1>3, Zenon DEF BufferAligned
      <3>1. readBuffer' = Advance(c, HandshakeLen)
        BY <2>11, Zenon
      <3>2. bounds'[next'] = base + HandshakeLen
        <4>1. (base + HandshakeLen) + 0 = base + HandshakeLen
          BY <2>4
        <4> QED
          BY <1>3, <2>5, <4>1, Zenon
      <3>3. base + n = (base + HandshakeLen) + (n - HandshakeLen)
        BY <1>1, <1>2, <2>8
      <3> QED
        BY <1>3, <2>10, <3>1, <3>2, <3>3, Zenon
    <2>18. FramesInOrder' /\ BodyIsPayload'
      <3>1. result'.kind \notin Consumed /\ result'.kind # "message"
        BY <2>14 DEF Consumed
      <3> QED
        BY <3>1, Zenon DEF FramesInOrder, BodyIsPayload
    <2> QED
      BY <2>15, <2>16, <2>17, <2>18, Zenon DEF ReaderInv
  <1>4. ASSUME readBuffer' = ForConnect(readBuffer), socketState' = state,
               link' \in {old, "down"}, intact' = FALSE,
               result' = Result("exception", "none", <<>>),
               UNCHANGED <<body, stream, end, rcvd, bounds, next, conns>>
        PROVE  ReaderInv'
    <2>1. /\ stream' = stream /\ body' = body /\ end' = end /\ rcvd' = rcvd /\ next' = next
          /\ bounds' = bounds
      BY <1>4
    <2>2. readBuffer' \in Buffers(ReadCap) /\ readBuffer'.data = readBuffer.data
      <3>1. EmptyRead(readBuffer) \in Buffers(ReadCap)
        BY <1>0, <1>1, BufferOps
      <3>2. EmptyRead(readBuffer).data = readBuffer.data
        BY DEF EmptyRead, Clear, SetLimit, Set
      <3> QED
        BY <1>4, <3>1, <3>2, Zenon DEF ForConnect
    <2>3. result'.kind = "exception"
      BY <1>4 DEF Result
    <2>4. socketState' \in {"UNCONNECTED", "CONNECTED"} /\ link' \in {"up", "eof", "down"}
      BY <1>4
    <2>5. result'.kind \in Consumed \cup {"none", "closed", "overflow", "exception", "handshake"}
      BY <2>3
    <2>6. TypeOK'
      BY <1>0, <1>4, <2>1, <2>2, <2>4, <2>5, Zenon DEF TypeOK
    <2>7. Framed'
      BY <2>1, Zenon DEF Framed
    <2> QED
      BY <1>4, <2>6, <2>7, BrokenStep, Zenon
  <1> QED
    BY <1>3, <1>4 DEF ConnectOutcome
-----------------------------------------------------------------------------
LEMMA InitInv ==
  ASSUME Init
  PROVE  ReaderInv
  <1>1. ReadCap \in Nat \ {0}
    BY ReaderAssumption
  <1>2. /\ readBuffer = EmptyRead(Allocate(ReadCap)) /\ body = Allocate(ReadCap)
        /\ socketState = "UNCONNECTED" /\ link = "down"
        /\ stream = <<>> /\ end = 0 /\ rcvd = 0 /\ result = NoResult
        /\ bounds = <<0>> /\ next = 1 /\ intact = FALSE /\ conns = 0
    BY DEF Init
  <1>3. Allocate(ReadCap) \in Buffers(ReadCap)
        /\ EmptyRead(Allocate(ReadCap)) \in Buffers(ReadCap)
    BY <1>1, AllocateType, BufferOps
  <1>4. \A i \in 0..ReadCap-1 : readBuffer.data[i] <= 0
    BY <1>1, <1>2 DEF EmptyRead, Clear, SetLimit, Set, Allocate
  <1>5. stream \in Bytes /\ Len(stream) = 0
    BY <1>2 DEF Bytes
  <1>6. result.kind = "none"
    BY <1>2 DEF NoResult, Result
  <1>7. TypeOK
    <2>1. rcvd \in Nat /\ end \in Nat /\ next \in Nat /\ rcvd <= end /\ end <= Len(stream)
      BY <1>2, <1>5
    <2>2. result.kind \in Consumed \cup {"none", "closed", "overflow", "exception", "handshake"}
      BY <1>6
    <2>3. socketState \in {"UNCONNECTED", "CONNECTED"} /\ link \in {"up", "eof", "down"}
          /\ intact \in BOOLEAN
      BY <1>2
    <2> QED
      BY <1>2, <1>3, <1>4, <1>5, <2>1, <2>2, <2>3, Zenon DEF TypeOK
  <1>8. Framed
    <2>1. Len(bounds) = 1 /\ bounds[1] = 0 /\ bounds \in Seq(0..0)
      BY <1>2
    <2>2. bounds[Len(bounds)] = Len(stream) /\ bounds \in Seq(0..Len(stream)) /\ Len(bounds) > 0
      BY <1>5, <2>1
    <2>3. ASSUME NEW j \in 1..Len(bounds), NEW k \in 1..Len(bounds), j < k
          PROVE  FALSE
      BY <2>1, <2>3
    <2>4. 1..Len(bounds)-1 = {}
      BY <2>1
    <2>5. next \in 1..Len(bounds)
      BY <1>2, <2>1
    <2> QED
      BY <2>2, <2>3, <2>4, <2>5, Zenon DEF Framed, AreFrames
  <1> QED
    BY <1>2, <1>7, <1>8, Zenon DEF ReaderInv, BufferAligned, FramesInOrder, BodyIsPayload

LEMMA CloseStep ==
  ASSUME ReaderInv, Close
  PROVE  ReaderInv'
  <1>1. /\ socketState' = "UNCONNECTED" /\ link' = "down" /\ result' = NoResult
        /\ UNCHANGED <<readBuffer, body, stream, end, rcvd, bounds, next, intact, conns>>
    BY DEF Close
  <1>2. TypeOK /\ Framed /\ BufferAligned
    BY DEF ReaderInv
  <1>3. result'.kind = "none"
    BY <1>1 DEF NoResult, Result
  <1>4. result'.kind \notin Consumed /\ result'.kind # "message"
        /\ result'.kind \in Consumed \cup {"none", "closed", "overflow", "exception", "handshake"}
    BY <1>3 DEF Consumed
  <1>5. socketState' \in {"UNCONNECTED", "CONNECTED"} /\ link' \in {"up", "eof", "down"}
    BY <1>1
  <1>6. TypeOK'
    BY <1>1, <1>2, <1>4, <1>5, Zenon DEF TypeOK
  <1>7. Framed' /\ BufferAligned'
    BY <1>1, <1>2, Zenon DEF Framed, BufferAligned
  <1> QED
    BY <1>4, <1>6, <1>7, Zenon DEF ReaderInv, FramesInOrder, BodyIsPayload

LEMMA ResetStep ==
  ASSUME ReaderInv, Reset
  PROVE  ReaderInv'
  <1>0. ReadCap \in Nat \ {0}
    BY ReaderAssumption
  <1>1. /\ readBuffer' = EmptyRead(readBuffer) /\ result' = NoResult
        /\ intact' = (intact /\ Remaining(readBuffer) = 0)
        /\ UNCHANGED <<body, socketState, link, stream, end, rcvd, bounds, next, conns>>
    BY DEF Reset
  <1>2. TypeOK /\ Framed /\ BufferAligned
    BY DEF ReaderInv
  <1>3. result'.kind = "none"
    BY <1>1 DEF NoResult, Result
  <1>4. result'.kind \notin Consumed /\ result'.kind # "message"
        /\ result'.kind \in Consumed \cup {"none", "closed", "overflow", "exception", "handshake"}
    BY <1>3 DEF Consumed
  <1>5. readBuffer \in Buffers(ReadCap)
    BY <1>2 DEF TypeOK
  <1>6. EmptyRead(readBuffer) \in Buffers(ReadCap)
    BY <1>0, <1>5, BufferOps
  <1>7. EmptyRead(readBuffer).data = readBuffer.data
        /\ EmptyRead(readBuffer).pos = 0 /\ EmptyRead(readBuffer).lim = 0
    BY DEF EmptyRead, Clear, SetLimit, Set
  <1>8. TypeOK'
    <2>1. intact' \in BOOLEAN
      BY <1>1
    <2> QED
      BY <1>1, <1>2, <1>4, <1>6, <1>7, <2>1, Zenon DEF TypeOK
  <1>9. Framed'
    BY <1>1, <1>2, Zenon DEF Framed
  <1>10. BufferAligned'
    <2>1. Remaining(readBuffer') = 0
      BY <1>1, <1>7 DEF Remaining
    <2>2. Holds(readBuffer', readBuffer'.pos, readBuffer'.lim, bounds'[next'])
      BY <1>1, <1>7 DEF Holds
    <2> QED
      BY <1>1, <1>2, <2>1, <2>2, Zenon DEF BufferAligned
  <1> QED
    BY <1>4, <1>8, <1>9, <1>10, Zenon DEF ReaderInv, FramesInOrder, BodyIsPayload

LEMMA PeerCloseStep ==
  ASSUME ReaderInv, PeerClose
  PROVE  ReaderInv'
  <1>1. /\ link' = "eof" /\ end' \in rcvd..end
        /\ UNCHANGED <<readBuffer, body, socketState, stream, rcvd, result, bounds, next,
                       intact, conns>>
    BY DEF PeerClose
  <1>2. TypeOK /\ Framed /\ BufferAligned /\ FramesInOrder /\ BodyIsPayload
    BY DEF ReaderInv
  <1>3. rcvd \in Nat /\ end \in Nat /\ end <= Len(stream) /\ stream \in Bytes
    BY <1>2, Zenon DEF TypeOK
  <1>4. Len(stream) \in Nat
    BY <1>3, BytesRange
  <1>5. end' \in Nat /\ rcvd <= end' /\ end' <= Len(stream) /\ link' \in {"up", "eof", "down"}
    BY <1>1, <1>3, <1>4
  <1>6. TypeOK'
    BY <1>1, <1>2, <1>5, Zenon DEF TypeOK
  <1>7. Framed' /\ BufferAligned'
    BY <1>1, <1>2, Zenon DEF Framed, BufferAligned
  <1>8. FramesInOrder' /\ BodyIsPayload'
    BY <1>1, <1>2, Zenon DEF FramesInOrder, BodyIsPayload, FrameCells, FrameCount, Value
  <1> QED
    BY <1>6, <1>7, <1>8, Zenon DEF ReaderInv

(* A read() that fails: the buffer is any buffer of bytes received. *)
LEMMA FailedRead ==
  ASSUME TypeOK, Framed, NEW b \in Buffers(ReadCap),
         \A i \in 0..ReadCap-1 : b.data[i] <= Len(stream),
         NEW kind \in {"closed", "exception"}, NoMessage(b, kind), rcvd' = rcvd, intact' = FALSE,
         UNCHANGED <<socketState, link, stream, end, bounds, conns>>
  PROVE  ReaderInv'
  <1>1. /\ socketState' = socketState /\ link' = link /\ stream' = stream /\ end' = end
        /\ bounds' = bounds /\ next' = next /\ body' = body /\ readBuffer' = b
        /\ result' = Result(kind, "none", <<>>)
    BY DEF NoMessage
  <1>2. result'.kind \in Consumed \cup {"none", "closed", "overflow", "exception", "handshake"}
    BY <1>1 DEF Result
  <1>3. intact' \in BOOLEAN
    OBVIOUS
  <1>4. TypeOK'
    BY <1>1, <1>2, <1>3, Zenon DEF TypeOK
  <1>5. Framed'
    BY <1>1, Zenon DEF Framed
  <1> QED
    BY <1>4, <1>5, BrokenStep, Zenon

LEMMA ReadStep ==
  ASSUME ~ReadsOn, ReaderInv, Read
  PROVE  ReaderInv'
  <1>0. /\ TypeOK /\ Framed /\ BufferAligned /\ intact = TRUE
        /\ UNCHANGED <<socketState, link, stream, end, bounds, conns>>
    <2>1. TypeOK /\ intact /\ UNCHANGED <<socketState, link, stream, end, bounds, conns>>
      BY DEF ReaderInv, Read
    <2>2. intact \in BOOLEAN
      BY <2>1, Zenon DEF TypeOK
    <2> QED
      BY <2>1, <2>2, Zenon DEF ReaderInv
  <1>1. /\ stream \in Bytes /\ rcvd \in Nat /\ end \in Nat /\ rcvd <= end /\ end <= Len(stream)
        /\ readBuffer \in Buffers(ReadCap)
        /\ \A i \in 0..ReadCap-1 : readBuffer.data[i] <= Len(stream)
    BY <1>0, Zenon DEF TypeOK
  <1>2. ReadCap \in Nat \ {0} /\ Len(stream) \in Nat
    BY <1>1, ReaderAssumption, BytesRange, Zenon
  <1>3. AlignedAt(readBuffer, rcvd)
    <2>1. rcvd <= Len(stream)
      BY <1>1, <1>2
    <2> QED
      BY <1>0, <1>1, <2>1, Zenon DEF AlignedAt, BufferAligned
  <1> DEFINE b == BeforeRead(readBuffer)
  <1>4. b \in Buffers(ReadCap) /\ \A i \in 0..ReadCap-1 : b.data[i] <= Len(stream)
    BY <1>1, <1>2, BeforeReadType, CellsBounded, Zenon
  <1>5. CASE CheckMessage(readBuffer) = "complete" /\ Handle(readBuffer) /\ rcvd' = rcvd
             /\ intact' = intact
    BY <1>0, <1>1, <1>3, <1>5, HandleStep, Zenon
  <1>6. CASE NoMessage(readBuffer, "overflow") /\ rcvd' = rcvd /\ intact' = intact
    BY <1>0, <1>1, <1>3, <1>6, NoMessageStep, Zenon
  <1>7. CASE NoMessage(b, "exception") /\ rcvd' = rcvd /\ intact' = FALSE
    BY <1>0, <1>4, <1>7, FailedRead, Zenon
  <1>8. ASSUME CheckMessage(readBuffer) = "incomplete",
               NEW n \in SocketReads(Remaining(b)),
               NEW c, c = AfterRead(IF n > 0 THEN PutRun(b, rcvd, n) ELSE b, n),
               rcvd' = rcvd + (IF n > 0 THEN n ELSE 0),
               intact' = (intact /\ n >= 0),
               \/ n < 0 /\ NoMessage(c, "closed")
               \/ n >= 0 /\ CheckMessage(c) = "complete" /\ Handle(c)
               \/ n >= 0 /\ CheckMessage(c) = "overflow" /\ NoMessage(c, "overflow")
               \/ n >= 0 /\ CheckMessage(c) = "incomplete" /\ NoMessage(c, "none")
        PROVE  ReaderInv'
    <2>1. n \in Int /\ n <= Remaining(b) /\ Remaining(b) \in 0..ReadCap
      <3>1. Remaining(b) \in 0..ReadCap
        BY <1>2, <1>4, BufferFields DEF Remaining
      <3>2. Remaining(b) \in Nat
        <4> HIDE DEF b
        <4> QED
          BY <1>2, <3>1
      <3> QED
        BY <1>0, <3>1, <3>2, SocketAnswers, Zenon
    <2>2. CASE n < 0 /\ NoMessage(c, "closed")
      <3> HIDE DEF b
      <3>1. c = AfterRead(b, n) /\ rcvd' = rcvd /\ intact' = FALSE /\ n <= ReadCap
        <4>1. ~(n > 0) /\ ~(n >= 0) /\ rcvd + 0 = rcvd
          BY <1>1, <2>1, <2>2
        <4>2. n <= ReadCap
          BY <1>2, <2>1, <2>2
        <4> QED
          BY <1>8, <4>1, <4>2, Zenon
      <3>2. c \in Buffers(ReadCap)
        BY <1>2, <1>4, <2>1, <3>1, AfterReadType, Zenon
      <3>3. \A i \in 0..ReadCap-1 : c.data[i] <= Len(stream)
        BY <1>2, <1>4, <2>1, <3>1, CellsBounded, Zenon
      <3> QED
        BY <1>0, <2>2, <3>1, <3>2, <3>3, FailedRead, Zenon
    <2>3. CASE n >= 0 /\ \/ CheckMessage(c) = "complete" /\ Handle(c)
                         \/ \E kind \in {"none", "overflow"} : NoMessage(c, kind)
      <3>1. ~Full(readBuffer)
        BY <1>0, <1>1, <1>3, <1>8, Checked, Zenon
      <3>2. AlignedAt(c, rcvd + n) /\ rcvd + n \in Nat /\ rcvd + n <= end
        BY <1>0, <1>8, <2>3, <3>1, ReadAligned, Zenon
      <3>3. rcvd' = rcvd + n /\ intact' = TRUE
        <4>1. rcvd + (IF n > 0 THEN n ELSE 0) = rcvd + n
          BY <1>1, <2>1, <2>3
        <4> QED
          BY <1>0, <1>8, <2>3, <4>1, Zenon
      <3>4. CASE CheckMessage(c) = "complete" /\ Handle(c)
        BY <1>0, <3>2, <3>3, <3>4, HandleStep, Zenon
      <3>5. ASSUME NEW kind \in {"none", "overflow"}, NoMessage(c, kind)
            PROVE  ReaderInv'
        <4>1. intact' \in BOOLEAN
          BY <3>3
        <4> QED
          BY <1>0, <3>2, <3>3, <3>5, <4>1, NoMessageStep, Zenon
      <3> QED
        BY <2>3, <3>4, <3>5, Zenon
    <2> QED
      BY <1>8, <2>2, <2>3, Zenon
  <1> QED
    BY <1>5, <1>6, <1>7, <1>8 DEF Read

(* Every step, as long as the application does not read on after a failure. *)
LEMMA ReaderStep ==
  ASSUME ~ReadsOn, ReaderInv, [Next]_vars
  PROVE  ReaderInv'
  <1>0. TypeOK /\ Framed
    BY DEF ReaderInv
  <1>1. socketState \in {"UNCONNECTED", "CONNECTED"} /\ link \in {"up", "eof", "down"}
    BY <1>0, Zenon DEF TypeOK
  <1>2. CASE Connect
    BY <1>0, <1>1, <1>2, ConnectStep, Zenon DEF Connect
  <1>3. CASE Close
    BY <1>3, CloseStep
  <1>4. CASE Reconnect
    <2>1. ASSUME ConnectOutcome("UNCONNECTED", "down")
          PROVE  ReaderInv'
      BY <1>0, <2>1, ConnectStep
    <2> QED
      BY <1>4, <2>1, CloseStep DEF Reconnect
  <1>5. CASE Reset
    BY <1>5, ResetStep
  <1>6. CASE PeerClose
    BY <1>6, PeerCloseStep
  <1>7. CASE Read
    BY <1>7, ReadStep
  <1>8. CASE UNCHANGED vars
    BY <1>8, Zenon DEF vars, ReaderInv, TypeOK, Framed, BufferAligned, FramesInOrder,
       BodyIsPayload, FrameCells, FrameCount, Value
  <1> QED
    BY <1>2, <1>3, <1>4, <1>5, <1>6, <1>7, <1>8, Zenon DEF Next
-----------------------------------------------------------------------------
(* The overflow check comes before the buffer is full. *)
LEMMA OverflowFirst == ReaderInv => NeverReadsFull
  <1> SUFFICES ASSUME ReaderInv, intact
               PROVE  ~(Full(readBuffer) /\ CheckMessage(readBuffer) = "incomplete")
    BY DEF NeverReadsFull
  <1>1. TypeOK /\ Framed /\ BufferAligned
    BY DEF ReaderInv
  <1>2. /\ stream \in Bytes /\ rcvd \in Nat /\ end \in Nat /\ rcvd <= end /\ end <= Len(stream)
        /\ readBuffer \in Buffers(ReadCap)
        /\ \A i \in 0..ReadCap-1 : readBuffer.data[i] <= Len(stream)
    BY <1>1, Zenon DEF TypeOK
  <1>3. Len(stream) \in Nat
    BY <1>2, BytesRange
  <1>4. rcvd <= Len(stream)
    BY <1>2, <1>3
  <1>5. AlignedAt(readBuffer, rcvd)
    BY <1>1, <1>2, <1>4, Zenon DEF AlignedAt, BufferAligned
  <1> QED
    BY <1>1, <1>2, <1>5, Checked, Zenon

LEMMA ReaderInvariant == ~ReadsOn => (Spec => []ReaderInv)
  <1> SUFFICES ASSUME ~ReadsOn PROVE Spec => []ReaderInv
    OBVIOUS
  <1>1. Init => ReaderInv
    BY InitInv
  <1>2. ReaderInv /\ [Next]_vars => ReaderInv'
    BY ReaderStep
  <1> QED
    BY <1>1, <1>2, PTL DEF Spec

(* The read buffer and body stay well-formed buffers, and the socket never   *)
(* hands over a byte that does not arrive.                                   *)
THEOREM ReaderTypes == ~ReadsOn => (Spec => []TypeOK)
  <1>1. ReaderInv => TypeOK
    BY DEF ReaderInv
  <1> QED
    BY <1>1, ReaderInvariant, PTL

(* WebSocketClient.read tells the application the frames the peer sent, each *)
(* once, in order and byte for byte, whatever they are, however large the    *)
(* read buffer is and however the bytes are cut into pieces.                 *)
THEOREM ReaderFrames == ~ReadsOn => (Spec => []FramesInOrder)
  <1>1. ReaderInv => FramesInOrder
    BY DEF ReaderInv
  <1> QED
    BY <1>1, ReaderInvariant, PTL

(* AbstractSocketMessageClient.readMessage never skips, repeats or           *)
(* overwrites a byte behind the last frame.                                  *)
THEOREM ReaderAlignment == ~ReadsOn => (Spec => []BufferAligned)
  <1>1. ReaderInv => BufferAligned
    BY DEF ReaderInv
  <1> QED
    BY <1>1, ReaderInvariant, PTL

(* WebSocketMessageClient.isCompleteMessage reports a frame larger than the  *)
(* buffer before SocketClient.read would take a full buffer for an empty one.*)
THEOREM ReaderOverflow == ~ReadsOn => (Spec => []NeverReadsFull)
  BY OverflowFirst, ReaderInvariant, PTL

(* DataFrame6455.copyPayloadData gives the application the frame's payload,  *)
(* the whole of it and nothing else, for every header form.                  *)
THEOREM ReaderBodies == ~ReadsOn => (Spec => []BodyIsPayload)
  <1>1. ReaderInv => BodyIsPayload
    BY DEF ReaderInv
  <1> QED
    BY <1>1, ReaderInvariant, PTL
-----------------------------------------------------------------------------
(* The refinement of MessageChannel.  How many frames between the bounds bs  *)
(* reach the client whole if the bytes end at last, and which of them has    *)
(* the cells told.                                                           *)
Whole(bs, last) ==
  {k \in 0..Len(bs)-1 : \A j \in 1..k : bs[j+1] <= last /\ bs[j+1] - bs[j] <= ReadCap}
WithCells(bs, cells) ==
  {k \in 1..Len(bs)-1 : [i \in 1..bs[k+1] - bs[k] |-> bs[k] + i] = cells}

(* Every frame told has arrived, and fitted the buffer. *)
ToldArrived ==
  \A j \in 1..next-1 : bounds[j+1] <= rcvd /\ bounds[j+1] - bounds[j] <= ReadCap

(* The inductive invariant of the refinement. *)
ChannelInv == ReaderInv /\ ToldArrived

LEMMA WholeMax ==
  ASSUME NEW bs, Len(bs) \in Nat \ {0}, NEW last, NEW m \in Whole(bs, last)
  PROVE  /\ Max(Whole(bs, last)) \in Whole(bs, last) /\ Max(Whole(bs, last)) \in Nat
         /\ m \in Nat /\ m <= Max(Whole(bs, last))
  <1> DEFINE n == Len(bs) - 1
  <1>1. n \in Nat
    OBVIOUS
  <1>2. Whole(bs, last) \subseteq 0..n
    BY Zenon DEF Whole
  <1> HIDE DEF n
  <1>3. Max(Whole(bs, last)) \in Whole(bs, last) /\ m <= Max(Whole(bs, last))
    BY <1>1, <1>2, MaxBounded, Zenon
  <1>4. \A x \in 0..n : x \in Nat
    BY <1>1
  <1> QED
    BY <1>2, <1>3, <1>4, Zenon

(* Less of the stream, fewer whole frames. *)
LEMMA WholeShrinks ==
  ASSUME NEW bs, Len(bs) \in Nat \ {0}, \A k \in 1..Len(bs) : bs[k] \in Nat,
         NEW last \in Nat, NEW less \in Nat, less <= last, NEW m \in Whole(bs, less)
  PROVE  Max(Whole(bs, less)) <= Max(Whole(bs, last))
  <1>1. Whole(bs, less) \subseteq Whole(bs, last)
    <2> SUFFICES ASSUME NEW k \in Whole(bs, less) PROVE k \in Whole(bs, last)
      OBVIOUS
    <2>1. k \in 0..Len(bs)-1 /\ \A j \in 1..k : bs[j+1] <= less /\ bs[j+1] - bs[j] <= ReadCap
      BY Zenon DEF Whole
    <2>2. ASSUME NEW j \in 1..k
          PROVE  bs[j+1] <= last
      <3>1. j + 1 \in 1..Len(bs)
        <4>1. k \in 0..Len(bs)-1
          BY <2>1
        <4> QED
          BY <4>1
      <3>2. bs[j+1] \in Nat /\ bs[j+1] <= less
        BY <2>1, <3>1, Zenon
      <3> QED
        BY <3>2
    <2> QED
      BY <2>1, <2>2, Zenon DEF Whole
  <1>2. Max(Whole(bs, less)) \in Whole(bs, less)
    BY WholeMax, Zenon
  <1> QED
    BY <1>1, <1>2, WholeMax, Zenon

(* No two frames of a connection have the same bytes. *)
LEMMA OnlyFrame ==
  ASSUME NEW bs, Len(bs) \in Nat \ {0}, \A k \in 1..Len(bs) : bs[k] \in Nat,
         \A j, k \in 1..Len(bs) : j < k => bs[j] < bs[k],
         NEW m \in 1..Len(bs)-1
  PROVE  LET cells == [i \in 1..bs[m+1] - bs[m] |-> bs[m] + i]
         IN  WithCells(bs, cells) # {} /\ Max(WithCells(bs, cells)) = m
  <1> DEFINE cells == [i \in 1..bs[m+1] - bs[m] |-> bs[m] + i]
             n == Len(bs) - 1
  <1>1. m \in WithCells(bs, cells)
    BY Zenon DEF WithCells
  <1>2. ASSUME NEW k \in WithCells(bs, cells)
        PROVE  k = m
    <2>1. k \in 1..Len(bs)-1 /\ [i \in 1..bs[k+1] - bs[k] |-> bs[k] + i] = cells
      BY Zenon DEF WithCells
    <2>2. /\ k \in 1..Len(bs) /\ k+1 \in 1..Len(bs) /\ k < k+1
          /\ m \in 1..Len(bs) /\ m+1 \in 1..Len(bs) /\ m < m+1
      <3>1. k \in 1..Len(bs)-1
        BY <2>1
      <3> QED
        BY <3>1
    <2>3. bs[k] \in Nat /\ bs[k+1] \in Nat /\ bs[m] \in Nat /\ bs[m+1] \in Nat
          /\ bs[k] < bs[k+1] /\ bs[m] < bs[m+1]
      BY <2>2, Zenon
    <2>4. bs[k] = bs[m]
      <3> DEFINE a == bs[k]  b == bs[k+1]  c == bs[m]  d == bs[m+1]
      <3>1. [i \in 1..b - a |-> a + i] = [i \in 1..d - c |-> c + i]
        BY <2>1, Zenon
      <3>2. a \in Nat /\ b \in Nat /\ c \in Nat /\ d \in Nat /\ a < b /\ c < d
        BY <2>3
      <3> HIDE DEF a, b, c, d
      <3>3. 1 \in 1..b - a /\ 1 \in 1..d - c
        BY <3>2
      <3>4. a + 1 = c + 1
        BY <3>1, <3>3, Zenon
      <3>5. a = c
        BY <3>2, <3>4
      <3> QED
        BY <3>5 DEF a, c
    <2>5. ~(bs[k] < bs[m]) /\ ~(bs[m] < bs[k])
      BY <2>3, <2>4
    <2>6. ~(k < m) /\ ~(m < k)
      BY <2>2, <2>5, Zenon
    <2>7. k \in Int /\ m \in Int
      BY <2>2
    <2> QED
      BY <2>6, <2>7
  <1> HIDE DEF cells
  <1>3. n \in Nat /\ WithCells(bs, cells) \subseteq 0..n
    <2>1. n \in Nat /\ \A k \in 1..n : k \in 0..n
      OBVIOUS
    <2> QED
      BY <2>1, Zenon DEF WithCells
  <1> HIDE DEF n
  <1>4. Max(WithCells(bs, cells)) \in WithCells(bs, cells)
    BY <1>1, <1>3, MaxBounded, Zenon
  <1> QED
    BY <1>1, <1>2, <1>4, Zenon DEF cells

(* A read() tells the application about the next frame, which fitted the    *)
(* buffer, or about none.                                                   *)
Tells ==
  /\ next < Len(bounds) /\ bounds[next+1] - bounds[next] <= ReadCap /\ next' = next + 1
  /\ result'.kind \in Consumed /\ intact' = intact /\ rcvd <= rcvd'
TellsNothing ==
  next' = next /\ result'.kind \notin Consumed /\ intact' \in {FALSE, intact} /\ rcvd <= rcvd'

LEMMA HandleTells ==
  ASSUME TypeOK, Framed, intact, NEW b, NEW last, AlignedAt(b, last),
         CheckMessage(b) = "complete", Handle(b), intact' = intact, rcvd <= rcvd'
  PROVE  Tells
  <1>1. stream \in Bytes
    BY Zenon DEF TypeOK
  <1>2. next < Len(bounds) /\ bounds[next+1] - bounds[next] <= Remaining(b)
    BY <1>1, Checked, Zenon
  <1>3. Remaining(b) \in 0..ReadCap /\ bounds[next] \in Nat /\ bounds[next+1] \in Nat
    BY <1>1, <1>2, AlignedCells, NextFrame, Zenon
  <1>4. bounds[next+1] - bounds[next] <= ReadCap
    <2> DEFINE s == bounds[next]  e == bounds[next+1]
    <2>1. s \in Nat /\ e \in Nat /\ e - s <= Remaining(b) /\ Remaining(b) \in 0..ReadCap
      BY <1>2, <1>3, Zenon
    <2>2. ReadCap \in Nat
      BY ReaderAssumption
    <2> HIDE DEF s, e
    <2>3. e - s <= ReadCap
      BY <2>1, <2>2
    <2> QED
      BY <2>3, Zenon DEF s, e
  <1>5. next' = next + 1
    BY Zenon DEF Handle
  <1>6. result'.kind \in Consumed
    BY DEF Handle, Result, Consumed
  <1> QED
    BY <1>2, <1>4, <1>5, <1>6, Zenon DEF Tells

LEMMA ReadTells ==
  ASSUME ~ReadsOn, ReaderInv, Read
  PROVE  Tells \/ TellsNothing
  <1>0. TypeOK /\ Framed /\ BufferAligned /\ intact = TRUE
    <2>1. TypeOK /\ intact
      BY DEF ReaderInv, Read
    <2>2. intact \in BOOLEAN
      BY <2>1, Zenon DEF TypeOK
    <2> QED
      BY <2>1, <2>2, Zenon DEF ReaderInv
  <1>1. /\ stream \in Bytes /\ rcvd \in Nat /\ end \in Nat /\ rcvd <= end /\ end <= Len(stream)
        /\ readBuffer \in Buffers(ReadCap)
        /\ \A i \in 0..ReadCap-1 : readBuffer.data[i] <= Len(stream)
    BY <1>0, Zenon DEF TypeOK
  <1>2. ReadCap \in Nat \ {0} /\ Len(stream) \in Nat
    BY <1>1, ReaderAssumption, BytesRange, Zenon
  <1>3. AlignedAt(readBuffer, rcvd) /\ rcvd <= rcvd
    <2>1. rcvd <= Len(stream) /\ rcvd <= rcvd
      BY <1>1, <1>2
    <2> QED
      BY <1>0, <1>1, <2>1, Zenon DEF AlignedAt, BufferAligned
  <1> DEFINE b == BeforeRead(readBuffer)
  <1>4. ASSUME NEW c, NEW kind \in {"closed", "exception", "none", "overflow"},
               NoMessage(c, kind), intact' \in {FALSE, intact}, rcvd <= rcvd'
        PROVE  TellsNothing
    <2>1. result' = Result(kind, "none", <<>>) /\ next' = next
      BY <1>4, Zenon DEF NoMessage
    <2>2. result'.kind \notin Consumed
      BY <2>1 DEF Result, Consumed
    <2> QED
      BY <1>4, <2>1, <2>2, Zenon DEF TellsNothing
  <1>5. CASE CheckMessage(readBuffer) = "complete" /\ Handle(readBuffer) /\ rcvd' = rcvd
             /\ intact' = intact
    BY <1>0, <1>3, <1>5, HandleTells, Zenon
  <1>6. CASE NoMessage(readBuffer, "overflow") /\ rcvd' = rcvd /\ intact' = intact
    BY <1>3, <1>4, <1>6, Zenon
  <1>7. CASE NoMessage(b, "exception") /\ rcvd' = rcvd /\ intact' = FALSE
    BY <1>3, <1>4, <1>7, Zenon
  <1>8. ASSUME CheckMessage(readBuffer) = "incomplete",
               NEW n \in SocketReads(Remaining(b)),
               NEW c, c = AfterRead(IF n > 0 THEN PutRun(b, rcvd, n) ELSE b, n),
               rcvd' = rcvd + (IF n > 0 THEN n ELSE 0),
               intact' = (intact /\ n >= 0),
               \/ n < 0 /\ NoMessage(c, "closed")
               \/ n >= 0 /\ CheckMessage(c) = "complete" /\ Handle(c)
               \/ n >= 0 /\ CheckMessage(c) = "overflow" /\ NoMessage(c, "overflow")
               \/ n >= 0 /\ CheckMessage(c) = "incomplete" /\ NoMessage(c, "none")
        PROVE  Tells \/ TellsNothing
    <2>1. n \in Int
      <3>1. b \in Buffers(ReadCap)
        BY <1>1, <1>2, BeforeReadType, Zenon
      <3>2. Remaining(b) \in Nat
        BY <1>2, <3>1, BufferFields DEF Remaining
      <3> QED
        BY <1>0, <3>2, SocketAnswers, Zenon
    <2>2. rcvd <= rcvd'
      <3>1. rcvd <= rcvd + (IF n > 0 THEN n ELSE 0)
        BY <1>1, <2>1
      <3> QED
        BY <1>8, <3>1, Zenon
    <2>3. intact' \in {FALSE, intact}
      BY <1>0, <1>8, Zenon
    <2>4. CASE n >= 0 /\ CheckMessage(c) = "complete" /\ Handle(c)
      <3>1. ~Full(readBuffer)
        BY <1>0, <1>1, <1>3, <1>8, Checked, Zenon
      <3>2. AlignedAt(c, rcvd + n)
        BY <1>0, <1>8, <2>4, <3>1, ReadAligned, Zenon
      <3>3. intact' = intact
        BY <1>0, <1>8, <2>4, Zenon
      <3> QED
        BY <1>0, <2>2, <2>4, <3>2, <3>3, HandleTells, Zenon
    <2>5. CASE \E kind \in {"closed", "none", "overflow"} : NoMessage(c, kind)
      BY <1>4, <2>2, <2>3, <2>5
    <2> QED
      BY <1>8, <2>4, <2>5, Zenon
  <1> QED
    BY <1>5, <1>6, <1>7, <1>8 DEF Read

(* What connect() does to the channel: a new one, or none. *)
LEMMA ConnectOpens ==
  ASSUME NEW state, NEW old, ConnectOutcome(state, old)
  PROVE  /\ result'.kind \notin Consumed
         /\ \/ next' = 1
            \/ end' = end /\ rcvd' = rcvd /\ bounds' = bounds /\ next' = next /\ intact' = FALSE
  <1>1. CASE next' = 1 /\ \E accepted \in BOOLEAN :
               result' = Result(IF accepted THEN "none" ELSE "handshake", "none", <<>>)
    BY <1>1 DEF Result, Consumed
  <1>2. CASE /\ end' = end /\ rcvd' = rcvd /\ bounds' = bounds /\ next' = next /\ intact' = FALSE
             /\ result' = Result("exception", "none", <<>>)
    BY <1>2 DEF Result, Consumed
  <1> QED
    BY <1>1, <1>2, Zenon DEF ConnectOutcome

(* Every frame told has arrived, whatever happens next. *)
LEMMA ToldStep ==
  ASSUME ~ReadsOn, ReaderInv, ReaderInv', ToldArrived, [Next]_vars
  PROVE  ToldArrived'
  <1>0. rcvd \in Nat /\ rcvd' \in Nat /\ next \in Nat /\ stream \in Bytes /\ Framed
    BY Zenon DEF ReaderInv, TypeOK
  <1>1. ASSUME bounds' = bounds, next' = next, rcvd <= rcvd'
        PROVE  ToldArrived'
    <2> SUFFICES ASSUME NEW j \in 1..next-1
                 PROVE  bounds[j+1] <= rcvd' /\ bounds[j+1] - bounds[j] <= ReadCap
      BY <1>1, Zenon DEF ToldArrived
    <2>1. bounds[j+1] <= rcvd /\ bounds[j+1] - bounds[j] <= ReadCap
      BY Zenon DEF ToldArrived
    <2>2. j + 1 \in 1..Len(bounds)
      <3>1. next \in 1..Len(bounds) /\ Len(bounds) \in Nat
        BY <1>0, BoundsType, Zenon
      <3> QED
        BY <3>1
    <2>3. bounds[j+1] \in Nat
      BY <1>0, <2>2, BoundsType, Zenon
    <2>4. bounds[j+1] <= rcvd'
      <3> DEFINE e == bounds[j+1]
      <3>1. e \in Nat /\ e <= rcvd
        BY <2>1, <2>3, Zenon
      <3> HIDE DEF e
      <3>2. e <= rcvd'
        BY <1>0, <1>1, <3>1
      <3> QED
        BY <3>2, Zenon DEF e
    <2> QED
      BY <2>1, <2>4, Zenon
  <1>2. rcvd <= rcvd
    BY <1>0
  <1>3. ASSUME NEW state, NEW old, ConnectOutcome(state, old)
        PROVE  ToldArrived'
    <2>1. 1..1-1 = {}
      OBVIOUS
    <2>2. CASE next' = 1
      BY <2>1, <2>2, Zenon DEF ToldArrived
    <2> QED
      BY <1>1, <1>2, <1>3, <2>2, ConnectOpens, Zenon
  <1>4. CASE Close \/ Reset \/ PeerClose
    <2>1. bounds' = bounds /\ next' = next /\ rcvd' = rcvd
      BY <1>4 DEF Close, Reset, PeerClose
    <2> QED
      BY <1>1, <1>2, <2>1, Zenon
  <1>5. CASE Read
    <2>1. bounds' = bounds
      BY <1>5 DEF Read
    <2>2. CASE TellsNothing
      BY <1>1, <2>1, <2>2, Zenon DEF TellsNothing
    <2>3. CASE Tells
      <3>1. /\ next < Len(bounds) /\ bounds[next+1] - bounds[next] <= ReadCap
            /\ next' = next + 1 /\ intact' = intact /\ rcvd <= rcvd'
        BY <2>3, Zenon DEF Tells
      <3>2. bounds[next+1] <= rcvd'
        <4>1. intact'
          BY <1>5, <3>1, Zenon DEF Read
        <4>2. rcvd' = bounds[next+1] + Remaining(readBuffer')
          BY <2>1, <3>1, <4>1, Zenon DEF ReaderInv, BufferAligned
        <4>3. readBuffer' \in Buffers(ReadCap) /\ ReadCap \in Nat \ {0}
          BY ReaderAssumption, Zenon DEF ReaderInv, TypeOK
        <4>4. Remaining(readBuffer') \in Nat
          BY <4>3, BufferFields DEF Remaining
        <4>5. bounds[next+1] \in Nat
          BY <1>0, <3>1, NextFrame, Zenon
        <4> QED
          BY <4>2, <4>4, <4>5
      <3> SUFFICES ASSUME NEW j \in 1..next'-1
                   PROVE  bounds[j+1] <= rcvd' /\ bounds[j+1] - bounds[j] <= ReadCap
        BY <2>1, Zenon DEF ToldArrived
      <3>3. CASE j = next
        BY <3>1, <3>2, <3>3, Zenon
      <3>4. CASE j # next
        <4>1. j \in 1..next-1
          BY <1>0, <3>1, <3>4
        <4>2. bounds[j+1] <= rcvd /\ bounds[j+1] - bounds[j] <= ReadCap
          BY <4>1, Zenon DEF ToldArrived
        <4>3. j + 1 \in 1..Len(bounds)
          <5>1. next \in 1..Len(bounds) /\ Len(bounds) \in Nat
            BY <1>0, BoundsType, Zenon
          <5> QED
            BY <4>1, <5>1
        <4>4. bounds[j+1] \in Nat
          BY <1>0, <4>3, BoundsType, Zenon
        <4>5. bounds[j+1] <= rcvd'
          <5> DEFINE e == bounds[j+1]
          <5>1. e \in Nat /\ e <= rcvd /\ rcvd <= rcvd'
            BY <3>1, <4>2, <4>4, Zenon
          <5> HIDE DEF e
          <5>2. e <= rcvd'
            BY <1>0, <5>1
          <5> QED
            BY <5>2, Zenon DEF e
        <4> QED
          BY <4>2, <4>5, Zenon
      <3> QED
        BY <3>3, <3>4
    <2> QED
      BY <1>5, <2>2, <2>3, ReadTells, Zenon
  <1>6. CASE UNCHANGED vars
    <2>1. bounds' = bounds /\ next' = next /\ rcvd' = rcvd
      BY <1>6 DEF vars
    <2> QED
      BY <1>1, <1>2, <2>1, Zenon
  <1> QED
    BY <1>3, <1>4, <1>5, <1>6, Zenon DEF Next, Connect, Reconnect
-----------------------------------------------------------------------------
(* The channel's variables, and what the invariant says of them. *)
Sent == Max({k \in 0..FrameCount : Deliverable(k)})
IsOpen == intact /\ socketState = "CONNECTED"

InChannel ==
  /\ Len(bounds) \in Nat \ {0} /\ \A k \in 1..Len(bounds) : bounds[k] \in Nat
  /\ \A j, k \in 1..Len(bounds) : j < k => bounds[j] < bounds[k]
  /\ end \in Nat /\ next \in 1..Len(bounds) /\ next - 1 \in Whole(bounds, end)

LEMMA SentWhole == Sent = Max(Whole(bounds, end))
  BY Zenon DEF Sent, Whole, FrameCount, Deliverable

LEMMA NothingTold == result.kind \notin Consumed => ToldFrame = 0
  BY Zenon DEF ToldFrame

LEMMA ChannelHolds == ChannelInv => InChannel
  <1> SUFFICES ASSUME ChannelInv PROVE InChannel
    OBVIOUS
  <1>1. stream \in Bytes /\ rcvd \in Nat /\ end \in Nat /\ rcvd <= end /\ Framed
    BY Zenon DEF ChannelInv, ReaderInv, TypeOK
  <1>2. /\ Len(bounds) \in Nat /\ next \in Nat /\ next \in 1..Len(bounds)
        /\ \A k \in 1..Len(bounds) : bounds[k] \in Nat
    BY <1>1, BoundsType, Zenon
  <1>3. \A j, k \in 1..Len(bounds) : j < k => bounds[j] < bounds[k]
    BY <1>1, Zenon DEF Framed, AreFrames
  <1>4. Len(bounds) \in Nat \ {0} /\ next - 1 \in 0..Len(bounds)-1
    <2>1. next \in 1..Len(bounds) /\ Len(bounds) \in Nat
      BY <1>2
    <2> QED
      BY <2>1
  <1>5. ASSUME NEW j \in 1..next-1
        PROVE  bounds[j+1] <= end /\ bounds[j+1] - bounds[j] <= ReadCap
    <2>1. bounds[j+1] <= rcvd /\ bounds[j+1] - bounds[j] <= ReadCap
      BY Zenon DEF ChannelInv, ToldArrived
    <2>2. j + 1 \in 1..Len(bounds)
      <3>1. next \in 1..Len(bounds) /\ Len(bounds) \in Nat
        BY <1>2
      <3> QED
        BY <3>1
    <2>3. bounds[j+1] \in Nat
      BY <1>2, <2>2, Zenon
    <2> DEFINE e == bounds[j+1]
    <2>4. e \in Nat /\ e <= rcvd
      BY <2>1, <2>3, Zenon
    <2> HIDE DEF e
    <2>5. e <= end
      BY <1>1, <2>4
    <2> QED
      BY <2>1, <2>5, Zenon DEF e
  <1> QED
    BY <1>1, <1>2, <1>3, <1>4, <1>5, Zenon DEF InChannel, Whole

LEMMA ChannelOpens ==
  ASSUME InChannel', next' = 1, result'.kind \notin Consumed, intact' \in BOOLEAN
  PROVE  Channel!Open
  <1>1. Sent' = Max(Whole(bounds', end'))
    <2>1. (Sent = Max(Whole(bounds, end)))'
      BY SentWhole, PTL
    <2> QED
      BY <2>1, Zenon
  <1>2. Sent' \in Nat
    BY <1>1, WholeMax, Zenon DEF InChannel
  <1>3. (result.kind \notin Consumed => ToldFrame = 0)'
    BY NothingTold, PTL
  <1>4. ToldFrame' = 0
    BY <1>3, Zenon
  <1>5. next' - 1 = 0
    OBVIOUS
  <1>6. IsOpen' \in BOOLEAN
    BY DEF IsOpen
  <1> QED
    BY <1>2, <1>4, <1>5, <1>6, Zenon DEF Channel!Open, Sent, IsOpen

LEMMA ChannelOther ==
  ASSUME InChannel, InChannel', bounds' = bounds, next' = next, end' <= end,
         result'.kind \notin Consumed \/ result' = result,
         IsOpen' = FALSE \/ IsOpen' = IsOpen
  PROVE  Channel!Other
  <1>1. Sent = Max(Whole(bounds, end)) /\ Sent' = Max(Whole(bounds', end'))
    <2>1. (Sent = Max(Whole(bounds, end)))'
      BY SentWhole, PTL
    <2> QED
      BY <2>1, SentWhole, Zenon
  <1>2. /\ Len(bounds) \in Nat \ {0} /\ \A k \in 1..Len(bounds) : bounds[k] \in Nat
        /\ end \in Nat /\ end' \in Nat /\ next \in 1..Len(bounds)
        /\ next - 1 \in Whole(bounds, end) /\ next - 1 \in Whole(bounds, end')
    BY Zenon DEF InChannel
  <1>3. Sent' <= Sent
    BY <1>1, <1>2, WholeShrinks, Zenon
  <1>4. Sent \in Nat /\ Sent' \in Nat /\ next - 1 \in Nat /\ next - 1 <= Sent'
    BY <1>1, <1>2, WholeMax, Zenon
  <1>5. Sent' \in next - 1 .. Sent
    BY <1>3, <1>4
  <1>6. ToldFrame' \in {0, ToldFrame}
    <2>1. (result.kind \notin Consumed => ToldFrame = 0)'
      BY NothingTold, PTL
    <2>2. CASE result'.kind \notin Consumed
      BY <2>1, <2>2, Zenon
    <2>3. CASE result' = result
      <3>1. ToldFrame' = ToldFrame
        BY <2>3, Zenon DEF ToldFrame, FrameCells, FrameCount
      <3> QED
        BY <3>1, Zenon
    <2> QED
      BY <2>2, <2>3
  <1>7. IsOpen' \in {FALSE, IsOpen}
    BY Zenon
  <1>8. next' - 1 = next - 1
    BY Zenon
  <1> QED
    BY <1>5, <1>6, <1>7, <1>8, Zenon DEF Channel!Other, Sent, IsOpen

LEMMA ChannelDelivers ==
  ASSUME InChannel, InChannel', FramesInOrder', intact', Tells, bounds' = bounds, end' = end,
         socketState' = socketState
  PROVE  Channel!Deliver
  <1>1. Sent = Max(Whole(bounds, end)) /\ Sent' = Max(Whole(bounds', end'))
    <2>1. (Sent = Max(Whole(bounds, end)))'
      BY SentWhole, PTL
    <2> QED
      BY <2>1, SentWhole, Zenon
  <1>2. /\ Len(bounds) \in Nat \ {0} /\ \A k \in 1..Len(bounds) : bounds[k] \in Nat
        /\ \A j, k \in 1..Len(bounds) : j < k => bounds[j] < bounds[k]
        /\ next \in 1..Len(bounds) /\ next' - 1 \in Whole(bounds, end)
    BY Zenon DEF InChannel
  <1>3. /\ next' = next + 1 /\ next < Len(bounds) /\ intact' = intact
        /\ result'.kind \in Consumed
    BY Zenon DEF Tells
  <1>4. next' - 1 = (next - 1) + 1 /\ next' - 1 = next /\ next \in 1..Len(bounds)-1
        /\ next \in Nat
    BY <1>2, <1>3
  <1>5. Sent \in Nat /\ next <= Sent
    BY <1>1, <1>2, <1>4, WholeMax, Zenon
  <1>6. next - 1 < Sent
    BY <1>4, <1>5
  <1>7. Sent' = Sent
    BY <1>1, Zenon
  <1>8. ToldFrame' = next
    <2> DEFINE cells == [i \in 1..bounds[next+1] - bounds[next] |-> bounds[next] + i]
    <2>1. result'.cells = FrameCells(next - 1)'
      BY <1>3, Zenon DEF FramesInOrder
    <2>2. FrameCells(next - 1)' = cells
      BY <1>4, Zenon DEF FrameCells
    <2>3. WithCells(bounds, cells) # {} /\ Max(WithCells(bounds, cells)) = next
      BY <1>2, <1>4, OnlyFrame, Zenon
    <2>4. ToldFrame' = LET ks == WithCells(bounds', result'.cells)
                       IN  IF ks = {} THEN -1 ELSE Max(ks)
      BY <1>3, Zenon DEF ToldFrame, FrameCells, FrameCount, WithCells
    <2> HIDE DEF cells
    <2> QED
      BY <2>1, <2>2, <2>3, <2>4, Zenon
  <1>9. IsOpen' = IsOpen
    BY <1>3, Zenon DEF IsOpen
  <1> QED
    BY <1>4, <1>6, <1>7, <1>8, <1>9, Zenon DEF Channel!Deliver, Sent, IsOpen

LEMMA ChannelStep ==
  ASSUME ~ReadsOn, ChannelInv, ChannelInv', InChannel, InChannel', [Next]_vars
  PROVE  [Channel!Next]_(Channel!vars)
  <1>0. /\ ReaderInv /\ intact' \in BOOLEAN /\ end \in Nat /\ end' \in Nat /\ rcvd' \in Nat
        /\ FramesInOrder'
    BY Zenon DEF ChannelInv, ReaderInv, TypeOK
  <1>1. end <= end
    BY <1>0
  <1>2. ASSUME NEW state, NEW old, ConnectOutcome(state, old)
        PROVE  Channel!Open \/ Channel!Other
    <2>1. CASE next' = 1
      BY <1>0, <1>2, <2>1, ConnectOpens, ChannelOpens, Zenon
    <2>2. CASE end' = end /\ bounds' = bounds /\ next' = next /\ intact' = FALSE
      <3>1. IsOpen' = FALSE
        BY <2>2 DEF IsOpen
      <3> QED
        BY <1>1, <1>2, <2>2, <3>1, ConnectOpens, ChannelOther, Zenon
    <2> QED
      BY <1>2, <2>1, <2>2, ConnectOpens, Zenon
  <1>3. CASE Close \/ Reset
    <2>1. bounds' = bounds /\ next' = next /\ end' = end /\ result' = NoResult
      BY <1>3 DEF Close, Reset
    <2>2. result'.kind \notin Consumed
      BY <2>1 DEF NoResult, Result, Consumed
    <2>3. IsOpen' = FALSE \/ IsOpen' = IsOpen
      BY <1>3 DEF Close, Reset, IsOpen
    <2> QED
      BY <1>1, <2>1, <2>2, <2>3, ChannelOther, Zenon DEF Channel!Next
  <1>4. CASE PeerClose
    <2>1. /\ bounds' = bounds /\ next' = next /\ result' = result /\ IsOpen' = IsOpen
          /\ end' \in rcvd..end
      BY <1>4 DEF PeerClose, IsOpen
    <2>2. end' <= end
      BY <1>0, <2>1
    <2> QED
      BY <2>1, <2>2, ChannelOther, Zenon DEF Channel!Next
  <1>5. CASE Read
    <2>1. bounds' = bounds /\ end' = end /\ socketState' = socketState
      BY <1>5 DEF Read
    <2>2. CASE Tells
      <3>1. intact'
        BY <1>5, <2>2, Zenon DEF Read, Tells
      <3> QED
        BY <1>0, <2>1, <2>2, <3>1, ChannelDelivers, Zenon DEF Channel!Next
    <2>3. CASE TellsNothing
      <3>1. next' = next /\ result'.kind \notin Consumed /\ intact' \in {FALSE, intact}
        BY <2>3, Zenon DEF TellsNothing
      <3>2. IsOpen' = FALSE \/ IsOpen' = IsOpen
        <4>1. CASE intact' = FALSE
          BY <4>1 DEF IsOpen
        <4>2. CASE intact' = intact
          BY <2>1, <4>2, Zenon DEF IsOpen
        <4> QED
          BY <3>1, <4>1, <4>2, Zenon
      <3> QED
        BY <1>1, <2>1, <3>1, <3>2, ChannelOther, Zenon DEF Channel!Next
    <2> QED
      BY <1>0, <1>5, <2>2, <2>3, ReadTells, Zenon DEF Channel!Next
  <1>6. CASE UNCHANGED vars
    <2>1. /\ bounds' = bounds /\ next' = next /\ end' = end /\ result' = result
          /\ intact' = intact /\ socketState' = socketState
      BY <1>6 DEF vars
    <2>2. IsOpen' = IsOpen
      BY <2>1, Zenon DEF IsOpen
    <2> QED
      BY <1>1, <2>1, <2>2, ChannelOther, Zenon DEF Channel!Next
  <1> QED
    BY <1>2, <1>3, <1>4, <1>5, <1>6, Zenon DEF Next, Connect, Reconnect, Channel!Next

LEMMA ChannelInit ==
  ASSUME Init
  PROVE  Channel!Init /\ ToldArrived
  <1>1. /\ result = NoResult /\ bounds = <<0>> /\ next = 1 /\ intact = FALSE
    BY DEF Init
  <1>2. result.kind \notin Consumed
    BY <1>1 DEF NoResult, Result, Consumed
  <1>3. ToldFrame = 0
    BY <1>2, NothingTold, Zenon
  <1>4. Sent = 0
    <2>1. Len(bounds) = 1
      BY <1>1
    <2>2. 0..Len(bounds)-1 = {0} /\ 1..0 = {} /\ Len(bounds) \in Nat \ {0}
      BY <2>1
    <2>3. 0 \in Whole(bounds, end) /\ \A k \in Whole(bounds, end) : k = 0
      BY <2>2, Zenon DEF Whole
    <2>4. Max(Whole(bounds, end)) \in Whole(bounds, end)
      BY <2>2, <2>3, WholeMax, Zenon
    <2> QED
      BY <2>3, <2>4, SentWhole, Zenon
  <1>5. next - 1 = 0 /\ 1..next-1 = {}
    BY <1>1
  <1>6. IsOpen = FALSE
    BY <1>1 DEF IsOpen
  <1> QED
    BY <1>3, <1>4, <1>5, <1>6, Zenon DEF Channel!Init, Sent, IsOpen, ToldArrived

(* WebSocketClient.read implements the FIFO channel of whole messages, for   *)
(* every peer that sends well-formed frames and every buffer size: each      *)
(* message told once, in order, never one that was not sent; the end of a    *)
(* connection takes back nothing that was told.                              *)
THEOREM ReaderImplementsChannel == ~ReadsOn => (Spec => ImplementsChannel)
  <1> SUFFICES ASSUME ~ReadsOn PROVE Spec => ImplementsChannel
    OBVIOUS
  <1>1. Init => Channel!Init /\ ToldArrived
    BY ChannelInit
  <1>2. ReaderInv /\ ReaderInv' /\ ToldArrived /\ [Next]_vars => ToldArrived'
    BY ToldStep
  <1>3. ChannelInv /\ ChannelInv' /\ InChannel /\ InChannel' /\ [Next]_vars
          => [Channel!Next]_(Channel!vars)
    BY ChannelStep
  <1>4. Spec => []ReaderInv
    BY ReaderInvariant
  <1>5. Spec => []ChannelInv
    <2>1. ReaderInv /\ ToldArrived <=> ChannelInv
      BY DEF ChannelInv
    <2> QED
      BY <1>1, <1>2, <1>4, <2>1, PTL DEF Spec
  <1>6. Spec => []InChannel
    BY <1>5, ChannelHolds, PTL
  <1> QED
    BY <1>1, <1>3, <1>5, <1>6, PTL DEF Spec, ImplementsChannel, Channel!Spec
=============================================================================
