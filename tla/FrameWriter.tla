---------------------------- MODULE FrameWriter -----------------------------
(***************************************************************************)
(* DataFrame6455.encode and copyPayloadData, as WebSocketClient.wrap* and  *)
(* write* use them: messages are encoded one behind the other into an      *)
(* output buffer, which is what the peer will decode.                      *)
(*                                                                         *)
(* Messages are long, so payloads are named and the buffer is kept as the  *)
(* list of the encodings put into it, each with its place and the number   *)
(* of its bytes that found room; Byte gives a single byte of the buffer.   *)
(***************************************************************************)
EXTENDS DataFrame6455, Sequences

CONSTANTS
  Opcodes,            \* opcodes the application sends
  Payloads,           \* the payloads it sends, by name
  SizeOf(_),          \* the size of a payload
  PayloadByte(_, _),  \* payload.get(i), of a payload whose position is 0
  MaskKeys,           \* mask keys, as signed ints
  Cap,                \* capacity of the output buffer
  MaxFrames           \* bound on the messages put into one buffer

(* Sizes, keys and capacities are ints.  Payloads whose frames have 2^31    *)
(* bytes and more are left out.                                             *)
ASSUME WriterAssumption ==
  /\ Opcodes \subseteq {"TEXT", "BINARY", "CLOSING", "PING", "PONG"}
  /\ \A p \in Payloads : /\ SizeOf(p) \in 0..MaxInt - 14
                          /\ \A i \in 0..SizeOf(p) - 1 : PayloadByte(p, i) \in 0..255
  /\ \A key \in MaskKeys : key \in Int /\ -MaxInt - 1 <= key /\ key <= MaxInt
  /\ Cap \in 1..MaxInt /\ MaxFrames \in Nat

VARIABLES
  maskKey,    \* DataFrame6455.maskKey, the same for every frame
  output,     \* what was put: [opcode, payload, start, put], put = bytes that found room
  position    \* position of the output buffer

vars == <<maskKey, output, position>>

(* Opcode.code *)
Code(opcode) ==
  CASE opcode = "TEXT" -> 1 [] opcode = "BINARY" -> 2 [] opcode = "CLOSING" -> 8
    [] opcode = "PING" -> 9 [] opcode = "PONG" -> 10

(* (byte) (n >>> (8 * k)) of an int n: \div rounds down like a shift. *)
ByteOf(n, k) ==
  CASE k = 0 -> n % 256
    [] k = 1 -> (n \div 256) % 256
    [] k = 2 -> (n \div 65536) % 256
    [] k = 3 -> (n \div 16777216) % 256

(* writeInt, writeLong, putInt: n in `octets' bytes, the highest first.     *)
(* No size reaches 2^31: the upper bytes of a long are 0.                   *)
BigEndian(n, octets) ==
  [i \in 1..octets |-> IF octets - i > 3 THEN 0 ELSE ByteOf(n, octets - i)]

(* a ^ b, of bytes: the bits in which they differ *)
XorBit(a, b, w) == w * ((a \div w + b \div w) % 2)
XorByte(a, b) ==
  XorBit(a, b, 128) + XorBit(a, b, 64) + XorBit(a, b, 32) + XorBit(a, b, 16)
    + XorBit(a, b, 8) + XorBit(a, b, 4) + XorBit(a, b, 2) + XorBit(a, b, 1)

(* Mutation: a payload of exactly 2^16 bytes gets a two-byte length. *)
LengthBytes_TwoToThe16(size) ==
  IF size > 65536 THEN <<255>> \o BigEndian(size, 8)
  ELSE IF size > 125 THEN <<254>> \o BigEndian(size, 2)
  ELSE <<128 + size>>

(* Mutation: a length that needs more than one byte gets eight. *)
LengthBytes_TwoFormats(size) ==
  IF size > 125 THEN <<255>> \o BigEndian(size, 8) ELSE <<128 + size>>

(* encode: the mask bit, and the length in one, three or nine bytes *)
LengthBytes(size) ==
  IF size >= 65536 THEN <<255>> \o BigEndian(size, 8)
  ELSE IF size > 125 THEN <<254>> \o BigEndian(size, 2)
  ELSE <<128 + size>>

(* encode: fin, opcode, length and mask key *)
Header(m) ==
  (<<128 + Code(m.opcode)>> \o LengthBytes(SizeOf(m.payload))) \o BigEndian(maskKey, 4)

EncodedLength(m) == Len(Header(m)) + SizeOf(m.payload)

(* encode: byte i of the payload as it is sent *)
MaskedByte(m, i) == XorByte(PayloadByte(m.payload, i), BigEndian(maskKey, 4)[(i % 4) + 1])

(* Byte j of the encoding of m. *)
EncodedByte(m, j) ==
  LET header == Header(m) IN
  IF j < Len(header) THEN header[j + 1] ELSE MaskedByte(m, j - Len(header))

(* The byte at index i of the buffer. *)
Byte(i) ==
  LET k == CHOOSE k \in DOMAIN output :
             output[k].start <= i /\ i < output[k].start + output[k].put
  IN  EncodedByte(output[k], i - output[k].start)

Init == maskKey \in MaskKeys /\ output = <<>> /\ position = 0

(* Mutation: the room is counted one byte too large. *)
Put_OneMore(m, room) == IF room < EncodedLength(m) THEN room + 1 ELSE EncodedLength(m)

(* How many bytes encode() puts before BufferOverflowException stops it:    *)
(* all single bytes but the mask key, which is put as one int.              *)
Put(m, room) ==
  LET key == Len(Header(m)) - 4 IN
  IF room >= EncodedLength(m) THEN EncodedLength(m)
  ELSE IF room >= key /\ room < key + 4 THEN key
  ELSE room

Encoding(opcode, payload, start) ==
  LET m == [opcode |-> opcode, payload |-> payload]
  IN  [opcode |-> opcode, payload |-> payload, start |-> start, put |-> Put(m, Cap - start)]

(* wrapMessage, wrapPingMessage, wrapPongMessage: behind what is there *)
Wrap(opcode, payload) ==
  LET e == Encoding(opcode, payload, position) IN
  /\ Len(output) < MaxFrames
  /\ output' = Append(output, e) /\ position' = position + e.put
  /\ UNCHANGED maskKey

(* writeWebSocketMessage: clear() first.  SendPath has what follows. *)
Write(opcode, payload) ==
  LET e == Encoding(opcode, payload, 0) IN
  /\ output' = <<e>> /\ position' = e.put
  /\ UNCHANGED maskKey

Next ==
  \E opcode \in Opcodes, payload \in Payloads : Wrap(opcode, payload) \/ Write(opcode, payload)

Spec == Init /\ [][Next]_vars
-----------------------------------------------------------------------------
(* The peer: a frame over everything from the start of the k-th encoding.   *)
(* Of its bytes, those of the longest header and the payload's bytes in the *)
(* places `sample' are given.                                               *)
PeerFrame(k, sample) ==
  LET m == output[k]
      near == 0..13 \cup {Len(Header(m)) + i : i \in sample}
  IN  [at |-> [i \in {m.start + j : j \in near} \cap 0..position - 1 |-> Byte(i)],
       offset |-> m.start, limit |-> position - m.start]

(* getMaskingKey: a signed int *)
MaskingKey(f) ==
  LET at(i) == ByteAt(f, 1 + PayloadLengthOctets(f) + i)
  IN  ((Signed(at(0)) * 256 + at(1)) * 256 + at(2)) * 256 + at(3)

(* copyPayloadData: byte i *)
CopyPayloadByte(f, i) ==
  LET byte == ByteAt(f, HeaderLength(f) + i)
  IN  IF Masked(f) THEN XorByte(byte, ByteOf(MaskingKey(f), 3 - (i % 4))) ELSE byte

Whole(k) == output[k].put = EncodedLength(output[k])

(* The k-th message is found at its place: opcode, size, end of frame, and  *)
(* the payload's bytes in the places `sample'.                              *)
Decodes(k, sample) ==
  LET f == PeerFrame(k, sample)
      m == output[k]
  IN
  /\ ~IsIncomplete(f) /\ ~IsFragment(f) /\ Masked(f)
  /\ GetOpcode(f) = m.opcode /\ PayloadLength(f) = SizeOf(m.payload)
  /\ k < Len(output) => FrameLength(f) = output[k+1].start - m.start
  /\ k = Len(output) => FrameLength(f) = f.limit
  /\ \A i \in sample : CopyPayloadByte(f, i) = PayloadByte(m.payload, i)

(* The first and last payload bytes, each with every byte of the key. *)
Ends(size) == (0..5 \cup size - 5..size - 1) \cap 0..size - 1

(* DataFrame6455.encode and the decoder: behind whole encodings, every      *)
(* message decodes at its place to exactly what was encoded - opcode, size, *)
(* end of frame, payload - whatever its length format and its neighbours.   *)
MessagesDecode ==
  \A k \in DOMAIN output :
    (\A j \in 1..k : Whole(j)) => Decodes(k, Ends(SizeOf(output[k].payload)))

(* DataFrame6455.encode: every message that found room is one frame as the  *)
(* standard has it, masked and with its length in as few bytes as possible. *)
(* This is what WebSocketReader assumes of a peer.                          *)
EncodesFrames ==
  \A k \in DOMAIN output : Whole(k) =>
    LET m      == output[k]
        bytes  == [i \in (m.start + 1..m.start + 14) \cap 1..position |-> Byte(i - 1)]
        second == bytes[m.start + 2]
    IN
    /\ IsFrame(bytes, m.start, m.start + m.put) /\ second >= 128
    /\ SizeOf(m.payload) < 126 => HeaderSize(second) = 6
    /\ SizeOf(m.payload) < 65536 => HeaderSize(second) <= 8

(* DataFrame6455.encode into a buffer that is too small: the part that was  *)
(* put is never taken for a frame, wherever the room ended; a peer that     *)
(* gets it waits for more.                                                  *)
TornIsIncomplete ==
  \A k \in DOMAIN output : ~Whole(k) /\ k = Len(output) => IsIncomplete(PeerFrame(k, {}))

(* DataFrame6455.encode: the position never passes the capacity. *)
TypeOK ==
  /\ maskKey \in MaskKeys /\ position \in 0..Cap
  /\ \A k \in DOMAIN output : output[k].put \in 0..EncodedLength(output[k])
=============================================================================
