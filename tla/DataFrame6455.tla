---------------------------- MODULE DataFrame6455 ---------------------------
(***************************************************************************)
(* websockets/frames/DataFrame6455, the decoding half: what a frame that   *)
(* wraps `limit' bytes of a buffer from `offset' says about itself.  A     *)
(* frame is a record [at, offset, limit]; at[i] is the byte (0..255) at    *)
(* absolute index i of the wrapped buffer.  At the end, what the standard  *)
(* calls a frame, without the class.                                       *)
(***************************************************************************)
EXTENDS Integers

ByteAt(f, i) == f.at[f.offset + i]

(* A byte read as the top byte of a Java int. *)
Signed(byte) == IF byte >= 128 THEN byte - 256 ELSE byte

(* The sum of two ints of which the second is small and not negative, as   *)
(* Java computes it (modulo 2^32, kept in TLC's 32-bit range).             *)
MaxInt == 2^30 + (2^30 - 1)
Plus32(a, b) == IF a > MaxInt - b THEN (a - MaxInt - 1) + (b - MaxInt - 1) ELSE a + b

(* fin(), masked(), isFragment() *)
Masked(f) == ByteAt(f, 1) >= 128
IsFragment(f) == ByteAt(f, 0) < 128

(* Opcode.fromByte: the low four bits, or "invalid" when it throws. *)
GetOpcode(f) ==
  LET code == ByteAt(f, 0) % 16 IN
  CASE code = 0  -> "CONTINUOUS"
    [] code = 1  -> "TEXT"
    [] code = 2  -> "BINARY"
    [] code = 8  -> "CLOSING"
    [] code = 9  -> "PING"
    [] code = 10 -> "PONG"
    [] OTHER     -> "invalid"

PayloadLengthOctets(f) ==
  LET length == ByteAt(f, 1) % 128 IN
  CASE length = 126 -> 3 [] length = 127 -> 9 [] OTHER -> 1

MaskOctets(f) == IF Masked(f) THEN 4 ELSE 0

(* readInt shifts eight bytes through a 32-bit int: the last four stay. *)
PayloadLength(f) ==
  LET length == ByteAt(f, 1) % 128 IN
  CASE length = 126 -> ByteAt(f, 2) * 256 + ByteAt(f, 3)
    [] length = 127 -> ((Signed(ByteAt(f, 6)) * 256 + ByteAt(f, 7)) * 256
                          + ByteAt(f, 8)) * 256 + ByteAt(f, 9)
    [] OTHER        -> length

(* Mutation: the mask key is not counted. *)
HeaderLength_NoMask(f) == 1 + PayloadLengthOctets(f)

HeaderLength(f) == 1 + PayloadLengthOctets(f) + MaskOctets(f)

(* length() *)
FrameLength(f) == Plus32(PayloadLength(f), HeaderLength(f))

HasCompleteHeader(f) ==
  /\ f.limit > 1
  /\ f.limit >= 1 + PayloadLengthOctets(f)
  /\ f.limit >= HeaderLength(f)

(* Mutation: a frame is taken to be complete one byte early. *)
IsIncomplete_OffByOne(f) == ~HasCompleteHeader(f) \/ f.limit + 1 < FrameLength(f)

(* Mutation: a frame needs one byte more than it has. *)
IsIncomplete_OneMore(f) == ~HasCompleteHeader(f) \/ f.limit <= FrameLength(f)

IsIncomplete(f) == ~HasCompleteHeader(f) \/ f.limit < FrameLength(f)
-----------------------------------------------------------------------------
(* RFC 6455, 5.2: the size of the header of a frame, by its second byte. *)
HeaderSize(second) ==
  2 + (CASE second % 128 = 126 -> 2 [] second % 128 = 127 -> 8 [] OTHER -> 0)
    + (IF second >= 128 THEN 4 ELSE 0)

(* RFC 6455, 5.2: the bytes behind from, up to to, are one frame.  Frames   *)
(* of 2^31 bytes and more are left out.                                     *)
IsFrame(bytes, from, to) ==
  LET at(i)  == bytes[from + i]
      code   == at(2) % 128
      header == HeaderSize(at(2))
  IN  /\ to - from \in 2..MaxInt /\ to - from >= header
      /\ code = 126 => to - from = header + (at(3) * 256 + at(4))
      /\ code = 127 =>
           /\ at(3) = 0 /\ at(4) = 0 /\ at(5) = 0 /\ at(6) = 0 /\ at(7) < 128
           /\ to - from = header + (((at(7) * 256 + at(8)) * 256 + at(9)) * 256 + at(10))
      /\ code \notin {126, 127} => to - from = header + code
=============================================================================
