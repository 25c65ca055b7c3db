-------------------------- MODULE FrameWriterProofs -------------------------
(***************************************************************************)
(* Proofs about the frame codec for all payloads, mask keys, capacities    *)
(* and numbers of messages in a buffer: what DataFrame6455.encode puts is  *)
(* what DataFrame6455 decodes and a frame as the standard has it, and what *)
(* found no room is incomplete.                                            *)
(***************************************************************************)
EXTENDS FrameWriter, SequenceTheorems, TLAPS

LEMMA MaxIntIs == MaxInt = 2147483647
  BY SMT DEF MaxInt

LEMMA CapIs == Cap \in Nat /\ 0 < Cap
<1>1. Cap \in 1..MaxInt
  BY WriterAssumption, Zenon
<1>2. MaxInt \in Int
  BY MaxIntIs, SMT
<1> QED  BY <1>1, <1>2, SMT
-----------------------------------------------------------------------------
(* Bytes. *)

(* A byte is the sum of its bits. *)
LEMMA ByteIsBits ==
  ASSUME NEW a \in 0..255
  PROVE  a = 128 * ((a \div 128) % 2) + 64 * ((a \div 64) % 2) + 32 * ((a \div 32) % 2)
             + 16 * ((a \div 16) % 2) + 8 * ((a \div 8) % 2) + 4 * ((a \div 4) % 2)
             + 2 * ((a \div 2) % 2) + 1 * ((a \div 1) % 2)
  BY SMTT(30)

(* A bit that differs in x exactly where a and b differ gives back a's. *)
LEMMA BitTwice ==
  ASSUME NEW a \in Int, NEW b \in Int, NEW x \in Int, x % 2 = (a + b) % 2
  PROVE  (x + b) % 2 = a % 2
  BY SMT

(* encode, copyPayloadData: a byte masked twice with the same byte is the   *)
(* byte, and what is between is a byte.                                     *)
LEMMA XorTwice ==
  ASSUME NEW a \in 0..255, NEW b \in 0..255
  PROVE  XorByte(a, b) \in 0..255 /\ XorByte(XorByte(a, b), b) = a
<1> DEFINE A(w) == (a \div w) % 2
           E(w) == (a \div w + b \div w) % 2
           x == XorByte(a, b)
           W == {1, 2, 4, 8, 16, 32, 64, 128}
<1>1. \A w \in W : a \div w \in Int /\ b \div w \in Int
  BY SMT
<1>2. \A w \in W : A(w) \in {0, 1} /\ E(w) \in {0, 1}
  BY <1>1, SMT
<1>3. x = 128 * E(128) + 64 * E(64) + 32 * E(32) + 16 * E(16) + 8 * E(8) + 4 * E(4)
            + 2 * E(2) + 1 * E(1)
  BY Zenon DEF XorByte, XorBit
<1> HIDE DEF x
<1>4. /\ x \in 0..255
      /\ (x \div 128) % 2 = E(128) /\ (x \div 64) % 2 = E(64) /\ (x \div 32) % 2 = E(32)
      /\ (x \div 16) % 2 = E(16) /\ (x \div 8) % 2 = E(8) /\ (x \div 4) % 2 = E(4)
      /\ (x \div 2) % 2 = E(2) /\ (x \div 1) % 2 = E(1)
  <2> HIDE DEF E
  <2>1. /\ E(1) \in {0, 1} /\ E(2) \in {0, 1} /\ E(4) \in {0, 1} /\ E(8) \in {0, 1}
        /\ E(16) \in {0, 1} /\ E(32) \in {0, 1} /\ E(64) \in {0, 1} /\ E(128) \in {0, 1}
    BY <1>2, Zenon
  <2> DEFINE e1 == E(128)  e2 == E(64)  e3 == E(32)  e4 == E(16)
             e5 == E(8)    e6 == E(4)   e7 == E(2)   e8 == E(1)
  <2> HIDE DEF e1, e2, e3, e4, e5, e6, e7, e8
  <2>2. /\ e1 \in {0, 1} /\ e2 \in {0, 1} /\ e3 \in {0, 1} /\ e4 \in {0, 1}
        /\ e5 \in {0, 1} /\ e6 \in {0, 1} /\ e7 \in {0, 1} /\ e8 \in {0, 1}
    BY <2>1, Zenon DEF e1, e2, e3, e4, e5, e6, e7, e8
  <2>3. x = 128 * e1 + 64 * e2 + 32 * e3 + 16 * e4 + 8 * e5 + 4 * e6 + 2 * e7 + 1 * e8
    BY <1>3, Zenon DEF e1, e2, e3, e4, e5, e6, e7, e8
  <2>4. x \in 0..255
    BY <2>2, <2>3, SMT
  <2>5. /\ (x \div 128) % 2 = e1 /\ (x \div 64) % 2 = e2 /\ (x \div 32) % 2 = e3
        /\ (x \div 16) % 2 = e4 /\ (x \div 8) % 2 = e5 /\ (x \div 4) % 2 = e6
        /\ (x \div 2) % 2 = e7 /\ (x \div 1) % 2 = e8
    BY <2>2, <2>3, <2>4, SMT
  <2> QED  BY <2>4, <2>5, Zenon DEF e1, e2, e3, e4, e5, e6, e7, e8
<1>5. \A w \in W : x \div w \in Int
  BY <1>4, SMT
<1>6. \A w \in W : (x \div w) % 2 = E(w)
  <2> HIDE DEF E
  <2> QED  BY <1>4, Zenon
<1>7. \A w \in W : (x \div w + b \div w) % 2 = A(w)
  <2> HIDE DEF W
  <2>1. TAKE w \in W
  <2>2. a \div w \in Int /\ b \div w \in Int /\ x \div w \in Int
    BY <1>1, <1>5, Zenon
  <2>3. (x \div w) % 2 = E(w)
    BY <1>6, Zenon
  <2> QED  BY <2>2, <2>3, BitTwice, Zenon
<1>8. XorByte(x, b) = 128 * A(128) + 64 * A(64) + 32 * A(32) + 16 * A(16) + 8 * A(8)
                    + 4 * A(4) + 2 * A(2) + 1 * A(1)
  BY <1>7, ZenonT(30) DEF XorByte, XorBit
<1>9. XorByte(x, b) = a
  BY <1>8, ByteIsBits, Zenon
<1> QED  BY <1>4, <1>9, Zenon DEF x
-----------------------------------------------------------------------------
(* Numbers in bytes. *)

Bytes == 0..255

LEMMA ByteOfIs ==
  ASSUME NEW n \in Int
  PROVE  /\ ByteOf(n, 0) = n % 256
         /\ ByteOf(n, 1) = (n \div 256) % 256
         /\ ByteOf(n, 2) = (n \div 65536) % 256
         /\ ByteOf(n, 3) = (n \div 16777216) % 256
<1>1. ByteOf(n, 0) = n % 256
  BY SMT DEF ByteOf
<1>2. ByteOf(n, 1) = (n \div 256) % 256
  BY SMT DEF ByteOf
<1>3. ByteOf(n, 2) = (n \div 65536) % 256
  BY SMT DEF ByteOf
<1>4. ByteOf(n, 3) = (n \div 16777216) % 256
  BY SMT DEF ByteOf
<1> QED  BY <1>1, <1>2, <1>3, <1>4, SMT

LEMMA ByteOfType ==
  ASSUME NEW n \in Int
  PROVE  /\ ByteOf(n, 0) \in Bytes /\ ByteOf(n, 1) \in Bytes
         /\ ByteOf(n, 2) \in Bytes /\ ByteOf(n, 3) \in Bytes
<1>1. \A i \in Int : i % 256 \in Bytes
  BY SMT DEF Bytes
<1>2. n \div 256 \in Int /\ n \div 65536 \in Int /\ n \div 16777216 \in Int
  BY SMT
<1> QED  BY <1>1, <1>2, ByteOfIs, SMT

(* The int of four bytes, the highest first. *)
IntOf(b1, b2, b3, b4) == ((Signed(b1) * 256 + b2) * 256 + b3) * 256 + b4

(* getMaskingKey reads the int that putInt wrote, readInt the length that  *)
(* writeLong wrote.                                                        *)
LEMMA FourBytes ==
  ASSUME NEW n \in Int, -MaxInt - 1 <= n, n <= MaxInt
  PROVE  IntOf(ByteOf(n, 3), ByteOf(n, 2), ByteOf(n, 1), ByteOf(n, 0)) = n
<1> DEFINE q1 == n \div 16777216  q2 == n \div 65536  q3 == n \div 256
<1>1. q1 \in -128..127 /\ q2 \in Int /\ q3 \in Int
  BY MaxIntIs, SMT
<1>2. q2 = q3 \div 256 /\ q1 = q2 \div 256
  BY SMT
<1>3. /\ ByteOf(n, 0) = n % 256 /\ ByteOf(n, 1) = q3 % 256
      /\ ByteOf(n, 2) = q2 % 256 /\ ByteOf(n, 3) = q1 % 256
  BY ByteOfIs, SMT
<1>4. q3 = n \div 256
  OBVIOUS
<1> HIDE DEF q1, q2, q3
<1>5. n = 256 * q3 + (n % 256)
  BY <1>4, SMT
<1>6. q3 = 256 * q2 + (q3 % 256) /\ q2 = 256 * q1 + (q2 % 256)
  BY <1>1, <1>2, SMT
<1>7. Signed(q1 % 256) = q1
  BY <1>1, SMT DEF Signed
<1>8. ((q1 * 256 + (q2 % 256)) * 256 + (q3 % 256)) * 256 + (n % 256) = n
  BY <1>1, <1>5, <1>6, SMT
<1> QED  BY <1>3, <1>7, <1>8 DEF IntOf

(* The top byte of a length has no sign. *)
LEMMA TopByte ==
  ASSUME NEW n \in Nat, n <= MaxInt
  PROVE  ByteOf(n, 3) \in 0..127
<1> DEFINE q == n \div 16777216
<1>1. ByteOf(n, 3) = q % 256
  BY SMT DEF ByteOf
<1>2. q \in 0..127
  BY MaxIntIs, SMT
<1> HIDE DEF q
<1> QED  BY <1>1, <1>2, SMT

(* readInt reads the two bytes that writeInt wrote. *)
LEMMA TwoBytes ==
  ASSUME NEW n \in Nat, n < 65536
  PROVE  ByteOf(n, 1) * 256 + ByteOf(n, 0) = n
<1> DEFINE q == n \div 256
<1>1. q \in 0..255 /\ n = q * 256 + (n % 256)
  BY SMT
<1>2. ByteOf(n, 0) = n % 256 /\ ByteOf(n, 1) = q % 256
  BY SMT DEF ByteOf
<1> HIDE DEF q
<1>3. q % 256 = q
  BY <1>1, SMT
<1> QED  BY <1>1, <1>2, <1>3, SMT

LEMMA IsBytes ==
  ASSUME NEW o \in Nat, NEW s \in [1..o -> Bytes]
  PROVE  s \in Seq(Bytes) /\ Len(s) = o
<1>1. s \in Seq(Bytes)
  BY SeqDef
<1>2. Len(s) \in Nat /\ DOMAIN s = 1..Len(s) /\ DOMAIN s = 1..o
  BY <1>1, LenProperties
<1> QED  BY <1>1, <1>2, SMT

LEMMA BigEndianTwo ==
  ASSUME NEW n \in Int
  PROVE  /\ BigEndian(n, 2) \in Seq(Bytes) /\ Len(BigEndian(n, 2)) = 2
         /\ BigEndian(n, 2)[1] = ByteOf(n, 1) /\ BigEndian(n, 2)[2] = ByteOf(n, 0)
<1> DEFINE s == BigEndian(n, 2)
<1>1. s = [i \in 1..2 |-> s[i]] /\ s[1] = ByteOf(n, 1) /\ s[2] = ByteOf(n, 0)
  BY SMT DEF BigEndian
<1> HIDE DEF s
<1>2. \A i \in 1..2 : i = 1 \/ i = 2
  BY SMT
<1>3. \A i \in 1..2 : s[i] \in Bytes
  BY <1>1, <1>2, ByteOfType, Zenon
<1>4. s \in [1..2 -> Bytes]
  BY <1>1, <1>3, Zenon
<1>5. s \in Seq(Bytes) /\ Len(s) = 2
  BY <1>4, IsBytes, 2 \in Nat, Zenon
<1> QED  BY <1>1, <1>5, Zenon DEF s

LEMMA BigEndianFour ==
  ASSUME NEW n \in Int
  PROVE  /\ BigEndian(n, 4) \in Seq(Bytes) /\ Len(BigEndian(n, 4)) = 4
         /\ BigEndian(n, 4)[1] = ByteOf(n, 3) /\ BigEndian(n, 4)[2] = ByteOf(n, 2)
         /\ BigEndian(n, 4)[3] = ByteOf(n, 1) /\ BigEndian(n, 4)[4] = ByteOf(n, 0)
<1> DEFINE s == BigEndian(n, 4)
<1>1. /\ s = [i \in 1..4 |-> s[i]]
      /\ s[1] = ByteOf(n, 3) /\ s[2] = ByteOf(n, 2) /\ s[3] = ByteOf(n, 1) /\ s[4] = ByteOf(n, 0)
  BY SMT DEF BigEndian
<1> HIDE DEF s
<1>2. \A i \in 1..4 : i = 1 \/ i = 2 \/ i = 3 \/ i = 4
  BY SMT
<1>3. \A i \in 1..4 : s[i] \in Bytes
  BY <1>1, <1>2, ByteOfType, Zenon
<1>4. s \in [1..4 -> Bytes]
  BY <1>1, <1>3, Zenon
<1>5. s \in Seq(Bytes) /\ Len(s) = 4
  BY <1>4, IsBytes, 4 \in Nat, Zenon
<1> QED  BY <1>1, <1>5, Zenon DEF s

LEMMA BigEndianEight ==
  ASSUME NEW n \in Int
  PROVE  /\ BigEndian(n, 8) \in Seq(Bytes) /\ Len(BigEndian(n, 8)) = 8
         /\ \A i \in 1..4 : BigEndian(n, 8)[i] = 0
         /\ BigEndian(n, 8)[5] = ByteOf(n, 3) /\ BigEndian(n, 8)[6] = ByteOf(n, 2)
         /\ BigEndian(n, 8)[7] = ByteOf(n, 1) /\ BigEndian(n, 8)[8] = ByteOf(n, 0)
<1> DEFINE s == BigEndian(n, 8)
<1>1. /\ s = [i \in 1..8 |-> s[i]] /\ \A i \in 1..4 : s[i] = 0
      /\ s[5] = ByteOf(n, 3) /\ s[6] = ByteOf(n, 2) /\ s[7] = ByteOf(n, 1) /\ s[8] = ByteOf(n, 0)
  BY SMT DEF BigEndian
<1> HIDE DEF s
<1>2. \A i \in 1..8 : i \in 1..4 \/ i = 5 \/ i = 6 \/ i = 7 \/ i = 8
  BY SMT
<1>3. 0 \in Bytes
  BY SMT DEF Bytes
<1>4. \A i \in 1..8 : s[i] \in Bytes
  BY <1>1, <1>2, <1>3, ByteOfType, Zenon
<1>5. s \in [1..8 -> Bytes]
  BY <1>1, <1>4, Zenon
<1>6. s \in Seq(Bytes) /\ Len(s) = 8
  BY <1>5, IsBytes, 8 \in Nat, Zenon
<1> QED  BY <1>1, <1>6, Zenon DEF s
-----------------------------------------------------------------------------
(* The header. *)

IsMessage(m) == m.opcode \in Opcodes /\ m.payload \in Payloads

(* getPayloadLengthOctets, of what encode writes for a size *)
Octets(size) == IF size >= 65536 THEN 9 ELSE IF size > 125 THEN 3 ELSE 1

(* The three formats of a length. *)
Short(size) == size <= 125
Long(size) == size >= 65536

LEMMA PayloadFacts ==
  ASSUME NEW p \in Payloads
  PROVE  /\ SizeOf(p) \in Nat /\ SizeOf(p) + 14 <= MaxInt
         /\ \A i \in 0..SizeOf(p) - 1 : PayloadByte(p, i) \in 0..255
<1>1. SizeOf(p) \in 0..MaxInt - 14
  BY WriterAssumption, Zenon
<1>2. \A i \in 0..SizeOf(p) - 1 : PayloadByte(p, i) \in 0..255
  BY WriterAssumption, Zenon
<1>3. MaxInt \in Int
  BY MaxIntIs, SMT
<1>4. SizeOf(p) \in Nat /\ SizeOf(p) + 14 <= MaxInt
  BY <1>1, <1>3, SMT
<1> QED  BY <1>2, <1>4, Zenon

LEMMA Joined ==
  ASSUME NEW s \in Seq(Bytes), NEW t \in Seq(Bytes)
  PROVE  /\ s \o t \in Seq(Bytes) /\ Len(s \o t) = Len(s) + Len(t)
         /\ \A i \in 1..Len(s) : (s \o t)[i] = s[i]
         /\ \A i \in 1..Len(t) : (s \o t)[Len(s) + i] = t[i]
  BY SMT

LEMMA OneByte ==
  ASSUME NEW b \in Bytes
  PROVE  <<b>> \in Seq(Bytes) /\ Len(<<b>>) = 1 /\ <<b>>[1] = b
  BY SMT

LEMMA ShortLength ==
  ASSUME NEW size \in Nat, Short(size)
  PROVE  /\ LengthBytes(size) \in Seq(Bytes) /\ Len(LengthBytes(size)) = 1
         /\ LengthBytes(size)[1] = 128 + size /\ Octets(size) = 1
<1>1. LengthBytes(size) = <<128 + size>> /\ Octets(size) = 1
  BY SMT DEF LengthBytes, Octets, Short, Long
<1>2. 128 + size \in Bytes
  BY SMT DEF Bytes, Short
<1> QED  BY <1>1, <1>2, OneByte, Zenon

LEMMA MediumLength ==
  ASSUME NEW size \in Nat, ~Short(size), ~Long(size)
  PROVE  /\ LengthBytes(size) \in Seq(Bytes) /\ Len(LengthBytes(size)) = 3
         /\ LengthBytes(size)[1] = 254 /\ Octets(size) = 3
         /\ LengthBytes(size)[2] = ByteOf(size, 1) /\ LengthBytes(size)[3] = ByteOf(size, 0)
<1>1. LengthBytes(size) = <<254>> \o BigEndian(size, 2) /\ Octets(size) = 3
  BY SMT DEF LengthBytes, Octets, Short, Long
<1> DEFINE s == <<254>>  t == BigEndian(size, 2)  u == s \o t
<1>2. s \in Seq(Bytes) /\ Len(s) = 1 /\ s[1] = 254
  BY SMT DEF Bytes
<1>3. t \in Seq(Bytes) /\ Len(t) = 2 /\ t[1] = ByteOf(size, 1) /\ t[2] = ByteOf(size, 0)
  BY BigEndianTwo, size \in Int, Zenon
<1> HIDE DEF s, t
<1>4. /\ u \in Seq(Bytes) /\ Len(u) = Len(s) + Len(t)
      /\ (\A i \in 1..Len(s) : u[i] = s[i]) /\ \A i \in 1..Len(t) : u[Len(s) + i] = t[i]
  <2>1. s \in Seq(Bytes) /\ t \in Seq(Bytes)
    BY <1>2, <1>3, Zenon
  <2> QED  BY <2>1, Joined
<1> HIDE DEF u
<1>5. Len(u) = 3 /\ u[1] = s[1] /\ u[2] = t[1] /\ u[3] = t[2]
  BY <1>2, <1>3, <1>4, SMT
<1> QED  BY <1>1, <1>2, <1>3, <1>4, <1>5 DEF u, s, t

LEMMA LongLength ==
  ASSUME NEW size \in Nat, Long(size)
  PROVE  /\ LengthBytes(size) \in Seq(Bytes) /\ Len(LengthBytes(size)) = 9
         /\ LengthBytes(size)[1] = 255 /\ Octets(size) = 9
         /\ LengthBytes(size)[2] = 0 /\ LengthBytes(size)[3] = 0
         /\ LengthBytes(size)[4] = 0 /\ LengthBytes(size)[5] = 0
         /\ LengthBytes(size)[6] = ByteOf(size, 3) /\ LengthBytes(size)[7] = ByteOf(size, 2)
         /\ LengthBytes(size)[8] = ByteOf(size, 1) /\ LengthBytes(size)[9] = ByteOf(size, 0)
<1>1. LengthBytes(size) = <<255>> \o BigEndian(size, 8) /\ Octets(size) = 9
  BY SMT DEF LengthBytes, Octets, Short, Long
<1> DEFINE s == <<255>>  t == BigEndian(size, 8)  u == s \o t
<1>2. s \in Seq(Bytes) /\ Len(s) = 1 /\ s[1] = 255
  BY SMT DEF Bytes
<1>3. /\ t \in Seq(Bytes) /\ Len(t) = 8 /\ \A i \in 1..4 : t[i] = 0
  BY BigEndianEight, size \in Int, Zenon
<1>4. /\ t[5] = ByteOf(size, 3) /\ t[6] = ByteOf(size, 2)
      /\ t[7] = ByteOf(size, 1) /\ t[8] = ByteOf(size, 0)
  BY BigEndianEight, size \in Int, Zenon
<1> HIDE DEF s, t
<1>5. /\ u \in Seq(Bytes) /\ Len(u) = Len(s) + Len(t)
      /\ (\A i \in 1..Len(s) : u[i] = s[i]) /\ \A i \in 1..Len(t) : u[Len(s) + i] = t[i]
  <2>1. s \in Seq(Bytes) /\ t \in Seq(Bytes)
    BY <1>2, <1>3, Zenon
  <2> QED  BY <2>1, Joined
<1> HIDE DEF u
<1>6. Len(u) = 9 /\ u[1] = s[1] /\ u[6] = t[5] /\ u[7] = t[6] /\ u[8] = t[7] /\ u[9] = t[8]
  BY <1>2, <1>3, <1>5, SMT
<1>7. u[2] = 0 /\ u[3] = 0 /\ u[4] = 0 /\ u[5] = 0
  BY <1>2, <1>3, <1>5, SMT
<1> QED  BY <1>1, <1>2, <1>4, <1>5, <1>6, <1>7 DEF u, s, t

LEMMA LengthBytesAre ==
  ASSUME NEW size \in Nat
  PROVE  /\ LengthBytes(size) \in Seq(Bytes) /\ Len(LengthBytes(size)) = Octets(size)
         /\ Octets(size) \in {1, 3, 9}
<1>1. CASE Short(size)
  BY <1>1, ShortLength, Zenon
<1>2. CASE ~Short(size) /\ ~Long(size)
  BY <1>2, MediumLength, Zenon
<1>3. CASE Long(size)
  BY <1>3, LongLength, ZenonT(30)
<1> QED  BY <1>1, <1>2, <1>3, Zenon

LEMMA CodeIs ==
  ASSUME NEW opcode \in Opcodes
  PROVE  /\ Code(opcode) \in {1, 2, 8, 9, 10}
         /\ Code(opcode) = 1 => opcode = "TEXT"
         /\ Code(opcode) = 2 => opcode = "BINARY"
         /\ Code(opcode) = 8 => opcode = "CLOSING"
         /\ Code(opcode) = 9 => opcode = "PING"
         /\ Code(opcode) = 10 => opcode = "PONG"
<1>1. opcode \in {"TEXT", "BINARY", "CLOSING", "PING", "PONG"}
  BY WriterAssumption, Zenon
<1> QED  BY <1>1, SMT DEF Code

(* What encode puts before the payload. *)
LEMMA HeaderIs ==
  ASSUME NEW m, IsMessage(m), maskKey \in MaskKeys,
         NEW o, o = Octets(SizeOf(m.payload)),
         NEW l, l = LengthBytes(SizeOf(m.payload))
  PROVE  /\ Header(m) \in Seq(Bytes) /\ o \in {1, 3, 9} /\ Len(Header(m)) = o + 5
         /\ Header(m)[1] = 128 + Code(m.opcode)
         /\ \A i \in 1..o : Header(m)[1 + i] = l[i]
         /\ \A i \in 1..4 : Header(m)[1 + o + i] = BigEndian(maskKey, 4)[i]
<1> DEFINE s == <<128 + Code(m.opcode)>>  k == BigEndian(maskKey, 4)  sl == s \o l  h == sl \o k
<1>1. Header(m) = h
  BY Zenon DEF Header
<1>2. l \in Seq(Bytes) /\ Len(l) = o /\ o \in {1, 3, 9}
  <2>1. SizeOf(m.payload) \in Nat
    BY PayloadFacts, Zenon DEF IsMessage
  <2> QED  BY <2>1, LengthBytesAre, Zenon
<1>3. k \in Seq(Bytes) /\ Len(k) = 4
  <2>1. maskKey \in Int
    BY WriterAssumption, Zenon
  <2> QED  BY <2>1, BigEndianFour, Zenon
<1>4. s \in Seq(Bytes) /\ Len(s) = 1 /\ s[1] = 128 + Code(m.opcode)
  <2>1. Code(m.opcode) \in {1, 2, 8, 9, 10}
    BY CodeIs, Zenon DEF IsMessage
  <2>2. 128 + Code(m.opcode) \in Bytes
    BY <2>1, SMT DEF Bytes
  <2> QED  BY <2>2, OneByte, Zenon
<1> HIDE DEF s, k
<1>5. /\ sl \in Seq(Bytes) /\ Len(sl) = Len(s) + Len(l)
      /\ (\A i \in 1..Len(s) : sl[i] = s[i]) /\ \A i \in 1..Len(l) : sl[Len(s) + i] = l[i]
  <2>1. s \in Seq(Bytes) /\ l \in Seq(Bytes)
    BY <1>2, <1>4, Zenon
  <2> QED  BY <2>1, Joined
<1> HIDE DEF sl
<1>6. /\ h \in Seq(Bytes) /\ Len(h) = Len(sl) + Len(k)
      /\ (\A i \in 1..Len(sl) : h[i] = sl[i]) /\ \A i \in 1..Len(k) : h[Len(sl) + i] = k[i]
  <2>1. sl \in Seq(Bytes) /\ k \in Seq(Bytes)
    BY <1>3, <1>5, Zenon
  <2> QED  BY <2>1, Joined
<1> HIDE DEF h
<1>7. o \in Nat /\ Len(sl) = 1 + o /\ Len(h) = o + 5
  BY <1>2, <1>3, <1>4, <1>5, <1>6, SMT
<1>8. h[1] = s[1]
  BY <1>4, <1>5, <1>6, <1>7, SMT
<1>9. ASSUME NEW i \in 1..o PROVE h[1 + i] = l[i]
  <2>1. 1 + i \in 1..Len(sl) /\ i \in 1..Len(l) /\ Len(s) + i = 1 + i
    BY <1>2, <1>4, <1>7, SMT
  <2>2. h[1 + i] = sl[1 + i]
    BY <1>6, <2>1, Zenon
  <2>3. sl[Len(s) + i] = l[i]
    BY <1>5, <2>1, Zenon
  <2> QED  BY <2>1, <2>2, <2>3, Zenon
<1>10. ASSUME NEW i \in 1..4 PROVE h[1 + o + i] = k[i]
  <2>1. i \in 1..Len(k) /\ Len(sl) + i = 1 + o + i
    BY <1>3, <1>7, SMT
  <2> QED  BY <1>6, <2>1, Zenon
<1>11. h \in Seq(Bytes) /\ o \in {1, 3, 9} /\ Len(h) = o + 5 /\ h[1] = 128 + Code(m.opcode)
  BY <1>2, <1>4, <1>6, <1>7, <1>8, Zenon
<1> QED  BY <1>1, <1>9, <1>10, <1>11, Zenon DEF k
-----------------------------------------------------------------------------
(* The decoder, on a frame that begins with the first bytes of an encoding. *)

(* Of the n bytes of m's encoding that are there, f shows those a header    *)
(* may have.                                                                *)
ShowsHeader(f, m, n) == \A j \in 0..13 : j < n => ByteAt(f, j) = EncodedByte(m, j)

LEMMA HeaderBytes ==
  ASSUME NEW m, IsMessage(m), maskKey \in MaskKeys, NEW f, NEW n \in Nat, ShowsHeader(f, m, n)
  PROVE  \A j \in Nat : j < n /\ j < Len(Header(m)) => ByteAt(f, j) = Header(m)[j + 1]
<1>1. Len(Header(m)) <= 14 /\ Len(Header(m)) \in Nat
  <2>1. Octets(SizeOf(m.payload)) \in {1, 3, 9} /\ Len(Header(m)) = Octets(SizeOf(m.payload)) + 5
    BY HeaderIs, Zenon
  <2> QED  BY <2>1, SMT
<1>2. SUFFICES ASSUME NEW j \in Nat, j < n, j < Len(Header(m))
               PROVE  ByteAt(f, j) = Header(m)[j + 1]
  BY Zenon
<1>3. j \in 0..13
  BY <1>1, <1>2, SMT
<1>4. ByteAt(f, j) = EncodedByte(m, j)
  BY <1>2, <1>3, Zenon DEF ShowsHeader
<1>5. EncodedByte(m, j) = Header(m)[j + 1]
  BY <1>2, Zenon DEF EncodedByte
<1> QED  BY <1>4, <1>5, Zenon

(* Two bytes tell where the header ends. *)
LEMMA DecodesStart ==
  ASSUME NEW m, IsMessage(m), maskKey \in MaskKeys,
         NEW f, NEW n \in Nat, n > 1, ShowsHeader(f, m, n)
  PROVE  /\ Masked(f) /\ ~IsFragment(f) /\ GetOpcode(f) = m.opcode
         /\ PayloadLengthOctets(f) = Octets(SizeOf(m.payload))
         /\ HeaderLength(f) = Len(Header(m))
<1> DEFINE size == SizeOf(m.payload)
           o == Octets(size)
           l == LengthBytes(size)
<1>1. /\ o \in {1, 3, 9} /\ Len(Header(m)) = o + 5
      /\ Header(m)[1] = 128 + Code(m.opcode)
      /\ \A i \in 1..o : Header(m)[1 + i] = l[i]
  BY HeaderIs, SMT
<1>2. size \in Nat
  BY PayloadFacts, Zenon DEF IsMessage
<1> HIDE DEF size, o, l
<1>3. ByteAt(f, 0) = 128 + Code(m.opcode)
  <2>1. 0 < n /\ 0 < Len(Header(m)) /\ 0 + 1 = 1
    BY <1>1, SMT
  <2>2. ByteAt(f, 0) = Header(m)[0 + 1]
    BY <2>1, HeaderBytes, 0 \in Nat, Zenon
  <2> QED  BY <1>1, <2>1, <2>2, Zenon
<1>4. ByteAt(f, 1) = l[1]
  <2>1. 1 < n /\ 1 < Len(Header(m)) /\ 1 \in 1..o
    BY <1>1, SMT
  <2>2. ByteAt(f, 1) = Header(m)[1 + 1]
    BY <2>1, HeaderBytes, 1 \in Nat, Zenon
  <2> QED  BY <1>1, <2>1, <2>2, Zenon
<1>5. ~IsFragment(f) /\ GetOpcode(f) = m.opcode
  <2> DEFINE c == Code(m.opcode)
  <2>1. /\ c \in {1, 2, 8, 9, 10}
        /\ c = 1 => m.opcode = "TEXT"
        /\ c = 2 => m.opcode = "BINARY"
        /\ c = 8 => m.opcode = "CLOSING"
        /\ c = 9 => m.opcode = "PING"
        /\ c = 10 => m.opcode = "PONG"
    BY CodeIs, Zenon DEF IsMessage
  <2>2. ByteAt(f, 0) = 128 + c
    BY <1>3, Zenon
  <2> HIDE DEF c
  <2>3. ByteAt(f, 0) >= 128 /\ ByteAt(f, 0) % 16 = c
    BY <2>1, <2>2, SMT
  <2>4. ~IsFragment(f)
    BY <2>1, <2>2, SMT DEF IsFragment
  <2> QED  BY <2>1, <2>3, <2>4, SMT DEF GetOpcode
<1>6. Masked(f) /\ PayloadLengthOctets(f) = o
  <2>1. CASE Short(size)
    <3>1. ByteAt(f, 1) = 128 + size /\ o = 1
      BY <1>2, <1>4, <2>1, ShortLength, Zenon DEF o, l
    <3>2. ByteAt(f, 1) >= 128 /\ ByteAt(f, 1) % 128 = size /\ size # 126 /\ size # 127
      BY <1>2, <2>1, <3>1, SMT DEF Short
    <3> QED  BY <3>1, <3>2, SMT DEF Masked, PayloadLengthOctets
  <2>2. CASE ~Short(size) /\ ~Long(size)
    <3>1. ByteAt(f, 1) = 254 /\ o = 3
      BY <1>2, <1>4, <2>2, MediumLength, Zenon DEF o, l
    <3> QED  BY <3>1, SMT DEF Masked, PayloadLengthOctets
  <2>3. CASE Long(size)
    <3>1. ByteAt(f, 1) = 255 /\ o = 9
      BY <1>2, <1>4, <2>3, LongLength, ZenonT(30) DEF o, l
    <3> QED  BY <3>1, SMT DEF Masked, PayloadLengthOctets
  <2> QED  BY <2>1, <2>2, <2>3, Zenon
<1>7. HeaderLength(f) = Len(Header(m))
  BY <1>1, <1>6, SMT DEF HeaderLength, MaskOctets
<1> QED  BY <1>5, <1>6, <1>7, Zenon DEF o, size

(* The whole header tells the length and the mask key. *)
LEMMA DecodesHeader ==
  ASSUME NEW m, IsMessage(m), maskKey \in MaskKeys,
         NEW f, NEW n \in Nat, n >= Len(Header(m)), ShowsHeader(f, m, n)
  PROVE  /\ n > 1 /\ PayloadLength(f) = SizeOf(m.payload)
         /\ FrameLength(f) = EncodedLength(m) /\ MaskingKey(f) = maskKey
<1> DEFINE size == SizeOf(m.payload)
           o == Octets(size)
           l == LengthBytes(size)
           k == BigEndian(maskKey, 4)
<1>1. /\ o \in {1, 3, 9} /\ Len(Header(m)) = o + 5
      /\ \A i \in 1..o : Header(m)[1 + i] = l[i]
      /\ \A i \in 1..4 : Header(m)[1 + o + i] = k[i]
  BY HeaderIs, SMT
<1>2. size \in Nat /\ size + 14 <= MaxInt
  BY PayloadFacts, Zenon DEF IsMessage
<1>3. maskKey \in Int /\ -MaxInt - 1 <= maskKey /\ maskKey <= MaxInt
  BY WriterAssumption, Zenon
<1>4. /\ k[1] = ByteOf(maskKey, 3) /\ k[2] = ByteOf(maskKey, 2)
      /\ k[3] = ByteOf(maskKey, 1) /\ k[4] = ByteOf(maskKey, 0)
  BY <1>3, BigEndianFour, Zenon
<1> HIDE DEF size, o, l, k
<1>5. n > 1
  BY <1>1, SMT
<1>6. PayloadLengthOctets(f) = o /\ HeaderLength(f) = Len(Header(m))
  BY <1>5, DecodesStart, Zenon DEF o, size
<1>7. \A j \in 0..o + 4 : ByteAt(f, j) = Header(m)[j + 1]
  <2>1. TAKE j \in 0..o + 4
  <2>2. j \in Nat /\ j < n /\ j < Len(Header(m))
    BY <1>1, SMT
  <2> QED  BY <2>2, HeaderBytes, Zenon
<1>8. \A i \in 1..o : ByteAt(f, i) = l[i]
  <2>1. TAKE i \in 1..o
  <2>2. i \in 0..o + 4 /\ i + 1 = 1 + i
    BY <1>1, SMT
  <2> QED  BY <1>1, <1>7, <2>2, Zenon
<1>9. \A i \in 1..4 : ByteAt(f, o + i) = k[i]
  <2>1. TAKE i \in 1..4
  <2>2. o + i \in 0..o + 4 /\ (o + i) + 1 = 1 + o + i
    BY <1>1, SMT
  <2> QED  BY <1>1, <1>7, <2>2, Zenon
<1>10. MaskingKey(f) = maskKey
  <2>1. /\ ByteAt(f, o + 1) = k[1] /\ ByteAt(f, o + 2) = k[2]
        /\ ByteAt(f, o + 3) = k[3] /\ ByteAt(f, o + 4) = k[4]
    BY <1>9, SMT
  <2>2. o + 1 = 1 + o + 0 /\ o + 2 = 1 + o + 1 /\ o + 3 = 1 + o + 2 /\ o + 4 = 1 + o + 3
    BY <1>1, SMT
  <2>3. MaskingKey(f) = IntOf(ByteAt(f, 1 + o + 0), ByteAt(f, 1 + o + 1),
                              ByteAt(f, 1 + o + 2), ByteAt(f, 1 + o + 3))
    BY <1>6, SMT DEF MaskingKey, IntOf
  <2>4. MaskingKey(f) = IntOf(k[1], k[2], k[3], k[4])
    BY <2>1, <2>2, <2>3, Zenon
  <2> QED  BY <1>3, <1>4, <2>4, FourBytes, Zenon
<1>11. PayloadLength(f) = size
  <2>1. CASE Short(size)
    <3>1. l[1] = 128 + size /\ o = 1
      BY <1>2, <2>1, ShortLength, Zenon DEF o, l
    <3>2. ByteAt(f, 1) = 128 + size
      BY <1>8, <3>1, SMT
    <3>3. ByteAt(f, 1) % 128 = size /\ size # 126 /\ size # 127
      BY <1>2, <2>1, <3>2, SMT DEF Short
    <3> QED  BY <3>3, SMT DEF PayloadLength
  <2>2. CASE ~Short(size) /\ ~Long(size)
    <3>1. l[1] = 254 /\ o = 3 /\ l[2] = ByteOf(size, 1) /\ l[3] = ByteOf(size, 0)
      BY <1>2, <2>2, MediumLength, ZenonT(30) DEF o, l
    <3>2. ByteAt(f, 1) = 254 /\ ByteAt(f, 2) = ByteOf(size, 1) /\ ByteAt(f, 3) = ByteOf(size, 0)
      BY <1>8, <3>1, SMT
    <3>3. ByteAt(f, 1) % 128 = 126
      BY <3>2, SMT
    <3>4. PayloadLength(f) = ByteOf(size, 1) * 256 + ByteOf(size, 0)
      BY <3>2, <3>3, SMT DEF PayloadLength
    <3>5. size < 65536
      BY <1>2, <2>2, SMT DEF Long
    <3> QED  BY <1>2, <3>4, <3>5, TwoBytes, SMT
  <2>3. CASE Long(size)
    <3>1. /\ l[1] = 255 /\ o = 9 /\ l[6] = ByteOf(size, 3) /\ l[7] = ByteOf(size, 2)
          /\ l[8] = ByteOf(size, 1) /\ l[9] = ByteOf(size, 0)
      BY <1>2, <2>3, LongLength, SMT DEF o, l
    <3>2. /\ ByteAt(f, 1) = 255 /\ ByteAt(f, 6) = ByteOf(size, 3) /\ ByteAt(f, 7) = ByteOf(size, 2)
          /\ ByteAt(f, 8) = ByteOf(size, 1) /\ ByteAt(f, 9) = ByteOf(size, 0)
      BY <1>8, <3>1, SMT
    <3>3. ByteAt(f, 1) % 128 = 127
      BY <3>2, SMT
    <3>4. PayloadLength(f) = IntOf(ByteOf(size, 3), ByteOf(size, 2), ByteOf(size, 1),
                                   ByteOf(size, 0))
      BY <3>2, <3>3, SMT DEF PayloadLength, IntOf
    <3>5. size \in Int /\ -MaxInt - 1 <= size /\ size <= MaxInt
      BY <1>2, MaxIntIs, SMT
    <3> QED  BY <3>4, <3>5, FourBytes, Zenon
  <2> QED  BY <2>1, <2>2, <2>3, Zenon
<1>12. FrameLength(f) = EncodedLength(m)
  <2>1. FrameLength(f) = Plus32(size, Len(Header(m))) /\ EncodedLength(m) = Len(Header(m)) + size
    BY <1>6, <1>11, Zenon DEF FrameLength, EncodedLength, size
  <2>2. MaxInt \in Int
    BY MaxIntIs, SMT
  <2> QED  BY <1>1, <1>2, <2>1, <2>2, SMT DEF Plus32
<1> QED  BY <1>5, <1>10, <1>11, <1>12, Zenon DEF size
-----------------------------------------------------------------------------
(* The buffer. *)

Encodings == [opcode : Opcodes, payload : Payloads, start : Nat, put : Nat]

End(e) == e.start + e.put

(* The encodings follow each other from the start of the buffer up to the   *)
(* position, which is within the capacity; none has more bytes than its     *)
(* message.  (That a later one starts behind every earlier one is stated,   *)
(* as it would take an induction over the list to derive it.)               *)
Layout ==
  /\ maskKey \in MaskKeys /\ position \in 0..Cap
  /\ output \in Seq(Encodings)
  /\ \A k \in 1..Len(output) : /\ End(output[k]) <= position
                               /\ output[k].put <= EncodedLength(output[k])
  /\ \A k \in 1..Len(output) - 1 : output[k + 1].start = End(output[k])
  /\ \A j, k \in 1..Len(output) : j < k => End(output[j]) <= output[k].start
  /\ Len(output) > 0 => End(output[Len(output)]) = position

LEMMA LengthIs ==
  ASSUME NEW m, IsMessage(m), maskKey \in MaskKeys
  PROVE  /\ Len(Header(m)) \in Nat /\ 6 <= Len(Header(m)) /\ SizeOf(m.payload) \in Nat
         /\ EncodedLength(m) = Len(Header(m)) + SizeOf(m.payload) /\ EncodedLength(m) \in Nat
<1>1. Octets(SizeOf(m.payload)) \in {1, 3, 9} /\ Len(Header(m)) = Octets(SizeOf(m.payload)) + 5
  BY HeaderIs, Zenon
<1>2. Len(Header(m)) \in Nat /\ 6 <= Len(Header(m))
  BY <1>1, SMT
<1>3. SizeOf(m.payload) \in Nat
  BY PayloadFacts, Zenon DEF IsMessage
<1>4. EncodedLength(m) = Len(Header(m)) + SizeOf(m.payload)
  BY Zenon DEF EncodedLength
<1>5. EncodedLength(m) \in Nat
  BY <1>2, <1>3, <1>4, SMT
<1> QED  BY <1>2, <1>3, <1>4, <1>5, Zenon

(* encode never passes the limit of the buffer. *)
LEMMA PutFits ==
  ASSUME NEW m, IsMessage(m), maskKey \in MaskKeys, NEW room \in Nat
  PROVE  Put(m, room) \in Nat /\ Put(m, room) <= room /\ Put(m, room) <= EncodedLength(m)
<1> DEFINE h == Len(Header(m))  n == EncodedLength(m)
<1>1. h \in Nat /\ 6 <= h /\ n \in Nat /\ h <= n
  <2>1. /\ h \in Nat /\ 6 <= h /\ SizeOf(m.payload) \in Nat
        /\ n = h + SizeOf(m.payload) /\ n \in Nat
    BY LengthIs, Zenon
  <2> HIDE DEF h, n
  <2> QED  BY <2>1, SMT
<1>2. Put(m, room) = IF room >= n THEN n
                     ELSE IF room >= h - 4 /\ room < (h - 4) + 4 THEN h - 4 ELSE room
  BY Zenon DEF Put
<1> HIDE DEF h, n
<1>3. Put(m, room) \in Nat /\ Put(m, room) <= room /\ Put(m, room) <= n
  BY <1>1, <1>2, SMT
<1> QED  BY <1>3, Zenon DEF n

LEMMA EncodingFits ==
  ASSUME NEW opcode \in Opcodes, NEW payload \in Payloads, NEW start \in 0..Cap,
         maskKey \in MaskKeys, NEW e, e = Encoding(opcode, payload, start)
  PROVE  /\ e \in Encodings /\ e.start = start
         /\ e.put <= EncodedLength(e) /\ End(e) <= Cap
<1> DEFINE m == [opcode |-> opcode, payload |-> payload]
           p == Put(m, Cap - start)
<1>1. e = [opcode |-> opcode, payload |-> payload, start |-> start, put |-> p]
  BY Zenon DEF Encoding
<1>2. IsMessage(m)
  BY SMT DEF IsMessage
<1>3. Cap \in Nat /\ start \in Nat /\ Cap - start \in Nat
  BY CapIs, SMT
<1>4. p \in Nat /\ p <= Cap - start /\ p <= EncodedLength(m)
  BY <1>2, <1>3, PutFits, Zenon
<1>5. EncodedLength(e) = EncodedLength(m)
  <2>1. e.opcode = m.opcode /\ e.payload = m.payload
    BY <1>1, SMT
  <2> HIDE DEF m
  <2> QED  BY <2>1, Zenon DEF EncodedLength, Header
<1> HIDE DEF p
<1>6. e \in Encodings /\ e.start = start /\ e.put = p
  BY <1>1, <1>3, <1>4, SMT DEF Encodings
<1>7. End(e) <= Cap
  BY <1>3, <1>4, <1>6, SMT DEF End
<1> QED  BY <1>4, <1>5, <1>6, <1>7, Zenon

LEMMA InitLayout == Init => Layout
<1> SUFFICES ASSUME Init PROVE Layout
  OBVIOUS
<1>1. maskKey \in MaskKeys /\ output = <<>> /\ position = 0
  BY DEF Init
<1>2. position \in 0..Cap
  BY <1>1, CapIs, SMT
<1>3. output \in Seq(Encodings) /\ Len(output) = 0
  BY <1>1, SMT
<1>4. \A k \in 1..Len(output) : FALSE
  BY <1>3, SMT
<1>5. \A k \in 1..Len(output) - 1 : FALSE
  BY <1>3, SMT
<1>6. ~(Len(output) > 0)
  BY <1>3, SMT
<1> QED  BY <1>1, <1>2, <1>3, <1>4, <1>5, <1>6, Zenon DEF Layout

(* wrapMessage and its kin: the new encoding starts where the last ended. *)
LEMMA WrapLayout ==
  ASSUME Layout, NEW opcode \in Opcodes, NEW payload \in Payloads, Wrap(opcode, payload)
  PROVE  Layout'
<1> DEFINE e == Encoding(opcode, payload, position)
           n == Len(output)
<1>1. output' = Append(output, e) /\ position' = position + e.put /\ maskKey' = maskKey
  BY DEF Wrap
<1>2. maskKey \in MaskKeys /\ position \in 0..Cap /\ output \in Seq(Encodings)
  BY DEF Layout
<1>3. e \in Encodings /\ e.start = position /\ e.put <= EncodedLength(e) /\ End(e) <= Cap
  BY <1>2, EncodingFits, Zenon
<1>4. /\ n \in Nat /\ output' \in Seq(Encodings) /\ Len(output') = n + 1
      /\ output'[n + 1] = e /\ \A k \in 1..n : output'[k] = output[k]
  <2> HIDE DEF e
  <2> QED  BY <1>1, <1>2, <1>3, AppendProperties, LenProperties, SMT
<1>5. \A k \in 1..Len(output') : EncodedLength(output[k])' = EncodedLength(output'[k])
  BY <1>1, Zenon DEF EncodedLength, Header
<1> HIDE DEF e, n
<1>6. e.put \in Nat /\ End(e) = position'
  BY <1>1, <1>3, SMT DEF Encodings, End
<1>7. position \in Nat /\ position <= position' /\ position' \in 0..Cap
  BY <1>1, <1>2, <1>3, <1>6, CapIs, SMT
<1>8. \A k \in 1..n : /\ output[k] \in Encodings /\ End(output[k]) \in Nat
                      /\ End(output[k]) <= position /\ output[k].put <= EncodedLength(output[k])
  <2>1. \A k \in 1..n : output[k] \in Encodings
    BY <1>2, LenProperties, SMT DEF n
  <2>2. \A d \in Encodings : End(d) \in Nat
    BY SMT DEF Encodings, End
  <2> QED  BY <2>1, <2>2, Zenon DEF Layout, n
<1>9. \A k \in 1..Len(output') : k \in 1..n \/ k = n + 1
  BY <1>4, SMT
<1>10. ASSUME NEW k \in 1..Len(output')
       PROVE  /\ End(output'[k]) <= position' /\ output'[k].put <= EncodedLength(output'[k])
  <2>1. CASE k \in 1..n
    <3>1. End(output[k]) \in Nat /\ End(output[k]) <= position
      BY <1>8, <2>1, Zenon
    <3>2. End(output[k]) <= position'
      BY <1>7, <3>1, SMT
    <3> QED  BY <1>4, <1>8, <2>1, <3>2, Zenon
  <2>2. CASE k = n + 1
    <3>1. End(e) <= position'
      BY <1>6, <1>7, SMT
    <3> QED  BY <1>3, <1>4, <2>2, <3>1, Zenon
  <2> QED  BY <1>9, <2>1, <2>2, Zenon
<1>11. ASSUME NEW k \in 1..Len(output') - 1 PROVE output'[k + 1].start = End(output'[k])
  <2>1. k \in 1..n /\ (k \in 1..n - 1 \/ k = n)
    BY <1>4, SMT
  <2>2. output'[k] = output[k]
    BY <1>4, <2>1, Zenon
  <2>3. CASE k \in 1..n - 1
    <3>1. k + 1 \in 1..n
      BY <1>4, <2>3, SMT
    <3> QED  BY <1>4, <2>2, <2>3, <3>1, Zenon DEF Layout, n
  <2>4. CASE k = n
    <3>1. n > 0
      BY <2>1, <2>4, SMT
    <3>2. End(output[n]) = position
      BY <3>1, Zenon DEF Layout, n
    <3> QED  BY <1>3, <1>4, <2>2, <2>4, <3>2, Zenon
  <2> QED  BY <2>1, <2>3, <2>4, Zenon
<1>12. ASSUME NEW j \in 1..Len(output'), NEW k \in 1..Len(output'), j < k
       PROVE  End(output'[j]) <= output'[k].start
  <2>1. j \in 1..n /\ (k \in 1..n \/ k = n + 1)
    BY <1>4, <1>12, SMT
  <2>2. output'[j] = output[j]
    BY <1>4, <2>1, Zenon
  <2>3. CASE k \in 1..n
    BY <1>4, <1>12, <2>1, <2>2, <2>3, Zenon DEF Layout, n
  <2>4. CASE k = n + 1
    BY <1>3, <1>4, <1>8, <2>1, <2>2, <2>4, Zenon
  <2> QED  BY <2>1, <2>3, <2>4, Zenon
<1>13. End(output'[Len(output')]) = position'
  BY <1>4, <1>6, Zenon
<1>14. maskKey' \in MaskKeys
  BY <1>1, <1>2, Zenon
<1> QED  BY <1>4, <1>5, <1>7, <1>10, <1>11, <1>12, <1>13, <1>14 DEF Layout

(* writeWebSocketMessage: clear(), then one encoding. *)
LEMMA WriteLayout ==
  ASSUME Layout, NEW opcode \in Opcodes, NEW payload \in Payloads, Write(opcode, payload)
  PROVE  Layout'
<1> DEFINE e == Encoding(opcode, payload, 0)
<1>1. output' = <<e>> /\ position' = e.put /\ maskKey' = maskKey
  BY DEF Write
<1>2. maskKey \in MaskKeys /\ 0 \in 0..Cap
  BY CapIs, SMT DEF Layout
<1>3. e \in Encodings /\ e.start = 0 /\ e.put <= EncodedLength(e) /\ End(e) <= Cap
  BY <1>2, EncodingFits, Zenon
<1> HIDE DEF e
<1>4. output' \in Seq(Encodings) /\ Len(output') = 1 /\ output'[1] = e
  BY <1>1, <1>3, SMT
<1>5. \A k \in 1..Len(output') : EncodedLength(output[k])' = EncodedLength(output'[k])
  BY <1>1, Zenon DEF EncodedLength, Header
<1>6. End(e) = position' /\ position' \in 0..Cap
  BY <1>1, <1>3, CapIs, SMT DEF Encodings, End
<1>7. End(e) <= position'
  BY <1>6, CapIs, SMT
<1>8. \A k \in 1..Len(output') : k = 1
  BY <1>4, SMT
<1>9. \A k \in 1..Len(output') - 1 : FALSE
  BY <1>4, SMT
<1>10. \A j, k \in 1..Len(output') : ~(j < k)
  BY <1>4, SMT
<1>11. \A k \in 1..Len(output') : /\ End(output'[k]) <= position'
                                  /\ output'[k].put <= EncodedLength(output'[k])
  BY <1>3, <1>4, <1>7, <1>8, Zenon
<1>12. End(output'[Len(output')]) = position'
  BY <1>4, <1>6, Zenon
<1>13. maskKey' \in MaskKeys
  BY <1>1, <1>2, Zenon
<1> QED  BY <1>4, <1>5, <1>6, <1>9, <1>10, <1>11, <1>12, <1>13 DEF Layout

LEMMA NextLayout == Layout /\ [Next]_vars => Layout'
<1> SUFFICES ASSUME Layout, [Next]_vars PROVE Layout'
  OBVIOUS
<1>1. ASSUME NEW opcode \in Opcodes, NEW payload \in Payloads, Wrap(opcode, payload)
      PROVE  Layout'
  BY <1>1, WrapLayout
<1>2. ASSUME NEW opcode \in Opcodes, NEW payload \in Payloads, Write(opcode, payload)
      PROVE  Layout'
  BY <1>2, WriteLayout
<1>3. CASE UNCHANGED vars
  BY <1>3 DEF vars, Layout, EncodedLength, Header
<1> QED  BY <1>1, <1>2, <1>3 DEF Next

(* Every byte of the buffer is found in its encoding. *)
LEMMA ByteIs ==
  ASSUME Layout, NEW k \in 1..Len(output), NEW j \in Nat, j < output[k].put
  PROVE  Byte(output[k].start + j) = EncodedByte(output[k], j)
<1> DEFINE i == output[k].start + j
           Holds(q) == output[q].start <= i /\ i < output[q].start + output[q].put
           c == CHOOSE q \in DOMAIN output : Holds(q)
<1>1. DOMAIN output = 1..Len(output) /\ Len(output) \in Nat
  BY LenProperties DEF Layout
<1>2. \A q \in 1..Len(output) : output[q].start \in Nat /\ output[q].put \in Nat
  <2>1. \A q \in 1..Len(output) : output[q] \in Encodings
    BY LenProperties, SMT DEF Layout
  <2>2. \A d \in Encodings : d.start \in Nat /\ d.put \in Nat
    BY SMT DEF Encodings
  <2> QED  BY <2>1, <2>2, Zenon
<1>3. output[k].start \in Nat /\ output[k].put \in Nat
  BY <1>2, Zenon
<1>4. i \in Nat /\ Holds(k) /\ i - output[k].start = j
  BY <1>3, SMT
<1>5. c \in 1..Len(output) /\ Holds(c)
  <2> HIDE DEF Holds
  <2> QED  BY <1>1, <1>4, Zenon
<1> HIDE DEF c
<1>6. output[c].start \in Nat /\ output[c].put \in Nat
  BY <1>2, <1>5, Zenon
<1>7. ~(c < k)
  <2>1. SUFFICES ASSUME c < k PROVE FALSE
    OBVIOUS
  <2>2. output[c].start + output[c].put <= output[k].start
    BY <1>5, <2>1 DEF Layout, End
  <2> QED  BY <1>3, <1>4, <1>5, <1>6, <2>2, SMTT(20)
<1>8. ~(k < c)
  <2>1. SUFFICES ASSUME k < c PROVE FALSE
    OBVIOUS
  <2>2. output[k].start + output[k].put <= output[c].start
    BY <1>5, <2>1 DEF Layout, End
  <2> QED  BY <1>3, <1>4, <1>5, <1>6, <2>2, SMTT(20)
<1>9. c = k
  <2>1. c \in Int /\ k \in Int
    BY <1>1, <1>5, SMT
  <2> QED  BY <1>7, <1>8, <2>1, SMT
<1>10. Byte(i) = EncodedByte(output[c], i - output[c].start)
  BY Zenon DEF Byte, c
<1> QED  BY <1>4, <1>9, <1>10, Zenon

(* What the peer sees of an encoding. *)
LEMMA PeerSees ==
  ASSUME Layout, NEW k \in 1..Len(output), NEW sample \in SUBSET Nat
  PROVE  /\ IsMessage(output[k]) /\ output[k].start \in Nat /\ output[k].put \in Nat
         /\ PeerFrame(k, sample).limit = position - output[k].start
         /\ position - output[k].start \in Nat /\ output[k].put <= position - output[k].start
         /\ ShowsHeader(PeerFrame(k, sample), output[k], output[k].put)
         /\ \A i \in sample : Len(Header(output[k])) + i < output[k].put =>
              ByteAt(PeerFrame(k, sample), Len(Header(output[k])) + i)
                = EncodedByte(output[k], Len(Header(output[k])) + i)
<1> DEFINE f == PeerFrame(k, sample)
           m == output[k]
           h == Len(Header(m))
           near == 0..13 \cup {h + i : i \in sample}
<1>1. m \in Encodings /\ End(m) <= position /\ position \in Nat
  BY LenProperties, CapIs, SMT DEF Layout
<1>2. IsMessage(m) /\ m.start \in Nat /\ m.put \in Nat
  <2> HIDE DEF m
  <2> QED  BY <1>1, SMT DEF Encodings, IsMessage
<1>3. h \in Nat
  <2>1. maskKey \in MaskKeys
    BY DEF Layout
  <2> QED  BY <1>2, <2>1, LengthIs, Zenon
<1>4. /\ f.at = [i \in {m.start + j : j \in near} \cap 0..position - 1 |-> Byte(i)]
      /\ f.offset = m.start /\ f.limit = position - m.start
  BY SMT DEF PeerFrame
<1>5. position - m.start \in Nat /\ m.put <= position - m.start
  <2> HIDE DEF m
  <2> QED  BY <1>1, <1>2, SMT DEF End
<1>6. ASSUME NEW j \in Nat, j \in near, j < m.put PROVE ByteAt(f, j) = EncodedByte(m, j)
  <2>1. m.start + j \in 0..position - 1
    <3> HIDE DEF m
    <3> QED  BY <1>1, <1>2, <1>6, SMT DEF End
  <2>2. m.start + j \in {m.start + jj : jj \in near} \cap 0..position - 1
    <3> HIDE DEF m, near
    <3> QED  BY <1>6, <2>1, Zenon
  <2>3. f.at[m.start + j] = Byte(m.start + j)
    <3> HIDE DEF m, near, f
    <3> QED  BY <1>4, <2>2, Zenon
  <2>4. Byte(m.start + j) = EncodedByte(m, j)
    BY <1>6, ByteIs, Zenon
  <2> HIDE DEF m, f
  <2> QED  BY <1>4, <2>3, <2>4, Zenon DEF ByteAt
<1>7. ShowsHeader(f, m, m.put)
  <2>1. \A j \in 0..13 : j \in Nat
    BY SMT
  <2> HIDE DEF f, m
  <2> QED  BY <1>6, <2>1, Zenon DEF ShowsHeader
<1>8. ASSUME NEW i \in sample, h + i < m.put PROVE ByteAt(f, h + i) = EncodedByte(m, h + i)
  <2>1. h + i \in Nat /\ h + i \in near
    <3> HIDE DEF h, m
    <3> QED  BY <1>3, SMT
  <2> HIDE DEF near, f, m, h
  <2> QED  BY <1>6, <1>8, <2>1, Zenon
<1> QED  BY <1>2, <1>4, <1>5, <1>7, <1>8, Zenon
-----------------------------------------------------------------------------
(* What the peer decodes. *)

(* copyPayloadData applies to each byte the byte of the key that encode     *)
(* applied.                                                                 *)
LEMMA KeyByte ==
  ASSUME NEW n \in Int, NEW i \in Nat
  PROVE  /\ BigEndian(n, 4)[(i % 4) + 1] = ByteOf(n, 3 - (i % 4))
         /\ ByteOf(n, 3 - (i % 4)) \in Bytes
<1>1. \/ (i % 4) + 1 = 1 /\ 3 - (i % 4) = 3
      \/ (i % 4) + 1 = 2 /\ 3 - (i % 4) = 2
      \/ (i % 4) + 1 = 3 /\ 3 - (i % 4) = 1
      \/ (i % 4) + 1 = 4 /\ 3 - (i % 4) = 0
  BY SMT
<1>2. /\ BigEndian(n, 4)[1] = ByteOf(n, 3) /\ BigEndian(n, 4)[2] = ByteOf(n, 2)
      /\ BigEndian(n, 4)[3] = ByteOf(n, 1) /\ BigEndian(n, 4)[4] = ByteOf(n, 0)
  BY BigEndianFour, Zenon
<1>3. /\ ByteOf(n, 0) \in Bytes /\ ByteOf(n, 1) \in Bytes
      /\ ByteOf(n, 2) \in Bytes /\ ByteOf(n, 3) \in Bytes
  BY ByteOfType, Zenon
<1> QED  BY <1>1, <1>2, <1>3, Zenon

(* The payload of a whole encoding comes back, byte for byte. *)
LEMMA DecodesPayload ==
  ASSUME NEW m, IsMessage(m), maskKey \in MaskKeys,
         NEW f, NEW n \in Nat, n >= Len(Header(m)), ShowsHeader(f, m, n),
         NEW i \in Nat, i < SizeOf(m.payload),
         ByteAt(f, Len(Header(m)) + i) = EncodedByte(m, Len(Header(m)) + i)
  PROVE  CopyPayloadByte(f, i) = PayloadByte(m.payload, i)
<1> DEFINE h == Len(Header(m))
           a == PayloadByte(m.payload, i)
           b == ByteOf(maskKey, 3 - (i % 4))
<1>1. h \in Nat /\ SizeOf(m.payload) \in Nat
  BY LengthIs, Zenon
<1>2. n > 1 /\ MaskingKey(f) = maskKey
  BY DecodesHeader, Zenon
<1>3. Masked(f) /\ HeaderLength(f) = h
  BY <1>2, DecodesStart, Zenon
<1>4. maskKey \in Int
  BY WriterAssumption, Zenon
<1>5. BigEndian(maskKey, 4)[(i % 4) + 1] = b /\ b \in Bytes
  BY <1>4, KeyByte, Zenon
<1>6. a \in 0..255
  <2>1. i \in 0..SizeOf(m.payload) - 1
    BY <1>1, SMT
  <2> QED  BY <2>1, PayloadFacts, Zenon DEF IsMessage
<1>7. ~(h + i < h) /\ (h + i) - h = i
  <2> HIDE DEF h
  <2> QED  BY <1>1, SMT
<1>8. EncodedByte(m, h + i) = XorByte(a, b)
  BY <1>5, <1>7, Zenon DEF EncodedByte, MaskedByte
<1>9. CopyPayloadByte(f, i) = XorByte(XorByte(a, b), b)
  BY <1>2, <1>3, <1>8, Zenon DEF CopyPayloadByte
<1> QED  BY <1>5, <1>6, <1>9, XorTwice, Zenon DEF Bytes

(* A whole encoding decodes to its message, from whatever part of the       *)
(* payload is looked at.                                                    *)
LEMMA WholeDecodes ==
  ASSUME Layout, NEW k \in 1..Len(output), Whole(k),
         NEW sample \in SUBSET (0..SizeOf(output[k].payload) - 1)
  PROVE  Decodes(k, sample)
<1> DEFINE f == PeerFrame(k, sample)
           m == output[k]
           h == Len(Header(m))
           size == SizeOf(m.payload)
<1>1. maskKey \in MaskKeys
  BY DEF Layout
<1>2. sample \in SUBSET Nat
  BY SMT
<1>3. /\ IsMessage(m) /\ m.start \in Nat /\ m.put \in Nat /\ f.limit = position - m.start
      /\ position - m.start \in Nat /\ m.put <= position - m.start
      /\ ShowsHeader(f, m, m.put)
      /\ \A i \in sample : h + i < m.put => ByteAt(f, h + i) = EncodedByte(m, h + i)
  BY <1>2, PeerSees, Zenon
<1>4. h \in Nat /\ 6 <= h /\ size \in Nat /\ EncodedLength(m) = h + size
  BY <1>1, <1>3, LengthIs, Zenon
<1>5. m.put = EncodedLength(m)
  BY DEF Whole
<1>6. m.put >= h
  <2> HIDE DEF m, h, size
  <2> QED  BY <1>4, <1>5, SMT
<1>7. m.put > 1 /\ PayloadLength(f) = size /\ FrameLength(f) = m.put
  BY <1>1, <1>3, <1>5, <1>6, DecodesHeader, Zenon
<1>8. /\ Masked(f) /\ ~IsFragment(f) /\ GetOpcode(f) = m.opcode
      /\ PayloadLengthOctets(f) = Octets(size) /\ HeaderLength(f) = h
  BY <1>1, <1>3, <1>7, DecodesStart, Zenon
<1>9. ~IsIncomplete(f)
  <2>1. Octets(size) \in {1, 3, 9} /\ h = Octets(size) + 5
    BY <1>1, <1>3, HeaderIs, Zenon
  <2> HIDE DEF f, m, h, size
  <2>2. f.limit > 1 /\ f.limit >= 1 + Octets(size) /\ f.limit >= h /\ ~(f.limit < m.put)
    <3>1. f.limit \in Nat /\ m.put <= f.limit
      BY <1>3, Zenon
    <3> QED  BY <1>3, <1>4, <1>6, <1>7, <2>1, <3>1, SMTT(20)
  <2> QED  BY <1>7, <1>8, <2>2, Zenon DEF IsIncomplete, HasCompleteHeader
<1>10. k < Len(output) => FrameLength(f) = output[k+1].start - m.start
  <2>1. SUFFICES ASSUME k < Len(output) PROVE FrameLength(f) = output[k+1].start - m.start
    OBVIOUS
  <2>2. k \in 1..Len(output) - 1
    BY <2>1, LenProperties, SMT DEF Layout
  <2>3. output[k+1].start = End(m)
    BY <2>2, Zenon DEF Layout
  <2>4. (m.start + m.put) - m.start = m.put
    <3> HIDE DEF m
    <3> QED  BY <1>3, SMT
  <2> QED  BY <1>7, <2>3, <2>4, Zenon DEF End
<1>11. k = Len(output) => FrameLength(f) = f.limit
  <2>1. SUFFICES ASSUME k = Len(output) PROVE FrameLength(f) = f.limit
    OBVIOUS
  <2>2. Len(output) > 0
    BY LenProperties, SMT DEF Layout
  <2>3. End(m) = position
    BY <2>1, <2>2, Zenon DEF Layout
  <2>4. (m.start + m.put) - m.start = m.put
    <3> HIDE DEF m
    <3> QED  BY <1>3, SMT
  <2> QED  BY <1>3, <1>7, <2>3, <2>4, Zenon DEF End
<1>12. ASSUME NEW i \in sample PROVE CopyPayloadByte(f, i) = PayloadByte(m.payload, i)
  <2>1. i \in Nat /\ i < size
    <3>1. i \in 0..size - 1
      OBVIOUS
    <3> HIDE DEF size
    <3> QED  BY <1>4, <3>1, SMT
  <2>2. h + i < m.put
    <3> HIDE DEF m, h, size
    <3> QED  BY <1>4, <1>5, <2>1, SMT
  <2>3. ByteAt(f, h + i) = EncodedByte(m, h + i)
    BY <1>3, <2>2, Zenon
  <2> QED  BY <1>1, <1>3, <1>6, <2>1, <2>3, DecodesPayload, Zenon
<1> QED  BY <1>7, <1>8, <1>9, <1>10, <1>11, <1>12, Zenon DEF Decodes

(* The part of an encoding that found room, at the end of the buffer, is    *)
(* incomplete: before the length is there, before the key is, or before the *)
(* payload is.                                                              *)
LEMMA TornIncomplete ==
  ASSUME Layout, NEW k \in 1..Len(output), ~Whole(k), k = Len(output)
  PROVE  IsIncomplete(PeerFrame(k, {}))
<1> DEFINE f == PeerFrame(k, {})
           m == output[k]
           h == Len(Header(m))
<1>1. maskKey \in MaskKeys
  BY DEF Layout
<1>2. /\ IsMessage(m) /\ m.start \in Nat /\ m.put \in Nat /\ f.limit = position - m.start
      /\ ShowsHeader(f, m, m.put)
  <2>1. {} \in SUBSET Nat
    OBVIOUS
  <2> QED  BY <2>1, PeerSees, Zenon
<1>3. h \in Nat /\ EncodedLength(m) \in Nat
  BY <1>1, <1>2, LengthIs, Zenon
<1>4. f.limit = m.put
  <2>1. Len(output) > 0
    BY LenProperties, SMT DEF Layout
  <2>2. End(m) = position
    BY <2>1, Zenon DEF Layout
  <2>3. (m.start + m.put) - m.start = m.put
    <3> HIDE DEF m
    <3> QED  BY <1>2, SMT
  <2> QED  BY <1>2, <2>2, <2>3, Zenon DEF End
<1>5. m.put < EncodedLength(m)
  <2>1. m.put <= EncodedLength(m) /\ m.put # EncodedLength(m)
    BY Zenon DEF Layout, Whole
  <2> HIDE DEF m
  <2> QED  BY <1>2, <1>3, <2>1, SMT
<1> SUFFICES IsIncomplete(f)
  OBVIOUS
<1>6. CASE ~(m.put > 1)
  <2> HIDE DEF f, m
  <2> QED  BY <1>4, <1>6, Zenon DEF IsIncomplete, HasCompleteHeader
<1>7. CASE m.put > 1 /\ ~(m.put >= h)
  <2>1. HeaderLength(f) = h
    BY <1>1, <1>2, <1>7, DecodesStart, Zenon
  <2> HIDE DEF f, m, h
  <2> QED  BY <1>4, <1>7, <2>1, Zenon DEF IsIncomplete, HasCompleteHeader
<1>8. CASE m.put >= h
  <2>1. FrameLength(f) = EncodedLength(m)
    BY <1>1, <1>2, <1>8, DecodesHeader, Zenon
  <2> HIDE DEF f, m
  <2> QED  BY <1>4, <1>5, <2>1, Zenon DEF IsIncomplete
<1> QED  BY <1>6, <1>7, <1>8, Zenon

(* encode by the standard: masked, and the length in as few bytes as        *)
(* possible.                                                                *)
LEMMA EncodingIsFrame ==
  ASSUME NEW m, IsMessage(m), maskKey \in MaskKeys,
         NEW bytes, NEW from \in Nat, NEW to, to = from + EncodedLength(m),
         \A i \in 1..Len(Header(m)) : bytes[from + i] = Header(m)[i]
  PROVE  /\ IsFrame(bytes, from, to) /\ bytes[from + 2] >= 128
         /\ Short(SizeOf(m.payload)) => HeaderSize(bytes[from + 2]) = 6
         /\ ~Long(SizeOf(m.payload)) => HeaderSize(bytes[from + 2]) <= 8
<1> DEFINE size == SizeOf(m.payload)
           o == Octets(size)
           l == LengthBytes(size)
           h == Len(Header(m))
           a(i) == bytes[from + i]
<1>1. o \in {1, 3, 9} /\ h = o + 5 /\ \A i \in 1..o : Header(m)[1 + i] = l[i]
  BY HeaderIs, SMT
<1>2. size \in Nat /\ size + 14 <= MaxInt
  BY PayloadFacts, Zenon DEF IsMessage
<1>3. MaxInt \in Int
  BY MaxIntIs, SMT
<1>4. EncodedLength(m) = h + size
  BY LengthIs, Zenon
<1> HIDE DEF size, o, l
<1>5. \A i \in 1..o : a(1 + i) = l[i]
  <2>1. TAKE i \in 1..o
  <2> HIDE DEF h
  <2>2. 1 + i \in 1..h
    BY <1>1, SMT
  <2>3. a(1 + i) = Header(m)[1 + i]
    BY <2>2, Zenon DEF h
  <2> QED  BY <1>1, <2>3, Zenon
<1>6. to - from = h + size
  <2> HIDE DEF h
  <2> QED  BY <1>1, <1>2, <1>4, SMT
<1> HIDE DEF h
<1> DEFINE n == to - from
           z == HeaderSize(a(2))
           F == /\ n \in 2..MaxInt /\ n >= z
                /\ a(2) % 128 = 126 => n = z + (a(3) * 256 + a(4))
                /\ a(2) % 128 = 127 =>
                     /\ a(3) = 0 /\ a(4) = 0 /\ a(5) = 0 /\ a(6) = 0 /\ a(7) < 128
                     /\ n = z + (((a(7) * 256 + a(8)) * 256 + a(9)) * 256 + a(10))
                /\ a(2) % 128 \notin {126, 127} => n = z + (a(2) % 128)
<1> SUFFICES F /\ a(2) >= 128
             /\ (Short(size) => HeaderSize(a(2)) = 6) /\ (~Long(size) => HeaderSize(a(2)) <= 8)
  BY Zenon DEF size, IsFrame
<1> HIDE DEF a
<1>7. CASE Short(size)
  <2>1. l[1] = 128 + size /\ o = 1
    BY <1>2, <1>7, ShortLength, Zenon DEF o, l
  <2>2. a(2) = 128 + size /\ h = 6
    BY <1>1, <1>5, <2>1, SMT
  <2>3. size <= 125
    BY <1>7 DEF Short
  <2>4. a(2) >= 128 /\ a(2) % 128 = size /\ size # 126 /\ size # 127
    BY <1>2, <2>2, <2>3, SMT
  <2>5. HeaderSize(a(2)) = 6
    BY <2>4, SMT DEF HeaderSize
  <2>6. F
    BY <1>2, <1>3, <1>6, <2>2, <2>4, <2>5, SMT
  <2> QED  BY <2>4, <2>5, <2>6, SMT
<1>8. CASE ~Short(size) /\ ~Long(size)
  <2>1. l[1] = 254 /\ o = 3 /\ l[2] = ByteOf(size, 1) /\ l[3] = ByteOf(size, 0)
    BY <1>2, <1>8, MediumLength, ZenonT(30) DEF o, l
  <2>2. /\ a(2) = 254 /\ a(3) = ByteOf(size, 1) /\ a(4) = ByteOf(size, 0) /\ h = 8
    BY <1>1, <1>5, <2>1, SMT
  <2>3. size < 65536
    BY <1>2, <1>8, SMT DEF Long
  <2>4. a(3) * 256 + a(4) = size
    BY <1>2, <2>2, <2>3, TwoBytes, SMT
  <2>5. a(2) >= 128 /\ a(2) % 128 = 126
    BY <2>2, SMT
  <2>6. HeaderSize(a(2)) = 8
    BY <2>5, SMT DEF HeaderSize
  <2>7. F
    BY <1>2, <1>3, <1>6, <2>2, <2>4, <2>5, <2>6, SMT
  <2> QED  BY <1>8, <2>5, <2>6, <2>7, SMT
<1>9. CASE Long(size)
  <2>1. /\ l[1] = 255 /\ o = 9 /\ l[2] = 0 /\ l[3] = 0 /\ l[4] = 0 /\ l[5] = 0
        /\ l[6] = ByteOf(size, 3) /\ l[7] = ByteOf(size, 2)
        /\ l[8] = ByteOf(size, 1) /\ l[9] = ByteOf(size, 0)
    BY <1>2, <1>9, LongLength, SMT DEF o, l
  <2>2. /\ a(2) = 255 /\ a(3) = 0 /\ a(4) = 0 /\ a(5) = 0 /\ a(6) = 0 /\ h = 14
        /\ a(7) = ByteOf(size, 3) /\ a(8) = ByteOf(size, 2)
        /\ a(9) = ByteOf(size, 1) /\ a(10) = ByteOf(size, 0)
    BY <1>1, <1>5, <2>1, SMT
  <2>3. ByteOf(size, 3) \in 0..127
    <3>1. size <= MaxInt
      BY <1>2, <1>3, SMT
    <3> QED  BY <1>2, <3>1, TopByte, Zenon
  <2>4. IntOf(a(7), a(8), a(9), a(10)) = size
    <3>1. size \in Int /\ -MaxInt - 1 <= size /\ size <= MaxInt
      BY <1>2, <1>3, MaxIntIs, SMT
    <3> QED  BY <2>2, <3>1, FourBytes, SMT
  <2>5. ((a(7) * 256 + a(8)) * 256 + a(9)) * 256 + a(10) = size /\ a(7) < 128
    <3>1. a(7) \in 0..127
      BY <2>2, <2>3, ZenonT(30)
    <3>2. \A b \in 0..127 : Signed(b) = b /\ b < 128
      BY SMT DEF Signed
    <3>3. Signed(a(7)) = a(7) /\ a(7) < 128
      BY <3>1, <3>2
    <3> QED  BY <2>4, <3>3 DEF IntOf
  <2>6. a(2) >= 128 /\ a(2) % 128 = 127
    BY <2>2, SMT
  <2>7. HeaderSize(a(2)) = 14
    BY <2>6, SMT DEF HeaderSize
  <2>8. F
    <3>1. n = 14 + size /\ n \in 2..MaxInt /\ n >= 14
      BY <1>2, <1>3, <1>6, <2>2, SMT
    <3>2. a(2) % 128 \in {126, 127} /\ a(2) % 128 # 126
      BY <2>6, SMT
    <3>3. n = 14 + (((a(7) * 256 + a(8)) * 256 + a(9)) * 256 + a(10))
      BY <2>5, <3>1
    <3> DEFINE c == a(2) % 128
               v == ((a(7) * 256 + a(8)) * 256 + a(9)) * 256 + a(10)
    <3>4. n = z + v /\ n >= z
      BY <2>7, <3>1, <3>3
    <3>5. a(3) = 0 /\ a(4) = 0 /\ a(5) = 0 /\ a(6) = 0 /\ a(7) < 128
      BY <2>2, <2>5
    <3> HIDE DEF n, v, c, z
    <3>6. c \in {126, 127} /\ c # 126
      BY <3>2 DEF c
    <3>7. (c = 126 => n = z + (a(3) * 256 + a(4))) /\ (c \notin {126, 127} => n = z + c)
      BY <3>6
    <3> QED  BY <3>1, <3>4, <3>5, <3>7 DEF c, v
  <2>9. ~Short(size)
    BY <1>2, <1>9, SMT DEF Short, Long
  <2> QED  BY <1>9, <2>6, <2>8, <2>9
<1> QED  BY <1>7, <1>8, <1>9, Zenon
-----------------------------------------------------------------------------
(* The theorems. *)

THEOREM WriterAlways == Spec => []Layout
<1>1. Init => Layout
  BY InitLayout
<1>2. Layout /\ [Next]_vars => Layout'
  BY NextLayout
<1> QED  BY <1>1, <1>2, PTL DEF Spec

LEMMA OutputDomain ==
  ASSUME Layout
  PROVE  DOMAIN output = 1..Len(output)
  BY LenProperties DEF Layout

(* DataFrame6455.encode: the position never passes the capacity, for any    *)
(* payload, capacity and sequence of wraps and writes.                      *)
THEOREM WriterTypes == Spec => []TypeOK
<1>1. Layout => TypeOK
  <2> SUFFICES ASSUME Layout PROVE TypeOK
    OBVIOUS
  <2>1. ASSUME NEW k \in DOMAIN output
        PROVE  output[k].put \in 0..EncodedLength(output[k])
    <3> DEFINE m == output[k]
    <3>1. k \in 1..Len(output)
      BY OutputDomain
    <3>2. IsMessage(m) /\ m.put \in Nat
      BY <3>1, PeerSees, {} \in SUBSET Nat, Zenon
    <3>3. EncodedLength(m) \in Nat
      BY <3>2, LengthIs, Zenon DEF Layout
    <3>4. m.put <= EncodedLength(m)
      BY <3>1, Zenon DEF Layout
    <3> HIDE DEF m
    <3>5. m.put \in 0..EncodedLength(m)
      BY <3>2, <3>3, <3>4, SMT
    <3> QED  BY <3>5, Zenon DEF m
  <2> QED  BY <2>1, Zenon DEF TypeOK, Layout
<1> QED  BY <1>1, WriterAlways, PTL

(* DataFrame6455.encode and the decoder: a message that found room decodes  *)
(* at its place to its opcode, its size and every byte of its payload, and  *)
(* its frame ends where the next one starts - for every payload, mask key   *)
(* and number of messages.  MessagesDecode looks at the ends of the payload *)
(* only.                                                                    *)
EveryByteDecodes ==
  \A k \in DOMAIN output : Whole(k) => Decodes(k, 0..SizeOf(output[k].payload) - 1)

(* copyPayloadData gives back every byte that encode was given. *)
THEOREM WriterEveryByte == Spec => []EveryByteDecodes
<1>1. Layout => EveryByteDecodes
  <2> SUFFICES ASSUME Layout, NEW k \in DOMAIN output, Whole(k)
               PROVE  Decodes(k, 0..SizeOf(output[k].payload) - 1)
    BY Zenon DEF EveryByteDecodes
  <2>1. k \in 1..Len(output)
    BY OutputDomain
  <2> QED  BY <2>1, WholeDecodes, Zenon
<1> QED  BY <1>1, WriterAlways, PTL

(* DataFrame6455.encode and the decoder, as the model checker looks at them: *)
(* behind whole encodings every message decodes at its place, with the       *)
(* bytes at both ends of its payload.                                        *)
THEOREM WriterDecodes == Spec => []MessagesDecode
<1>1. Layout => MessagesDecode
  <2> SUFFICES ASSUME Layout, NEW k \in DOMAIN output, \A j \in 1..k : Whole(j)
               PROVE  Decodes(k, Ends(SizeOf(output[k].payload)))
    BY Zenon DEF MessagesDecode
  <2>1. k \in 1..Len(output)
    BY OutputDomain
  <2>2. k \in 1..k
    BY <2>1, LenProperties, SMT DEF Layout
  <2>3. Ends(SizeOf(output[k].payload)) \in SUBSET (0..SizeOf(output[k].payload) - 1)
    BY Zenon DEF Ends
  <2> QED  BY <2>1, <2>2, <2>3, WholeDecodes, Zenon
<1> QED  BY <1>1, WriterAlways, PTL

(* DataFrame6455.encode into a buffer that is too small: wherever the room  *)
(* ended, the part that was put is never taken for a frame.                 *)
THEOREM WriterTorn == Spec => []TornIsIncomplete
<1>1. Layout => TornIsIncomplete
  <2> SUFFICES ASSUME Layout, NEW k \in DOMAIN output, ~Whole(k), k = Len(output)
               PROVE  IsIncomplete(PeerFrame(k, {}))
    BY Zenon DEF TornIsIncomplete
  <2>1. k \in 1..Len(output)
    BY OutputDomain
  <2> QED  BY <2>1, TornIncomplete, Zenon
<1> QED  BY <1>1, WriterAlways, PTL

(* DataFrame6455.encode: every message that found room is one masked frame  *)
(* as the standard has it, with the shortest length.                        *)
THEOREM WriterFrames == Spec => []EncodesFrames
<1>1. Layout => EncodesFrames
  <2> SUFFICES ASSUME Layout, NEW k \in DOMAIN output, Whole(k)
               PROVE  LET m      == output[k]
                          bytes  == [i \in (m.start + 1..m.start + 14) \cap 1..position
                                       |-> Byte(i - 1)]
                          second == bytes[m.start + 2]
                      IN  /\ IsFrame(bytes, m.start, m.start + m.put) /\ second >= 128
                          /\ SizeOf(m.payload) < 126 => HeaderSize(second) = 6
                          /\ SizeOf(m.payload) < 65536 => HeaderSize(second) <= 8
    BY DEF EncodesFrames
  <2> DEFINE m     == output[k]
             bytes == [i \in (m.start + 1..m.start + 14) \cap 1..position |-> Byte(i - 1)]
             h     == Len(Header(m))
             size  == SizeOf(m.payload)
  <2>1. k \in 1..Len(output) /\ maskKey \in MaskKeys
    BY OutputDomain DEF Layout
  <2>2. /\ IsMessage(m) /\ m.start \in Nat /\ m.put \in Nat
        /\ position - m.start \in Nat /\ m.put <= position - m.start
    BY <2>1, PeerSees, {} \in SUBSET Nat, Zenon
  <2>3. h \in Nat /\ h <= 14
    <3>1. Octets(size) \in {1, 3, 9} /\ h = Octets(size) + 5
      BY <2>1, <2>2, HeaderIs, Zenon
    <3> HIDE DEF h
    <3> QED  BY <3>1, SMT
  <2>4. size \in Nat /\ EncodedLength(m) = h + size /\ m.put = EncodedLength(m)
    BY <2>1, <2>2, LengthIs, Zenon DEF Whole
  <2>5. ASSUME NEW i \in 1..h PROVE bytes[m.start + i] = Header(m)[i]
    <3> DEFINE j == i - 1
    <3>1. /\ j \in Nat /\ j < m.put /\ j < h /\ j + 1 = i /\ (m.start + i) - 1 = m.start + j
          /\ m.start + i \in m.start + 1..m.start + 14 /\ m.start + i \in 1..position
      <4>1. position \in Int
        BY CapIs, SMT DEF Layout
      <4> HIDE DEF m, h, size
      <4> QED  BY <2>2, <2>3, <2>4, <4>1, SMT
    <3> HIDE DEF j
    <3>2. bytes[m.start + i] = Byte((m.start + i) - 1)
      <4> HIDE DEF m
      <4> QED  BY <3>1, Zenon
    <3>3. Byte(m.start + j) = EncodedByte(m, j)
      BY <2>1, <3>1, ByteIs, Zenon
    <3>4. EncodedByte(m, j) = Header(m)[j + 1]
      BY <3>1, Zenon DEF EncodedByte
    <3> QED  BY <3>1, <3>2, <3>3, <3>4, Zenon
  <2>6. m.start + m.put = m.start + EncodedLength(m)
    BY <2>4, Zenon
  <2> HIDE DEF bytes, m
  <2>7. /\ IsFrame(bytes, m.start, m.start + m.put) /\ bytes[m.start + 2] >= 128
        /\ Short(size) => HeaderSize(bytes[m.start + 2]) = 6
        /\ ~Long(size) => HeaderSize(bytes[m.start + 2]) <= 8
    BY <2>1, <2>2, <2>5, <2>6, EncodingIsFrame, Zenon
  <2>8. (size < 126 => Short(size)) /\ (size < 65536 => ~Long(size))
    BY <2>4, SMT DEF Short, Long
  <2> QED  BY <2>7, <2>8, SMT DEF m, bytes
<1> QED  BY <1>1, WriterAlways, PTL
=============================================================================
