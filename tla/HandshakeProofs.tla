--------------------------- MODULE HandshakeProofs --------------------------
(***************************************************************************)
(* The opening handshake, for every buffer size and every set of responses.*)
(*                                                                         *)
(* parseHandshake reads from the start of the buffer, and what is there    *)
(* depends on the reads before: a full buffer is taken for an empty one,   *)
(* and a read that fails with -1 leaves the buffer in put mode, so that    *)
(* the next one compacts cells that were never filled to the front.  The   *)
(* invariant is about the first token: it is only ever in the first cell,  *)
(* and while it is there nothing was overwritten or moved.                 *)
(***************************************************************************)
EXTENDS Handshake, BufferLemmas, SequenceTheorems

(* The cells of a buffer after r tokens: none holds a token not received,   *)
(* and only the first may hold the first.                                   *)
CellsInv(b, r) ==
  /\ b \in Buffers(ReadCap)
  /\ \A i \in 0..ReadCap-1 : b.data[i] <= r
  /\ \A i \in 1..ReadCap-1 : b.data[i] # 1

(* All r tokens received are in the cells, from the first one on. *)
HasAll(b, r) ==
  r <= ReadCap /\ \A i \in 0..ReadCap-1 : b.data[i] = IF i < r THEN i + 1 ELSE 0

(* And the buffer is in get mode, in put mode after a failed read, or full  *)
(* and taken for empty.                                                     *)
FromStart(b, r) ==
  /\ HasAll(b, r)
  /\ \/ b.pos = 0 /\ b.lim = r
     \/ b.pos = r /\ b.lim = ReadCap
     \/ b.pos = 0 /\ r = ReadCap /\ b.lim \in {0, ReadCap}

BufferInv(b, r) ==
  CellsInv(b, r) /\ (r = 0 \/ b.data[0] = 1 => FromStart(b, r))

(* A valid response that fits the buffer and is sent whole. *)
Fits == Valid(answer) /\ Len(Lines(answer)) <= Min2(ReadCap, sent)

Control ==
  /\ phase \in {"send", "accept", "done"} /\ link \in {"up", "eof"} /\ asked \in BOOLEAN
  /\ result \in {"none", "MATCHED", "INVALID_PROTOCOL", "INVALID_READ", "INVALID_WRITE"}
  /\ answer \in Responses /\ rcvd \in Nat /\ sent \in Nat
  /\ rcvd <= sent /\ sent <= Len(Tokens(answer))
  /\ phase # "done" => result = "none"
  /\ phase = "send" => ~asked
  /\ ~asked => rcvd = 0

(* Until the attempt ends, a response that fits is not there whole, and     *)
(* what is there is in get mode.                                            *)
InTime ==
  phase # "done" /\ Fits =>
    /\ rcvd < Len(Lines(answer))
    /\ rcvd > 0 => readBuffer.data[0] = 1 /\ readBuffer.pos = 0 /\ readBuffer.lim = rcvd

HandshakeInv ==
  /\ Control /\ readBuffer \in Buffers(ReadCap)
  /\ phase # "done" => BufferInv(readBuffer, rcvd)
  /\ InTime /\ MatchedIsReal /\ ValidNotRejected /\ FramesSurvive

-----------------------------------------------------------------------------
(* The response, token by token. *)

Symbols == {"P", "Q", "x", CR, LF, "frame"} \cup Wanted

IsResponse(r) ==
  /\ r.first \in [1..2 -> {"P", "Q", "x"}]
  /\ r.headers \in Seq(Wanted \cup {"x"}) /\ r.frames \in Nat

(* Where the tokens of a response r with n headers are. *)
IsLaidOut(s, r, n) ==
  /\ s[1] = r.first[1] /\ s[2] = r.first[2] /\ s[3] = CR /\ s[4] = LF
  /\ \A i \in 1..n : s[3*i + 2] = r.headers[i] /\ s[3*i + 3] = CR /\ s[3*i + 4] = LF
  /\ s[3*n + 5] = CR /\ s[3*n + 6] = LF

LEMMA HeaderLinesShape ==
  ASSUME NEW hs \in Seq(Wanted \cup {"x"}), NEW n \in Nat, Len(hs) = n
  PROVE  /\ HeaderLines(hs) \in Seq(Symbols) /\ Len(HeaderLines(hs)) = 3*n
         /\ \A i \in 1..n : /\ HeaderLines(hs)[3*i - 2] = hs[i]
                            /\ HeaderLines(hs)[3*i - 1] = CR /\ HeaderLines(hs)[3*i] = LF
<1> DEFINE h == HeaderLines(hs)
<1>1. h = [k \in 1..3*n |->
             IF k % 3 = 1 THEN hs[(k + 2) \div 3] ELSE IF k % 3 = 2 THEN CR ELSE LF]
  BY DEF HeaderLines
<1>2. ASSUME NEW i \in 1..n
      PROVE  /\ 3*i - 2 \in 1..3*n /\ 3*i - 1 \in 1..3*n /\ 3*i \in 1..3*n
             /\ (3*i - 2) % 3 = 1 /\ ((3*i - 2) + 2) \div 3 = i
             /\ (3*i - 1) % 3 = 2 /\ (3*i) % 3 = 0
  OBVIOUS
<1>3. ASSUME NEW k \in 1..3*n, k % 3 = 1 PROVE (k + 2) \div 3 \in 1..n
  BY <1>3
<1>4. \A i \in 1..n : hs[i] \in Wanted \cup {"x"}
  BY LenProperties
<1>5. ASSUME NEW k \in 1..3*n PROVE h[k] \in Symbols
  <2> HIDE DEF h
  <2>1. CASE k % 3 = 1
    <3>1. h[k] = hs[(k + 2) \div 3]
      BY <1>1, <2>1
    <3>2. h[k] \in Wanted \cup {"x"}
      BY <1>3, <1>4, <2>1, <3>1
    <3> QED
      BY <3>2 DEF Symbols
  <2>2. CASE k % 3 # 1
    BY <1>1, <2>2 DEF Symbols
  <2> QED
    BY <2>1, <2>2
<1>6. 3*n \in Nat
  OBVIOUS
<1>7. h \in [1..3*n -> Symbols]
  BY <1>1, <1>5, Zenon
<1> HIDE DEF h
<1>8. h \in Seq(Symbols)
  BY <1>6, <1>7, SeqDef
<1>9. Len(h) = 3*n
  BY <1>6, <1>7, <1>8, LenProperties
<1>10. ASSUME NEW i \in 1..n PROVE h[3*i - 2] = hs[i] /\ h[3*i - 1] = CR /\ h[3*i] = LF
  <2>1. h[3*i - 2] = hs[i]
    BY <1>1, <1>2
  <2>2. h[3*i - 1] = CR
    BY <1>1, <1>2
  <2>3. h[3*i] = LF
    BY <1>1, <1>2
  <2> QED
    BY <2>1, <2>2, <2>3
<1> QED
  BY <1>8, <1>9, <1>10 DEF h

(* A sequence of m symbols; it has those of t from place m + 1 on. *)
IsText(s, m) == s \in Seq(Symbols) /\ Len(s) = m
HasAt(s, m, t, n) == \A i \in 1..n : s[m + i] = t[i]

LEMMA Joined ==
  ASSUME NEW s, NEW t, NEW m \in Nat, NEW n \in Nat, IsText(s, m), IsText(t, n)
  PROVE  IsText(s \o t, m + n) /\ HasAt(s \o t, 0, s, m) /\ HasAt(s \o t, m, t, n)
<1> DEFINE st == s \o t
<1>1. /\ st \in Seq(Symbols) /\ Len(st) = m + n
      /\ \A i \in 1..m + n : st[i] = IF i <= m THEN s[i] ELSE t[i - m]
  BY ConcatProperties, Zenon DEF IsText
<1> HIDE DEF st
<1>2. ASSUME NEW i \in 1..m PROVE st[0 + i] = s[i]
  <2>1. i \in 1..m + n /\ i <= m /\ 0 + i = i
    OBVIOUS
  <2> QED
    BY <1>1, <2>1, Zenon
<1>3. ASSUME NEW i \in 1..n PROVE st[m + i] = t[i]
  <2>1. m + i \in 1..m + n /\ ~(m + i <= m) /\ (m + i) - m = i
    OBVIOUS
  <2> QED
    BY <1>1, <2>1, Zenon
<1> QED
  BY <1>1, <1>2, <1>3, Zenon DEF st, IsText, HasAt

LEMMA SymbolAt ==
  ASSUME NEW s, NEW m, NEW t, NEW n, HasAt(s, m, t, n), NEW i \in 1..n, NEW k, k = m + i
  PROVE  s[k] = t[i]
BY Zenon DEF HasAt

LEMMA TokensShape ==
  ASSUME NEW r, IsResponse(r)
  PROVE  LET n == Len(r.headers) IN
         /\ n \in Nat /\ Len(Lines(r)) = 3*n + 6 /\ Len(Tokens(r)) = (3*n + 6) + r.frames
         /\ Tokens(r) \in Seq(Symbols) /\ IsLaidOut(Tokens(r), r, n)
         /\ \A i \in 1..r.frames : Tokens(r)[(3*n + 6) + i] = "frame"
<1> DEFINE n == Len(r.headers)
           e == <<CR, LF>>
           h == HeaderLines(r.headers)
           a == r.first \o e
           b == h \o e
           l == a \o b
           f == [i \in 1..r.frames |-> "frame"]
           s == l \o f
<1>1. n \in Nat /\ r.frames \in Nat /\ r.headers \in Seq(Wanted \cup {"x"})
  BY LenProperties DEF IsResponse
<1>2. IsText(e, 2) /\ e[1] = CR /\ e[2] = LF
  <2>1. CR \in Symbols /\ LF \in Symbols
    BY DEF Symbols
  <2> HIDE DEF CR, LF, Symbols
  <2> QED
    BY <2>1 DEF IsText
<1>3. IsText(r.first, 2)
  <2>1. r.first \in [1..2 -> Symbols]
    BY DEF IsResponse, Symbols
  <2>2. r.first \in Seq(Symbols)
    BY <2>1, SeqDef, Zenon
  <2> QED
    BY <2>1, <2>2, LenProperties DEF IsText
<1>4. /\ IsText(h, 3*n)
      /\ \A i \in 1..n : h[3*i - 2] = r.headers[i] /\ h[3*i - 1] = CR /\ h[3*i] = LF
  BY <1>1, HeaderLinesShape, Zenon DEF IsText
<1>5. IsText(f, r.frames) /\ \A i \in 1..r.frames : f[i] = "frame"
  <2>1. f \in [1..r.frames -> Symbols]
    BY DEF Symbols
  <2>2. \A i \in 1..r.frames : f[i] = "frame"
    OBVIOUS
  <2> HIDE DEF f
  <2>3. f \in Seq(Symbols)
    BY <1>1, <2>1, SeqDef
  <2> QED
    BY <1>1, <2>1, <2>2, <2>3, LenProperties DEF IsText
<1>6. Tokens(r) = s /\ Lines(r) = l
  BY Zenon DEF Tokens, Lines
<1> HIDE DEF n, e, h, f
<1>7. IsText(a, 2 + 2) /\ HasAt(a, 0, r.first, 2) /\ HasAt(a, 2, e, 2)
  BY <1>2, <1>3, Joined
<1>8. IsText(b, 3*n + 2) /\ HasAt(b, 0, h, 3*n) /\ HasAt(b, 3*n, e, 2)
  <2>1. 3*n \in Nat
    BY <1>1 DEF n
  <2> QED
    BY <1>2, <1>4, <2>1, Joined
<1> HIDE DEF a, b
<1>9. IsText(l, 4 + (3*n + 2)) /\ HasAt(l, 0, a, 4) /\ HasAt(l, 4, b, 3*n + 2)
  <2>1. 3*n + 2 \in Nat /\ 2 + 2 = 4
    BY <1>1 DEF n
  <2>2. IsText(a, 4)
    BY <1>7, <2>1, Zenon
  <2> QED
    BY <1>8, <2>1, <2>2, Joined
<1> HIDE DEF l
<1>10. 4 + (3*n + 2) = 3*n + 6 /\ 3*n + 6 \in Nat
  BY <1>1 DEF n
<1>11. IsText(s, (3*n + 6) + r.frames) /\ HasAt(s, 0, l, 3*n + 6) /\ HasAt(s, 3*n + 6, f, r.frames)
  <2>1. IsText(l, 3*n + 6)
    BY <1>9, <1>10, Zenon
  <2> QED
    BY <1>1, <1>5, <1>10, <2>1, Joined, Zenon
<1> HIDE DEF s
<1>12. ASSUME NEW j \in 1..4 PROVE s[j] = a[j]
  <2>1. j \in 1..3*n + 6 /\ j = 0 + j
    BY <1>1 DEF n
  <2>2. s[j] = l[j]
    BY <1>11, <2>1, SymbolAt
  <2>3. l[j] = a[j]
    BY <1>9, <2>1, SymbolAt
  <2> QED
    BY <2>2, <2>3
<1>13. ASSUME NEW j \in 1..3*n + 2, NEW k, k = 4 + j PROVE s[k] = b[j]
  <2>1. k \in 1..3*n + 6 /\ k = 0 + k
    BY <1>1, <1>13 DEF n
  <2>2. s[k] = l[k]
    BY <1>11, <2>1, SymbolAt
  <2>3. l[k] = b[j]
    BY <1>9, <1>13, SymbolAt
  <2> QED
    BY <2>2, <2>3
<1>14. s[1] = r.first[1] /\ s[2] = r.first[2] /\ s[3] = CR /\ s[4] = LF
  <2>1. /\ 1 \in 1..4 /\ 2 \in 1..4 /\ 3 \in 1..4 /\ 4 \in 1..4 /\ 1 \in 1..2 /\ 2 \in 1..2
        /\ 1 = 0 + 1 /\ 2 = 0 + 2 /\ 3 = 2 + 1 /\ 4 = 2 + 2
    OBVIOUS
  <2>2. s[1] = a[1] /\ s[2] = a[2] /\ s[3] = a[3] /\ s[4] = a[4]
    BY <1>12, <2>1
  <2>3. a[1] = r.first[1] /\ a[2] = r.first[2] /\ a[3] = e[1] /\ a[4] = e[2]
    BY <1>7, <2>1, SymbolAt
  <2> QED
    BY <1>2, <2>2, <2>3
<1>15. ASSUME NEW i \in 1..n
       PROVE  s[3*i + 2] = r.headers[i] /\ s[3*i + 3] = CR /\ s[3*i + 4] = LF
  <2> DEFINE x == 3*i - 2
             y == 3*i - 1
             z == 3*i
  <2>1. /\ x \in 1..3*n /\ y \in 1..3*n /\ z \in 1..3*n
        /\ x \in 1..3*n + 2 /\ y \in 1..3*n + 2 /\ z \in 1..3*n + 2
        /\ 3*i + 2 = 4 + x /\ 3*i + 3 = 4 + y /\ 3*i + 4 = 4 + z
        /\ x = 0 + x /\ y = 0 + y /\ z = 0 + z
    BY <1>1 DEF n
  <2>2. h[x] = r.headers[i] /\ h[y] = CR /\ h[z] = LF
    BY <1>4
  <2> HIDE DEF x, y, z
  <2>3. s[3*i + 2] = b[x] /\ s[3*i + 3] = b[y] /\ s[3*i + 4] = b[z]
    BY <1>13, <2>1
  <2>4. b[x] = h[x] /\ b[y] = h[y] /\ b[z] = h[z]
    BY <1>8, <2>1, SymbolAt
  <2> QED
    BY <2>2, <2>3, <2>4
<1>16. s[3*n + 5] = CR /\ s[3*n + 6] = LF
  <2> DEFINE x == 3*n + 1
             y == 3*n + 2
  <2>1. /\ x \in 1..3*n + 2 /\ y \in 1..3*n + 2 /\ 3*n + 5 = 4 + x /\ 3*n + 6 = 4 + y
        /\ 1 \in 1..2 /\ 2 \in 1..2 /\ x = 3*n + 1 /\ y = 3*n + 2
    BY <1>1 DEF n
  <2> HIDE DEF x, y
  <2>2. s[3*n + 5] = b[x] /\ s[3*n + 6] = b[y]
    BY <1>13, <2>1
  <2>3. b[x] = e[1] /\ b[y] = e[2]
    BY <1>8, <2>1, SymbolAt
  <2> QED
    BY <1>2, <2>2, <2>3
<1>17. IsLaidOut(s, r, n)
  BY <1>14, <1>15, <1>16, Zenon DEF IsLaidOut
<1>18. \A i \in 1..r.frames : s[(3*n + 6) + i] = "frame"
  BY <1>5, <1>11, Zenon DEF HasAt
<1>19. Len(l) = 3*n + 6 /\ Len(s) = (3*n + 6) + r.frames /\ s \in Seq(Symbols)
  BY <1>9, <1>10, <1>11, Zenon DEF IsText
<1> QED
  BY <1>1, <1>6, <1>17, <1>18, <1>19, Zenon DEF n

LEMMA Behind ==
  ASSUME NEW m \in Nat, NEW n \in Nat, NEW k \in Nat, k > m, k <= m + n
  PROVE  k - m \in 1..n /\ k = m + (k - m)
OBVIOUS

LEMMA PlaceKinds ==
  ASSUME NEW n \in Nat, NEW k \in Nat \ {0}
  PROVE  \/ k \in 1..4
         \/ \E i \in 1..n : k = 3*i + 2 \/ k = 3*i + 3 \/ k = 3*i + 4
         \/ k = 3*n + 5 \/ k = 3*n + 6 \/ k > 3*n + 6
<1>1. CASE 4 < k /\ k <= 3*n + 4
  <2> DEFINE i == (k - 2) \div 3
  <2>1. i \in 1..n
    BY <1>1
  <2>2. k = 3*i + 2 \/ k = 3*i + 3 \/ k = 3*i + 4
    BY <1>1
  <2> QED
    BY <2>1, <2>2
<1>2. CASE ~(4 < k /\ k <= 3*n + 4)
  BY <1>2
<1> QED
  BY <1>1, <1>2

(* The line feeds of a response with n headers. *)
IsLineEnd(k, n) == (\E i \in 0..n : k = 3*i + 4) \/ k = 3*n + 6

(* Only the first line has the tokens of the protocol, and only line ends   *)
(* are line feeds.                                                          *)
LEMMA WhereTokensAre ==
  ASSUME NEW r, IsResponse(r), NEW n \in Nat, n = Len(r.headers), NEW k \in 1..Len(Tokens(r))
  PROVE  /\ Tokens(r)[k] \in {"P", "Q"} => k \in {1, 2}
         /\ Tokens(r)[k] = LF <=> IsLineEnd(k, n)
<1> DEFINE s == Tokens(r)
<1> USE DEF IsLineEnd
<1>1. /\ Len(s) = (3*n + 6) + r.frames /\ IsLaidOut(s, r, n) /\ r.frames \in Nat
      /\ \A i \in 1..r.frames : s[(3*n + 6) + i] = "frame"
  BY TokensShape, Zenon DEF IsResponse
<1> HIDE DEF s
<1>2. k \in Nat \ {0} /\ k <= (3*n + 6) + r.frames
  BY <1>1 DEF s
<1>3. CASE k \in 1..4
  <2>1. s[1] \in {"P", "Q", "x"} /\ s[2] \in {"P", "Q", "x"} /\ s[3] = CR /\ s[4] = LF
    BY <1>1 DEF IsLaidOut, IsResponse
  <2>2. k = 1 \/ k = 2 \/ k = 3 \/ k = 4
    BY <1>3
  <2>3. s[k] = LF <=> k = 4
    BY <2>1, <2>2 DEF LF, CR
  <2>4. k = 4 <=> (\E i \in 0..n : k = 3*i + 4) \/ k = 3*n + 6
    BY <2>2
  <2>5. s[k] \in {"P", "Q"} => k \in {1, 2}
    BY <2>1, <2>2 DEF LF, CR
  <2> QED
    BY <2>3, <2>4, <2>5 DEF s
<1>4. ASSUME NEW i \in 1..n, k = 3*i + 2 \/ k = 3*i + 3 \/ k = 3*i + 4
      PROVE  /\ s[k] \notin {"P", "Q"}
             /\ s[k] = LF <=> (\E j \in 0..n : k = 3*j + 4) \/ k = 3*n + 6
  <2>1. s[3*i + 2] = r.headers[i] /\ s[3*i + 3] = CR /\ s[3*i + 4] = LF
    BY <1>1 DEF IsLaidOut
  <2>2. r.headers[i] \in Wanted \cup {"x"}
    BY LenProperties DEF IsResponse
  <2>3. r.headers[i] \notin {"P", "Q", LF}
    BY <2>2 DEF Wanted, LF
  <2>4. CASE k = 3*i + 4
    <3>1. i \in 0..n
      OBVIOUS
    <3> QED
      BY <2>1, <2>4, <3>1 DEF LF
  <2>5. CASE k = 3*i + 2 \/ k = 3*i + 3
    <3>1. s[k] \notin {"P", "Q", LF}
      BY <2>1, <2>3, <2>5 DEF LF, CR
    <3>2. ~((\E j \in 0..n : k = 3*j + 4) \/ k = 3*n + 6)
      BY <2>5
    <3> QED
      BY <3>1, <3>2
  <2> QED
    BY <1>4, <2>4, <2>5
<1>5. CASE k = 3*n + 5 \/ k = 3*n + 6
  <2>1. s[3*n + 5] = CR /\ s[3*n + 6] = LF
    BY <1>1 DEF IsLaidOut
  <2>2. k = 3*n + 5 => ~((\E j \in 0..n : k = 3*j + 4) \/ k = 3*n + 6)
    OBVIOUS
  <2>3. s[k] \notin {"P", "Q"} /\ (s[k] = LF <=> k = 3*n + 6)
    BY <1>5, <2>1 DEF LF, CR
  <2> QED
    BY <1>5, <2>2, <2>3 DEF s
<1>6. CASE k > 3*n + 6
  <2> DEFINE i == k - (3*n + 6)
  <2>1. i \in 1..r.frames /\ k = (3*n + 6) + i
    <3>1. 3*n + 6 \in Nat
      OBVIOUS
    <3> QED
      BY <1>1, <1>2, <1>6, <3>1, Behind, Zenon
  <2> HIDE DEF i
  <2>2. s[k] = "frame"
    BY <1>1, <2>1, Zenon
  <2>3. ~((\E j \in 0..n : k = 3*j + 4) \/ k = 3*n + 6)
    BY <1>2, <1>6
  <2> QED
    BY <2>2, <2>3 DEF LF, s
<1> QED
  BY <1>2, <1>3, <1>4, <1>5, <1>6, PlaceKinds, Zenon DEF s

-----------------------------------------------------------------------------
(* The parser on the first m tokens of a response. *)

IsBeginning(t, m, r) ==
  /\ m \in Nat /\ m <= Len(Tokens(r)) /\ Len(t) = m
  /\ \A k \in 1..m : t[k] = Tokens(r)[k]

LEMMA LineIs ==
  ASSUME NEW t, NEW j \in Nat \ {0}, NEW from \in 1..j, from = 1 \/ t[from - 1] = LF,
         \A k \in from..j-1 : t[k] # LF
  PROVE  Line(t, j) = SubSeq(t, from, j - 1)
<1> DEFINE before == {i \in 1..j-1 : t[i] = LF}
<1>1. Line(t, j) = SubSeq(t, IF before = {} THEN 1 ELSE Max(before) + 1, j - 1)
  BY DEF Line
<1>2. \A k \in before : k \in 1..j-1 /\ k < from
  BY DEF LF
<1>3. from # 1 => from - 1 \in before
  OBVIOUS
<1> HIDE DEF before
<1>4. CASE before = {}
  BY <1>1, <1>3, <1>4
<1>5. CASE before # {}
  <2>1. j - 1 \in Nat /\ before \subseteq 0..j-1
    BY <1>2
  <2>2. Max(before) \in before /\ \A y \in before : y <= Max(before)
    BY <1>5, <2>1, MaxBounded, Zenon
  <2>3. from # 1
    BY <1>2, <1>5
  <2>4. from - 1 <= Max(before)
    BY <1>3, <2>2, <2>3
  <2>5. Max(before) \in 1..j-1 /\ Max(before) < from
    BY <1>2, <2>2
  <2>6. Max(before) + 1 = from
    <3> DEFINE x == Max(before)
    <3> HIDE DEF x
    <3>1. x \in 1..j-1 /\ x < from /\ from - 1 <= x
      BY <2>4, <2>5 DEF x
    <3>2. x + 1 = from
      BY <3>1
    <3> QED
      BY <3>2 DEF x
  <2> QED
    BY <1>1, <1>5, <2>6, Zenon
<1> QED
  BY <1>4, <1>5

LEMMA BeginningSymbols ==
  ASSUME NEW r, IsResponse(r), NEW t, NEW m, IsBeginning(t, m, r)
  PROVE  \A k \in 1..m : t[k] \in Symbols
<1>1. Tokens(r) \in Seq(Symbols)
  BY TokensShape
<1>2. \A k \in 1..Len(Tokens(r)) : Tokens(r)[k] \in Symbols
  BY <1>1, LenProperties
<1>3. Len(Tokens(r)) \in Nat
  BY <1>1, LenProperties
<1> QED
  BY <1>2, <1>3 DEF IsBeginning

LEMMA HeaderLine ==
  ASSUME NEW r, IsResponse(r), NEW n \in Nat, n = Len(r.headers), NEW t, NEW m \in Nat,
         IsBeginning(t, m, r), NEW i \in 1..n, 3*i + 4 <= m
  PROVE  /\ Line(t, 3*i + 4) # <<CR>>
         /\ \A h \in Wanted : h \in Range(Line(t, 3*i + 4)) <=> h = r.headers[i]
<1> DEFINE j == 3*i + 4
           l == SubSeq(t, 3*i + 2, 3*i + 3)
<1>1. /\ j \in 1..m /\ 3*i + 2 \in 1..m /\ 3*i + 3 \in 1..m /\ 3*i + 1 \in 1..m
      /\ j - 1 = 3*i + 3 /\ (3*i + 2) - 1 = 3*i + 1 /\ 3*i + 2 \in 1..j /\ j \in Nat \ {0}
  OBVIOUS
<1>2. \A k \in 1..m : t[k] = Tokens(r)[k] /\ k \in 1..Len(Tokens(r))
  <2>1. Tokens(r) \in Seq(Symbols)
    BY TokensShape
  <2>2. Len(Tokens(r)) \in Nat
    BY <2>1, LenProperties
  <2> QED
    BY <2>2 DEF IsBeginning
<1>3. t[3*i + 2] = r.headers[i] /\ t[3*i + 3] = CR
  <2>1. IsLaidOut(Tokens(r), r, n)
    BY TokensShape
  <2> QED
    BY <1>1, <1>2, <2>1, Zenon DEF IsLaidOut
<1>4. t[3*i + 1] = LF
  <2>1. i - 1 \in 0..n /\ 3*i + 1 = 3*(i - 1) + 4
    OBVIOUS
  <2>2. IsLineEnd(3*i + 1, n)
    BY <2>1 DEF IsLineEnd
  <2>3. 3*i + 1 \in 1..Len(Tokens(r)) /\ t[3*i + 1] = Tokens(r)[3*i + 1]
    BY <1>1, <1>2
  <2> QED
    BY <2>2, <2>3, WhereTokensAre, Zenon
<1>5. r.headers[i] \in Wanted \cup {"x"}
  BY LenProperties DEF IsResponse
<1>6. Line(t, j) = l
  <2>1. \A k \in 3*i + 2..3*i + 3 : k = 3*i + 2 \/ k = 3*i + 3
    OBVIOUS
  <2>2. r.headers[i] # LF /\ CR # LF
    BY <1>5 DEF Wanted, LF, CR
  <2>3. \A k \in 3*i + 2..j - 1 : t[k] # LF
    BY <1>1, <1>3, <2>1, <2>2, Zenon
  <2>4. t[(3*i + 2) - 1] = LF
    BY <1>1, <1>4, Zenon
  <2> HIDE DEF j, l
  <2>5. Line(t, j) = SubSeq(t, 3*i + 2, j - 1)
    BY <1>1, <2>3, <2>4, LineIs, Zenon
  <2> QED
    BY <1>1, <2>5 DEF l
<1>7. Len(l) = 2 /\ DOMAIN l = 1..2 /\ l[1] = r.headers[i] /\ l[2] = CR
  <2>1. \A k \in 1..m : t[k] \in Symbols
    BY BeginningSymbols
  <2>2. \A k \in 3*i + 2..3*i + 3 : t[k] \in Symbols
    BY <1>1, <2>1
  <2>3. 3*i + 2 \in Int /\ 3*i + 3 \in Int /\ 3*i + 2 <= 3*i + 3 /\ (3*i + 3) - (3*i + 2) + 1 = 2
        /\ 1 \in 1..2 /\ 2 \in 1..2 /\ (3*i + 2) + 1 - 1 = 3*i + 2 /\ (3*i + 2) + 2 - 1 = 3*i + 3
    OBVIOUS
  <2>4. /\ l \in Seq(Symbols)
        /\ Len(l) = IF 3*i + 2 <= 3*i + 3 THEN (3*i + 3) - (3*i + 2) + 1 ELSE 0
        /\ \A k \in 1..(3*i + 3) - (3*i + 2) + 1 : l[k] = t[(3*i + 2) + k - 1]
    BY <2>2, <2>3, SubSeqProperties
  <2> HIDE DEF l
  <2>5. Len(l) = 2 /\ \A k \in 1..2 : l[k] = t[(3*i + 2) + k - 1]
    BY <2>3, <2>4, Zenon
  <2>6. DOMAIN l = 1..2
    BY <2>4, <2>5, LenProperties
  <2>7. l[1] = t[3*i + 2] /\ l[2] = t[3*i + 3]
    BY <2>3, <2>5, Zenon
  <2> QED
    BY <1>3, <2>5, <2>6, <2>7
<1> HIDE DEF l, j
<1>8. l # <<CR>>
  BY <1>7
<1>9. Range(l) = {r.headers[i], CR}
  BY <1>7 DEF Range
<1>10. CR \notin Wanted
  BY DEF CR, Wanted
<1> QED
  BY <1>6, <1>8, <1>9, <1>10 DEF j

LEMMA EmptyLine ==
  ASSUME NEW r, IsResponse(r), NEW n \in Nat, n = Len(r.headers), NEW t, NEW m \in Nat,
         IsBeginning(t, m, r), 3*n + 6 <= m
  PROVE  Line(t, 3*n + 6) = <<CR>> /\ \A h \in Wanted : h \notin Range(Line(t, 3*n + 6))
<1> DEFINE j == 3*n + 6
           p == 3*n + 5
           l == SubSeq(t, p, p)
<1>1. /\ j \in 1..m /\ p \in 1..m /\ p - 1 \in 1..m /\ j - 1 = p /\ p - 1 = 3*n + 4
      /\ p \in 1..j /\ j \in Nat \ {0} /\ \A k \in p..p : k = p
  OBVIOUS
<1>2. \A k \in 1..m : t[k] = Tokens(r)[k] /\ k \in 1..Len(Tokens(r))
  <2>1. Tokens(r) \in Seq(Symbols)
    BY TokensShape
  <2>2. Len(Tokens(r)) \in Nat
    BY <2>1, LenProperties
  <2> QED
    BY <2>2 DEF IsBeginning
<1>3. t[p] = CR
  <2>1. Tokens(r)[p] = CR
    BY TokensShape DEF IsLaidOut
  <2> HIDE DEF p, j
  <2> QED
    BY <1>1, <1>2, <2>1
<1>4. t[p - 1] = LF
  <2>1. n \in 0..n /\ p - 1 = 3*n + 4
    OBVIOUS
  <2>2. IsLineEnd(p - 1, n)
    BY <2>1 DEF IsLineEnd
  <2>3. p - 1 \in 1..Len(Tokens(r)) /\ t[p - 1] = Tokens(r)[p - 1]
    BY <1>1, <1>2
  <2> HIDE DEF p
  <2> QED
    BY <2>2, <2>3, WhereTokensAre, Zenon
<1>5. p \in Int /\ (p - p) + 1 = 1 /\ p <= p /\ (p + 1) - 1 = p
  OBVIOUS
<1> HIDE DEF j, p
<1>6. Line(t, j) = l
  <2>1. \A k \in p..j - 1 : t[k] # LF
    BY <1>1, <1>3, Zenon DEF LF, CR
  <2>2. Line(t, j) = SubSeq(t, p, j - 1)
    BY <1>1, <1>4, <2>1, LineIs, Zenon
  <2> QED
    BY <1>1, <2>2
<1>7. l \in Seq(Symbols) /\ Len(l) = 1 /\ l[1] = CR
  <2>1. \A k \in p..p : t[k] \in Symbols
    BY <1>1, BeginningSymbols, Zenon
  <2>2. /\ l \in Seq(Symbols) /\ Len(l) = IF p <= p THEN (p - p) + 1 ELSE 0
        /\ \A k \in 1..(p - p) + 1 : l[k] = t[(p + k) - 1]
    BY <1>5, <2>1, SubSeqProperties
  <2> HIDE DEF l
  <2>3. Len(l) = 1 /\ \A k \in 1..1 : l[k] = t[(p + k) - 1]
    BY <1>5, <2>2, Zenon
  <2>4. 1 \in 1..1
    OBVIOUS
  <2>5. l[1] = t[(p + 1) - 1]
    BY <2>3, <2>4, Zenon
  <2> QED
    BY <1>3, <1>5, <2>2, <2>3, <2>5, Zenon
<1> HIDE DEF l
<1>8. l = <<CR>>
  <2>1. l \in [1..1 -> Symbols]
    BY <1>7, LenProperties
  <2> QED
    BY <1>7, <2>1
<1>9. \A h \in Wanted : h \notin Range(<<CR>>)
  BY DEF Range, CR, Wanted
<1> QED
  BY <1>6, <1>8, <1>9 DEF j

IsHeaderEnd(j, m, n) == j \in 1..m /\ ((\E i \in 1..n : j = 3*i + 4) \/ j = 3*n + 6)

(* The header loop looks at the line end of every header that has arrived,  *)
(* and stops at the empty line and nowhere before.                          *)
LEMMA HeaderEndsAre ==
  ASSUME NEW r, IsResponse(r), NEW n \in Nat, n = Len(r.headers), NEW t, NEW m \in Nat,
         IsBeginning(t, m, r)
  PROVE  /\ \A j : j \in HeaderEnds(t) <=> IsHeaderEnd(j, m, n)
         /\ \A j \in HeaderEnds(t) : Line(t, j) = <<CR>> <=> j = 3*n + 6
<1> DEFINE ends == {j \in Len(Protocol)+1..Len(t) : t[j] = LF}
           after == IF ends = {} THEN {} ELSE ends \ {Min(ends)}
           blank == {j \in after : Line(t, j) = <<CR>>}
<1>1. HeaderEnds(t) = IF blank = {} THEN after ELSE {j \in after : j <= Min(blank)}
  BY DEF HeaderEnds
<1>2. \A k \in 1..m : t[k] = Tokens(r)[k] /\ k \in 1..Len(Tokens(r))
  <2>1. Tokens(r) \in Seq(Symbols)
    BY TokensShape
  <2>2. Len(Tokens(r)) \in Nat
    BY <2>1, LenProperties
  <2> QED
    BY <2>2 DEF IsBeginning
<1>3. ASSUME NEW j \in 1..m
      PROVE  t[j] = LF <=> IsLineEnd(j, n)
  <2>1. t[j] = Tokens(r)[j] /\ j \in 1..Len(Tokens(r))
    BY <1>2, Zenon
  <2>2. Tokens(r)[j] = LF <=> IsLineEnd(j, n)
    BY <2>1, WhereTokensAre
  <2> QED
    BY <2>1, <2>2, Zenon
<1>4. Len(Protocol) + 1 = 3 /\ Len(t) = m
  BY DEF Protocol, IsBeginning
<1>5. \A j : j \in ends <=> j \in 1..m /\ IsLineEnd(j, n)
  <2>1. ASSUME NEW j \in 1..m, IsLineEnd(j, n) PROVE j \in 3..m
    BY <2>1 DEF IsLineEnd
  <2>2. \A j : j \in ends <=> j \in 3..m /\ t[j] = LF
    BY <1>4, Zenon
  <2> HIDE DEF ends
  <2>3. \A j \in 3..m : j \in 1..m
    OBVIOUS
  <2> QED
    BY <1>3, <2>1, <2>2, <2>3, Zenon
<1> HIDE DEF ends
<1>6. \A j : j \in after <=> IsHeaderEnd(j, m, n)
  <2>1. CASE ends = {}
    <3>1. \A j : ~IsHeaderEnd(j, m, n)
      BY <1>5, <2>1 DEF IsHeaderEnd, IsLineEnd
    <3> QED
      BY <2>1, <3>1
  <2>2. CASE ends # {}
    <3>1. \A j \in ends : j \in Nat /\ 4 <= j /\ 4 \in 1..m
      BY <1>5 DEF IsLineEnd
    <3>2. 4 \in ends
      <4>1. 0 \in 0..n /\ 4 = 3*0 + 4
        OBVIOUS
      <4>2. 4 \in 1..m
        BY <2>2, <3>1
      <4> QED
        BY <1>5, <4>1, <4>2 DEF IsLineEnd
    <3>3. ends \subseteq Nat
      BY <3>1
    <3>4. Min(ends) \in ends /\ \A y \in ends : Min(ends) <= y
      BY <2>2, <3>3, MinLeast, Zenon
    <3>5. Min(ends) = 4
      BY <3>1, <3>2, <3>4
    <3>6. ASSUME NEW j PROVE j \in ends /\ j # 4 <=> IsHeaderEnd(j, m, n)
      <4>1. ASSUME NEW i \in 0..n, j = 3*i + 4, j # 4 PROVE i \in 1..n
        BY <4>1
      <4>2. ASSUME NEW i \in 1..n, j = 3*i + 4 PROVE i \in 0..n /\ j # 4
        BY <4>2
      <4>3. j = 3*n + 6 => j # 4
        OBVIOUS
      <4> QED
        BY <1>5, <4>1, <4>2, <4>3, Zenon DEF IsHeaderEnd, IsLineEnd
    <3> QED
      BY <2>2, <3>5, <3>6, Zenon
  <2> QED
    BY <2>1, <2>2
<1>7. ASSUME NEW j, IsHeaderEnd(j, m, n) PROVE Line(t, j) = <<CR>> <=> j = 3*n + 6
  <2>1. CASE j = 3*n + 6
    <3>1. 3*n + 6 <= m
      BY <1>7, <2>1 DEF IsHeaderEnd
    <3> QED
      BY <2>1, <3>1, EmptyLine
  <2>2. ASSUME NEW i \in 1..n, j = 3*i + 4 PROVE Line(t, j) # <<CR>> /\ j # 3*n + 6
    <3>1. 3*i + 4 <= m /\ j # 3*n + 6
      BY <1>7, <2>2 DEF IsHeaderEnd
    <3> QED
      BY <2>2, <3>1, HeaderLine
  <2> QED
    BY <1>7, <2>1, <2>2, Zenon DEF IsHeaderEnd
<1> HIDE DEF after
<1>8. \A j : j \in blank <=> IsHeaderEnd(j, m, n) /\ j = 3*n + 6
  BY <1>6, <1>7, Zenon
<1> HIDE DEF blank
<1>9. \A j : j \in HeaderEnds(t) <=> IsHeaderEnd(j, m, n)
  <2>1. CASE blank = {}
    BY <1>1, <1>6, <2>1, Zenon
  <2>2. CASE blank # {}
    <3>1. \A j \in blank : j = 3*n + 6
      BY <1>8, Zenon
    <3>2. blank \subseteq Nat
      BY <3>1
    <3>3. Min(blank) \in blank
      BY <2>2, <3>2, MinLeast, Zenon
    <3>4. Min(blank) = 3*n + 6
      BY <3>1, <3>3, Zenon
    <3>5. ASSUME NEW j, IsHeaderEnd(j, m, n) PROVE j <= 3*n + 6
      BY <3>5 DEF IsHeaderEnd
    <3> QED
      BY <1>1, <1>6, <2>2, <3>4, <3>5, Zenon
  <2> QED
    BY <2>1, <2>2
<1> QED
  BY <1>7, <1>9, Zenon

LEMMA IndexIs ==
  ASSUME NEW r, IsResponse(r), NEW n \in Nat, n = Len(r.headers), NEW t, NEW m \in Nat,
         IsBeginning(t, m, r)
  PROVE  Index(t) = IF 3*n + 6 <= m THEN 3*n + 6 ELSE m
<1> DEFINE blank == {j \in HeaderEnds(t) : Line(t, j) = <<CR>>}
<1>1. Index(t) = IF blank = {} THEN m ELSE Max(blank)
  BY DEF Index, IsBeginning
<1>2. \A j : j \in blank <=> IsHeaderEnd(j, m, n) /\ j = 3*n + 6
  BY HeaderEndsAre, Zenon
<1> HIDE DEF blank
<1>3. CASE 3*n + 6 <= m
  <2>1. IsHeaderEnd(3*n + 6, m, n) /\ 3*n + 6 \in Nat
    BY <1>3 DEF IsHeaderEnd
  <2>2. 3*n + 6 \in blank /\ \A j \in blank : j = 3*n + 6
    BY <1>2, <2>1, Zenon
  <2>3. blank \subseteq 0..3*n + 6
    BY <2>2
  <2>4. Max(blank) \in blank
    BY <2>1, <2>2, <2>3, MaxBounded, Zenon
  <2> QED
    BY <1>1, <1>3, <2>2, <2>4, Zenon
<1>4. CASE ~(3*n + 6 <= m)
  <2>1. ~IsHeaderEnd(3*n + 6, m, n)
    BY <1>4 DEF IsHeaderEnd
  <2>2. blank = {}
    BY <1>2, <2>1, Zenon
  <2> QED
    BY <1>1, <1>4, <2>2, Zenon
<1> QED
  BY <1>3, <1>4

(* The headers found are those whose line has arrived. *)
LEMMA FoundAre ==
  ASSUME NEW r, IsResponse(r), NEW n \in Nat, n = Len(r.headers), NEW t, NEW m \in Nat,
         IsBeginning(t, m, r), NEW h \in Wanted
  PROVE  h \in Found(t) <=> \E i \in 1..n : r.headers[i] = h /\ 3*i + 4 <= m
<1>1. h \in Found(t) <=> \E j \in HeaderEnds(t) : h \in Range(Line(t, j))
  BY Zenon DEF Found
<1>2. \A j : j \in HeaderEnds(t) <=> IsHeaderEnd(j, m, n)
  BY HeaderEndsAre, Zenon
<1>3. ASSUME NEW j, IsHeaderEnd(j, m, n), h \in Range(Line(t, j))
      PROVE  \E i \in 1..n : r.headers[i] = h /\ 3*i + 4 <= m
  <2>1. CASE j = 3*n + 6
    <3>1. 3*n + 6 <= m
      BY <1>3, <2>1 DEF IsHeaderEnd
    <3>2. h \notin Range(Line(t, 3*n + 6))
      BY <3>1, EmptyLine, Zenon
    <3> QED
      BY <1>3, <2>1, <3>2, Zenon
  <2>2. ASSUME NEW i \in 1..n, j = 3*i + 4 PROVE r.headers[i] = h /\ 3*i + 4 <= m
    <3>1. 3*i + 4 <= m
      BY <1>3, <2>2 DEF IsHeaderEnd
    <3>2. h \in Range(Line(t, 3*i + 4)) <=> h = r.headers[i]
      <4>1. \A g \in Wanted : g \in Range(Line(t, 3*i + 4)) <=> g = r.headers[i]
        BY <3>1, HeaderLine
      <4> QED
        BY <4>1, Zenon
    <3> QED
      BY <1>3, <2>2, <3>1, <3>2, Zenon
  <2> QED
    BY <1>3, <2>1, <2>2, Zenon DEF IsHeaderEnd
<1>4. ASSUME NEW i \in 1..n, r.headers[i] = h, 3*i + 4 <= m
      PROVE  \E j \in HeaderEnds(t) : h \in Range(Line(t, j))
  <2>1. IsHeaderEnd(3*i + 4, m, n)
    BY <1>4 DEF IsHeaderEnd
  <2>2. h \in Range(Line(t, 3*i + 4)) <=> h = r.headers[i]
    BY <1>4, HeaderLine, Zenon
  <2> QED
    BY <1>2, <1>4, <2>1, <2>2, Zenon
<1> QED
  BY <1>1, <1>2, <1>3, <1>4, Zenon

(* What MATCHED and INVALID_PROTOCOL say of the tokens looked at. *)
LEMMA ParseResults ==
  ASSUME NEW t, NEW m \in Nat, Len(t) = m
  PROVE  /\ ParseHandshake(t) \in {"MATCHED", "INVALID_PROTOCOL", "INCOMPLETE"}
         /\ ParseHandshake(t) = "MATCHED" =>
              2 <= m /\ t[1] = "P" /\ t[2] = "Q" /\ Found(t) = Wanted
         /\ (1 <= m => t[1] = "P") /\ (2 <= m => t[2] = "Q") =>
              /\ ParseHandshake(t) # "INVALID_PROTOCOL"
              /\ 2 <= m /\ Found(t) = Wanted => ParseHandshake(t) = "MATCHED"
<1> DEFINE wrong == \E i \in 1..Min2(Len(t), Len(Protocol)) : t[i] # Protocol[i]
           right == Len(t) >= Len(Protocol) /\ SubSeq(t, 1, Len(Protocol)) = Protocol
                      /\ Found(t) = Wanted
<1>1. ParseHandshake(t) = CASE wrong -> "INVALID_PROTOCOL"
                            [] right -> "MATCHED" [] OTHER -> "INCOMPLETE"
  BY Zenon DEF ParseHandshake
<1>2. Len(Protocol) = 2 /\ Protocol[1] = "P" /\ Protocol[2] = "Q"
  BY DEF Protocol
<1>3. wrong <=> (1 <= m /\ t[1] # "P") \/ (2 <= m /\ t[2] # "Q")
  <2>1. wrong <=> \E i \in 1..Min2(m, 2) : t[i] # Protocol[i]
    BY <1>2, Zenon
  <2> HIDE DEF wrong
  <2>2. ASSUME NEW i \in 1..Min2(m, 2) PROVE (i = 1 /\ 1 <= m) \/ (i = 2 /\ 2 <= m)
    BY DEF Min2
  <2>3. (1 <= m => 1 \in 1..Min2(m, 2)) /\ (2 <= m => 2 \in 1..Min2(m, 2))
    BY DEF Min2
  <2> QED
    BY <1>2, <2>1, <2>2, <2>3, Zenon
<1>4. ASSUME 2 <= m, t[1] = "P", t[2] = "Q" PROVE SubSeq(t, 1, Len(Protocol)) = Protocol
  <2> DEFINE s == SubSeq(t, 1, 2)
  <2>1. \A i \in 1..2 : t[i] \in Symbols
    <3>1. \A i \in 1..2 : i = 1 \/ i = 2
      OBVIOUS
    <3> QED
      BY <1>4, <3>1 DEF Symbols
  <2>2. /\ s \in Seq(Symbols) /\ Len(s) = IF 1 <= 2 THEN 2 - 1 + 1 ELSE 0
        /\ \A i \in 1..2 - 1 + 1 : s[i] = t[1 + i - 1]
    BY <2>1, SubSeqProperties
  <2> HIDE DEF s
  <2>3. Len(s) = 2 /\ s[1] = "P" /\ s[2] = "Q"
    BY <1>4, <2>2
  <2>4. s \in [1..2 -> Symbols]
    BY <2>2, <2>3, LenProperties
  <2>5. s = <<"P", "Q">>
    BY <2>3, <2>4
  <2> QED
    BY <1>2, <2>5 DEF s, Protocol
<1>5. right => 2 <= m /\ Found(t) = Wanted
  BY <1>2
<1>6. ~wrong /\ 2 <= m /\ Found(t) = Wanted => right
  BY <1>2, <1>3, <1>4
<1> HIDE DEF wrong, right
<1>7. CASE wrong
  <2>1. ~right
    <3>1. SUFFICES ASSUME right PROVE FALSE
      OBVIOUS
    <3> DEFINE S == {t[1], t[2]}
               s == SubSeq(t, 1, 2)
    <3>2. s = <<"P", "Q">> /\ 2 <= m
      BY <1>2, <3>1 DEF right, Protocol
    <3>3. \A i \in 1..2 : t[i] \in S
      <4>1. \A i \in 1..2 : i = 1 \/ i = 2
        OBVIOUS
      <4> QED
        BY <4>1
    <3> HIDE DEF S
    <3>4. \A i \in 1..2 - 1 + 1 : s[i] = t[1 + i - 1]
      BY <3>3, SubSeqProperties
    <3> HIDE DEF s
    <3>5. s[1] = t[1] /\ s[2] = t[2]
      BY <3>4
    <3>6. t[1] = "P" /\ t[2] = "Q"
      BY <3>2, <3>5
    <3> QED
      BY <1>3, <1>7, <3>6, Zenon
  <2>2. ParseHandshake(t) = "INVALID_PROTOCOL"
    BY <1>1, <1>7, <2>1, Zenon
  <2> QED
    BY <1>3, <1>7, <2>2
<1>8. CASE ~wrong /\ right
  <2>1. ParseHandshake(t) = "MATCHED"
    BY <1>1, <1>8
  <2> QED
    BY <1>3, <1>5, <1>8, <2>1
<1>9. CASE ~wrong /\ ~right
  <2>1. ParseHandshake(t) = "INCOMPLETE"
    BY <1>1, <1>9
  <2> QED
    BY <1>3, <1>6, <1>9, <2>1
<1> QED
  BY <1>7, <1>8, <1>9

-----------------------------------------------------------------------------
(* What a read does to the buffer. *)

(* The buffer as socket.read gets it. *)
Ready(b, r) ==
  /\ CellsInv(b, r) /\ b.lim = ReadCap /\ b.pos < ReadCap
  /\ r = 0 \/ b.data[0] = 1 =>
       HasAll(b, r) /\ (b.pos = r \/ (b.pos = 0 /\ r = ReadCap))

LEMMA SameCells ==
  ASSUME NEW b, NEW r, CellsInv(b, r), NEW c \in Buffers(ReadCap), c.data = b.data
  PROVE  CellsInv(c, r) /\ (HasAll(b, r) <=> HasAll(c, r))
BY Zenon DEF CellsInv, HasAll

LEMMA BeforeReadReady ==
  ASSUME NEW r \in Nat, NEW a, BufferInv(a, r)
  PROVE  /\ Ready(BeforeRead(a), r)
         /\ a.pos = 0 /\ a.lim < ReadCap =>
              BeforeRead(a).pos = a.lim /\ BeforeRead(a).data = a.data
<1> DEFINE b == BeforeRead(a)
<1>1. CellsInv(a, r) /\ (r = 0 \/ a.data[0] = 1 => FromStart(a, r)) /\ a \in Buffers(ReadCap)
  BY DEF BufferInv, CellsInv
<1>2. ReadCap \in Nat \ {0}
  BY HandshakeAssumption
<1>3. a.cap = ReadCap /\ a.pos \in 0..ReadCap /\ a.lim \in 0..ReadCap /\ a.pos <= a.lim
  BY <1>1, <1>2, BufferFields
<1>4. b \in Buffers(ReadCap)
  BY <1>1, <1>2, BeforeReadType
<1>5. CASE a.pos > 0 /\ Remaining(a) = 0
  <2>1. b.pos = 0 /\ b.lim = ReadCap /\ b.data = a.data
    BY <1>3, <1>5 DEF BeforeRead, Clear, Set
  <2> HIDE DEF b
  <2>2. CellsInv(b, r) /\ (HasAll(a, r) <=> HasAll(b, r))
    BY <1>1, <1>4, <2>1, SameCells
  <2>3. ASSUME FromStart(a, r) PROVE HasAll(b, r) /\ r = ReadCap
    <3>1. a.lim = a.pos
      BY <1>3, <1>5 DEF Remaining
    <3>2. a.pos = r /\ a.lim = ReadCap
      BY <1>3, <1>5, <2>3 DEF FromStart
    <3> QED
      BY <2>2, <2>3, <3>1, <3>2 DEF FromStart
  <2> QED
    BY <1>1, <1>2, <1>5, <2>1, <2>2, <2>3 DEF Ready, b
<1>6. CASE a.pos > 0 /\ Remaining(a) # 0
  <2> DEFINE q == a.lim - a.pos
  <2>1. /\ b.pos = q /\ b.lim = ReadCap
        /\ b.data = [i \in 0..ReadCap-1 |-> IF i < q THEN a.data[a.pos + i] ELSE a.data[i]]
    BY <1>3, <1>6 DEF BeforeRead, Compact, Set
  <2>2. q \in 1..ReadCap-1 /\ a.pos + q <= ReadCap /\ a.pos \in 1..ReadCap-1
    BY <1>2, <1>3, <1>6 DEF Remaining
  <2>3. \A i \in 1..ReadCap-1 : a.data[i] # 1
    BY <1>1 DEF CellsInv
  <2>4. \A i \in 0..ReadCap-1 : b.data[i] <= r
    <3>1. \A i \in 0..ReadCap-1 : a.data[i] <= r
      BY <1>1 DEF CellsInv
    <3> QED
      BY <1>1, <1>2, <3>1, CellsBounded
  <2> HIDE DEF b, q
  <2>5. ASSUME NEW i \in 0..ReadCap-1 PROVE b.data[i] = IF i < q THEN a.data[a.pos + i] ELSE a.data[i]
    BY <2>1, Zenon
  <2>6. ASSUME NEW i \in 0..ReadCap-1 PROVE b.data[i] # 1
    <3>1. CASE i < q
      <4>1. a.pos + i \in 1..ReadCap-1
        BY <1>2, <2>2, <3>1
      <4> QED
        BY <2>3, <2>5, <3>1, <4>1, Zenon
    <3>2. CASE ~(i < q)
      <4>1. i \in 1..ReadCap-1
        BY <2>2, <3>2
      <4> QED
        BY <2>3, <2>5, <3>2, <4>1, Zenon
    <3> QED
      BY <3>1, <3>2
  <2>7. CellsInv(b, r)
    <3>1. \A i \in 1..ReadCap-1 : i \in 0..ReadCap-1
      BY <1>2
    <3> QED
      BY <1>4, <2>4, <2>6, <3>1, Zenon DEF CellsInv, b
  <2>8. ~(r = 0 \/ b.data[0] = 1)
    <3>1. 0 \in 0..ReadCap-1
      BY <1>2
    <3>2. r # 0
      BY <1>1, <1>3, <1>6 DEF FromStart
    <3> QED
      BY <2>6, <3>1, <3>2
  <2>9. b.pos < ReadCap
    BY <1>2, <2>1, <2>2
  <2> QED
    BY <1>6, <2>1, <2>7, <2>8, <2>9 DEF Ready, b
<1>7. CASE a.pos = 0 /\ a.lim < ReadCap
  <2>1. b.pos = a.lim /\ b.lim = ReadCap /\ b.data = a.data
    BY <1>3, <1>7 DEF BeforeRead, ReverseFlip, Set
  <2> HIDE DEF b
  <2>2. CellsInv(b, r) /\ (HasAll(a, r) <=> HasAll(b, r))
    BY <1>1, <1>4, <2>1, SameCells
  <2>3. ASSUME FromStart(a, r) PROVE HasAll(b, r) /\ (a.lim = r \/ (a.lim = 0 /\ r = ReadCap))
    <3>1. a.lim = r \/ (a.lim = 0 /\ r = ReadCap)
      BY <1>3, <1>7, <2>3 DEF FromStart
    <3> QED
      BY <2>2, <2>3, <3>1 DEF FromStart
  <2> QED
    BY <1>1, <1>7, <2>1, <2>2, <2>3 DEF Ready, b
<1>8. CASE a.pos = 0 /\ ~(a.lim < ReadCap)
  <2>1. b = a /\ a.lim = ReadCap
    BY <1>2, <1>3, <1>8 DEF BeforeRead
  <2> HIDE DEF b
  <2>2. ASSUME FromStart(a, r) PROVE HasAll(a, r) /\ (a.pos = r \/ (a.pos = 0 /\ r = ReadCap))
    BY <1>8, <2>1, <2>2 DEF FromStart
  <2> QED
    BY <1>1, <1>2, <1>8, <2>1, <2>2 DEF Ready, b
<1> QED
  BY <1>3, <1>5, <1>6, <1>7, <1>8

(* A read that brings n tokens. *)
LEMMA SomeRead ==
  ASSUME NEW r \in Nat, NEW b, Ready(b, r), NEW n \in 1..Remaining(b), NEW c,
         c = AfterRead(PutRun(b, r, n), n)
  PROVE  /\ BufferInv(c, r + n) /\ c.pos = 0 /\ c.lim = b.pos + n
         /\ b.pos = r /\ (r = 0 \/ b.data[0] = 1) => c.data[0] = 1
<1> DEFINE d == PutRun(b, r, n)
<1>1. CellsInv(b, r) /\ b \in Buffers(ReadCap) /\ b.lim = ReadCap /\ b.pos < ReadCap
  BY DEF Ready, CellsInv
<1>2. ReadCap \in Nat \ {0}
  BY HandshakeAssumption
<1>3. b.cap = ReadCap /\ b.pos \in 0..ReadCap /\ b.data \in [0..ReadCap-1 -> Nat]
  BY <1>1, <1>2, BufferFields
<1>4. n \in Nat \ {0} /\ b.pos + n <= ReadCap /\ n \in 0..Remaining(b)
  BY <1>1, <1>2, <1>3 DEF Remaining
<1>5. d \in Buffers(ReadCap)
  BY <1>1, <1>2, <1>4, BufferOps
<1>6. /\ d.pos = b.pos + n /\ d.cap = ReadCap
      /\ d.data = [i \in 0..ReadCap-1 |->
                     IF b.pos <= i /\ i < b.pos + n THEN r + (i - b.pos) + 1 ELSE b.data[i]]
  BY <1>3 DEF PutRun, Set
<1>7. \A i \in 0..ReadCap-1 : d.data[i] <= r + n
  <2>1. \A i \in 0..ReadCap-1 : b.data[i] <= r
    BY <1>1 DEF CellsInv
  <2>2. ASSUME NEW i \in 0..ReadCap-1 PROVE d.data[i] <= r + n
    <3>1. d.data[i] = IF b.pos <= i /\ i < b.pos + n THEN r + (i - b.pos) + 1 ELSE b.data[i]
      BY <1>6, Zenon
    <3>2. b.data[i] \in Nat /\ b.data[i] <= r
      BY <1>3, <2>1, Zenon
    <3> HIDE DEF d
    <3> QED
      BY <1>3, <1>4, <3>1, <3>2
  <2> QED
    BY <2>2, Zenon
<1> HIDE DEF d
<1>8. c \in Buffers(ReadCap) /\ c.pos = 0 /\ c.lim = b.pos + n /\ c.data = d.data
  <2>1. n \in Int /\ n <= ReadCap /\ d.pos # 0
    BY <1>2, <1>3, <1>4, <1>6
  <2>2. c = AfterRead(d, n)
    BY DEF d
  <2>3. n \in Nat /\ (d.pos = 0 => n = 0)
    BY <1>4, <2>1
  <2>4. c.data = d.data /\ c.pos = 0 /\ c.lim = d.pos
    BY <1>2, <1>5, <2>2, <2>3, AfterReadFlips
  <2>5. c \in Buffers(ReadCap)
    BY <1>2, <1>5, <2>1, <2>2, AfterReadType
  <2> QED
    BY <1>6, <2>4, <2>5
<1>9. ASSUME NEW i \in 0..ReadCap-1
      PROVE  c.data[i] = IF b.pos <= i /\ i < b.pos + n THEN r + (i - b.pos) + 1 ELSE b.data[i]
  <2>1. c.data = [j \in 0..ReadCap-1 |->
                    IF b.pos <= j /\ j < b.pos + n THEN r + (j - b.pos) + 1 ELSE b.data[j]]
    BY <1>6, <1>8
  <2> QED
    BY <2>1, Zenon
<1>10. r = 0 => b.pos = 0
  BY <1>2 DEF Ready
<1>11. CellsInv(c, r + n)
  <2>1. \A i \in 1..ReadCap-1 : b.data[i] # 1
    BY <1>1 DEF CellsInv
  <2>2. ASSUME NEW i \in 1..ReadCap-1 PROVE c.data[i] # 1
    <3>1. i \in 0..ReadCap-1 /\ i # 0
      OBVIOUS
    <3>2. c.data[i] = IF b.pos <= i /\ i < b.pos + n THEN r + (i - b.pos) + 1 ELSE b.data[i]
      BY <1>9, <3>1, Zenon
    <3>3. b.pos <= i => r + (i - b.pos) + 1 # 1
      BY <1>3, <1>10, <3>1
    <3> QED
      BY <2>1, <3>2, <3>3, Zenon
  <2>3. \A i \in 0..ReadCap-1 : c.data[i] <= r + n
    BY <1>7, <1>8
  <2>4. c \in Buffers(ReadCap)
    BY <1>8
  <2> QED
    BY <2>2, <2>3, <2>4, Zenon DEF CellsInv
<1>12. 0 \in 0..ReadCap-1 /\ r + n # 0 /\ r + n \in Nat
  BY <1>2, <1>4
<1>13. CASE (r = 0 \/ b.data[0] = 1) /\ b.pos = r
  <2>1. HasAll(b, r)
    BY <1>13 DEF Ready
  <2>2. ASSUME NEW i \in 0..ReadCap-1 PROVE c.data[i] = IF i < r + n THEN i + 1 ELSE 0
    <3>1. b.data[i] = IF i < r THEN i + 1 ELSE 0
      BY <2>1, Zenon DEF HasAll
    <3>2. c.data[i] = IF r <= i /\ i < r + n THEN r + (i - r) + 1 ELSE b.data[i]
      BY <1>9, <1>13, Zenon
    <3> QED
      BY <1>4, <3>1, <3>2
  <2>3. HasAll(c, r + n)
    BY <1>4, <1>13, <2>2, Zenon DEF HasAll
  <2>4. c.data[0] = 1
    <3>1. 0 < r + n
      BY <1>12
    <3> QED
      BY <1>12, <2>2, <3>1
  <2>5. FromStart(c, r + n)
    BY <1>8, <1>13, <2>3 DEF FromStart
  <2> QED
    BY <1>8, <1>11, <2>4, <2>5 DEF BufferInv
<1>14. CASE ~((r = 0 \/ b.data[0] = 1) /\ b.pos = r)
  <2>1. c.data[0] = IF b.pos <= 0 /\ 0 < b.pos + n THEN r + (0 - b.pos) + 1 ELSE b.data[0]
    BY <1>9, <1>12, Zenon
  <2>2. r # 0
    BY <1>10, <1>14
  <2>3. b.data[0] = 1 => b.pos = 0
    BY <1>14 DEF Ready
  <2>4. c.data[0] # 1
    <3>1. CASE b.pos = 0
      <4>1. c.data[0] = r + (0 - 0) + 1
        BY <1>4, <2>1, <3>1
      <4> QED
        BY <2>2, <4>1
    <3>2. CASE b.pos # 0
      <4>1. ~(b.pos <= 0)
        BY <1>3, <3>2
      <4> QED
        BY <2>1, <2>3, <3>2, <4>1, Zenon
    <3> QED
      BY <3>1, <3>2
  <2> QED
    BY <1>8, <1>11, <1>12, <1>14, <2>4 DEF BufferInv
<1> QED
  BY <1>13, <1>14

(* A read that brings nothing, and one that fails. *)
LEMMA NoRead ==
  ASSUME NEW r \in Nat, NEW b, Ready(b, r), NEW n \in Int, n <= 0, NEW c, c = AfterRead(b, n)
  PROVE  /\ BufferInv(c, r) /\ c.data = b.data
         /\ n = 0 => c.pos = 0 /\ c.lim = b.pos
<1>1. CellsInv(b, r) /\ b \in Buffers(ReadCap) /\ b.lim = ReadCap
  BY DEF Ready, CellsInv
<1>2. ReadCap \in Nat \ {0}
  BY HandshakeAssumption
<1>3. b.pos \in 0..ReadCap
  BY <1>1, <1>2, BufferFields
<1>4. c \in Buffers(ReadCap)
  BY <1>1, <1>2, AfterReadType
<1>5. CASE n = 0
  <2>1. c.data = b.data /\ c.pos = 0 /\ c.lim = b.pos
    BY <1>1, <1>2, <1>5, AfterReadFlips
  <2>2. CellsInv(c, r) /\ (HasAll(b, r) <=> HasAll(c, r))
    BY <1>1, <1>4, <2>1, SameCells
  <2>3. ASSUME r = 0 \/ c.data[0] = 1 PROVE FromStart(c, r)
    BY <2>1, <2>2, <2>3 DEF Ready, FromStart
  <2> QED
    BY <2>1, <2>2, <2>3 DEF BufferInv
<1>6. CASE n # 0
  <2>1. c = b
    BY <1>6 DEF AfterRead
  <2>2. ASSUME r = 0 \/ b.data[0] = 1 PROVE FromStart(b, r)
    BY <1>1, <2>2 DEF Ready, FromStart
  <2> QED
    BY <1>1, <1>6, <2>1, <2>2 DEF BufferInv
<1> QED
  BY <1>5, <1>6

(* Together: a turn of the loop keeps the invariant, and as long as there   *)
(* is room and no read fails all that was received stays in get mode.       *)
LEMMA ReadStep ==
  ASSUME NEW r \in Nat, NEW a, BufferInv(a, r), NEW b, b = BeforeRead(a),
         NEW n \in Int, n <= Remaining(b), NEW c,
         c = AfterRead(IF n > 0 THEN PutRun(b, r, n) ELSE b, n),
         NEW s, s = r + (IF n > 0 THEN n ELSE 0)
  PROVE  /\ BufferInv(c, s)
         /\ n >= 0 => c.pos = 0
         /\ n >= 0 /\ r < ReadCap /\ (r > 0 => a.data[0] = 1 /\ a.pos = 0 /\ a.lim = r)
              => (s > 0 => c.data[0] = 1) /\ c.lim = s
<1>1. Ready(b, r) /\ (a.pos = 0 /\ a.lim < ReadCap => b.pos = a.lim /\ b.data = a.data)
  BY BeforeReadReady
<1>2. ASSUME r < ReadCap, r > 0 => a.data[0] = 1 /\ a.pos = 0 /\ a.lim = r
      PROVE  b.pos = r /\ (r = 0 \/ b.data[0] = 1)
  BY <1>1, <1>2 DEF Ready
<1>3. CASE n > 0
  <2>1. n \in 1..Remaining(b) /\ s = r + n /\ s > 0
    BY <1>3
  <2>2. c = AfterRead(PutRun(b, r, n), n)
    BY <1>3
  <2>3. /\ BufferInv(c, r + n) /\ c.pos = 0 /\ c.lim = b.pos + n
        /\ b.pos = r /\ (r = 0 \/ b.data[0] = 1) => c.data[0] = 1
    BY <1>1, <2>1, <2>2, SomeRead
  <2> QED
    BY <1>2, <2>1, <2>3
<1>4. CASE ~(n > 0)
  <2>1. n <= 0 /\ s = r /\ c = AfterRead(b, n) /\ (n >= 0 => n = 0)
    BY <1>4
  <2>2. /\ BufferInv(c, r) /\ c.data = b.data
        /\ n = 0 => c.pos = 0 /\ c.lim = b.pos
    BY <1>1, <2>1, NoRead
  <2> QED
    BY <1>2, <2>1, <2>2
<1> QED
  BY <1>3, <1>4

-----------------------------------------------------------------------------
(* What parseHandshake makes of the buffer. *)

LEMMA WindowShape ==
  ASSUME NEW c \in Buffers(ReadCap)
  PROVE  /\ Remaining(c) \in Nat /\ Len(Window(c)) = Remaining(c)
         /\ \A k \in 1..Remaining(c) : /\ k - 1 \in 0..ReadCap-1 /\ c.data[k-1] \in Nat
              /\ Window(c)[k] = IF c.data[k-1] = 0 THEN "zero" ELSE Tokens(answer)[c.data[k-1]]
<1>1. ReadCap \in Nat \ {0}
  BY HandshakeAssumption
<1>2. /\ c.pos \in 0..ReadCap /\ c.lim \in 0..ReadCap /\ c.pos <= c.lim
      /\ c.data \in [0..ReadCap-1 -> Nat]
  BY <1>1, BufferFields
<1>3. Remaining(c) \in Nat /\ Remaining(c) <= ReadCap
  BY <1>1, <1>2 DEF Remaining
<1>4. \A k \in 1..Remaining(c) : k - 1 \in 0..ReadCap-1
  BY <1>1, <1>3
<1>5. Window(c) = [i \in 1..Remaining(c) |->
                     IF c.data[i-1] = 0 THEN "zero" ELSE Tokens(answer)[c.data[i-1]]]
  BY DEF Window
<1>6. Len(Window(c)) = Remaining(c)
  BY <1>3, <1>5
<1>7. \A k \in 1..Remaining(c) : c.data[k-1] \in Nat
  BY <1>2, <1>4, Zenon
<1> QED
  BY <1>3, <1>4, <1>5, <1>6, <1>7, Zenon

LEMMA WindowIsBeginning ==
  ASSUME NEW c \in Buffers(ReadCap), NEW r \in Nat, r <= Len(Tokens(answer)),
         HasAll(c, r), c.pos = 0, c.lim = r
  PROVE  IsBeginning(Window(c), r, answer)
<1>1. Remaining(c) = r
  BY DEF Remaining
<1>2. Len(Window(c)) = r
  BY <1>1, WindowShape
<1>3. ASSUME NEW k \in 1..r PROVE Window(c)[k] = Tokens(answer)[k]
  <2>1. k - 1 \in 0..ReadCap-1
    BY <1>1, WindowShape, Zenon
  <2>2. Window(c)[k] = IF c.data[k-1] = 0 THEN "zero" ELSE Tokens(answer)[c.data[k-1]]
    BY <1>1, WindowShape, Zenon
  <2>3. c.data[k-1] = IF k - 1 < r THEN (k - 1) + 1 ELSE 0
    BY <2>1, Zenon DEF HasAll
  <2>4. k - 1 < r /\ (k - 1) + 1 = k /\ k # 0
    OBVIOUS
  <2> QED
    BY <2>2, <2>3, <2>4, Zenon
<1> QED
  BY <1>2, <1>3, Zenon DEF IsBeginning

(* A protocol token in the window is the first or the second token. *)
LEMMA WindowProtocol ==
  ASSUME IsResponse(answer), NEW r \in Nat, r <= Len(Tokens(answer)), NEW c, CellsInv(c, r),
         NEW k \in 1..Remaining(c), Window(c)[k] \in {"P", "Q"}
  PROVE  c.data[k-1] \in {1, 2} /\ Window(c)[k] = Tokens(answer)[c.data[k-1]]
<1> DEFINE x == c.data[k-1]
           n == Len(answer.headers)
<1>1. c \in Buffers(ReadCap)
  BY DEF CellsInv
<1>2. /\ k - 1 \in 0..ReadCap-1 /\ x \in Nat
      /\ Window(c)[k] = IF x = 0 THEN "zero" ELSE Tokens(answer)[x]
  BY <1>1, WindowShape, Zenon
<1>3. x <= r
  BY <1>2, Zenon DEF CellsInv
<1>4. n \in Nat /\ Len(Tokens(answer)) \in Nat
  BY TokensShape, LenProperties
<1> HIDE DEF x, n
<1>5. x # 0
  BY <1>2
<1>6. x \in 1..Len(Tokens(answer))
  BY <1>2, <1>3, <1>4, <1>5
<1>7. Window(c)[k] = Tokens(answer)[x]
  BY <1>2, <1>5, Zenon
<1>8. x \in {1, 2}
  <2>1. n = Len(answer.headers)
    BY DEF n
  <2> QED
    BY <1>4, <1>6, <1>7, <2>1, WhereTokensAre, Zenon
<1> QED
  BY <1>7, <1>8 DEF x

(* A match is only found when all tokens received are in the buffer. *)
LEMMA MatchedWindow ==
  ASSUME IsResponse(answer), NEW r \in Nat, r <= Len(Tokens(answer)), NEW c,
         BufferInv(c, r), c.pos = 0, ParseHandshake(Window(c)) = "MATCHED"
  PROVE  /\ HasAll(c, r) /\ c.lim = r /\ IsBeginning(Window(c), r, answer)
         /\ Tokens(answer)[1] = "P" /\ Tokens(answer)[2] = "Q" /\ Found(Window(c)) = Wanted
<1> DEFINE t == Window(c)
           m == Remaining(c)
<1>1. CellsInv(c, r) /\ c \in Buffers(ReadCap)
  BY DEF BufferInv, CellsInv
<1>2. m \in Nat /\ Len(t) = m
  BY <1>1, WindowShape
<1> HIDE DEF t, m
<1>3. 2 <= m /\ t[1] = "P" /\ t[2] = "Q" /\ Found(t) = Wanted
  BY <1>2, ParseResults DEF t
<1>4. 1 \in 1..m /\ 2 \in 1..m /\ 1 - 1 = 0 /\ 2 - 1 = 1
  BY <1>2, <1>3
<1>5. c.data[0] \in {1, 2} /\ Tokens(answer)[c.data[0]] = "P"
  <2>1. c.data[1-1] \in {1, 2} /\ t[1] = Tokens(answer)[c.data[1-1]]
    BY <1>1, <1>3, <1>4, WindowProtocol DEF t, m
  <2> QED
    BY <1>3, <1>4, <2>1
<1>6. c.data[1] \in {1, 2} /\ Tokens(answer)[c.data[1]] = "Q"
  <2>1. c.data[2-1] \in {1, 2} /\ t[2] = Tokens(answer)[c.data[2-1]]
    BY <1>1, <1>3, <1>4, WindowProtocol DEF t, m
  <2> QED
    BY <1>3, <1>4, <2>1
<1>7. c.data[1] # 1
  <2>1. m <= ReadCap /\ ReadCap \in Nat
    BY <1>1, BufferFields, HandshakeAssumption DEF m, Remaining
  <2>2. 1 \in 1..ReadCap-1
    BY <1>2, <1>3, <2>1
  <2> QED
    BY <1>1, <2>2, Zenon DEF CellsInv
<1>8. c.data[1] = 2 /\ c.data[0] = 1
  BY <1>5, <1>6, <1>7
<1>9. FromStart(c, r)
  BY <1>8 DEF BufferInv
<1>10. 0 < r
  <2>1. 0 \in 0..ReadCap-1
    BY HandshakeAssumption
  <2>2. c.data[0] = IF 0 < r THEN 0 + 1 ELSE 0
    BY <1>9, <2>1, Zenon DEF FromStart, HasAll
  <2> QED
    BY <1>8, <2>2
<1>11. c.lim = r
  <2>1. c.lim # 0
    <3>1. m = c.lim - 0 /\ c.lim \in Nat
      BY <1>1, BufferFields, HandshakeAssumption DEF m, Remaining
    <3> QED
      BY <1>3, <3>1
  <2> QED
    BY <1>9, <1>10, <2>1 DEF FromStart
<1>12. HasAll(c, r)
  BY <1>9 DEF FromStart
<1>13. IsBeginning(t, r, answer)
  BY <1>1, <1>11, <1>12, WindowIsBeginning DEF t
<1> QED
  BY <1>3, <1>5, <1>6, <1>8, <1>11, <1>12, <1>13 DEF t

LEMMA ProtocolFirst ==
  ASSUME NEW r, IsResponse(r)
  PROVE  /\ Len(Tokens(r)) >= 2
         /\ r.first = Protocol <=> Tokens(r)[1] = "P" /\ Tokens(r)[2] = "Q"
<1>1. /\ Tokens(r)[1] = r.first[1] /\ Tokens(r)[2] = r.first[2]
  BY TokensShape DEF IsLaidOut
<1>2. Len(Tokens(r)) = (3*Len(r.headers) + 6) + r.frames /\ Len(r.headers) \in Nat /\ r.frames \in Nat
  BY TokensShape DEF IsResponse
<1>3. r.first = Protocol <=> r.first[1] = "P" /\ r.first[2] = "Q"
  <2>1. r.first \in [1..2 -> {"P", "Q", "x"}] /\ 1..2 = {1, 2}
    BY DEF IsResponse
  <2>2. Protocol \in [1..2 -> {"P", "Q", "x"}] /\ Protocol[1] = "P" /\ Protocol[2] = "Q"
    BY DEF Protocol
  <2>3. ASSUME r.first[1] = "P", r.first[2] = "Q" PROVE r.first = Protocol
    <3>1. \A i \in 1..2 : r.first[i] = Protocol[i]
      BY <2>1, <2>2, <2>3
    <3> QED
      BY <2>1, <2>2, <3>1
  <2> QED
    BY <2>2, <2>3
<1> QED
  BY <1>1, <1>2, <1>3

(* So the server sent all that is looked for, it has arrived, and the index *)
(* is not behind the response.                                              *)
LEMMA MatchedMeans ==
  ASSUME IsResponse(answer), NEW r \in Nat, r <= Len(Tokens(answer)), NEW c,
         BufferInv(c, r), c.pos = 0, ParseHandshake(Window(c)) = "MATCHED"
  PROVE  /\ Valid(answer)
         /\ \A h \in Wanted : \E i \in DOMAIN answer.headers :
              answer.headers[i] = h /\ 4 + 3 * i <= r
         /\ Remaining(c) = r /\ Holds(c, c.pos, c.lim, 0)
         /\ Index(Window(c)) \in 0..r /\ Index(Window(c)) <= Len(Lines(answer))
<1> DEFINE t == Window(c)
           n == Len(answer.headers)
<1>1. /\ HasAll(c, r) /\ c.lim = r /\ IsBeginning(t, r, answer)
      /\ Tokens(answer)[1] = "P" /\ Tokens(answer)[2] = "Q" /\ Found(t) = Wanted
  BY MatchedWindow
<1>2. n \in Nat /\ n = Len(answer.headers) /\ Len(Lines(answer)) = 3*n + 6
  BY TokensShape
<1>3. DOMAIN answer.headers = 1..n
  BY LenProperties DEF IsResponse
<1>4. CellsInv(c, r) /\ c \in Buffers(ReadCap)
  BY DEF BufferInv, CellsInv
<1> HIDE DEF t, n
<1>5. ASSUME NEW h \in Wanted
      PROVE  \E i \in 1..n : answer.headers[i] = h /\ 3*i + 4 <= r
  <2>1. h \in Found(t) /\ IsBeginning(t, r, answer)
    BY <1>1
  <2> QED
    BY <1>2, <2>1, FoundAre
<1>6. ASSUME NEW h \in Wanted
      PROVE  \E i \in DOMAIN answer.headers : answer.headers[i] = h /\ 4 + 3 * i <= r
  <2>1. PICK i \in 1..n : answer.headers[i] = h /\ 3*i + 4 <= r
    BY <1>5, Zenon
  <2>2. 4 + 3 * i <= r
    BY <1>2, <2>1
  <2> QED
    BY <1>3, <2>1, <2>2, Zenon
<1>7. Valid(answer)
  <2>1. answer.first = Protocol
    BY <1>1, ProtocolFirst, Zenon
  <2>2. Wanted \subseteq {answer.headers[i] : i \in DOMAIN answer.headers}
    BY <1>6, Zenon
  <2> QED
    BY <2>1, <2>2 DEF Valid
<1>8. Holds(c, c.pos, c.lim, 0)
  <2>1. c.cap = ReadCap
    BY <1>4, BufferFields, HandshakeAssumption
  <2>2. ASSUME NEW i \in 0..ReadCap-1, i < r PROVE c.data[i] = 0 + (i - 0) + 1
    <3>1. c.data[i] = IF i < r THEN i + 1 ELSE 0
      BY <1>1, Zenon DEF HasAll
    <3> QED
      BY <2>2, <3>1
  <2> QED
    BY <1>1, <2>1, <2>2 DEF Holds
<1>9. Remaining(c) = r
  BY <1>1 DEF Remaining
<1>10. Index(t) = IF 3*n + 6 <= r THEN 3*n + 6 ELSE r
  <2>1. IsBeginning(t, r, answer)
    BY <1>1
  <2> QED
    BY <1>2, <2>1, IndexIs
<1>11. Index(t) \in 0..r /\ Index(t) <= Len(Lines(answer))
  BY <1>2, <1>10
<1> QED
  BY <1>6, <1>7, <1>8, <1>9, <1>11 DEF t

(* A beginning of a valid response is not rejected, and the whole response   *)
(* is accepted.                                                              *)
LEMMA ValidParses ==
  ASSUME IsResponse(answer), Valid(answer), NEW r \in Nat, NEW t, IsBeginning(t, r, answer)
  PROVE  /\ ParseHandshake(t) # "INVALID_PROTOCOL"
         /\ Len(Lines(answer)) <= r => ParseHandshake(t) = "MATCHED"
<1> DEFINE n == Len(answer.headers)
<1>1. Tokens(answer)[1] = "P" /\ Tokens(answer)[2] = "Q"
  BY ProtocolFirst, Zenon DEF Valid
<1>2. n \in Nat /\ n = Len(answer.headers) /\ Len(Lines(answer)) = 3*n + 6
  BY TokensShape
<1>3. DOMAIN answer.headers = 1..n
  BY LenProperties DEF IsResponse
<1> HIDE DEF n
<1>4. Len(t) = r /\ \A k \in 1..r : t[k] = Tokens(answer)[k]
  BY Zenon DEF IsBeginning
<1>5. (1 <= r => t[1] = "P") /\ (2 <= r => t[2] = "Q")
  <2>1. (1 <= r => 1 \in 1..r) /\ (2 <= r => 2 \in 1..r)
    OBVIOUS
  <2> QED
    BY <1>1, <1>4, <2>1, Zenon
<1>6. ASSUME Len(Lines(answer)) <= r PROVE 2 <= r /\ Found(t) = Wanted
  <2>1. 2 <= r /\ 3*n + 6 <= r
    BY <1>2, <1>6
  <2>2. ASSUME NEW h \in Wanted PROVE h \in Found(t)
    <3>1. PICK i \in 1..n : answer.headers[i] = h
      BY <1>3, Zenon DEF Valid
    <3>2. 3*i + 4 <= r
      BY <1>2, <2>1
    <3> QED
      BY <1>2, <3>1, <3>2, FoundAre, Zenon
  <2>3. Found(t) \subseteq Wanted
    BY Zenon DEF Found
  <2> QED
    BY <2>1, <2>2, <2>3, Zenon
<1> QED
  BY <1>4, <1>5, <1>6, ParseResults

-----------------------------------------------------------------------------
(* The inductive invariant. *)

LEMMA AnswerShape ==
  ASSUME answer \in Responses
  PROVE  /\ IsResponse(answer)
         /\ Len(Lines(answer)) \in Nat \ {0} /\ Len(Tokens(answer)) \in Nat
         /\ Len(Lines(answer)) <= Len(Tokens(answer))
<1>1. IsResponse(answer)
  BY HandshakeAssumption DEF IsResponse
<1>2. /\ Len(answer.headers) \in Nat /\ Len(Lines(answer)) = 3*Len(answer.headers) + 6
      /\ Len(Tokens(answer)) = (3*Len(answer.headers) + 6) + answer.frames /\ answer.frames \in Nat
  BY <1>1, TokensShape DEF IsResponse
<1> QED
  BY <1>1, <1>2

LEMMA SocketReadsAre ==
  ASSUME Control, NEW len \in Nat \ {0}, NEW n \in SocketReads(len)
  PROVE  /\ n \in Int /\ n <= len
         /\ n > 0 => asked /\ rcvd + n <= sent
         /\ asked /\ rcvd < sent => n >= 0
<1>1. rcvd \in Nat /\ sent \in Nat /\ rcvd <= sent
  BY DEF Control
<1>2. CASE asked /\ rcvd < sent
  <2>1. n \in 0..Min2(len, sent - rcvd)
    BY <1>2 DEF SocketReads
  <2> QED
    BY <1>1, <1>2, <2>1 DEF Min2
<1>3. CASE ~(asked /\ rcvd < sent)
  <2>1. n \in {-1, 0}
    BY <1>3 DEF SocketReads
  <2> QED
    BY <1>1, <1>3, <2>1
<1> QED
  BY <1>2, <1>3

(* A turn of acceptHandshake's loop: the tokens received, the buffer, what  *)
(* a match means and what is made of a valid response that fits.            *)
LEMMA AcceptTurn ==
  ASSUME HandshakeInv, phase = "accept", NEW b, b = BeforeRead(readBuffer),
         NEW n \in SocketReads(Remaining(b)),
         NEW c, c = AfterRead(IF n > 0 THEN PutRun(b, rcvd, n) ELSE b, n),
         NEW t, t = Window(c),
         NEW parsed, parsed = IF n < 0 \/ t = <<>> THEN "INCOMPLETE" ELSE ParseHandshake(t),
         NEW s, s = rcvd + (IF n > 0 THEN n ELSE 0)
  PROVE  /\ s \in Nat /\ s <= sent /\ (~asked => s = 0) /\ BufferInv(c, s)
         /\ parsed \in {"MATCHED", "INVALID_PROTOCOL", "INCOMPLETE"}
         /\ parsed = "MATCHED" =>
              /\ Valid(answer)
              /\ \A h \in Wanted : \E i \in DOMAIN answer.headers :
                   answer.headers[i] = h /\ 4 + 3 * i <= s
              /\ Remaining(c) = s /\ Holds(c, c.pos, c.lim, 0)
              /\ Index(t) \in 0..s /\ Index(t) <= Len(Lines(answer))
         /\ Fits => /\ parsed # "INVALID_PROTOCOL"
                    /\ parsed = "INCOMPLETE" => s < Len(Lines(answer)) /\
                         (s > 0 => c.data[0] = 1 /\ c.pos = 0 /\ c.lim = s)
<1>1. /\ Control /\ BufferInv(readBuffer, rcvd) /\ InTime
      /\ rcvd \in Nat /\ sent \in Nat /\ rcvd <= sent /\ sent <= Len(Tokens(answer))
      /\ answer \in Responses /\ (~asked => rcvd = 0) /\ asked \in BOOLEAN
  BY DEF HandshakeInv, Control
<1>2. /\ IsResponse(answer)
      /\ Len(Lines(answer)) \in Nat \ {0} /\ Len(Tokens(answer)) \in Nat
  BY <1>1, AnswerShape
<1>3. Remaining(b) \in Nat \ {0}
  <2>1. Ready(b, rcvd)
    BY <1>1, BeforeReadReady
  <2>2. b \in Buffers(ReadCap) /\ b.lim = ReadCap /\ b.pos < ReadCap
    BY <2>1 DEF Ready, CellsInv
  <2> QED
    BY <2>2, BufferFields, HandshakeAssumption DEF Remaining
<1>4. /\ n \in Int /\ n <= Remaining(b)
      /\ n > 0 => asked /\ rcvd + n <= sent
      /\ asked /\ rcvd < sent => n >= 0
  BY <1>1, <1>3, SocketReadsAre
<1>5. s \in Nat /\ s <= sent /\ s <= Len(Tokens(answer)) /\ (~asked => s = 0)
  BY <1>1, <1>2, <1>4
<1>6. /\ BufferInv(c, s)
      /\ n >= 0 => c.pos = 0
      /\ n >= 0 /\ rcvd < ReadCap
           /\ (rcvd > 0 => readBuffer.data[0] = 1 /\ readBuffer.pos = 0 /\ readBuffer.lim = rcvd)
           => (s > 0 => c.data[0] = 1) /\ c.lim = s
  BY <1>1, <1>4, ReadStep
<1>7. c \in Buffers(ReadCap)
  BY <1>6 DEF BufferInv, CellsInv
<1>8. Len(t) \in Nat
  BY <1>7, WindowShape
<1>9. /\ parsed \in {"MATCHED", "INVALID_PROTOCOL", "INCOMPLETE"}
      /\ parsed # "INCOMPLETE" => n >= 0 /\ parsed = ParseHandshake(t)
  <2>1. ParseHandshake(t) \in {"MATCHED", "INVALID_PROTOCOL", "INCOMPLETE"}
    BY <1>8, ParseResults
  <2>2. ~(n < 0) => n >= 0
    BY <1>4
  <2> QED
    BY <2>1, <2>2
<1>10. ASSUME parsed = "MATCHED"
       PROVE  /\ Valid(answer)
              /\ \A h \in Wanted : \E i \in DOMAIN answer.headers :
                   answer.headers[i] = h /\ 4 + 3 * i <= s
              /\ Remaining(c) = s /\ Holds(c, c.pos, c.lim, 0)
              /\ Index(t) \in 0..s /\ Index(t) <= Len(Lines(answer))
  <2>1. n >= 0 /\ ParseHandshake(t) = "MATCHED"
    BY <1>9, <1>10, Zenon
  <2>2. c.pos = 0 /\ ParseHandshake(Window(c)) = "MATCHED"
    BY <1>6, <2>1, Zenon
  <2> QED
    BY <1>2, <1>5, <1>6, <2>2, MatchedMeans
<1>11. ASSUME Fits
       PROVE  /\ parsed # "INVALID_PROTOCOL"
              /\ parsed = "INCOMPLETE" => s < Len(Lines(answer)) /\
                   (s > 0 => c.data[0] = 1 /\ c.pos = 0 /\ c.lim = s)
  <2>1. /\ Valid(answer) /\ rcvd < ReadCap /\ rcvd < sent
        /\ rcvd > 0 => readBuffer.data[0] = 1 /\ readBuffer.pos = 0 /\ readBuffer.lim = rcvd
    <3>1. /\ Valid(answer) /\ rcvd < Len(Lines(answer))
          /\ Len(Lines(answer)) <= Min2(ReadCap, sent)
          /\ rcvd > 0 => readBuffer.data[0] = 1 /\ readBuffer.pos = 0 /\ readBuffer.lim = rcvd
      BY <1>1, <1>11 DEF InTime, Fits
    <3>2. Len(Lines(answer)) <= ReadCap /\ Len(Lines(answer)) <= sent
      BY <1>1, <1>2, <3>1, HandshakeAssumption DEF Min2
    <3> QED
      BY <1>1, <1>2, <3>1, <3>2, HandshakeAssumption
  <2>2. CASE n >= 0
    <3>1. (s > 0 => c.data[0] = 1) /\ c.lim = s /\ c.pos = 0
      BY <1>6, <2>1, <2>2
    <3>2. s = 0 \/ c.data[0] = 1
      BY <1>5, <3>1
    <3>3. HasAll(c, s)
      BY <1>6, <3>2 DEF BufferInv, FromStart
    <3>4. IsBeginning(t, s, answer)
      BY <1>5, <1>7, <3>1, <3>3, WindowIsBeginning
    <3>5. /\ ParseHandshake(t) # "INVALID_PROTOCOL"
          /\ Len(Lines(answer)) <= s => ParseHandshake(t) = "MATCHED"
      BY <1>2, <1>5, <2>1, <3>4, ValidParses
    <3>6. t = <<>> => s = 0
      BY <3>4 DEF IsBeginning
    <3>7. parsed = "INCOMPLETE" => s < Len(Lines(answer))
      <4>1. CASE s = 0
        BY <1>2, <4>1
      <4>2. CASE s # 0
        <5>1. parsed = ParseHandshake(t)
          BY <1>4, <2>2, <3>6, <4>2
        <5> QED
          BY <1>2, <1>5, <3>5, <5>1
      <4> QED
        BY <4>1, <4>2
    <3> QED
      BY <1>9, <3>1, <3>5, <3>7
  <2>3. CASE ~(n >= 0)
    <3>1. s = 0
      BY <1>1, <1>4, <1>5, <2>1, <2>3
    <3> QED
      BY <1>2, <1>9, <2>3, <3>1
  <2> QED
    BY <2>2, <2>3
<1> QED
  BY <1>5, <1>6, <1>9, <1>10, <1>11, Zenon

LEMMA InitInv ==
  Init => HandshakeInv
<1> SUFFICES ASSUME Init PROVE HandshakeInv
  OBVIOUS
<1> DEFINE b == EmptyRead(Allocate(ReadCap))
<1>1. /\ phase = "send" /\ result = "none" /\ asked = FALSE /\ link = "up" /\ rcvd = 0
      /\ answer \in Responses /\ sent = Len(Tokens(answer)) /\ readBuffer = b
  BY DEF Init
<1>2. ReadCap \in Nat \ {0}
  BY HandshakeAssumption
<1>3. b \in Buffers(ReadCap)
  BY <1>2, AllocateType, BufferOps
<1>4. b.pos = 0 /\ b.lim = 0 /\ b.data = [i \in 0..ReadCap-1 |-> 0]
  BY <1>2 DEF EmptyRead, SetLimit, Clear, Allocate, Set
<1> HIDE DEF b
<1>5. \A i \in 0..ReadCap-1 : b.data[i] = 0
  BY <1>4, Zenon
<1>6. CellsInv(b, 0)
  BY <1>3, <1>5 DEF CellsInv
<1>7. FromStart(b, 0)
  BY <1>2, <1>4, <1>5 DEF FromStart, HasAll
<1>8. Len(Lines(answer)) \in Nat \ {0} /\ Len(Tokens(answer)) \in Nat
  BY <1>1, AnswerShape
<1>9. Control
  <2>1. rcvd \in Nat /\ sent \in Nat /\ rcvd <= sent /\ sent <= Len(Tokens(answer))
    BY <1>1, <1>8
  <2>2. asked \in BOOLEAN /\ ~asked
    BY <1>1, Zenon
  <2> QED
    BY <1>1, <2>1, <2>2 DEF Control
<1>10. BufferInv(readBuffer, rcvd)
  BY <1>1, <1>6, <1>7 DEF BufferInv
<1>11. InTime
  BY <1>1, <1>8 DEF InTime
<1>12. MatchedIsReal /\ ValidNotRejected /\ FramesSurvive
  BY <1>1 DEF MatchedIsReal, ValidNotRejected, FramesSurvive
<1> QED
  BY <1>1, <1>3, <1>9, <1>10, <1>11, <1>12 DEF HandshakeInv

(* sendHandshake *)
LEMMA SendInv ==
  HandshakeInv /\ SendHandshake => HandshakeInv'
<1> SUFFICES ASSUME HandshakeInv, SendHandshake PROVE HandshakeInv'
  OBVIOUS
<1>1. /\ phase = "send" /\ result = "none" /\ Control /\ readBuffer \in Buffers(ReadCap)
      /\ BufferInv(readBuffer, rcvd) /\ InTime
  BY DEF HandshakeInv, Control, SendHandshake
<1>2. answer' = answer /\ sent' = sent /\ link' = link /\ readBuffer' = readBuffer /\ rcvd' = rcvd
  BY DEF SendHandshake
<1>3. \/ phase' = "accept" /\ asked' \in BOOLEAN /\ result' = "none"
      \/ phase' = "done" /\ asked' = FALSE /\ result' = "INVALID_WRITE"
  BY <1>1 DEF SendHandshake
<1>4. rcvd = 0
  BY <1>1 DEF Control
<1>5. Control'
  BY <1>1, <1>2, <1>3, <1>4, Zenon DEF Control
<1>6. BufferInv(readBuffer', rcvd')
  BY <1>1, <1>2
<1>7. InTime'
  BY <1>1, <1>2 DEF InTime, Fits
<1>8. (MatchedIsReal /\ ValidNotRejected /\ FramesSurvive)'
  BY <1>3 DEF MatchedIsReal, ValidNotRejected, FramesSurvive
<1> QED
  BY <1>1, <1>2, <1>5, <1>6, <1>7, <1>8 DEF HandshakeInv

LEMMA ControlStep ==
  ASSUME Control, phase = "accept", answer' = answer, sent' = sent, link' = link, asked' = asked,
         rcvd' \in Nat, rcvd' <= sent, ~asked => rcvd' = 0,
         \/ phase' = "accept" /\ result' = "none"
         \/ phase' = "done" /\ result' \in {"MATCHED", "INVALID_PROTOCOL", "INVALID_READ"}
  PROVE  Control'
BY DEF Control

(* acceptHandshake *)
LEMMA AcceptInv ==
  HandshakeInv /\ AcceptHandshake => HandshakeInv'
<1> SUFFICES ASSUME HandshakeInv, AcceptHandshake PROVE HandshakeInv'
  OBVIOUS
<1>1. /\ phase = "accept" /\ result = "none" /\ Control /\ readBuffer \in Buffers(ReadCap)
  BY DEF HandshakeInv, Control, AcceptHandshake
<1>2. answer' = answer /\ sent' = sent /\ link' = link /\ asked' = asked
  BY DEF AcceptHandshake
<1>3. ReadCap \in Nat \ {0} /\ Len(Lines(answer)) \in Nat
  BY <1>1, HandshakeAssumption, AnswerShape DEF Control
<1>4. CASE /\ phase' = "done" /\ result' = "INVALID_READ"
           /\ readBuffer' = BeforeRead(readBuffer) /\ rcvd' = rcvd
  <2>1. Control'
    BY <1>1, <1>2, <1>4 DEF Control
  <2>2. (InTime /\ MatchedIsReal /\ ValidNotRejected /\ FramesSurvive)'
    BY <1>4 DEF InTime, MatchedIsReal, ValidNotRejected, FramesSurvive
  <2>3. readBuffer' \in Buffers(ReadCap)
    BY <1>1, <1>3, <1>4, BeforeReadType
  <2> QED
    BY <1>4, <2>1, <2>2, <2>3 DEF HandshakeInv
<1>5. ASSUME NEW b \in {BeforeRead(readBuffer)}, NEW n \in SocketReads(Remaining(b)),
             NEW c \in {AfterRead(IF n > 0 THEN PutRun(b, rcvd, n) ELSE b, n)},
             NEW t \in {Window(c)},
             NEW parsed \in {IF n < 0 \/ t = <<>> THEN "INCOMPLETE" ELSE ParseHandshake(t)},
             rcvd' = rcvd + (IF n > 0 THEN n ELSE 0),
             readBuffer' = IF parsed = "MATCHED" THEN Advance(c, Index(t)) ELSE c,
             IF parsed = "INCOMPLETE" THEN UNCHANGED <<phase, result>>
             ELSE phase' = "done" /\ result' = parsed
      PROVE  HandshakeInv'
  <2> DEFINE s == rcvd + (IF n > 0 THEN n ELSE 0)
  <2>1. /\ s \in Nat /\ s <= sent /\ (~asked => s = 0) /\ BufferInv(c, s)
        /\ parsed \in {"MATCHED", "INVALID_PROTOCOL", "INCOMPLETE"}
        /\ parsed = "MATCHED" =>
             /\ Valid(answer)
             /\ \A h \in Wanted : \E i \in DOMAIN answer.headers :
                  answer.headers[i] = h /\ 4 + 3 * i <= s
             /\ Remaining(c) = s /\ Holds(c, c.pos, c.lim, 0)
             /\ Index(t) \in 0..s /\ Index(t) <= Len(Lines(answer))
        /\ Fits => /\ parsed # "INVALID_PROTOCOL"
                   /\ parsed = "INCOMPLETE" => s < Len(Lines(answer)) /\
                        (s > 0 => c.data[0] = 1 /\ c.pos = 0 /\ c.lim = s)
    BY <1>1, AcceptTurn
  <2>2. rcvd' = s
    BY <1>5
  <2> HIDE DEF s
  <2>3. c \in Buffers(ReadCap)
    BY <2>1 DEF BufferInv, CellsInv
  <2>4. rcvd' \in Nat /\ rcvd' <= sent /\ (~asked => rcvd' = 0)
    BY <2>1, <2>2, Zenon
  <2>5. CASE parsed = "INCOMPLETE"
    <3>1. phase' = "accept" /\ result' = "none" /\ readBuffer' = c
      BY <1>1, <1>5, <2>5, Zenon
    <3>2. Control'
      BY <1>1, <1>2, <2>4, <3>1, ControlStep
    <3>3. InTime'
      BY <1>2, <2>1, <2>2, <2>5, <3>1 DEF InTime, Fits
    <3>4. (MatchedIsReal /\ ValidNotRejected /\ FramesSurvive)'
      BY <3>1 DEF MatchedIsReal, ValidNotRejected, FramesSurvive
    <3>5. BufferInv(readBuffer', rcvd')
      BY <2>1, <2>2, <3>1
    <3> QED
      BY <2>3, <3>1, <3>2, <3>3, <3>4, <3>5 DEF HandshakeInv
  <2>6. CASE parsed = "INVALID_PROTOCOL"
    <3>1. phase' = "done" /\ result' = "INVALID_PROTOCOL" /\ readBuffer' = c
      BY <1>5, <2>6, Zenon
    <3>2. Control'
      BY <1>1, <1>2, <2>4, <3>1, ControlStep
    <3>3. (InTime /\ MatchedIsReal /\ FramesSurvive)'
      BY <3>1 DEF InTime, MatchedIsReal, FramesSurvive
    <3>4. ValidNotRejected'
      BY <1>2, <2>1, <2>6 DEF ValidNotRejected, Fits
    <3> QED
      BY <2>3, <3>1, <3>2, <3>3, <3>4 DEF HandshakeInv
  <2>7. CASE parsed = "MATCHED"
    <3> DEFINE k == Index(t)
               d == Advance(c, k)
    <3>1. phase' = "done" /\ result' = "MATCHED" /\ readBuffer' = d
      BY <1>5, <2>7, Zenon
    <3>2. Control'
      BY <1>1, <1>2, <2>4, <3>1, ControlStep
    <3>3. (InTime /\ ValidNotRejected)'
      BY <3>1, Zenon DEF InTime, ValidNotRejected
    <3>4. /\ Valid(answer)
          /\ \A h \in Wanted : \E i \in DOMAIN answer.headers :
               answer.headers[i] = h /\ 4 + 3 * i <= s
      BY <2>1, <2>7, Zenon
    <3>5. MatchedIsReal'
      BY <1>2, <2>2, <3>4, Zenon DEF MatchedIsReal
    <3>6. /\ Remaining(c) = s /\ Holds(c, c.pos, c.lim, 0)
          /\ k \in 0..s /\ k <= Len(Lines(answer))
      BY <2>1, <2>7, Zenon
    <3> HIDE DEF k
    <3>7. 0 \in Nat /\ 0 + k = k /\ k \in 0..Remaining(c)
      BY <3>6
    <3>8. /\ d \in Buffers(ReadCap) /\ Remaining(d) = Remaining(c) - k
          /\ Holds(d, d.pos, d.lim, k)
      <4>1. /\ d \in Buffers(ReadCap) /\ Remaining(d) = Remaining(c) - k
            /\ Holds(d, d.pos, d.lim, 0 + k)
        BY <1>3, <2>3, <3>6, <3>7, AdvanceKeepsUnread
      <4> QED
        BY <3>7, <4>1
    <3> HIDE DEF d
    <3>9. s - Remaining(d) = k
      BY <2>1, <3>6, <3>8
    <3>10. FramesSurvive'
      BY <1>2, <2>2, <3>1, <3>6, <3>8, <3>9 DEF FramesSurvive
    <3> QED
      BY <3>1, <3>2, <3>3, <3>5, <3>8, <3>10 DEF HandshakeInv
  <2>8. parsed \in {"MATCHED", "INVALID_PROTOCOL", "INCOMPLETE"}
    BY <2>1, Zenon
  <2> QED
    BY <2>5, <2>6, <2>7, <2>8, Zenon
<1> QED
  BY <1>4, <1>5 DEF AcceptHandshake

(* The server closes. *)
LEMMA CloseInv ==
  HandshakeInv /\ ServerClose => HandshakeInv'
<1> SUFFICES ASSUME HandshakeInv, ServerClose PROVE HandshakeInv'
  OBVIOUS
<1>1. /\ phase # "done" /\ result = "none" /\ Control /\ readBuffer \in Buffers(ReadCap)
      /\ BufferInv(readBuffer, rcvd) /\ InTime
  BY DEF HandshakeInv, Control, ServerClose
<1>2. /\ phase' = phase /\ result' = result /\ answer' = answer /\ asked' = asked
      /\ readBuffer' = readBuffer /\ rcvd' = rcvd /\ link' = "eof" /\ sent' \in rcvd..sent
  BY DEF ServerClose
<1>3. /\ rcvd \in Nat /\ sent \in Nat /\ Len(Tokens(answer)) \in Nat /\ Len(Lines(answer)) \in Nat
      /\ sent <= Len(Tokens(answer)) /\ ReadCap \in Nat
  BY <1>1, AnswerShape, HandshakeAssumption DEF Control
<1>4. sent' \in Nat /\ rcvd <= sent' /\ sent' <= sent /\ sent' <= Len(Tokens(answer))
  BY <1>2, <1>3
<1>5. Control'
  BY <1>1, <1>2, <1>4 DEF Control
<1>6. ASSUME Fits' PROVE Fits
  <2>1. Valid(answer) /\ Len(Lines(answer)) <= Min2(ReadCap, sent')
    BY <1>2, <1>6 DEF Fits
  <2>2. Len(Lines(answer)) <= Min2(ReadCap, sent)
    BY <1>3, <1>4, <2>1 DEF Min2
  <2> QED
    BY <2>1, <2>2 DEF Fits
<1>7. InTime'
  BY <1>1, <1>2, <1>6 DEF InTime
<1>8. (MatchedIsReal /\ ValidNotRejected /\ FramesSurvive)'
  BY <1>1, <1>2 DEF MatchedIsReal, ValidNotRejected, FramesSurvive
<1>9. BufferInv(readBuffer', rcvd')
  BY <1>1, <1>2
<1> QED
  BY <1>1, <1>2, <1>5, <1>7, <1>8, <1>9 DEF HandshakeInv

LEMMA UnchangedInv ==
  HandshakeInv /\ UNCHANGED vars => HandshakeInv'
BY DEF HandshakeInv, vars, Control, InTime, Fits, MatchedIsReal, ValidNotRejected, FramesSurvive

LEMMA NextInv ==
  HandshakeInv /\ [Next]_vars => HandshakeInv'
BY SendInv, AcceptInv, CloseInv, UnchangedInv, Zenon DEF Next, Done

(* The inductive invariant holds in every state of the attempt. *)
THEOREM HandshakeAlways == Spec => []HandshakeInv
<1>1. Init => HandshakeInv
  BY InitInv
<1>2. HandshakeInv /\ [Next]_vars => HandshakeInv'
  BY NextInv
<1> QED
  BY <1>1, <1>2, PTL DEF Spec

(* HandshakeHandler.attemptHandshake: the phases and results are those of   *)
(* the code, no more arrives than is sent, and the position of the read     *)
(* buffer never passes its limit, whatever is cut, closed or fails.         *)
THEOREM HandshakeTypes == Spec => []TypeOK
<1>1. HandshakeInv => TypeOK
  <2> SUFFICES ASSUME HandshakeInv PROVE TypeOK
    OBVIOUS
  <2>1. readBuffer.pos \in 0..ReadCap /\ readBuffer.lim \in 0..ReadCap /\ readBuffer.pos <= readBuffer.lim
    BY BufferFields, HandshakeAssumption DEF HandshakeInv
  <2>2. readBuffer.pos \in 0..readBuffer.lim
    BY <2>1, HandshakeAssumption
  <2> QED
    BY <2>1, <2>2 DEF HandshakeInv, Control, TypeOK
<1> QED
  BY <1>1, HandshakeAlways, PTL

(* RFC6455.parseHandshake: MATCHED is returned only after the protocol line *)
(* and the line of every header looked for have really arrived, for every   *)
(* response, every way of cutting it and every size of the read buffer.     *)
THEOREM HandshakeMatched == Spec => []MatchedIsReal
<1>1. HandshakeInv => MatchedIsReal
  BY DEF HandshakeInv
<1> QED
  BY <1>1, HandshakeAlways, PTL

(* RFC6455.parseHandshake: a valid response that fits the read buffer and   *)
(* is sent whole is never taken for another protocol.                       *)
THEOREM HandshakeNotRejected == Spec => []ValidNotRejected
<1>1. HandshakeInv => ValidNotRejected
  BY DEF HandshakeInv
<1> QED
  BY <1>1, HandshakeAlways, PTL

(* HandshakeHandler.acceptHandshake: the index that a match returns is      *)
(* never behind the response, so that frames which arrived with it stay     *)
(* unread and in order.                                                     *)
THEOREM HandshakeFrames == Spec => []FramesSurvive
<1>1. HandshakeInv => FramesSurvive
  BY DEF HandshakeInv
<1> QED
  BY <1>1, HandshakeAlways, PTL
=============================================================================
