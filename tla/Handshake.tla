------------------------------ MODULE Handshake -----------------------------
(***************************************************************************)
(* HandshakeHandler.attemptHandshake with RFC6455.parseHandshake: the      *)
(* request is written once, then the response is read and parsed from the  *)
(* start of the buffer until the parse says something else than INCOMPLETE.*)
(*                                                                         *)
(* A response is a record: the first line's text (two tokens, the protocol  *)
(* prefix or something else), the header lines' texts ("u", "c", "a" for    *)
(* the three headers looked for, "x" for others) and the number of tokens   *)
(* of the first frames that follow it.  A token is the unit in which the    *)
(* response can be cut into packets.                                        *)
(***************************************************************************)
EXTENDS SocketBuffers, Sequences, FiniteSetsExt, Functions

CONSTANTS
  ReadCap,    \* readBufferSize, in tokens
  Responses   \* what the server may answer

CR == "cr"
LF == "lf"
Protocol == <<"P", "Q">>
Wanted == {"u", "c", "a"}

ASSUME HandshakeAssumption ==
  /\ ReadCap \in Nat \ {0}
  /\ \A r \in Responses :
       /\ r.first \in [1..2 -> {"P", "Q", "x"}]
       /\ r.headers \in Seq(Wanted \cup {"x"}) /\ r.frames \in Nat

(* The tokens of a response: the lines, an empty line, the frames. *)
HeaderLines(headers) ==
  [k \in 1..3*Len(headers) |->
     IF k % 3 = 1 THEN headers[(k + 2) \div 3] ELSE IF k % 3 = 2 THEN CR ELSE LF]
Lines(r) == (r.first \o <<CR, LF>>) \o (HeaderLines(r.headers) \o <<CR, LF>>)
Tokens(r) == Lines(r) \o [i \in 1..r.frames |-> "frame"]

VARIABLES
  phase,      \* attemptHandshake: "send", "accept", "done"
  result,     \* the HandshakeState it ended with
  answer,     \* the server's response
  sent,       \* how many of its tokens the server sends before it stops
  asked,      \* the whole request was written
  link,       \* "up", or "eof" once the server closed
  readBuffer,
  rcvd        \* the last token received

vars == <<phase, result, answer, sent, asked, link, readBuffer, rcvd>>

(* SocketClient.connect() has just cleared the buffers. *)
Init ==
  /\ phase = "send" /\ result = "none" /\ asked = FALSE /\ link = "up"
  /\ answer \in Responses /\ sent = Len(Tokens(answer))
  /\ readBuffer = EmptyRead(Allocate(ReadCap)) /\ rcvd = 0

(* sendHandshake: client.write() is called once and its result ignored, so  *)
(* the request may have gone out in part or not at all; an IOException      *)
(* (only a java.net socket throws one here) is reported as INVALID_WRITE.   *)
SendHandshake ==
  /\ phase = "send"
  /\ \/ phase' = "accept" /\ asked' \in BOOLEAN /\ result' = result
     \/ phase' = "done" /\ asked' = FALSE /\ result' = "INVALID_WRITE"
  /\ UNCHANGED <<answer, sent, link, readBuffer, rcvd>>

(* The readable tokens of b, from absolute index 0 as parseHandshake reads   *)
(* them.                                                                     *)
Window(b) ==
  LET tokens == Tokens(answer)
  IN  [i \in 1..Remaining(b) |-> IF b.data[i-1] = 0 THEN "zero" ELSE tokens[b.data[i-1]]]

(* The line that ends at the line feed in place j of t. *)
Line(t, j) ==
  LET before == {i \in 1..j-1 : t[i] = LF}
      from == IF before = {} THEN 1 ELSE Max(before) + 1
  IN  SubSeq(t, from, j - 1)

(* The line feeds after the status line at which the header loop looks, up  *)
(* to and including the one that ends the empty line.                       *)
HeaderEnds(t) ==
  LET ends == {j \in Len(Protocol)+1..Len(t) : t[j] = LF}
      after == IF ends = {} THEN {} ELSE ends \ {Min(ends)}
      blank == {j \in after : Line(t, j) = <<CR>>}
  IN  IF blank = {} THEN after ELSE {j \in after : j <= Min(blank)}

(* Mutation: the line that follows the status line is not looked at. *)
Found_SkipsFirst(t) ==
  LET ends == HeaderEnds(t) IN
  {h \in Wanted : \E j \in ends : (\E i \in ends : i < j) /\ h \in Range(Line(t, j))}

(* The headers found. *)
Found(t) ==
  LET ends == HeaderEnds(t) IN {h \in Wanted : \E j \in ends : h \in Range(Line(t, j))}

(* Mutation: the index is counted one too far. *)
Index_OnePast(t) == Len(t) + 1

(* Mutation: a match consumes everything that has been received. *)
Index_AllReceived(t) == Len(t)

(* Where the header loop stops: behind the empty line, or at the end of     *)
(* what has been received.                                                  *)
Index(t) ==
  LET blank == {j \in HeaderEnds(t) : Line(t, j) = <<CR>>}
  IN  IF blank = {} THEN Len(t) ELSE Max(blank)

(* Mutation: any one of the headers is enough. *)
ParseHandshake_AnyHeader(t) ==
  CASE \E i \in 1..Min2(Len(t), Len(Protocol)) : t[i] # Protocol[i] -> "INVALID_PROTOCOL"
    [] Len(t) >= Len(Protocol) /\ Found(t) # {} -> "MATCHED"
    [] OTHER -> "INCOMPLETE"

(* Mutation: a prefix cut short counts as a mismatch. *)
ParseHandshake_ShortIsInvalid(t) ==
  CASE SubSeq(t, 1, Min2(Len(t), Len(Protocol))) # Protocol -> "INVALID_PROTOCOL"
    [] SubSeq(t, 1, Min2(Len(t), Len(Protocol))) = Protocol /\ Found(t) = Wanted -> "MATCHED"
    [] OTHER -> "INCOMPLETE"

(* parseHandshake *)
ParseHandshake(t) ==
  CASE \E i \in 1..Min2(Len(t), Len(Protocol)) : t[i] # Protocol[i] -> "INVALID_PROTOCOL"
    [] Len(t) >= Len(Protocol) /\ SubSeq(t, 1, Len(Protocol)) = Protocol
         /\ Found(t) = Wanted -> "MATCHED"
    [] OTHER -> "INCOMPLETE"

(* What the socket may answer to a read of len tokens (see SocketClient). *)
SocketReads(len) ==
  IF len > 0 /\ asked /\ rcvd < sent THEN 0..Min2(len, sent - rcvd)
  ELSE IF len > 0 /\ link = "up" THEN {0} ELSE {-1, 0}

(* One turn of acceptHandshake's loop: a read that brings nothing, or fails *)
(* with -1, just goes round again; an IOException (only a java.net socket   *)
(* throws one here) ends the attempt.                                       *)
AcceptHandshake ==
  /\ phase = "accept"
  /\ \/ /\ phase' = "done" /\ result' = "INVALID_READ"
        /\ readBuffer' = BeforeRead(readBuffer) /\ rcvd' = rcvd
     \/ \E b \in {BeforeRead(readBuffer)} : \E n \in SocketReads(Remaining(b)) :
          \E c \in {AfterRead(IF n > 0 THEN PutRun(b, rcvd, n) ELSE b, n)} :
          \E t \in {Window(c)} :
          \E parsed \in {IF n < 0 \/ t = <<>> THEN "INCOMPLETE" ELSE ParseHandshake(t)} :
            /\ rcvd' = rcvd + (IF n > 0 THEN n ELSE 0)
            /\ readBuffer' = IF parsed = "MATCHED" THEN Advance(c, Index(t)) ELSE c
            /\ IF parsed = "INCOMPLETE" THEN UNCHANGED <<phase, result>>
               ELSE phase' = "done" /\ result' = parsed
  /\ UNCHANGED <<answer, sent, asked, link>>

(* The server closes the connection after some part of its answer. *)
ServerClose ==
  /\ link = "up" /\ phase # "done" /\ link' = "eof"
  /\ sent' \in rcvd..sent
  /\ UNCHANGED <<phase, result, answer, asked, readBuffer, rcvd>>

(* attemptHandshake returned or threw. *)
Done == phase = "done" /\ UNCHANGED vars

Next == SendHandshake \/ AcceptHandshake \/ ServerClose \/ Done

(* The caller's thread goes on, and the kernel hands over what has arrived. *)
Fairness ==
  /\ WF_vars(SendHandshake) /\ WF_vars(AcceptHandshake)
  /\ WF_vars(AcceptHandshake /\ rcvd' # rcvd)

Spec == Init /\ [][Next]_vars /\ Fairness
-----------------------------------------------------------------------------
Valid(r) == r.first = Protocol /\ Wanted \subseteq {r.headers[i] : i \in DOMAIN r.headers}

TypeOK ==
  /\ phase \in {"send", "accept", "done"} /\ link \in {"up", "eof"} /\ asked \in BOOLEAN
  /\ result \in {"none", "MATCHED", "INVALID_PROTOCOL", "INVALID_READ", "INVALID_WRITE"}
  /\ rcvd <= sent /\ sent <= Len(Tokens(answer))
  /\ readBuffer.pos \in 0..readBuffer.lim /\ readBuffer.lim \in 0..ReadCap

(* RFC6455.parseHandshake: a handshake is accepted only if the server really *)
(* sent the protocol line and the line of every header looked for, and all   *)
(* of these lines had arrived, however the response was cut into packets and *)
(* whatever failed reads left in the buffer.                                 *)
MatchedIsReal ==
  result = "MATCHED" =>
    /\ Valid(answer)
    /\ \A h \in Wanted : \E i \in DOMAIN answer.headers :
         answer.headers[i] = h /\ 4 + 3 * i <= rcvd

(* RFC6455.parseHandshake: a complete valid response that fits the buffer is *)
(* never rejected, wherever it is cut; a cut inside the protocol prefix in   *)
(* particular is not taken for another protocol.                             *)
ValidNotRejected ==
  Valid(answer) /\ Len(Lines(answer)) <= Min2(ReadCap, sent) => result # "INVALID_PROTOCOL"

(* RFC6455.parseHandshake, HandshakeHandler: frames that arrive together     *)
(* with the response stay in the buffer, unread and in order, for the first  *)
(* read() after connect().                                                   *)
FramesSurvive ==
  result = "MATCHED" =>
    /\ rcvd - Remaining(readBuffer) <= Len(Lines(answer))
    /\ Holds(readBuffer, readBuffer.pos, readBuffer.lim, rcvd - Remaining(readBuffer))

(* HandshakeHandler.acceptHandshake: if the server answers with a valid      *)
(* response that fits the buffer, the attempt comes to an end, whether or    *)
(* not the server closes after it.                                           *)
ValidIsAnswered ==
  (/\ phase = "accept" /\ asked /\ Valid(answer) /\ Len(Lines(answer)) <= ReadCap)
  ~> (phase = "done" \/ sent < Len(Lines(answer)))

(* HandshakeState calls INCOMPLETE a handshake "being sent in multiple       *)
(* packets" and RFC6455Test asserts that a match leaves nothing of the       *)
(* response unread: MATCHED means that the response was consumed to its end. *)
MatchedConsumesResponse ==
  result = "MATCHED" => rcvd - Remaining(readBuffer) >= Len(Lines(answer))

(* HandshakeHandler.attemptHandshake "@throws InvalidHandshakeException on   *)
(* an unsuccessful handshake": once the server has closed the connection,    *)
(* the attempt ends.                                                         *)
ClosedEndsAttempt == link = "eof" ~> phase = "done"
=============================================================================
