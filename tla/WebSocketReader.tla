--------------------------- MODULE WebSocketReader --------------------------
(***************************************************************************)
(* WebSocketClient.read over WebSocketMessageClient.readMessage over       *)
(* SocketClient.read: from the bytes of the connection, in whatever pieces *)
(* they arrive, to the responses the application sees.                     *)
(*                                                                         *)
(* A connection's bytes are a handshake response of HandshakeLen bytes and *)
(* then the bytes of a sequence of frames.  Cells of the buffers hold byte *)
(* numbers (see ByteBuffer); stream[n] is the value of byte n.             *)
(***************************************************************************)
EXTENDS SocketBuffers, DataFrame6455, Sequences, FiniteSetsExt

CONSTANTS
  ReadCap,      \* readBufferSize
  HandshakeLen, \* bytes of the handshake response
  Scripts,      \* what a peer may send: bytes, and the bounds between which its frames lie
  MaxConns,     \* bound on the number of connections
  ReadsOn       \* does the application call read() again after a failed connect() or
                \* read(), or after reset() in mid-stream?

Byte == 0..255
Bytes == Seq(Byte)

(* Between the bounds bs lie frames, one behind the other, up to the last byte; *)
(* the buffer has room for each header.                                         *)
AreFrames(bytes, bs) ==
  /\ bs \in Seq(0..Len(bytes)) /\ Len(bs) > 0 /\ bs[Len(bs)] = Len(bytes)
  /\ \A j, k \in 1..Len(bs) : j < k => bs[j] < bs[k]
  /\ \A k \in 1..Len(bs)-1 :
       IsFrame(bytes, bs[k], bs[k+1]) /\ HeaderSize(bytes[bs[k] + 2]) <= ReadCap

(* What a peer sends. *)
IsScript(s) == s.bytes \in Bytes /\ AreFrames(s.bytes, s.bounds) /\ s.bounds[1] = 0

ASSUME ReaderAssumption ==
  /\ ReadCap \in Nat \ {0} /\ HandshakeLen \in 1..ReadCap /\ MaxConns \in Nat
  /\ ReadsOn \in BOOLEAN /\ \A s \in Scripts : IsScript(s)

VARIABLES
  readBuffer,
  body,         \* WebSocketClient.body, reused for every message
  socketState, link,
  stream,       \* the values of all bytes numbered so far
  end,          \* the last byte that will arrive on this connection
  rcvd,         \* the last byte the socket has handed over
  result,       \* what the last call returned or threw
  bounds,       \* history: frame k of this connection ends where bounds[k+1] says, and
                \* begins behind bounds[k]
  next,         \* history: the frame that must come next
  intact,       \* history: no failed read and no reset() in mid-stream since connect()
  conns         \* number of connections made

vars == <<readBuffer, body, socketState, link, stream, end, rcvd, result, bounds,
          next, intact, conns>>

Result(kind, opcode, cells) == [kind |-> kind, opcode |-> opcode, cells |-> cells]
NoResult == Result("none", "none", <<>>)

Value(n) == IF n = 0 THEN 0 ELSE stream[n]

(* readFrame.wrap(buffer) *)
Wrap(b) ==
  [at |-> [i \in 0..b.cap-1 |-> Value(b.data[i])], offset |-> b.pos, limit |-> Remaining(b)]

Init ==
  /\ readBuffer = EmptyRead(Allocate(ReadCap)) /\ body = Allocate(ReadCap)
  /\ socketState = "UNCONNECTED" /\ link = "down"
  /\ stream = <<>> /\ end = 0 /\ rcvd = 0 /\ result = NoResult
  /\ bounds = <<0>> /\ next = 1 /\ intact = FALSE /\ conns = 0

(* Mutation: connect() keeps what the last connection left in the buffer. *)
ForConnect_KeepsOld(b) == b

(* The read buffer that connect() offers to the new connection. *)
ForConnect(b) == EmptyRead(b)

(* connect(): buffers cleared, socket connected, handshake response read    *)
(* and consumed; n bytes had arrived when it was complete.  Or the socket   *)
(* does not connect (if socket() failed, the old descriptor stays in use),  *)
(* or the handshake is rejected with its bytes unread.                      *)
ConnectOutcome(state, old) ==
  \/ /\ conns < MaxConns
     /\ \E script \in Scripts :
          LET base  == Len(stream)
              bytes == [i \in 1..HandshakeLen |-> 72] \o script.bytes
          IN
          /\ stream' = stream \o bytes
          /\ end' = base + Len(bytes)
          /\ bounds' = [k \in 1..Len(script.bounds) |-> base + HandshakeLen + script.bounds[k]]
          /\ \E n \in HandshakeLen..Min2(Remaining(BeforeRead(ForConnect(readBuffer))), Len(bytes)),
                accepted \in BOOLEAN :
               LET b == AfterRead(PutRun(BeforeRead(ForConnect(readBuffer)), base, n), n) IN
               /\ readBuffer' = IF accepted THEN Advance(b, HandshakeLen) ELSE b
               /\ rcvd' = base + n
               /\ intact' = accepted
               /\ result' = Result(IF accepted THEN "none" ELSE "handshake", "none", <<>>)
     /\ socketState' = "CONNECTED" /\ link' = "up" /\ next' = 1 /\ conns' = conns + 1
     /\ UNCHANGED body
  \/ /\ readBuffer' = ForConnect(readBuffer)
     /\ socketState' = state /\ link' \in {old, "down"} /\ intact' = FALSE
     /\ result' = Result("exception", "none", <<>>)
     /\ UNCHANGED <<body, stream, end, rcvd, bounds, next, conns>>

Connect == ConnectOutcome(socketState, link)

(* close() *)
Close ==
  /\ socketState' = "UNCONNECTED" /\ link' = "down" /\ result' = NoResult
  /\ UNCHANGED <<readBuffer, body, stream, end, rcvd, bounds, next, intact, conns>>

(* reconnect(): close(), which may throw, and connect(). *)
Reconnect == Close \/ ConnectOutcome("UNCONNECTED", "down")

(* reset(): clearBuffers().  Bytes dropped in mid-stream break the framing. *)
Reset ==
  /\ readBuffer' = EmptyRead(readBuffer) /\ result' = NoResult
  /\ intact' = (intact /\ Remaining(readBuffer) = 0)
  /\ UNCHANGED <<body, socketState, link, stream, end, rcvd, bounds, next, conns>>

(* The peer ends the stream after byte e, which may be inside a frame. *)
PeerClose ==
  /\ link = "up" /\ link' = "eof"
  /\ \E e \in rcvd..end : end' = e
  /\ UNCHANGED <<readBuffer, body, socketState, stream, rcvd, result, bounds, next,
                 intact, conns>>

(* read0: see SocketClient.  At the end of the stream it returns -1. *)
SocketReads(len) ==
  CASE link = "down" \/ len = 0      -> {-1, 0}
    [] link # "down" /\ rcvd < end   -> 0..Min2(len, end - rcvd)
    [] link = "up"   /\ rcvd >= end  -> {0}
    [] link = "eof"  /\ rcvd >= end  -> {-1, 0}

(* Mutation: the check for a frame larger than the buffer is gone. *)
CheckMessage_NoOverflow(b) ==
  IF IsIncomplete(Wrap(b)) THEN "incomplete" ELSE "complete"

(* checkMessage / isCompleteMessage *)
CheckMessage(b) ==
  LET f == Wrap(b) IN
  IF ~IsIncomplete(f) THEN "complete"
  ELSE IF HasCompleteHeader(f) /\ b.cap < FrameLength(f) THEN "overflow"
  ELSE "incomplete"

(* Mutation: the mask key is copied as the start of the payload. *)
Payload_KeepsMask(b, into) ==
  LET f == Wrap(b) IN
  Set(into, 0, PayloadLength(f),
      [i \in 0..into.cap-1 |->
         IF i < PayloadLength(f) THEN b.data[b.pos + 1 + PayloadLengthOctets(f) + i]
         ELSE into.data[i]])

(* body.clear(); copyPayloadData(body); body.flip(): the cells after the    *)
(* header.                                                                  *)
Payload(b, into) ==
  LET f == Wrap(b) IN
  Set(into, 0, PayloadLength(f),
      [i \in 0..into.cap-1 |->
         IF i < PayloadLength(f) THEN b.data[b.pos + HeaderLength(f) + i]
         ELSE into.data[i]])

(* What read() does with the complete frame at the front of b. *)
Handle(b) ==
  LET f == Wrap(b)
      opcode == GetOpcode(f)
      isData == opcode \in {"TEXT", "BINARY"}
      kind == CASE opcode = "invalid" -> "badOpcode"
                [] opcode = "CLOSING" -> "closing"
                [] opcode \notin {"invalid", "CLOSING"} /\ IsFragment(f)  -> "fragment"
                [] opcode \notin {"invalid", "CLOSING"} /\ ~IsFragment(f) -> "message"
  IN
  /\ readBuffer' = Advance(b, FrameLength(f))
  /\ body' = CASE opcode = "invalid" -> body
               [] isData -> Payload(b, body)
               [] OTHER -> Clear(body)
  /\ result' = Result(kind, opcode, [i \in 1..FrameLength(f) |-> b.data[b.pos + i - 1]])
  /\ next' = IF intact THEN next + 1 ELSE next

(* What read() does when there is no complete frame in b. *)
NoMessage(b, kind) ==
  /\ readBuffer' = b /\ result' = Result(kind, "none", <<>>)
  /\ UNCHANGED <<body, next>>

(* read(): hand out the frame that is already in the buffer, or read from   *)
(* the socket once and look again.                                          *)
Read ==
  /\ intact \/ ReadsOn
  /\ \/ /\ CheckMessage(readBuffer) = "complete"
        /\ Handle(readBuffer) /\ UNCHANGED <<rcvd, intact>>
     \/ /\ CheckMessage(readBuffer) = "overflow"
        /\ NoMessage(readBuffer, "overflow") /\ UNCHANGED <<rcvd, intact>>
     \/ /\ CheckMessage(readBuffer) = "incomplete"
        /\ socketState # "CONNECTED"
        /\ NoMessage(BeforeRead(readBuffer), "exception")
        /\ intact' = FALSE /\ rcvd' = rcvd
     \/ /\ CheckMessage(readBuffer) = "incomplete"
        /\ socketState = "CONNECTED"
        /\ \E b \in {BeforeRead(readBuffer)} : \E n \in SocketReads(Remaining(b)) :
             \E c \in {AfterRead(IF n > 0 THEN PutRun(b, rcvd, n) ELSE b, n)} :
               /\ rcvd' = rcvd + (IF n > 0 THEN n ELSE 0)
               /\ intact' = (intact /\ n >= 0)
               /\ \/ n < 0 /\ NoMessage(c, "closed")
                  \/ n >= 0 /\ CheckMessage(c) = "complete" /\ Handle(c)
                  \/ n >= 0 /\ CheckMessage(c) = "overflow" /\ NoMessage(c, "overflow")
                  \/ n >= 0 /\ CheckMessage(c) = "incomplete" /\ NoMessage(c, "none")
  /\ UNCHANGED <<socketState, link, stream, end, bounds, conns>>

Next == Connect \/ Close \/ Reconnect \/ Reset \/ PeerClose \/ Read

(* read() is called again and again, and the kernel hands over bytes that   *)
(* have arrived.                                                            *)
Progress == Read /\ (next' # next \/ rcvd' # rcvd)

Spec == Init /\ [][Next]_vars /\ WF_vars(Progress)
-----------------------------------------------------------------------------
Consumed == {"message", "closing", "fragment", "badOpcode"}

(* The bytes of frame k of this connection. *)
FrameCells(k) == [i \in 1..bounds[k+1] - bounds[k] |-> bounds[k] + i]
FrameCount == Len(bounds) - 1

TypeOK ==
  /\ readBuffer \in Buffers(ReadCap) /\ body \in Buffers(ReadCap)
  /\ stream \in Bytes /\ \A i \in 0..ReadCap-1 : readBuffer.data[i] <= Len(stream)
  /\ rcvd \in Nat /\ end \in Nat /\ next \in Nat /\ intact \in BOOLEAN
  /\ socketState \in {"UNCONNECTED", "CONNECTED"} /\ link \in {"up", "eof", "down"}
  /\ rcvd <= end /\ end <= Len(stream)
  /\ result.kind \in Consumed \cup {"none", "closed", "overflow", "exception", "handshake"}

(* WebSocketClient.read: as long as no read failed and reset() dropped      *)
(* nothing since connect(), the k-th frame the application is told about    *)
(* (as a message or by an exception) is the k-th frame the peer sent, byte  *)
(* for byte, however the bytes were cut into pieces.                        *)
FramesInOrder ==
  intact /\ result.kind \in Consumed =>
    next > 1 /\ next - 1 <= FrameCount /\ result.cells = FrameCells(next - 1)

(* AbstractSocketMessageClient.readMessage: the buffer always continues     *)
(* exactly where the last frame ended, up to the last byte received; no     *)
(* byte of a later frame is skipped or overwritten while one is assembled.  *)
BufferAligned ==
  intact =>
    /\ rcvd = bounds[next] + Remaining(readBuffer)
    /\ Holds(readBuffer, readBuffer.pos, readBuffer.lim, bounds[next])

(* WebSocketMessageClient.isCompleteMessage: the overflow check fires       *)
(* before SocketClient.read would be called on a buffer full of unread      *)
(* bytes, which it would take for an empty one.                             *)
NeverReadsFull ==
  intact => ~(Full(readBuffer) /\ CheckMessage(readBuffer) = "incomplete")

(* WebSocketClient.read: the body of a text or binary message is exactly    *)
(* the frame's payload, nothing of an earlier message showing through.      *)
BodyIsPayload ==
  intact /\ result.kind = "message" /\ result.opcode \in {"TEXT", "BINARY"} =>
    LET header == HeaderSize(Value(result.cells[2]))
    IN  /\ body.pos = 0 /\ body.lim = Len(result.cells) - header
        /\ \A i \in 0..body.lim-1 : body.data[i] = result.cells[header + i + 1]

(* The refinement mapping to MessageChannel.  Frame k counts as sent if it   *)
(* and all frames before it arrive completely and fit the buffer.           *)
Deliverable(k) ==
  \A j \in 1..k : bounds[j+1] <= end /\ bounds[j+1] - bounds[j] <= ReadCap

(* The frame the last call told the application about, 0 if none, -1 if its *)
(* bytes are those of no frame of this connection.                          *)
ToldFrame ==
  IF result.kind \notin Consumed THEN 0
  ELSE LET ks == {k \in 1..FrameCount : FrameCells(k) = result.cells}
       IN  IF ks = {} THEN -1 ELSE Max(ks)

Channel == INSTANCE MessageChannel WITH
  MaxMessages <- Max({Len(s.bounds) - 1 : s \in Scripts}),
  sent        <- Max({k \in 0..FrameCount : Deliverable(k)}),
  delivered   <- next - 1,
  told        <- ToldFrame,
  open        <- intact /\ socketState = "CONNECTED"

(* WebSocketClient.read over readMessage and SocketClient.read implements a *)
(* FIFO channel of whole messages, up to the first read() that fails: every *)
(* frame is told once, in order, byte for byte, and the end of a connection *)
(* loses only frames not yet told.                                          *)
ImplementsChannel == Channel!Spec

(* WebSocketClient.read: a frame that arrives completely is told if the     *)
(* application keeps reading while the connection lasts.                    *)
EveryFrameTold == Channel!Delivery

(* MessageClient.readMessage returns "an int < 0 if the socket is closed,   *)
(* 0 if there's no message, and 1 if there's a message": a read() right     *)
(* after one that reported the end of the stream reports no message.        *)
NoMessageAfterClosed ==
  [][ Read /\ link = "eof" /\ result.kind = "closed" => result'.kind \notin Consumed ]_vars

=============================================================================
