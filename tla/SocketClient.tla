---------------------------- MODULE SocketClient ----------------------------
(***************************************************************************)
(* client/SocketClient over a native socket: the read and write buffers,   *)
(* what connect, close, reconnect, clearBuffers, read and write do to them,*)
(* and every answer the socket may give.                                   *)
(*                                                                         *)
(* The peer's bytes are numbered 1, 2, ... in the order the kernel hands   *)
(* them out, across connections; the bytes the application puts into the   *)
(* write buffer are numbered the same way.                                 *)
(***************************************************************************)
EXTENDS SocketBuffers, Sequences

CONSTANTS
  ReadCap, WriteCap,   \* readBufferSize, writeBufferSize
  MaxIn, MaxOut,       \* bounds on the bytes received and on the bytes put
  FullReads,           \* may read() be called on a buffer full of unread bytes?
  FullWrites           \* may the application fill the write buffer to its last byte?

ASSUME CapAssumption == ReadCap \in Nat \ {0} /\ WriteCap \in Nat \ {0}
ASSUME BoundAssumption == MaxIn \in Nat /\ MaxOut \in Nat
ASSUME CallerAssumption == FullReads \in BOOLEAN /\ FullWrites \in BOOLEAN

VARIABLES
  readBuffer, writeBuffer,
  socketState,  \* GnomeSocket.isConnected()
  link,         \* the descriptor's connection: "up", "eof" (peer closed), "down"
  rcvd,         \* history: the last byte the socket put into readBuffer
  taken,        \* history: the last byte the reader consumed or clearBuffers dropped
  put,          \* history: the last byte put into writeBuffer
  flushed,      \* history: the last byte the socket took or clearBuffers dropped
  wire,         \* history: the bytes the socket took on this connection
  readFailed    \* history: read() failed since the buffers were last cleared

vars == <<readBuffer, writeBuffer, socketState, link, rcvd, taken, put, flushed,
          wire, readFailed>>

(* clearBuffers(), leaving the socket in state s on a connection in state l. *)
ClearBuffers(s, l) ==
  /\ readBuffer' = EmptyRead(readBuffer)
  /\ writeBuffer' = Clear(writeBuffer)
  /\ taken' = rcvd /\ flushed' = put /\ readFailed' = FALSE
  /\ socketState' = s /\ link' = l
  /\ UNCHANGED <<rcvd, put>>

(* new SocketClient(...): buffers allocated and cleared, no socket yet. *)
Init ==
  /\ readBuffer = EmptyRead(Allocate(ReadCap))
  /\ writeBuffer = Clear(Allocate(WriteCap))
  /\ socketState = "UNCONNECTED" /\ link = "down"
  /\ rcvd = 0 /\ taken = 0 /\ put = 0 /\ flushed = 0 /\ wire = <<>>
  /\ readFailed = FALSE

(* connect(): the buffers are cleared first.  socket() may fail (descriptor *)
(* and state as before), connect0 may fail (a new, unconnected descriptor,  *)
(* the state as before), or the connection is made.                        *)
Connect ==
  \/ ClearBuffers(socketState, link) /\ wire' = wire
  \/ ClearBuffers(socketState, "down") /\ wire' = wire
  \/ ClearBuffers("CONNECTED", "up") /\ wire' = <<>>

(* close(), whether or not close0 throws. *)
Close ==
  /\ socketState' = "UNCONNECTED" /\ link' = "down"
  /\ UNCHANGED <<readBuffer, writeBuffer, rcvd, taken, put, flushed, wire, readFailed>>

(* reconnect(): close(), and connect() unless close0 threw. *)
Reconnect ==
  \/ Close
  \/ ClearBuffers("UNCONNECTED", "down") /\ wire' = wire
  \/ ClearBuffers("CONNECTED", "up") /\ wire' = <<>>

(* clearBuffers() called by the application (WebSocketClient.reset does). *)
Reset == ClearBuffers(socketState, link) /\ wire' = wire

(* The peer closes its side, or the connection breaks. *)
PeerClose ==
  /\ link = "up"
  /\ link' \in {"eof", "down"}
  /\ UNCHANGED <<readBuffer, writeBuffer, socketState, rcvd, taken, put, flushed,
                 wire, readFailed>>

(* read0 for len bytes: how many of the peer's bytes it copies, 0 when none *)
(* is there yet or the call is interrupted, -1 at the end of the stream or  *)
(* on an error.  A read of no bytes looks like the end of the stream.       *)
SocketReads(len) ==
  IF link = "up" /\ len > 0 THEN 0..Min2(len, MaxIn - rcvd) ELSE {-1, 0}

(* write0 for len bytes: how many are accepted, or -1 on an error. *)
SocketWrites(len) ==
  CASE link = "up"   -> 0..len
    [] link = "eof"  -> -1..len
    [] link = "down" -> {-1}

(* read(len).  On an unconnected socket ensureConnected throws, after the   *)
(* buffer was turned to put mode.                                          *)
Read(len) ==
  LET b == BeforeRead(readBuffer) IN
  /\ FullReads \/ readFailed \/ ~Full(readBuffer)
  /\ \/ /\ socketState # "CONNECTED"
        /\ readBuffer' = b /\ readFailed' = TRUE /\ rcvd' = rcvd
     \/ /\ socketState = "CONNECTED"
        /\ \E n \in SocketReads(Clamp(len, b)) :
             /\ readBuffer' = AfterRead(IF n > 0 THEN PutRun(b, rcvd, n) ELSE b, n)
             /\ rcvd' = rcvd + (IF n > 0 THEN n ELSE 0)
             /\ readFailed' = (readFailed \/ n < 0)
  /\ UNCHANGED <<writeBuffer, socketState, link, taken, put, flushed, wire>>

(* The reader takes k bytes with relative gets on getReadBuffer(). *)
Consume(k) ==
  /\ k <= Remaining(readBuffer)
  /\ taken + k <= MaxIn
  /\ readBuffer' = Advance(readBuffer, k) /\ taken' = taken + k
  /\ UNCHANGED <<writeBuffer, socketState, link, rcvd, put, flushed, wire, readFailed>>

(* The application puts k bytes into getWriteBuffer(); k more than fit      *)
(* would throw BufferOverflowException and change nothing.                  *)
Put(k) ==
  /\ put + k <= MaxOut
  /\ IF FullWrites THEN k <= Remaining(writeBuffer) ELSE k < Remaining(writeBuffer)
  /\ writeBuffer' = PutRun(writeBuffer, put, k) /\ put' = put + k
  /\ UNCHANGED <<readBuffer, socketState, link, rcvd, taken, flushed, wire, readFailed>>

(* write(len).  On an unconnected socket ensureConnected throws, after the  *)
(* flip.                                                                   *)
Write(len) ==
  LET b == Flip(writeBuffer) IN
  /\ \/ /\ socketState # "CONNECTED"
        /\ writeBuffer' = b /\ UNCHANGED <<flushed, wire>>
     \/ /\ socketState = "CONNECTED"
        /\ \E n \in SocketWrites(Clamp(len, b)) :
             LET m == IF n > 0 THEN n ELSE 0 IN
             /\ writeBuffer' = AfterWrite(Advance(b, m), n)
             /\ flushed' = flushed + m
             /\ wire' = wire \o [i \in 1..m |-> b.data[i-1]]
  /\ UNCHANGED <<readBuffer, socketState, link, rcvd, taken, put, readFailed>>

Next ==
  \/ Connect \/ Close \/ Reconnect \/ Reset \/ PeerClose
  \/ \E len \in 0..ReadCap : Read(len)
  \/ \E k \in 1..ReadCap : Consume(k)
  \/ \E k \in 1..WriteCap : Put(k)
  \/ \E len \in 0..WriteCap : Write(len)

Spec == Init /\ [][Next]_vars
-----------------------------------------------------------------------------
(* Both buffers stay in a state ByteBuffer allows (0 <= pos <= lim <= cap): *)
(* no call of connect, read, write or clearBuffers makes one throw          *)
(* IllegalArgumentException.                                                *)
TypeOK ==
  /\ readBuffer \in Buffers(ReadCap) /\ writeBuffer \in Buffers(WriteCap)
  /\ socketState \in {"UNCONNECTED", "CONNECTED"}
  /\ link \in {"up", "eof", "down"}
  /\ rcvd \in Nat /\ taken \in Nat /\ put \in Nat /\ flushed \in Nat
  /\ wire \in Seq(Nat)
  /\ readFailed \in BOOLEAN

(* SocketClient.read: unless a read failed since the last clearBuffers, the *)
(* readable part of the buffer is exactly the peer's bytes received and not *)
(* yet consumed: none lost, repeated, reordered or left over from before,   *)
(* through any mix of partial reads, partial consumption and reconnects.    *)
ReadWindow ==
  ~readFailed =>
    /\ rcvd - taken = Remaining(readBuffer)
    /\ Holds(readBuffer, readBuffer.pos, readBuffer.lim, taken)

(* SocketClient.write: while connected the buffer is in put mode and holds  *)
(* exactly the bytes put and not yet accepted by the socket, in order,      *)
(* through any mix of partial, empty and failed writes.                     *)
WriteWindow ==
  socketState = "CONNECTED" =>
    /\ writeBuffer.lim = WriteCap
    /\ put - flushed = writeBuffer.pos
    /\ Holds(writeBuffer, 0, writeBuffer.pos, flushed)

(* SocketClient.write: on a connection the socket gets the application's    *)
(* bytes in the order they were put, each at most once.                     *)
WireInOrder ==
  \A i, j \in 1..Len(wire) : i < j => wire[i] < wire[j]

(* SocketClientTest.testWrite asserts that after a write the socket answers *)
(* with 0 the position is still the number of bytes put before it.          *)
ZeroWriteKeepsPosition ==
  [][ /\ \E len \in 0..WriteCap : Write(len)
      /\ socketState = "CONNECTED" /\ wire' = wire
      => writeBuffer'.pos = writeBuffer.pos ]_vars
=============================================================================
