--------------------------- MODULE SocketBuffers ----------------------------
(***************************************************************************)
(* What SocketClient.read, write and clearBuffers do to a buffer before    *)
(* and after the one call they make on the socket.  Between calls the read *)
(* buffer is in "get mode" (unread bytes are [pos, lim)) and the write     *)
(* buffer in "put mode" (unsent bytes are [0, pos)).                       *)
(***************************************************************************)
EXTENDS ByteBuffer

Min2(a, b) == IF a < b THEN a ELSE b

(* position(limit()); limit(capacity()): back from get mode to put mode. *)
ReverseFlip(b) == Set(b, b.lim, b.cap, b.data)

(* Mutation: the length the caller asks for is taken as it is. *)
Clamp_None(len, b) == len

(* len = Math.min(len, remaining()), on a buffer ready for the socket. *)
Clamp(len, b) == Min2(len, Remaining(b))

(* Mutation: compaction that forgets that the unread bytes start at pos. *)
BeforeRead_ClearsUnread(b) ==
  IF b.pos > 0 THEN Clear(b)
  ELSE IF b.lim < b.cap THEN ReverseFlip(b) ELSE b

(* A buffer full of unread bytes, which read() takes for an empty one. *)
Full(b) == b.pos = 0 /\ b.lim = b.cap

(* read(), up to the call of socket.read *)
BeforeRead(b) ==
  IF b.pos > 0 THEN IF Remaining(b) = 0 THEN Clear(b) ELSE Compact(b)
  ELSE IF b.lim < b.cap THEN ReverseFlip(b) ELSE b

(* read(), after socket.read returned n.  A negative n returns early, with *)
(* the buffer still in put mode.                                           *)
AfterRead(b, n) ==
  IF n < 0 THEN b
  ELSE IF b.pos > 0 THEN Flip(b) ELSE SetLimit(b, n)

(* Mutation: a partial write keeps the bytes it sent. *)
AfterWrite_KeepsSent(b, n) ==
  IF n > 0 THEN IF Remaining(b) = 0 THEN Clear(b) ELSE ReverseFlip(b)
  ELSE IF b.lim < b.cap THEN ReverseFlip(b) ELSE b

(* Mutation: a write that sent nothing leaves the buffer flipped. *)
AfterWrite_NoReverseFlip(b, n) ==
  IF n > 0 THEN IF Remaining(b) = 0 THEN Clear(b) ELSE Compact(b) ELSE b

(* write(), after socket.write returned n.  The reverse flip is skipped    *)
(* when the limit equals the capacity.                                     *)
AfterWrite(b, n) ==
  IF n > 0 THEN IF Remaining(b) = 0 THEN Clear(b) ELSE Compact(b)
  ELSE IF b.lim < b.cap THEN ReverseFlip(b) ELSE b

(* clearBuffers() on the read buffer: "empty" in get mode. *)
EmptyRead(b) == SetLimit(Clear(b), 0)
=============================================================================
