------------------------------ MODULE SendPath ------------------------------
(***************************************************************************)
(* From the application to the wire: SocketClient.write (a streaming       *)
(* caller) and WebSocketClient.writeMessage or HTTPSocketMessageClient     *)
(* .request (message callers), over NativeSocket.write or over             *)
(* NativeSSLSocket.write with the part of BoringSSL below SSL_write.       *)
(*                                                                         *)
(* The application's bytes are numbered.  A TLS record stands for the      *)
(* plaintext bytes sealed in it: the peer can use none of them before the  *)
(* last byte of the record has left, so a record leaves all at once.       *)
(***************************************************************************)
EXTENDS Integers, Sequences

CONSTANTS
  MaxFrag,    \* ssl->max_send_fragment
  MaxBytes    \* bound on the bytes the application makes on a connection

ASSUME SendAssumption == MaxFrag \in Nat \ {0} /\ MaxBytes \in Nat

VARIABLES
  tls, streaming,  \* which socket, which kind of caller; both fixed
  made,       \* the last byte the application made
  reported,   \* the last byte it was told is sent: the buffer holds reported + 1 .. made
  call,       \* "idle", "enter" (socket.write called), "record" (in the loop of SSL_write)
  arg,        \* the argument of socket.write: which bytes, in which buffer
  result,     \* what the last call returned
  total,      \* total_bytes_written, local to SSL_write
  unreported, \* s3->unreported_bytes_written
  pending,    \* s3->pending_write: its length and its buffer
  sealed,     \* s3->write_buffer: the bytes of a record the kernel has not taken yet
  shut,       \* s3->write_shutdown
  kernel,     \* "up", "down" (writes fail), "closed" (no connection)
  wire,       \* the bytes the kernel took on this connection
  notified,   \* did a close_notify leave?
  torn        \* history: a message was cut short or abandoned in the middle

appVars  == <<made, reported, torn>>
callVars == <<call, arg, result>>
sslVars  == <<total, unreported, pending, sealed, shut>>
netVars  == <<kernel, wire, notified>>
vars == <<tls, streaming, appVars, callVars, sslVars, netVars>>

Run(after, n) == [i \in 1..n |-> after + i]
Smaller(a, b) == IF a < b THEN a ELSE b

NoArg == [after |-> 0, len |-> 0, buf |-> "own"]
NoPending == [len |-> 0, buf |-> "own"]

(* A new connection: connect() clears the write buffer, SSL_new makes a new *)
(* s3.                                                                      *)
Init ==
  /\ tls \in BOOLEAN /\ streaming \in BOOLEAN
  /\ made = 0 /\ reported = 0 /\ torn = FALSE
  /\ call = "idle" /\ arg = NoArg /\ result = "none"
  /\ total = 0 /\ unreported = 0 /\ pending = NoPending /\ sealed = <<>> /\ shut = "none"
  /\ kernel = "up" /\ wire = <<>> /\ notified = FALSE

(***************************************************************************)
(* The callers.                                                            *)
(***************************************************************************)
Idle == call = "idle" /\ kernel # "closed"

(* A streaming application puts k bytes into getWriteBuffer(). *)
Put(k) ==
  /\ Idle /\ streaming /\ made + k <= MaxBytes
  /\ made' = made + k
  /\ UNCHANGED <<tls, streaming, reported, torn, callVars, sslVars, netVars>>

(* SocketClient.write(len): flip, cut to what is there.  After it the bytes *)
(* that were not sent are at the front of the buffer again.                 *)
Write(len) ==
  /\ Idle /\ streaming
  /\ call' = "enter"
  /\ arg' = [after |-> reported, len |-> Smaller(len, made - reported), buf |-> "own"]
  /\ UNCHANGED <<tls, streaming, appVars, result, sslVars, netVars>>

(* A message that was refused, and of which BoringSSL has sealed a part. *)
Held == reported < made /\ sealed # <<>>

(* writeWebSocketMessage, or writeBuffer with a buffer of the application:  *)
(* a message of k bytes is encoded and written.  A message that was refused *)
(* before is given up; if nothing of it went anywhere, the new one takes    *)
(* its place.                                                               *)
Send(k, buf) ==
  LET base == IF Held THEN made ELSE reported IN
  /\ Idle /\ ~streaming /\ base + k <= MaxBytes
  /\ made' = base + k /\ reported' = base /\ torn' = (torn \/ Held)
  /\ call' = "enter" /\ arg' = [after |-> base, len |-> k, buf |-> buf]
  /\ UNCHANGED <<tls, streaming, result, sslVars, netVars>>

(* The application sends the message that was refused once more. *)
Resend ==
  /\ Idle /\ ~streaming /\ reported < made
  /\ call' = "enter"
  /\ UNCHANGED <<tls, streaming, appVars, arg, result, sslVars, netVars>>

(* Mutation: the result is added without the test for n <= 0. *)
Return_NoTest(n) ==
  /\ call' = "idle"
  /\ result' = (CASE n > 0 -> "sent" [] n = 0 -> "again" [] n < 0 -> "error")
  /\ reported' = IF streaming \/ n <= 0 THEN reported + n ELSE made
  /\ torn' = (torn \/ (~streaming /\ 0 < n /\ n < arg.len))
  /\ UNCHANGED <<tls, streaming, made, arg>>

(* What the client makes of the n that socket.write returned: SocketClient  *)
(* .write keeps the rest for later, the message callers test n > 0 and      *)
(* start the next message with a cleared buffer.                            *)
Return(n) ==
  /\ call' = "idle"
  /\ result' = (CASE n > 0 -> "sent" [] n = 0 -> "again" [] n < 0 -> "error")
  /\ reported' = IF n <= 0 THEN reported ELSE IF streaming THEN reported + n ELSE made
  /\ torn' = (torn \/ (~streaming /\ 0 < n /\ n < arg.len))
  /\ UNCHANGED <<tls, streaming, made, arg>>

(***************************************************************************)
(* NativeSocket.write0.                                                    *)
(***************************************************************************)
PlainWrite(n) ==
  /\ call = "enter" /\ ~tls
  /\ IF kernel = "up" THEN n \in 0..arg.len ELSE n = -1
  /\ wire' = IF n > 0 THEN wire \o Run(arg.after, n) ELSE wire
  /\ Return(n)
  /\ UNCHANGED <<sslVars, kernel, notified>>

(***************************************************************************)
(* NativeSSLSocket.write0: SSL_write, tls_write_app_data, do_tls_write.    *)
(* An error that no system call reports comes back as -1, or as 0 when     *)
(* errno still says EINTR.                                                 *)
(***************************************************************************)
Misuse == {-1, 0}

(* What a flush that the kernel does not take makes write0 return. *)
Refusal == IF kernel = "up" THEN 0 ELSE -1

(* Mutation: what went out in earlier calls is not skipped. *)
SslWrite_FromStart ==
  /\ call = "enter" /\ tls
  /\ IF shut # "none" \/ arg.len < unreported
     THEN /\ \E n \in Misuse : Return(n)
          /\ UNCHANGED <<sslVars, netVars>>
     ELSE /\ call' = "record" /\ total' = 0
          /\ UNCHANGED <<tls, streaming, appVars, arg, result, unreported, pending, sealed,
                         shut, netVars>>

(* The checks before the loop, and the part that went out in earlier calls. *)
SslWrite ==
  /\ call = "enter" /\ tls
  /\ IF shut # "none" \/ arg.len < unreported
     THEN /\ \E n \in Misuse : Return(n)
          /\ UNCHANGED <<sslVars, netVars>>
     ELSE /\ call' = "record" /\ total' = unreported
          /\ UNCHANGED <<tls, streaming, appVars, arg, result, unreported, pending, sealed,
                         shut, netVars>>

(* The fragment that the next round of the loop is about. *)
ToWrite == Smaller(MaxFrag, arg.len - total)
Fragment == Run(arg.after + total, ToWrite)

(* Mutation: >= for > in the comparison of the lengths. *)
Consistent_Strict == pending.len = 0 \/ (pending.len < ToWrite /\ pending.buf = arg.buf)

(* Is this a legal retry of the record that waits?  Only its length and its *)
(* address are compared.                                                    *)
Consistent == pending.len = 0 \/ (pending.len <= ToWrite /\ pending.buf = arg.buf)

(* A round that fails ends SSL_write; what went out in earlier rounds stays *)
(* unreported.                                                              *)
Fail(n) == unreported' = total /\ total' = 0 /\ Return(n) /\ UNCHANGED shut

BadRetry ==
  /\ call = "record" /\ ~Consistent
  /\ \E n \in Misuse : Fail(n)
  /\ UNCHANGED <<pending, sealed, netVars>>

(* A round that succeeds goes on with the rest, or ends SSL_write. *)
Advance(written) ==
  /\ IF total + written = arg.len
     THEN /\ unreported' = 0 /\ total' = 0
          /\ \E n \in (IF arg.len = 0 THEN Misuse ELSE {arg.len}) : Return(n)
     ELSE /\ total' = total + written
          /\ UNCHANGED <<tls, streaming, appVars, callVars, unreported>>
  /\ UNCHANGED <<shut, kernel, notified>>

(* The kernel takes the record that waits: its bytes are reported now,      *)
(* whatever the caller's buffer holds by now.                               *)
FlushPending ==
  /\ call = "record" /\ pending.len > 0 /\ Consistent /\ kernel = "up"
  /\ wire' = wire \o sealed /\ sealed' = <<>> /\ pending' = NoPending
  /\ Advance(pending.len)

(* The next fragment is sealed and the kernel takes it at once. *)
WriteRecord ==
  /\ call = "record" /\ pending.len = 0 /\ (ToWrite > 0 => kernel = "up")
  /\ wire' = wire \o Fragment
  /\ Advance(ToWrite)
  /\ UNCHANGED <<sealed, pending>>

(* Mutation: the result of the flush is ignored. *)
KeepRecord_Ignored ==
  /\ call = "record" /\ Consistent /\ pending.len = 0 /\ ToWrite > 0
  /\ sealed' = Fragment /\ pending' = [len |-> ToWrite, buf |-> arg.buf]
  /\ Advance(ToWrite)
  /\ UNCHANGED wire

(* The kernel does not take the whole record: it waits for the next call. *)
KeepRecord ==
  /\ call = "record" /\ Consistent /\ (pending.len = 0 => ToWrite > 0)
  /\ IF pending.len > 0 THEN UNCHANGED <<pending, sealed>>
     ELSE sealed' = Fragment /\ pending' = [len |-> ToWrite, buf |-> arg.buf]
  /\ Fail(Refusal)
  /\ UNCHANGED netVars

(***************************************************************************)
(* The end of a connection.                                                *)
(***************************************************************************)

(* SSL_read meets a record it cannot accept and answers with a fatal alert. *)
ReadFails ==
  /\ Idle /\ tls /\ shut = "none"
  /\ shut' = "error"
  /\ UNCHANGED <<tls, streaming, appVars, callVars, total, unreported, pending, sealed, netVars>>

KernelBreaks ==
  /\ kernel = "up"
  /\ kernel' = "down"
  /\ UNCHANGED <<tls, streaming, appVars, callVars, sslVars, wire, notified>>

(* Mutation: the alert is not held back by a record that waits. *)
CanNotify_Always == tls /\ shut = "none" /\ kernel = "up"

(* The alert goes out only when nothing else waits. *)
CanNotify == tls /\ shut = "none" /\ sealed = <<>> /\ kernel = "up"

(* close0: one SSL_shutdown whose result is ignored, then SSL_free. *)
Close ==
  /\ Idle
  /\ notified' \in {FALSE, CanNotify}
  /\ kernel' = "closed"
  /\ UNCHANGED <<tls, streaming, appVars, callVars, sslVars, wire>>

Connect ==
  /\ kernel = "closed"
  /\ made' = 0 /\ reported' = 0 /\ torn' = FALSE
  /\ call' = "idle" /\ arg' = NoArg /\ result' = "none"
  /\ total' = 0 /\ unreported' = 0 /\ pending' = NoPending /\ sealed' = <<>>
  /\ shut' = "none" /\ kernel' = "up" /\ wire' = <<>> /\ notified' = FALSE
  /\ UNCHANGED <<tls, streaming>>

Buffers == {"own", "app"}

Next ==
  \/ \E k \in 1..MaxBytes : Put(k)
  \/ \E len \in 0..MaxBytes : Write(len)
  \/ \E k \in 1..MaxBytes, buf \in Buffers : Send(k, buf)
  \/ Resend
  \/ \E n \in -1..MaxBytes : PlainWrite(n)
  \/ SslWrite \/ BadRetry \/ FlushPending \/ WriteRecord \/ KeepRecord
  \/ ReadFails \/ KernelBreaks \/ Close \/ Connect

(* The thread that is in a call goes on; an application whose message was   *)
(* refused sends it again; a kernel that is offered bytes again and again   *)
(* takes some in the end.                                                   *)
Takes == FlushPending \/ WriteRecord \/ (\E n \in 1..MaxBytes : PlainWrite(n))
Fairness ==
  /\ WF_vars(SslWrite \/ BadRetry \/ KeepRecord \/ Takes \/ PlainWrite(0) \/ PlainWrite(-1))
  /\ WF_vars(Resend)
  /\ SF_vars(Takes)

Spec == Init /\ [][Next]_vars
FairSpec == Spec /\ Fairness

-----------------------------------------------------------------------------

TypeOK ==
  /\ tls \in BOOLEAN /\ streaming \in BOOLEAN /\ torn \in BOOLEAN /\ notified \in BOOLEAN
  /\ made \in Nat /\ reported \in Nat /\ total \in Nat /\ unreported \in Nat
  /\ call \in {"idle", "enter", "record"}
  /\ arg \in [after : Nat, len : Nat, buf : Buffers]
  /\ result \in {"none", "sent", "again", "error"}
  /\ pending \in [len : Nat, buf : Buffers]
  /\ sealed \in Seq(Nat) /\ wire \in Seq(Nat)
  /\ shut \in {"none", "error"} /\ kernel \in {"up", "down", "closed"}

(* Whatever is refused, retried, held back in a sealed record or reported   *)
(* late by SSL_write, the wire has the application's bytes in order, none   *)
(* missing and none twice, as long as no message was cut short by a plain   *)
(* socket or given up while BoringSSL held a part of it.                    *)
WireIsStream == ~torn => wire = Run(0, Len(wire))

(* close() sends a close_notify only when the peer has exactly what write() *)
(* reported: never after a record was dropped with the SSL object, and      *)
(* never in the middle of a message.                                        *)
CleanClose == notified /\ ~torn => wire = Run(0, reported)

(* The send path implements the byte stream the application expects: what   *)
(* it was told is written is on the wire, on both sockets and for both      *)
(* kinds of callers.                                                        *)
Stream == INSTANCE ByteStream WITH arrived <- wire, whole <- ~torn
ImplementsStream == Stream!Spec

(* A message that was refused gets through if it is sent again, as long as  *)
(* the connection is alive: the bytes BoringSSL holds and has not reported  *)
(* never make the retries fail for ever.                                    *)
Waiting == ~streaming /\ ~torn /\ reported < made /\ kernel = "up" /\ shut = "none"
RetrySucceeds == Waiting ~> ~Waiting
=============================================================================
