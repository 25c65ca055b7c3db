----------------------------- MODULE HTTPClient -----------------------------
(***************************************************************************)
(* http/HTTPClient over HTTPSocketMessageClient and HTTPDecoder: requests  *)
(* over pooled connections, the one retry on a new connection, and the     *)
(* single readMessage() that looks for the response.                       *)
(*                                                                         *)
(* A response is a sequence of tokens, the units in which it can be cut:   *)
(*   HT TP SL   the two halves of "HTTP" and the rest of the status line   *)
(*   LEN, CR LF the header line Content-Length, with its value             *)
(*   CR LF      the empty line                                             *)
(*   B          one byte of the body                                       *)
(* A connection's buffer holds the numbers of its tokens (see ByteBuffer); *)
(* where tokens of several connections meet, in the body and in results,   *)
(* token i of connection c is <<c, i>>.                                    *)
(***************************************************************************)
EXTENDS SocketBuffers, Sequences, FiniteSetsExt

CONSTANTS
  Hosts,
  ReadCap,      \* DEFAULT_HTTP_READ_BUFFER_SIZE, in tokens
  Lengths,      \* the Content-Lengths of responses that have one
  MaxConns,     \* bound on the number of connections
  MaxCalls      \* bound on the number of requests

ASSUME HTTPAssumption ==
  /\ Hosts # {} /\ ReadCap \in Nat \ {0} /\ Lengths \subseteq Nat
  /\ MaxConns \in Nat /\ MaxCalls \in Nat

VARIABLES
  pool,     \* socketPool: the connection of a host, 0 if there is none
  conns,    \* all connections made, see NewConn
  body,     \* HTTPClient.body, reused for every response
  pc,       \* where the call is
  call,     \* the call: its number, its host, and how much of it was sent
  result    \* what the last call returned or threw

vars == <<pool, conns, body, pc, call, result>>

(* A connection.  The server's side: the requests it got whole, and the     *)
(* tokens of its replies; ends[k] is the last token of reply k.             *)
NewConn ==
  [open    |-> TRUE,          \* false after close()
   link    |-> "up",          \* "eof" once the server has closed or reset it
   reqs    |-> <<>>, stream |-> <<>>, ends |-> <<>>,
   rcvd    |-> 0,             \* tokens the socket has handed over
   buf     |-> EmptyRead(Allocate(ReadCap)),
   torn    |-> FALSE,         \* history: a request was sent in part
   framing |-> "intact",      \* history: "broken" by a failed read or a read into a
                              \* full buffer, "lost" by an exception
   taken   |-> 0,             \* history: responses returned from here
   skipped |-> 0]             \* history: calls that got none after a whole request

(* close() of c, whose client object is garbage from then on. *)
Closed(c) == [NewConn EXCEPT !.open = FALSE, !.reqs = c.reqs]

Token(t) == <<t, 0>>
Reply(n) ==
  IF n < 0 THEN <<Token("HT"), Token("TP"), Token("SL"), Token("CR"), Token("LF")>>
  ELSE <<Token("HT"), Token("TP"), Token("SL"), <<"LEN", n>>, Token("CR"), Token("LF"),
         Token("CR"), Token("LF")>> \o [i \in 1..n |-> Token("B")]

(* What the cell n of the buffer of connection c holds. *)
Value(c, n) == IF n = 0 THEN Token("NUL") ELSE c.stream[n]

NoResult == [kind |-> "none", conn |-> 0, cells |-> <<>>, length |-> 0]
Result(kind) == [NoResult EXCEPT !.kind = kind]
Response(c, cells, n) == [kind |-> "response", conn |-> c, cells |-> cells, length |-> n]

Init ==
  /\ pool = [h \in Hosts |-> 0] /\ conns = <<>>
  /\ body = [Allocate(ReadCap) EXCEPT !.data = [i \in 0..ReadCap-1 |-> <<0, 0>>]]
  /\ pc = "idle" /\ call = [id |-> 0, host |-> CHOOSE h \in Hosts : TRUE, sent |-> "none"]
  /\ result = NoResult

Return(r) == pc' = "idle" /\ result' = r

(* Mutation: the client is put into the pool before connect(). *)
ConnectTo_PutFirst(h, cs, then) ==
  /\ pool' = [pool EXCEPT ![h] = Len(conns) + 1]
  /\ \/ /\ Len(conns) < MaxConns
        /\ conns' = Append(cs, NewConn) /\ pc' = then /\ result' = NoResult
     \/ /\ conns' = cs /\ Return(Result("exception"))

(* new HTTPSocketMessageClient(); connect(); socketPool.put(), from the      *)
(* connections cs.  A connect that throws leaves the host without one.      *)
ConnectTo(h, cs, then) ==
  \/ /\ Len(conns) < MaxConns
     /\ conns' = Append(cs, NewConn)
     /\ pool' = [pool EXCEPT ![h] = Len(conns) + 1]
     /\ pc' = then /\ result' = NoResult
  \/ /\ conns' = cs
     /\ pool' = [pool EXCEPT ![h] = 0] /\ Return(Result("exception"))

(* get(), post(): request(), up to and with getSocketConnection(). *)
Request(h) ==
  /\ pc = "idle" /\ call.id < MaxCalls
  /\ call' = [id |-> call.id + 1, host |-> h, sent |-> "none"]
  /\ \/ /\ pool[h] # 0
        /\ pc' = "write" /\ result' = NoResult /\ UNCHANGED <<pool, conns>>
     \/ /\ pool[h] = 0
        /\ ConnectTo(h, conns, "write")
  /\ UNCHANGED body

Conn == pool[call.host]

(* Mutation: the connection that failed is dropped without close(). *)
RecreateConnection_NoClose ==
  /\ pc = "recreate"
  /\ ConnectTo(call.host, conns, "retry")
  /\ UNCHANGED <<body, call>>

(* recreateConnection(): the old connection leaves the pool and is closed,  *)
(* whatever its close() throws.                                             *)
RecreateConnection ==
  /\ pc = "recreate"
  /\ ConnectTo(call.host, [conns EXCEPT ![Conn] = Closed(@)], "retry")
  /\ UNCHANGED <<body, call>>

(* HTTPSocketMessageClient.request: the write buffer is cleared, encoded    *)
(* and handed to socket.write once.  The kernel may take the request of a   *)
(* connection that the server has closed already.                           *)
SocketWrites == {"whole", "part", "zero", "error"}

(* bytesWritten <= 0 *)
Retries(sent) == sent \in {"zero", "error"}

(* request(), after client.request: at most one retry; parseResponse        *)
(* returns at once if the retry failed.                                     *)
Write ==
  /\ pc \in {"write", "retry"}
  /\ \E sent \in SocketWrites :
       /\ call' = [call EXCEPT !.sent = sent]
       /\ conns' = CASE sent = "whole" /\ ~conns[Conn].torn ->
                          [conns EXCEPT ![Conn].reqs = Append(@, call.id)]
                     [] sent = "part" -> [conns EXCEPT ![Conn].torn = TRUE]
                     [] OTHER -> conns
       /\ \/ pc = "write" /\ Retries(sent) /\ pc' = "recreate" /\ result' = NoResult
          \/ pc = "retry" /\ sent = "error" /\ Return(Result("failed"))
          \/ /\ ~(pc = "write" /\ Retries(sent)) /\ ~(pc = "retry" /\ sent = "error")
             /\ pc' = "read" /\ result' = NoResult
  /\ UNCHANGED <<pool, body>>

(* encode throws for a request that is larger than the write buffer, before *)
(* anything of it is sent.                                                  *)
EncodeOverflows ==
  /\ pc = "write"
  /\ Return(Result("exception"))
  /\ UNCHANGED <<pool, conns, body, call>>

(* HTTPDecoder: what wrap() finds in the unread part of c's buffer. *)
Unread(c) == [i \in 1..Remaining(c.buf) |-> Value(c, c.buf.data[c.buf.pos + i - 1])]

(* Mutation: the end of any header line is taken for the empty line. *)
HeadersEnd_AnyLine(ts) ==
  LET ends == {i \in 5..Len(ts) : ts[i] = Token("LF") /\ ts[i-1] = Token("CR")}
  IN  IF ends = {} THEN 0 ELSE Min(ends)

(* parseHeaders: the index of the LF that ends the empty line, 0 if it has  *)
(* not arrived.  A line ends with CR LF; the status line with SL.           *)
HeadersEnd(ts) ==
  LET ends == {i \in 5..Len(ts) : /\ ts[i] = Token("LF") /\ ts[i-1] = Token("CR")
                                  /\ ts[i-2] \in {Token("SL"), Token("LF")}}
  IN  IF ends = {} THEN 0 ELSE Min(ends)

(* contentLength(): the last Content-Length header, -1 if there is none. *)
ContentLength(ts) ==
  LET at == {i \in 1..HeadersEnd(ts) : ts[i][1] = "LEN"}
  IN  IF at = {} THEN -1 ELSE ts[Max(at)][2]

(* Mutation: a message needs one byte more than it has. *)
IsComplete_OneMore(ts) ==
  /\ HeadersEnd(ts) > 0 /\ ContentLength(ts) >= 0
  /\ Len(ts) - HeadersEnd(ts) > ContentLength(ts)

(* isComplete() *)
IsComplete(ts) ==
  /\ HeadersEnd(ts) > 0 /\ ContentLength(ts) >= 0
  /\ Len(ts) - HeadersEnd(ts) >= ContentLength(ts)

(* wrap(): parseStatusLine asks for an H only; what does not begin with one *)
(* throws, unless it is too short or like "HTTP" in one of the next letters. *)
Decodes(ts) ==
  {IF IsComplete(ts) THEN "complete" ELSE "incomplete"}
  \cup IF ts = <<>> \/ ts[1] = Token("HT") THEN {} ELSE {"incomplete", "throws"}

(* read0 on a blocking socket: some of what has arrived, or the end of the   *)
(* stream; 0 if a signal interrupted it (on a TLS socket also if errno is   *)
(* left over from one).                                                     *)
SocketReads(c, len, interrupted) ==
  IF interrupted THEN {0}
  ELSE 1..Min2(len, Len(c.stream) - c.rcvd)
       \cup (IF c.link = "eof" /\ c.rcvd = Len(c.stream) THEN {-1} ELSE {})

(* Mutation: the body is not cleared before it is filled. *)
CopyBody_NotCleared(b, bodyOffset, n) ==
  IF n > 0 /\ body.lim = body.cap
  THEN Set(body, 0, n, [i \in 0..body.cap-1 |->
                          IF i < n THEN <<Conn, b.data[bodyOffset + i]>> ELSE body.data[i]])
  ELSE body

(* body.clear(), and copyBody(body), body.flip() if there is a body *)
CopyBody(b, bodyOffset, n) ==
  IF n > 0
  THEN Set(body, 0, n, [i \in 0..body.cap-1 |->
                          IF i < n THEN <<Conn, b.data[bodyOffset + i]>> ELSE body.data[i]])
  ELSE Clear(body)

(* parseResponse, on the complete message at the front of c's buffer *)
TakeResponse(c, ts) ==
  LET n == ContentLength(ts)
      length == HeadersEnd(ts) + n
  IN
  /\ conns' = [conns EXCEPT ![Conn] =
                 [c EXCEPT !.buf = Advance(@, length), !.taken = @ + 1]]
  /\ body' = CopyBody(c.buf, c.buf.pos + HeadersEnd(ts), n)
  /\ Return(Response(Conn, [i \in 1..length |-> <<Conn, c.buf.data[c.buf.pos + i - 1]>>], n))

(* Mutation: a request that got no response is sent again. *)
NoResponse_Retries(c, kind) ==
  /\ conns' = [conns EXCEPT ![Conn] = c] /\ body' = body
  /\ pc' = "recreate" /\ result' = Result(kind)

(* Mutation: a call without a response reads again, whatever read() said. *)
NoResponse_ReadsOn(c, kind) ==
  /\ conns' = [conns EXCEPT ![Conn] = c] /\ body' = body
  /\ pc' = "read" /\ result' = Result(kind)

(* parseResponse, message <= 0 or an exception: the connection stays in the *)
(* pool, with whatever part of the response is in its buffer.               *)
NoResponse(c, kind) ==
  /\ conns' = [conns EXCEPT ![Conn] =
                 [c EXCEPT !.skipped = @ + (IF call.sent = "whole" THEN 1 ELSE 0)]]
  /\ body' = body /\ Return(Result(kind))

(* checkMessage on the buffer of c: then do what `incomplete' says.  A throw *)
(* leaves the buffer four bytes on; what a later call makes of it is open.  *)
CheckMessage(c, incomplete) ==
  \E ts \in {Unread(c)} : \E d \in Decodes(ts) :
    \/ d = "complete" /\ TakeResponse(c, ts)
    \/ d = "throws" /\ NoResponse([c EXCEPT !.framing = "lost"], "exception")
    \/ d = "incomplete" /\ incomplete

(* SocketClient.read on the buffer of c, prepared as b, when socket.read     *)
(* returned n.                                                              *)
Received(c, b, n) ==
  [c EXCEPT
     !.buf = AfterRead(IF n > 0 THEN PutRun(b, c.rcvd, n) ELSE b, n),
     !.rcvd = @ + (IF n > 0 THEN n ELSE 0),
     !.framing = IF n < 0 \/ Full(c.buf) THEN "broken" ELSE @]

(* readMessage(), when the buffer has no complete message: one read. *)
ReadOnce(c, interrupted) ==
  \E b \in {BeforeRead(c.buf)} : \E n \in SocketReads(c, Remaining(b), interrupted) :
    \E after \in {Received(c, b, n)} :
      \/ n < 0 /\ NoResponse(after, "closed")
      \/ n >= 0 /\ CheckMessage(after, NoResponse(after, "noMessage"))

(* parseResponse() with its one readMessage() *)
ParseResponse(interrupted) ==
  /\ pc = "read"
  /\ \E c \in {conns[Conn]} :
       \/ c.framing = "lost" /\ NoResponse(c, "unknown")
       \/ c.framing # "lost" /\ CheckMessage(c, ReadOnce(c, interrupted))
  /\ UNCHANGED <<pool, call>>

(* close(): every pooled connection is removed and closed; a close() that   *)
(* throws ends the loop.                                                    *)
Close ==
  /\ pc = "idle"
  /\ LET pooled == {h \in Hosts : pool[h] # 0} IN
     \E closed \in SUBSET pooled, throws \in BOOLEAN :
       /\ IF throws THEN closed # {} ELSE closed = pooled
       /\ conns' = [c \in DOMAIN conns |->
                      IF \E h \in closed : pool[h] = c THEN Closed(conns[c]) ELSE conns[c]]
       /\ pool' = [h \in Hosts |-> IF h \in closed THEN 0 ELSE pool[h]]
       /\ result' = Result(IF throws THEN "exception" ELSE "none")
  /\ UNCHANGED <<body, pc, call>>

(* The server answers the oldest request it has not answered, with or        *)
(* without a Content-Length.                                                *)
Serve(c) ==
  /\ conns[c].open /\ conns[c].link = "up" /\ Len(conns[c].ends) < Len(conns[c].reqs)
  /\ \E n \in Lengths \cup {-1} :
       \E stream \in {conns[c].stream \o Reply(n)} :
         conns' = [conns EXCEPT ![c].stream = stream, ![c].ends = Append(@, Len(stream))]
  /\ UNCHANGED <<pool, body, pc, call, result>>

(* The server ends the connection, perhaps inside a reply. *)
PeerClose(c) ==
  /\ conns[c].open /\ conns[c].link = "up"
  /\ \E e \in conns[c].rcvd..Len(conns[c].stream) :
       conns' = [conns EXCEPT ![c].stream = SubSeq(@, 1, e), ![c].link = "eof"]
  /\ UNCHANGED <<pool, body, pc, call, result>>

Next ==
  \/ \E h \in Hosts : Request(h)
  \/ RecreateConnection \/ Write \/ EncodeOverflows
  \/ ParseResponse(FALSE) \/ ParseResponse(TRUE) \/ Close
  \/ \E c \in DOMAIN conns : Serve(c) \/ PeerClose(c)

(* The caller's thread runs, and a server that is waited for answers or     *)
(* ends the connection.  No signal is assumed.                              *)
Fairness ==
  /\ WF_vars(Write \/ RecreateConnection \/ ParseResponse(FALSE))
  /\ WF_vars(pc = "read" /\ (Serve(Conn) \/ PeerClose(Conn)))

Spec == Init /\ [][Next]_vars /\ Fairness
-----------------------------------------------------------------------------
(* The last token of the first k replies of the connection c. *)
EndOf(c, k) == IF k = 0 THEN 0 ELSE c.ends[k]

(* The tokens of reply k of connection c. *)
ReplyCells(c, k) ==
  LET from == EndOf(conns[c], k-1)
  IN  [i \in 1..EndOf(conns[c], k) - from |-> <<c, from + i>>]

TypeOK ==
  /\ \A h \in Hosts : pool[h] \in 0..Len(conns)
  /\ \A c \in DOMAIN conns :
       /\ conns[c].buf \in Buffers(ReadCap) /\ conns[c].rcvd \in 0..Len(conns[c].stream)
       /\ \A i \in 0..ReadCap-1 : conns[c].buf.data[i] <= conns[c].rcvd
  /\ body.cap = ReadCap /\ body.lim \in 0..ReadCap /\ body.pos \in 0..body.lim
  /\ pc \in {"idle", "write", "recreate", "retry", "read"}
  /\ pc # "idle" => Conn # 0 /\ conns[Conn].open

(* HTTPClient.parseResponse: the response a call returns is a reply of its  *)
(* connection, whole, each reply in turn; it answers the request made as    *)
(* many calls ago as calls on this connection got no response.  So it       *)
(* answers the call's own request exactly if none did.                      *)
ReplyInTurn ==
  result.kind = "response" =>
    LET c == conns[result.conn] IN
    c.framing = "intact" /\ ~c.torn =>
      /\ result.cells = ReplyCells(result.conn, c.taken)
      /\ c.taken = Len(c.reqs) - c.skipped
      /\ c.skipped = 0 => c.reqs[c.taken] = call.id

(* HTTPSocketMessageClient.readMessage: between calls the unread part of    *)
(* the buffer continues exactly where the last response ended, up to the    *)
(* last byte received, also when a call gave up on half a response.         *)
BufferContinues ==
  \A k \in DOMAIN conns : conns[k].framing = "intact" /\ conns[k].open =>
    LET c == conns[k]
    IN  /\ c.rcvd = EndOf(c, c.taken) + Remaining(c.buf)
        /\ Holds(c.buf, c.buf.pos, c.buf.lim, EndOf(c, c.taken))

(* HTTPClient.parseResponse and HTTPDecoder.copyBody: the body handed out   *)
(* with a response that has one is exactly that response's body.            *)
BodyIsReply ==
  result.kind = "response" /\ result.length > 0 =>
    /\ body.pos = 0 /\ body.lim = result.length
    /\ \A i \in 1..result.length :
         body.data[i-1] = result.cells[Len(result.cells) - result.length + i]

(* HTTPClient.request: the retry never makes a server execute a request     *)
(* twice, since only a request that was not sent whole is sent again.       *)
AtMostOnce ==
  \A c, d \in DOMAIN conns :
    \A i \in DOMAIN conns[c].reqs, j \in DOMAIN conns[d].reqs :
      conns[c].reqs[i] = conns[d].reqs[j] => c = d /\ i = j

(* HTTPClient.recreateConnection, close: a connection is open exactly as    *)
(* long as the pool has it, under one host; none is forgotten or closed     *)
(* under a host that would use it again.                                    *)
PoolOwnsSockets ==
  /\ \A c \in DOMAIN conns : conns[c].open <=> \E h \in Hosts : pool[h] = c
  /\ \A g, h \in Hosts : pool[g] = pool[h] /\ pool[g] # 0 => g = h

(* HTTPClient has no overflow check: SocketClient.read is called on a full  *)
(* buffer, and drops it, only for a reply that does not fit the buffer or   *)
(* has no Content-Length.                                                   *)
FullOnlyIfUnfit ==
  \A c \in DOMAIN conns :
    conns[c].framing = "intact" /\ Full(conns[c].buf) /\ ~IsComplete(Unread(conns[c])) =>
      LET reply == ReplyCells(c, conns[c].taken + 1) IN
      \/ Len(reply) > ReadCap
      \/ \A i \in DOMAIN reply : Value(conns[c], reply[i][2])[1] # "LEN"

(* HTTPClient.request: a call ends, with at most one retry, whatever it     *)
(* gets, if the server answers or ends the connection.                      *)
EveryCallEnds == pc # "idle" ~> pc = "idle"
=============================================================================
