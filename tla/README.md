# Verification of gnome-networking

TLA+ models of the networking library: its socket client, its WebSocket reader,
opening handshake and frame codec, its HTTP client, its send path down to the
TLS write buffer, and its native sockets. TLC checks the models on small
instances; TLAPS proves the main results for all values of the constants.

## The system

| part | state | operations | what is hard about it |
|---|---|---|---|
| `SocketClient` | read buffer, write buffer | connect, close, reconnect, clearBuffers, read, write | partial reads and writes; which of four position/limit cases a buffer is in; full buffers; failed calls |
| message reader: `AbstractSocketMessageClient`, `WebSocketMessageClient`, `WebSocketClient` | shared `body`, the read buffer | connect, close, reconnect, reset, read | frames cut anywhere, several frames in one read, frames larger than the buffer, end of stream inside a frame |
| frame codec: `DataFrame6455`, `Opcode` | none (a view on a buffer) | lengths, flags, copyPayloadData, encode | three length formats, 32-bit lengths, output buffers that are too small |
| send path: `SocketClient.write`, `writeMessage`, `writeBuffer`, `write0`, `SSL_write` | write buffer; TLS: a sealed record, unreported bytes | write, send, resend, close | a refused TLS record is kept below the caller, who may come back with something else |
| opening handshake: `HandshakeHandler`, `RFC6455` | the read loop | attemptHandshake, parseHandshake | response cut anywhere, frames right behind it, a server that closes or never answers |
| HTTP: `HTTPClient`, `HTTPSocketMessageClient`, `HTTPDecoder` | connection pool, one buffer per connection, shared `body` | get, post, close | one read per request; which response a call gets; retry on a dead connection |
| native sockets: `NativeSocket`, `NativeSSLSocket` and the C++ files | `fd`/`handle`, `socketState`, the process's descriptors, `SSLSocketState` blocks | connect, close, read, write, options | descriptor numbers are reused, error paths must release, fields are never reset |
| `NetSocket`, `NetSSLSocket`, factories, builders | none that changes | delegation | - |

A `WebSocketClient` owns a `WebSocketMessageClient`, which is a `SocketClient`.
`connect()` connects the socket, writes the handshake request and reads the
response through the same read buffer that `read()` later takes frames from. An
`HTTPClient` has a pool of `HTTPSocketMessageClient`s, which are `SocketClient`s
too. `SocketClient` makes one call on the socket per read or write. The library
has no threads of its own. What interleaves with a client is the network, the
peer, and the rest of the process, which opens and closes descriptors.

## The modules

`ByteBuffer` has the operations of `java.nio.ByteBuffer` that the code uses
(external to this repository). A cell holds the *number* of a byte in its
stream, not its value, so a lost, repeated, reordered or stale byte is visible.

`SocketBuffers` has what `SocketClient.read` and `write` do to a buffer before
and after the call on the socket. `SocketClient`, `WebSocketReader` and
`HTTPClient` are built on it.

`SocketClient` is the client. `SocketReads` and `SocketWrites` are the answers
of `read0`/`write0`: `NativeSocket` and `NativeSSLSocket` differ in how they
detect them, and the model allows what either can give. For example, a stale
`errno` can turn an error of the TLS socket into 0. `FullReads` and
`FullWrites` say whether the caller may read into a buffer full of unread bytes
and fill the write buffer to its last byte.

`DataFrame6455` is the decoder, with Java's 32-bit sum. It also has the frame
format of the standard (`IsFrame`, RFC 6455, 5.2), which the reader expects of
a peer and the writer is held to. `WebSocketReader` is `WebSocketClient.read`
over `readMessage` over `SocketClient.read`. A frame's payload is identified by
its byte numbers. What a peer may send is a script: bytes, and the bounds
between which its frames lie. Unmasking changes the value of a byte and not
which byte it is, and is left to `FrameWriter`. `connect()` is one action
there. It assumes that an accepted response is consumed exactly to its end.
`Handshake` models that part in detail and shows when this does not hold (run
`handshake_cut`).

`MessageChannel` is the abstract specification of a client that reads: a FIFO
of whole messages (`Spec`), and the promise that each is delivered
(`Delivery`). `WebSocketReader` implements it with the mapping at its end:
`sent` is the number of frames that will arrive whole and fit the buffer, `delivered` the number of frames taken,
`open` that no read has failed and nothing was dropped.

`FrameWriter` is `encode` as `wrapMessage` and `writeMessage` use it, and the
byte values of `copyPayloadData`. Payloads are named; `SizeOf` and `PayloadByte`
give their sizes and bytes. The buffer is the list of encodings put into it,
each with its place and the number of its bytes that found room, and `Byte`
gives a single byte of it. `PeerFrame` is the view a peer that decodes has:
the bytes of the header, and those of the payload that a property asks for.
`XorByte` is Java's `^` written bit by bit, for the proofs; `MCFrameWriter`
compares it with the `^^` of the module `Bitwise` on all pairs of bytes.

`SendPath` is the way from `write()` to the wire. One caller streams through
`SocketClient.write`, the other sends messages (`writeMessage`, `writeBuffer`,
an HTTP request). Below are `NativeSocket.write0`, or `NativeSSLSocket.write0`
with the part of BoringSSL that a write depends on: the fragments of
`tls_write_app_data`, `pending_write` and the write buffer of `do_tls_write`,
`unreported_bytes_written`, alerts and `SSL_shutdown`. A record leaves all at
once, because the peer can use none of it before its last byte. `ByteStream` is
the abstract specification: bytes arrive in order, and what was reported has
arrived.

`Handshake` is `attemptHandshake` with `parseHandshake`. A token is the unit in
which a response can be cut: half of the protocol prefix, the text of a line,
CR, LF, a piece of a frame. Servers end their lines with CR LF. `HeaderLines`
gives the token in each place directly, three tokens to a line, so that the
proofs can compute with places.

`HTTPClient` is the HTTP client with its decoder. A response is again a
sequence of tokens. `HeadersEnd`, `ContentLength`, `IsComplete` and `Decodes`
are what `HTTPDecoder.wrap` computes from the unread tokens. `pc` is the place
in `request()`: `write`, `recreate`, `retry`, `read`. `framing` and `torn` are
history: whether a read has failed or ran over a full buffer, and whether a
request was sent in part. Each connection numbers the tokens of its own stream.
After an exception of the decoder the buffer is left
between two tokens; from then on the model only says that a call ends
(`unknown`).

`NativeSockets` models both native classes. It covers which descriptors and
blocks they open, use and release, next to other users of the process's
descriptors. `Opened` and `SetupFailed` stand for the two `socket()` functions,
which differ only in the block and context the TLS one also releases. An
`unset` field `ssl` is what `malloc` left there; the model goes on with the
outcome that does not crash. `reconnect()` is a close followed by a connect.
`closesFailed`, chosen at the start, says whether owners also close connects
that failed.

`MCWebSocketReader`, `MCHandshake` and `MCFrameWriter` hold the peers, the
payloads and the mask keys for TLC. The modules whose names end in `Proofs` hold
the theorems; `BufferLemmas` has the lemmas that several of them rest on.

## The runs

| run | checks | result |
|---|---|---|
| `client` | `TypeOK`, `ReadWindow`, `WriteWindow`, `WireInOrder` | pass |
| `client_full_write` | `ZeroWriteKeepsPosition` | violated |
| `ws_reader` | `TypeOK`, `FramesInOrder`, `BufferAligned`, `NeverReadsFull`, `BodyIsPayload` | pass |
| `ws_reader_live` | `ImplementsChannel`, `EveryFrameTold` | pass |
| `ws_after_closed` | `NoMessageAfterClosed` | violated |
| `handshake` | `TypeOK`, `MatchedIsReal`, `ValidNotRejected`, `FramesSurvive`, `ValidIsAnswered` | pass |
| `handshake_cut` | `MatchedConsumesResponse` | violated |
| `handshake_closed` | `ClosedEndsAttempt` | violated |
| `native_sockets` | `TypeOK`, `OwnResources`, `ConnectedIsUsable`, `OnlyFailedConnectsLeak`, `NothingLeaks` | pass |
| `send_path` | `TypeOK`, `WireIsStream`, `CleanClose`, `ImplementsStream`, `RetrySucceeds` | pass |
| `http` | `TypeOK`, `ReplyInTurn`, `BufferContinues`, `BodyIsReply`, `AtMostOnce`, `PoolOwnsSockets`, `FullOnlyIfUnfit`, `EveryCallEnds` | pass |
| `codec` | `TypeOK`, `MessagesDecode`, `EncodesFrames`, `TornIsIncomplete` | pass |

The four violated properties say what a test, a Javadoc or a description in the
code says:

- `client_full_write`: a write buffer filled to its last byte and a socket that
  takes nothing. The reverse flip is skipped (`SocketClient.java:53`) and the
  content is lost.
- `ws_after_closed`: `read()` leaves the buffer in put mode when the stream has
  ended (`SocketClient.java:79`). The next call parses old contents.
- `handshake_cut`: `MATCHED` before the empty line has arrived
  (`RFC6455.java:104`). The rest of the response is parsed as frames.
- `handshake_closed`: the read loop ignores -1 (`HandshakeHandler.java:45`).

### What the HTTP run shows

`request()` reads once. A call whose response does not arrive with that read
returns without one and leaves the part that came in the buffer
(`BufferContinues`). The response is then returned by the next call on the
connection: `ReplyInTurn` says that responses are returned whole and in order,
and that a call gets the answer to its own request exactly if no call on this
connection came away empty before. The retry is harmless (`AtMostOnce`): a
request is sent again only if it was not sent whole.

Three things lie outside these properties, and the model reaches them:

- A connection whose server has closed it stays pooled. If the kernel takes the
  next request, an old response can be parsed out of the buffer, which the
  failed read left in put mode, and is returned once more.
- A response without `Content-Length` is never complete. It stays in front of
  the later ones until the buffer is full, and the next read overwrites it
  (`FullOnlyIfUnfit`).
- A request that the socket took in part counts as sent. Client and server then
  wait for each other until the server ends the connection.

### Conditions on the passing runs

- `ReadWindow` is about states in which no read has failed since the buffers
  were cleared, and callers that do not read into a full buffer.
- `WriteWindow` and `WireInOrder` are about applications that leave one byte of
  the write buffer free.
- `FramesInOrder`, `BufferAligned`, `NeverReadsFull` and `BodyIsPayload` hold
  from a `connect()` that succeeded up to the first failed read or the first
  `reset()` that drops bytes. `NeverReadsFull` needs a buffer at least as large
  as every header the peer sends. `ImplementsChannel` says the same with
  `open`. In these runs and proofs the application stops reading after such a
  failure until it has connected again (`~ReadsOn`); `ws_after_closed` is about
  one that goes on.
- `OwnResources` is about owners that call `close()` exactly once after each
  `connect()` that succeeded. Owners that also close failed connects
  (`closesFailed`) leave nothing open (`NothingLeaks`), but only as long as
  `socket()` does not fail: after such a failure the field still names a
  descriptor that is closed already. On the TLS socket they also make `close0`
  read an uninitialised `ssl` when the connection was refused.
- A request that is written in part is never completed, because
  `sendHandshake` ignores the result. `ValidIsAnswered` therefore assumes that
  the request went out.
- `WireIsStream`, `CleanClose` and `ImplementsStream` hold until a message is
  `torn`: the plain socket took a part of it and the caller went on with the
  next one, or the caller gave up a message of which BoringSSL holds a sealed
  part. The streaming caller never tears anything. `RetrySucceeds` is about a
  caller that sends the refused message again, unchanged and from the same
  buffer.
- `ReplyInTurn` is about connections on which no read has failed, no request
  was torn and the buffer was never overrun. `BodyIsReply` is about responses
  with a body; for an empty one `body` is cleared and not flipped.
- `MessagesDecode` is about payload buffers whose position is 0: `encode` takes
  `remaining()` bytes, but from index 0 on. Payloads whose frame would have 2^31
  bytes or more are left out: no buffer of Java holds such a frame.

### Bounds

- `client`: capacity 3, four bytes to receive and three to send. Every
  position/limit case, wrap-around of the whole buffer, and every split of a
  read or write occur.
- `ws_reader`: capacity 7, with frames of 2, 3, 5, 7 and 8 bytes. There is a
  frame that fills the buffer exactly, one that does not fit, each length
  format but the 8-byte one, a masked frame, a fragment, a bad opcode, a close
  frame. Two connections show what one leaves to the next; the refinement run
  needs one.
- `handshake`: capacity 18 tokens. The responses need 15 or 18 tokens of it,
  and one needs 21 and does not fit.
- `native_sockets`: one socket of each class, four descriptors, two blocks.
  That is enough for a number to be closed by one, taken by another and used by
  the first.
- `send_path`: fragments of two bytes, six bytes in all. A message has up to
  three records, of which any can be refused.
- `http`: one host, two connections, three calls, a buffer of nine tokens. A
  response has 5 tokens without a length and 8 to 10 with one: it can fit with
  room to spare, fill the buffer exactly, or not fit. Three calls show a
  response that is late by one and by two. With one host a `close()` that
  throws leaves nothing behind; the proofs cover all sets of hosts.
- `codec`: payloads of 0, 1, 6, 125, 126, 65535 and 65536 bytes, up to three in
  a buffer of 65554, in which the longest frame just fits. Of a long payload
  the first and last bytes are compared, which meet every byte of the mask; the
  proofs have all of them.

### Fairness

- `ws_reader_live`: `read()` is called again and again and the kernel hands
  over bytes that have arrived (weak fairness of a read that makes progress).
- `handshake`: the caller's thread runs the loop, and again the kernel hands
  over what has arrived. No fairness is assumed of the peer.
- `send_path`: the thread in a call goes on; an application whose message was
  refused sends it again; a kernel that is offered bytes again and again takes
  some (strong fairness, since it may be offered none in between).
- `http`: the caller's thread runs, and a server that is waited for answers or
  ends the connection. The sockets block and have no timeout, so that without
  the second a call can wait for ever.

Deadlock is checked in every run. `Done` in `Handshake` is the end of the call.

## The proofs

`SocketClientProofs`, for all capacities and bounds:

- `BuffersWellFormed`: `Spec => []TypeOK`.
- `ReadIntegrity`: without reads into a full buffer, `Spec => []ReadWindow`.
- `WriteIntegrity`: with one byte left free, `Spec => []WriteWindow`.
- `WireOrder`: under the same condition, `Spec => []WireInOrder`.

`TypeOK` is inductive, and so is `ReadWindow` together with it. `WriteWindow`
is not: that an empty write restores the position needs the limit after the
flip to be below the capacity, so `WriteInv` adds that the position of a
connected client's buffer is below the capacity. `WireInOrder` needs to know
that what is on the wire is older than what is in the buffer: `WireInv` adds
that no byte on the wire is newer than `flushed`, and that `flushed` does not
pass `put`.

`NativeSocketsProofs`, for all sets of sockets, descriptors and blocks:
`NativeTypes`, `NativeOwnResources`, `NativeConnectedIsUsable`, `NativeLeaks`
and `NativeNothingLeaks`. `NativeInv` adds what ties the tables to
the fields. `Ownership`: whoever owes a `close()` has a descriptor, or a block
with a descriptor, of its own behind the field, and `CONNECTED` implies that a
`close()` is owed. `Accounted`: whatever a socket holds is named by its field,
except what failed connects leave with owners that do not close them.

`SendPathProofs`, for all fragment sizes and message lengths: `SendTypes`,
`SendOrder`, `SendCleanClose`, and the refinement `SendImplementsStream`.
`SendInv` says where each byte is (`Position`): the wire ends at `reported`
plus what SSL_write has sent and not reported (`total` in the call,
`unreported` between calls), and the sealed record holds exactly the
`pending.len` bytes behind that. `Argument` adds that a call is about the bytes
behind `reported`, and `Waits` when there is a sealed record at all.
The refinement theorem shows that each step moves,
breaks or restarts the stream, or leaves it alone.

`HTTPClientProofs`, for all hosts, buffer sizes and numbers of calls and
connections: `HTTPAtMostOnce` and `HTTPPoolOwnsSockets`. Neither is inductive.
`NotSentYet` adds that no server has the request of a later call, nor the
current one as long as the call may still send it. `Shape` adds that a call in
progress has a pooled connection. Reading, answering and ending a connection
change neither requests nor the pool (`Keeps`), which settles those steps at
once; the steps that connect are two uses of `ConnectInv`.

Its second part is about the responses, for all content lengths too:
`HTTPTypes`, `HTTPReplyInTurn`, `HTTPBodyIsReply`, `HTTPBufferContinues` and
`HTTPFullOnlyIfUnfit`. The proof has two halves. One is about the decoder: the unread tokens of a connection whose buffer starts at
the end of a reply are a beginning of replies, so `HeadersEnd` and
`ContentLength` find the end of the first reply, the whole of it or nothing
(`ParseReply`). The other is the invariant `StreamInv`. `ServerSide`: the
stream of a connection is its replies, one behind the other, at most one for a
request. `Aligned`: as long as nothing failed or was overrun, the buffer holds
exactly the tokens received behind the last reply taken. `Accounted`: on such a
connection every whole request was answered to its caller, given up, or is
waited for; this is the count from which `ReplyInTurn` follows. `CallInv` adds
that the last whole request is the current call's own.

`WebSocketReaderProofs`, for all buffer sizes, all lengths of the handshake
response and all peers that send well-formed frames whose headers fit the
buffer, if the application does not read on after a failure (`~ReadsOn`):
`ReaderTypes`, `ReaderFrames`, `ReaderAlignment`, `ReaderOverflow`,
`ReaderBodies` and the refinement `ReaderImplementsChannel`. The decoder comes
first: on a window that starts at a frame, `hasCompleteHeader`, `headerLength`
and `length` give that frame's header and size in every length format, with
Java's 32-bit sum, and the payload is what lies behind the header. `ReaderInv`
is then the properties together with `Framed`: the bytes of the connection are
frames, one behind the other, and `next` is one of them. `NeverReadsFull`
follows from it: a full buffer that starts at a frame holds a whole frame or a
header that says that the frame is too large. The refinement needs one more
fact, `ToldArrived`: the frames told have arrived and fitted the buffer. Each
step of the reader is then `Open` (a connect), `Deliver` (a frame told) or
`Other` (the connection ends, or a call tells nothing), or leaves the channel
alone.

`HandshakeProofs`, for all sizes of the read buffer and all responses:
`HandshakeTypes`, `HandshakeMatched`, `HandshakeNotRejected` and
`HandshakeFrames`. The parser is analysed on beginnings of a response
(`IsBeginning`): which line feeds the header loop looks at (`HeaderEndsAre`),
what it finds there (`FoundAre`) and where it stops (`IndexIs`). The difficulty
is that the buffer need not hold a beginning. A full buffer is taken for an
empty one and overwritten, and a read that fails leaves put mode behind, so
that the next one compacts cells that were never filled to the front.
`BufferInv` therefore follows the first token: it is never in another cell than
the first, and while it is there all tokens received are in the buffer, in
order. A window that shows the protocol prefix
has the first token in the first cell, so a match is always a match of a
beginning (`MatchedWindow`). `InTime` adds, for a valid response that fits and
is sent whole, that it is accepted as soon as its last token is there, and that
until then no read fails and the buffer stays in get mode.

`FrameWriterProofs`, for all payloads, mask keys, capacities and numbers of
messages in a buffer: `WriterTypes`, `WriterDecodes`, `WriterEveryByte`,
`WriterFrames` and `WriterTorn`. `Layout` is the inductive invariant: the
encodings lie one behind the other from 0 to the position, each with as many
bytes as `encode` could put into the room it found. It gives every byte in front
of the position to exactly one encoding (`ByteIs`), so that what a peer sees
from the start of a message is a beginning of its encoding and, if the message
is whole, all of it (`PeerSees`). The rest is about one encoding. `HeaderBytes`
has the header in each of the three formats; `DecodesHeader` says what the
decoder reads there: the size, the mask and its key, the end of the frame.
`XorTwice` says that masking a byte twice gives it back, `DecodesPayload` that
`getMaskingKey` and the shifts of `copyPayloadData` select the key byte that
`encode` used, for every place in the payload and for negative keys.
`WriterDecodes` compares the bytes that the run compares, and `WriterEveryByte`
compares all. `WriterFrames` connects the two directions: what `encode` writes
is what `WebSocketReaderProofs` assumes of a peer, in the shortest of the three
formats. `WriterTorn` follows the decoder through each place where the room can
end: inside the header, in front of the mask key, which is put as one int, and
inside the payload.

`BufferLemmas` has the lemmas about `ByteBuffer` and `SocketBuffers`, for every
capacity: the operations keep a buffer well formed, `read()` keeps unread bytes
where the caller expects them unless the buffer is full, and no cell gets a
byte that was not received. It also has least and greatest elements of sets of
naturals, from the well-foundedness of `<`.

The assumptions are the named ones of the modules: capacities and fragment
sizes are positive, bounds are naturals, there is a host, a peer's script is a
sequence of frames, a response has a first line of two tokens and any sequence
of header lines, the sizes of payloads, mask keys and capacities of output
buffers are Java ints.

Only model-checked is liveness: `EveryFrameTold`, `ValidIsAnswered`,
`RetrySucceeds` and `EveryCallEnds`. Fairness and ENABLED are beyond the prover.
Every other property of a passing run has a theorem. That `XorByte` is the `^`
of all pairs of bytes is evaluated by TLC (`XorIsBitwise`).

## Not modelled

- `NetSocket` and `NetSSLSocket` delegate to `java.net`; the exceptions they can
  throw are outcomes in `Handshake`. Factories and builders have no state that
  changes.
- The text of the handshake request and of HTTP requests, and the status code
  of a response, are formatting. Of `HTTPEncoder` only the overflow of its
  buffer is there (`EncodeOverflows`).
- The pool is keyed by host alone, so that HTTP and HTTPS share a connection.
  The model has one protocol per host.
- BoringSSL is vendored under `src/` and makes up almost all of its lines. Only
  what a write and a close of this library depend on is modelled. The TLS
  handshake enters `NativeSockets` as one outcome of `connect0`, and reads as
  the answers of `SSL_read`. Its cryptography, certificates, DTLS, QUIC, server
  side and tests have no counterpart here; a model of them would be about
  another program.
- The JDK and the kernel are external; they appear as the answers the code can
  get from them.
- A payload length from 2^31 on is negative in `getPayloadLength`, which its
  comment accepts. The decoder model keeps the arithmetic; no run sends such a
  length.
