--------------------------- MODULE NativeSockets ----------------------------
(***************************************************************************)
(* sockets/NativeSocket and sockets/NativeSSLSocket with their C++ halves: *)
(* which descriptors and which SSLSocketState blocks the socket objects of *)
(* a process open, use and release.  The process has other descriptors     *)
(* too, and a number that was closed is handed out again.                  *)
(***************************************************************************)
EXTENDS Integers, FiniteSets

CONSTANTS
  Plain, Tls,      \* the NativeSocket and the NativeSSLSocket objects
  MaxFd,           \* descriptors are 0..MaxFd
  MaxBlocks        \* bound on the SSLSocketState blocks allocated

Sockets == Plain \cup Tls
Fds == 0..MaxFd
Blocks == 1..MaxBlocks
Nobody == "nobody"    \* owner of a free descriptor
Others == "others"    \* owner of a descriptor the sockets have nothing to do with

ASSUME NativeAssumption ==
  /\ Plain \cap Tls = {} /\ MaxFd \in Nat /\ MaxBlocks \in Nat
  /\ Nobody \notin Sockets /\ Others \notin Sockets

VARIABLES
  closesFailed, \* do the owners close() after a connect() that threw?  Fixed
  socketState,  \* the field of both classes
  handle,       \* the field fd of a NativeSocket, the field handle of a NativeSSLSocket
  descs,        \* each descriptor: its owner, how far its connect0 came, O_NONBLOCK
  blocks,       \* each SSLSocketState: its owner and its fields
  owed,         \* history: the sockets whose owner has a close() to make
  touched       \* history: whose resource the last operation worked on

vars == <<closesFailed, socketState, handle, descs, blocks, owed, touched>>

FreeDesc == [owner |-> Nobody, status |-> "free", nonblocking |-> FALSE]
FreeBlock == [owner |-> Nobody, status |-> "free", fd |-> -1, ssl |-> "null"]

(* The fields fd and handle are 0 in a new object; descriptor 0 is stdin. *)
Init ==
  /\ closesFailed \in BOOLEAN
  /\ socketState = [s \in Sockets |-> "UNCONNECTED"]
  /\ handle = [s \in Sockets |-> 0]
  /\ descs = [d \in Fds |-> IF d = 0
                            THEN [owner |-> Others, status |-> "new", nonblocking |-> FALSE]
                            ELSE FreeDesc]
  /\ blocks = [h \in Blocks |-> FreeBlock]
  /\ owed = {} /\ touched = "none"

(* socket(2) takes the lowest free number. *)
FreeFds == {d \in Fds : descs[d].owner = Nobody}
Lowest(d) == d \in FreeFds /\ \A e \in FreeFds : d <= e
Opened(s, d, status) ==
  [descs EXCEPT ![d] = [owner |-> s, status |-> status, nonblocking |-> FALSE]]

(* Mutation: the -1 that socket() returns is stored. *)
SetupFailed_StoresError(s) ==
  /\ ~closesFailed /\ handle' = [handle EXCEPT ![s] = -1]
  /\ UNCHANGED <<socketState, descs, blocks>>

(* Mutation: a failed setsockopt returns without close(fd). *)
SetupFailed_Leaks(s) ==
  /\ ~closesFailed /\ \E d \in Fds : Lowest(d) /\ descs' = Opened(s, d, "new")
  /\ UNCHANGED <<socketState, handle, blocks>>

(* socket() throws: no descriptor, no memory, or a setsockopt that fails    *)
(* and releases everything.  The fields keep their old values.  Owners that *)
(* also close failed connects are modelled only as long as this does not    *)
(* happen: their close() would be one too many.                             *)
SetupFailed(s) ==
  /\ ~closesFailed
  /\ UNCHANGED <<socketState, handle, descs, blocks>>

(* Mutation: any result of connect0 counts as connected. *)
Connected_Always(result) == TRUE

(* connect0(...) > 0 *)
Connected(result) == result = "connected"

(* connect() of a NativeSocket: socket(), then connect0 with one of its     *)
(* results; the state changes only on success.                              *)
ConnectPlain(s) ==
  /\ s \in Plain
  /\ \E d \in Fds, result \in {"connected", "failed"} :
       /\ Lowest(d)
       /\ handle' = [handle EXCEPT ![s] = d]
       /\ descs' = Opened(s, d, result)
       /\ socketState' = IF Connected(result) THEN [socketState EXCEPT ![s] = "CONNECTED"]
                         ELSE socketState
  /\ UNCHANGED blocks

(* connect() of a NativeSSLSocket.  The field ssl is set only after         *)
(* connect(2) has succeeded: "unset" is whatever malloc left there.         *)
ConnectTls(s) ==
  /\ s \in Tls
  /\ \E d \in Fds, h \in Blocks, ssl \in {"unset", "null", "failed", "live"} :
       LET result == IF ssl = "live" THEN "connected" ELSE "failed" IN
       /\ Lowest(d) /\ blocks[h].owner = Nobody
       /\ blocks' = [blocks EXCEPT ![h] = [owner |-> s, status |-> result,
                                           fd |-> d, ssl |-> ssl]]
       /\ handle' = [handle EXCEPT ![s] = h]
       /\ descs' = Opened(s, d, result)
       /\ socketState' = IF Connected(result) THEN [socketState EXCEPT ![s] = "CONNECTED"]
                         ELSE socketState

(* The owner calls connect() when it has no close() left to make, and owes  *)
(* one afterwards (only for a success, unless it closes failed ones too).   *)
Connect(s) ==
  /\ s \notin owed
  /\ SetupFailed(s) \/ ConnectPlain(s) \/ ConnectTls(s)
  /\ owed' = IF socketState'[s] = "CONNECTED" \/ closesFailed THEN owed \cup {s} ELSE owed
  /\ touched' = "none" /\ UNCHANGED closesFailed

(* What an operation on descriptor d, or on block h, of socket s works on. *)
WhoseFd(s, d) == IF descs[d].owner = s THEN "own"
                 ELSE IF descs[d].owner = Nobody THEN "closed" ELSE "foreign"
WhoseBlock(s, h) ==
  IF h \notin Blocks THEN "wild"
  ELSE IF blocks[h].owner = s THEN WhoseFd(s, blocks[h].fd)
  ELSE IF blocks[h].owner = Nobody THEN "freed" ELSE "foreign"
Whose(s) == IF s \in Plain THEN WhoseFd(s, handle[s]) ELSE WhoseBlock(s, handle[s])

(* Mutation: close() leaves the state as it is. *)
Closed_StillConnected(s) == socketState

(* socketState = UNCONNECTED *)
Closed(s) == [socketState EXCEPT ![s] = "UNCONNECTED"]

(* Mutation: close0 frees the block and leaves the descriptor open. *)
Released_OnlyBlock(s, d) == IF s \in Plain THEN [descs EXCEPT ![d] = FreeDesc] ELSE descs

(* close(2) on d *)
Released(s, d) == [descs EXCEPT ![d] = FreeDesc]

(* close(): the state first, then close0, which may throw after releasing.  *)
(* The fields fd and handle keep the old value.  close0 of the TLS socket   *)
(* tests and may free an unset ssl.                                         *)
Close(s) ==
  /\ s \in owed /\ owed' = owed \ {s}
  /\ socketState' = Closed(s)
  /\ touched' = IF s \in Tls /\ handle[s] \in Blocks /\ blocks[handle[s]].owner = s
                   /\ blocks[handle[s]].ssl = "unset"
                THEN "unset" ELSE Whose(s)
  /\ \/ s \in Plain /\ descs' = Released(s, handle[s]) /\ blocks' = blocks
     \/ /\ s \in Tls /\ WhoseBlock(s, handle[s]) \in {"own", "closed"}
        /\ descs' = Released(s, blocks[handle[s]].fd)
        /\ blocks' = [blocks EXCEPT ![handle[s]] = FreeBlock]
     \/ /\ s \in Tls /\ WhoseBlock(s, handle[s]) \notin {"own", "closed"}
        /\ UNCHANGED <<descs, blocks>>
  /\ UNCHANGED <<closesFailed, handle>>

(* Mutation: no check. *)
EnsureConnected_Never(s) == TRUE

(* ensureConnected() throws unless the state is CONNECTED. *)
EnsureConnected(s) == socketState[s] = "CONNECTED"

(* The descriptor an operation of s ends up on. *)
FdOf(s) == IF s \in Plain THEN handle[s]
           ELSE IF handle[s] \in Blocks THEN blocks[handle[s]].fd ELSE -1

(* read, write, setKeepAlive, setReceiveBufferSize, setSendBufferSize and   *)
(* setTcpNoDelay: one native call on the descriptor.                        *)
Use(s) ==
  /\ EnsureConnected(s) /\ touched' = Whose(s)
  /\ UNCHANGED <<closesFailed, socketState, handle, descs, blocks, owed>>

(* configureBlocking(blocking): fcntl on the descriptor. *)
ConfigureBlocking(s, blocking) ==
  /\ EnsureConnected(s) /\ touched' = Whose(s)
  /\ descs' = IF FdOf(s) \in Fds /\ descs[FdOf(s)].owner # Nobody
              THEN [descs EXCEPT ![FdOf(s)].nonblocking = ~blocking] ELSE descs
  /\ UNCHANGED <<closesFailed, socketState, handle, blocks, owed>>

(* The rest of the process opens and closes descriptors of its own. *)
OthersOpen ==
  /\ \E d \in Fds : Lowest(d) /\ descs' = Opened(Others, d, "new")
  /\ touched' = "none"
  /\ UNCHANGED <<closesFailed, socketState, handle, blocks, owed>>
OthersClose ==
  /\ \E d \in Fds : descs[d].owner = Others /\ descs' = [descs EXCEPT ![d] = FreeDesc]
  /\ touched' = "none" /\ UNCHANGED <<closesFailed, socketState, handle, blocks, owed>>

Next ==
  \/ \E s \in Sockets : Connect(s) \/ Close(s) \/ Use(s)
                        \/ \E blocking \in BOOLEAN : ConfigureBlocking(s, blocking)
  \/ OthersOpen \/ OthersClose

Spec == Init /\ [][Next]_vars
-----------------------------------------------------------------------------
TypeOK ==
  /\ closesFailed \in BOOLEAN
  /\ socketState \in [Sockets -> {"UNCONNECTED", "CONNECTED"}]
  /\ handle \in [Sockets -> Nat]
  /\ descs \in [Fds -> [owner : Sockets \cup {Nobody, Others},
                        status : {"free", "new", "failed", "connected"}, nonblocking : BOOLEAN]]
  /\ blocks \in [Blocks -> [owner : Tls \cup {Nobody}, status : {"free", "failed", "connected"},
                            fd : -1..MaxFd, ssl : {"unset", "null", "failed", "live"}]]
  /\ owed \in SUBSET Sockets
  /\ touched \in {"none", "own", "closed", "foreign", "freed", "wild", "unset"}

(* NativeSocket and NativeSSLSocket: if every successful connect() is        *)
(* followed by one close(), no read, write, option or close of a socket ever *)
(* works on a descriptor or block that is not its own, although numbers are  *)
(* handed out again and the fields are never reset.                          *)
OwnResources == ~closesFailed => touched \in {"none", "own"}

(* isConnected(): a socket that says CONNECTED has a descriptor of its own   *)
(* that connect0 brought up, and a TLS socket a live session on it.          *)
ConnectedIsUsable ==
  \A s \in Sockets : socketState[s] = "CONNECTED" =>
    /\ Whose(s) = "own" /\ descs[FdOf(s)].status = "connected"
    /\ s \in Tls => blocks[handle[s]].ssl = "live"

(* socket(), close0: without a close() after a failed connect(), the only    *)
(* descriptors and blocks that stay behind are those of failed connects; no  *)
(* error path of socket() and no close leaves anything.                      *)
OnlyFailedConnectsLeak ==
  /\ \A d \in Fds : descs[d].owner \in Sockets /\ descs[d].status # "failed" =>
       d = FdOf(descs[d].owner)
  /\ \A h \in Blocks : blocks[h].owner \in Sockets /\ blocks[h].status # "failed" =>
       h = handle[blocks[h].owner]

(* close0: with a close() after every connect(), a socket never holds more   *)
(* than the one descriptor and the one block its field names.                *)
NothingLeaks == closesFailed =>
  /\ \A d \in Fds : descs[d].owner \in Sockets => d = FdOf(descs[d].owner)
  /\ \A h \in Blocks : blocks[h].owner \in Sockets => h = handle[blocks[h].owner]
=============================================================================
