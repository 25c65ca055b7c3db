------------------------ MODULE NativeSocketsProofs -------------------------
(***************************************************************************)
(* For any number of sockets, descriptors and blocks: no socket works on a *)
(* resource of another, CONNECTED means usable, and what can leak.         *)
(***************************************************************************)
EXTENDS NativeSockets, TLAPS

(* The field of s names a descriptor, or a block with a descriptor, of s. *)
Owns(s) ==
  /\ s \in Plain => handle[s] \in Fds /\ descs[handle[s]].owner = s
  /\ s \in Tls => /\ handle[s] \in Blocks /\ blocks[handle[s]].owner = s
                  /\ blocks[handle[s]].fd \in Fds /\ descs[blocks[handle[s]].fd].owner = s

IsUp(s) ==
  /\ descs[FdOf(s)].status = "connected"
  /\ s \in Tls => blocks[handle[s]].ssl = "live"

(* A close() is owed exactly by the sockets whose field is current. *)
Ownership ==
  /\ \A s \in Sockets : socketState[s] = "CONNECTED" => s \in owed /\ IsUp(s)
  /\ \A s \in owed : Owns(s) /\ (closesFailed \/ socketState[s] = "CONNECTED")

(* Everything a socket holds is named by its field and will be closed,       *)
(* except what failed connects leave with owners that do not close them.     *)
Accounted ==
  \A s \in Sockets :
    /\ \A d \in Fds : descs[d].owner = s /\ (closesFailed \/ descs[d].status # "failed") =>
         s \in owed /\ d = FdOf(s)
    /\ \A h \in Blocks : blocks[h].owner = s /\ (closesFailed \/ blocks[h].status # "failed") =>
         s \in owed /\ h = handle[s]

NativeInv == TypeOK /\ Ownership /\ Accounted /\ OwnResources

-----------------------------------------------------------------------------

(* A process that has opened no socket. *)
LEMMA NativeInit == Init => NativeInv
<1> SUFFICES ASSUME Init PROVE NativeInv
  OBVIOUS
<1> USE NativeAssumption
<1>1. TypeOK
  <2>1. FreeDesc \in [owner : Sockets \cup {Nobody, Others},
                      status : {"free", "new", "failed", "connected"}, nonblocking : BOOLEAN]
    BY DEF FreeDesc
  <2>2. FreeBlock \in [owner : Tls \cup {Nobody}, status : {"free", "failed", "connected"},
                       fd : -1..MaxFd, ssl : {"unset", "null", "failed", "live"}]
    BY DEF FreeBlock
  <2> QED
    BY <2>1, <2>2 DEF Init, TypeOK
<1>2. Ownership /\ OwnResources
  BY DEF Init, Ownership, OwnResources
<1>3. Accounted
  <2>1. \A d \in Fds : descs[d].owner \notin Sockets
    BY DEF Init, FreeDesc, Fds
  <2>2. \A h \in Blocks : blocks[h].owner \notin Sockets
    BY DEF Init, FreeBlock
  <2> QED
    BY <2>1, <2>2 DEF Accounted
<1> QED
  BY <1>1, <1>2, <1>3 DEF NativeInv

-----------------------------------------------------------------------------

(* The kinds of records. *)
Descs == [owner : Sockets \cup {Nobody, Others},
          status : {"free", "new", "failed", "connected"}, nonblocking : BOOLEAN]
BlockRecs == [owner : Tls \cup {Nobody}, status : {"free", "failed", "connected"},
              fd : -1..MaxFd, ssl : {"unset", "null", "failed", "live"}]

(* A socket that owes a close() has a descriptor. *)
LEMMA OwedFd ==
  ASSUME NativeInv, NEW t \in owed
  PROVE  t \in Sockets /\ FdOf(t) \in Fds /\ descs[FdOf(t)].owner = t
BY NativeAssumption DEF NativeInv, TypeOK, Ownership, Owns, FdOf, Sockets

(* connect() of a plain socket that owes no close(). *)
LEMMA ConnectPlainStep ==
  ASSUME NativeInv, NEW s \in Sockets, Connect(s), ConnectPlain(s)
  PROVE  NativeInv'
<1> USE NativeAssumption
<1>1. PICK d \in Fds, result \in {"connected", "failed"} :
        /\ Lowest(d)
        /\ handle' = [handle EXCEPT ![s] = d]
        /\ descs' = Opened(s, d, result)
        /\ socketState' = IF Connected(result) THEN [socketState EXCEPT ![s] = "CONNECTED"]
                          ELSE socketState
  BY DEF ConnectPlain
<1>2. /\ s \in Plain /\ s \notin Tls /\ s \notin owed /\ blocks' = blocks
      /\ closesFailed' = closesFailed /\ touched' = "none"
      /\ owed' = IF socketState'[s] = "CONNECTED" \/ closesFailed THEN owed \cup {s} ELSE owed
  BY DEF Connect, ConnectPlain
<1>3. TypeOK
  BY DEF NativeInv
<1>4. descs[d].owner = Nobody /\ d \in Nat /\ s # Nobody
  BY <1>1 DEF Lowest, FreeFds, Fds
<1>5. descs' = [descs EXCEPT ![d] = [owner |-> s, status |-> result, nonblocking |-> FALSE]]
  BY <1>1 DEF Opened
<1>6. socketState' = IF result = "connected" THEN [socketState EXCEPT ![s] = "CONNECTED"]
                     ELSE socketState
  BY <1>1 DEF Connected
<1>7. socketState[s] = "UNCONNECTED"
  BY <1>2, <1>3 DEF NativeInv, Ownership, TypeOK
<1>8. TypeOK'
  <2>1. [owner |-> s, status |-> result, nonblocking |-> FALSE] \in Descs
    BY DEF Descs
  <2>2. descs' \in [Fds -> Descs]
    BY <1>3, <1>5, <2>1 DEF TypeOK, Descs
  <2> QED
    BY <1>1, <1>2, <1>3, <1>4, <1>6, <2>2 DEF TypeOK, Descs
<1>9. \A t \in Sockets : t # s => handle'[t] = handle[t] /\ socketState'[t] = socketState[t]
                                  /\ FdOf(t)' = FdOf(t)
  BY <1>1, <1>2, <1>3, <1>6 DEF TypeOK, FdOf
<1>10. handle'[s] = d /\ FdOf(s)' = d
  BY <1>1, <1>2, <1>3 DEF TypeOK, FdOf
<1>11. descs'[d] = [owner |-> s, status |-> result, nonblocking |-> FALSE]
       /\ \A e \in Fds : e # d => descs'[e] = descs[e]
  BY <1>3, <1>5 DEF TypeOK
<1>12. \A t \in owed : t # s /\ FdOf(t) # d /\ FdOf(t) \in Fds
  BY <1>2, <1>4, OwedFd
<1>13. Ownership'
  <2>1. ASSUME NEW t \in Sockets, socketState'[t] = "CONNECTED" PROVE t \in owed' /\ IsUp(t)'
    <3>1. CASE t = s
      BY <1>2, <1>6, <1>7, <1>10, <1>11, <2>1, <3>1 DEF IsUp
    <3>2. CASE t # s
      <4>1. t \in owed /\ IsUp(t)
        BY <1>9, <2>1, <3>2 DEF NativeInv, Ownership
      <4>2. descs'[FdOf(t)'] = descs[FdOf(t)] /\ handle'[t] = handle[t]
        BY <1>9, <1>11, <1>12, <3>2, <4>1
      <4> QED
        BY <1>2, <4>1, <4>2 DEF IsUp
    <3> QED
      BY <3>1, <3>2
  <2>2. ASSUME NEW t \in owed' PROVE Owns(t)' /\ (closesFailed' \/ socketState'[t] = "CONNECTED")
    <3>1. CASE t = s
      BY <1>2, <1>6, <1>7, <1>10, <1>11, <2>2, <3>1 DEF Owns
    <3>2. CASE t # s
      <4>1. t \in owed /\ Owns(t) /\ (closesFailed \/ socketState[t] = "CONNECTED")
        BY <1>2, <2>2, <3>2 DEF NativeInv, Ownership
      <4>2. t \in Sockets /\ t # Nobody
        BY <1>3, <4>1 DEF TypeOK
      <4>3. handle'[t] = handle[t] /\ socketState'[t] = socketState[t]
        BY <1>9, <3>2, <4>2
      <4>4. \A e \in Fds : descs[e].owner = t => descs'[e].owner = t
        BY <1>4, <1>11, <4>2
      <4>5. Owns(t)'
        BY <1>2, <4>1, <4>3, <4>4 DEF Owns
      <4> QED
        BY <1>2, <4>1, <4>3, <4>5
    <3> QED
      BY <3>1, <3>2
  <2> QED
    BY <2>1, <2>2 DEF Ownership
<1>14. Accounted'
  <2>1. ASSUME NEW t \in Sockets, NEW e \in Fds, descs'[e].owner = t,
               closesFailed' \/ descs'[e].status # "failed"
        PROVE  t \in owed' /\ e = FdOf(t)'
    <3>1. CASE e = d
      BY <1>2, <1>3, <1>6, <1>10, <1>11, <2>1, <3>1 DEF TypeOK
    <3>2. CASE e # d
      <4>1. t \in owed /\ e = FdOf(t)
        BY <1>2, <1>11, <2>1, <3>2 DEF NativeInv, Accounted
      <4> QED
        BY <1>2, <1>9, <1>12, <4>1
    <3> QED
      BY <3>1, <3>2
  <2>2. ASSUME NEW t \in Sockets, NEW h \in Blocks, blocks'[h].owner = t,
               closesFailed' \/ blocks'[h].status # "failed"
        PROVE  t \in owed' /\ h = handle'[t]
    <3>1. t \in owed /\ h = handle[t]
      BY <1>2, <2>2 DEF NativeInv, Accounted
    <3> QED
      BY <1>2, <1>9, <1>12, <3>1
  <2> QED
    BY <2>1, <2>2 DEF Accounted
<1> QED
  BY <1>8, <1>13, <1>14, <1>2 DEF NativeInv, OwnResources

(* connect() of a TLS socket that owes no close(). *)
LEMMA ConnectTlsStep ==
  ASSUME NativeInv, NEW s \in Sockets, Connect(s), ConnectTls(s)
  PROVE  NativeInv'
<1> USE NativeAssumption
<1>1. PICK d \in Fds, h \in Blocks, ssl \in {"unset", "null", "failed", "live"} :
        LET result == IF ssl = "live" THEN "connected" ELSE "failed" IN
        /\ Lowest(d) /\ blocks[h].owner = Nobody
        /\ blocks' = [blocks EXCEPT ![h] = [owner |-> s, status |-> result,
                                            fd |-> d, ssl |-> ssl]]
        /\ handle' = [handle EXCEPT ![s] = h]
        /\ descs' = Opened(s, d, result)
        /\ socketState' = IF Connected(result) THEN [socketState EXCEPT ![s] = "CONNECTED"]
                          ELSE socketState
  BY DEF ConnectTls
<1> DEFINE result == IF ssl = "live" THEN "connected" ELSE "failed"
           block == [owner |-> s, status |-> result, fd |-> d, ssl |-> ssl]
<1>2. /\ s \in Tls /\ s \notin Plain /\ s \notin owed
      /\ closesFailed' = closesFailed /\ touched' = "none"
      /\ owed' = IF socketState'[s] = "CONNECTED" \/ closesFailed THEN owed \cup {s} ELSE owed
  BY DEF Connect, ConnectTls
<1>3. TypeOK
  BY DEF NativeInv
<1>4. descs[d].owner = Nobody /\ d \in Nat /\ s # Nobody
  BY <1>1 DEF Lowest, FreeFds, Fds
<1>5. descs' = [descs EXCEPT ![d] = [owner |-> s, status |-> result, nonblocking |-> FALSE]]
  BY <1>1 DEF Opened
<1>6. socketState' = IF result = "connected" THEN [socketState EXCEPT ![s] = "CONNECTED"]
                     ELSE socketState
  BY <1>1 DEF Connected
<1>7. socketState[s] = "UNCONNECTED"
  BY <1>2, <1>3 DEF NativeInv, Ownership, TypeOK
<1>8. TypeOK'
  <2>1. [owner |-> s, status |-> result, nonblocking |-> FALSE] \in Descs
    BY DEF Descs
  <2>2. descs' \in [Fds -> Descs]
    BY <1>3, <1>5, <2>1 DEF TypeOK, Descs
  <2>3. block \in BlockRecs
    BY <1>2 DEF BlockRecs, Fds
  <2>4. blocks' \in [Blocks -> BlockRecs]
    BY <1>1, <1>3, <2>3 DEF TypeOK, BlockRecs
  <2>5. h \in Nat
    BY DEF Blocks
  <2> QED
    BY <1>1, <1>2, <1>3, <1>4, <1>6, <2>2, <2>4, <2>5 DEF TypeOK, Descs, BlockRecs
<1>9. blocks'[h] = block /\ \A g \in Blocks : g # h => blocks'[g] = blocks[g]
  BY <1>1, <1>3 DEF TypeOK
<1>10. handle'[s] = h /\ FdOf(s)' = d
  BY <1>1, <1>2, <1>3, <1>9 DEF TypeOK, FdOf
<1>11. descs'[d] = [owner |-> s, status |-> result, nonblocking |-> FALSE]
       /\ \A e \in Fds : e # d => descs'[e] = descs[e]
  BY <1>3, <1>5 DEF TypeOK
<1>12. ASSUME NEW t \in owed
       PROVE  /\ t \in Sockets /\ t # s /\ t # Nobody
              /\ handle'[t] = handle[t] /\ socketState'[t] = socketState[t]
              /\ t \in Tls => handle[t] \in Blocks /\ blocks'[handle[t]] = blocks[handle[t]]
              /\ FdOf(t)' = FdOf(t) /\ descs'[FdOf(t)] = descs[FdOf(t)]
  <2>1. t \in Sockets /\ t # s /\ t # Nobody
    BY <1>2, <1>3 DEF TypeOK
  <2>2. handle'[t] = handle[t] /\ socketState'[t] = socketState[t]
    BY <1>1, <1>3, <1>6, <2>1 DEF TypeOK
  <2>3. t \in Tls => handle[t] \in Blocks /\ blocks'[handle[t]] = blocks[handle[t]]
    BY <1>1, <1>9, <2>1 DEF NativeInv, Ownership, Owns
  <2>4. FdOf(t)' = FdOf(t)
    BY <2>1, <2>2, <2>3 DEF FdOf, Sockets
  <2>5. FdOf(t) \in Fds /\ FdOf(t) # d
    BY <1>4, <2>1, OwedFd
  <2> QED
    BY <1>11, <2>1, <2>2, <2>3, <2>4, <2>5
<1>13. Ownership'
  <2>1. ASSUME NEW t \in Sockets, socketState'[t] = "CONNECTED" PROVE t \in owed' /\ IsUp(t)'
    <3>1. CASE t = s
      <4>1. result = "connected" /\ ssl = "live"
        BY <1>6, <1>7, <2>1, <3>1
      <4> QED
        BY <1>2, <1>9, <1>10, <1>11, <2>1, <3>1, <4>1 DEF IsUp
    <3>2. CASE t # s
      <4>1. socketState[t] = "CONNECTED"
        BY <1>3, <1>6, <2>1, <3>2 DEF TypeOK
      <4>2. t \in owed /\ IsUp(t)
        BY <4>1 DEF NativeInv, Ownership
      <4> QED
        BY <1>2, <1>12, <4>2 DEF IsUp
    <3> QED
      BY <3>1, <3>2
  <2>2. ASSUME NEW t \in owed' PROVE Owns(t)' /\ (closesFailed' \/ socketState'[t] = "CONNECTED")
    <3>1. CASE t = s
      <4>1. closesFailed' \/ socketState'[t] = "CONNECTED"
        BY <1>2, <2>2, <3>1
      <4> QED
        BY <1>2, <1>9, <1>10, <1>11, <3>1, <4>1 DEF Owns
    <3>2. CASE t # s
      <4>1. t \in owed /\ Owns(t) /\ (closesFailed \/ socketState[t] = "CONNECTED")
        BY <1>2, <2>2, <3>2 DEF NativeInv, Ownership
      <4>2. \A e \in Fds : descs[e].owner = t => descs'[e].owner = t
        BY <1>4, <1>11, <1>12, <4>1
      <4>3. /\ handle'[t] = handle[t] /\ socketState'[t] = socketState[t]
            /\ t \in Tls => blocks'[handle[t]] = blocks[handle[t]]
        BY <1>12, <4>1
      <4>4. Owns(t)'
        BY <4>1, <4>2, <4>3 DEF Owns
      <4> QED
        BY <1>2, <4>1, <4>3, <4>4
    <3> QED
      BY <3>1, <3>2
  <2> QED
    BY <2>1, <2>2 DEF Ownership
<1>14. Accounted'
  <2>1. ASSUME NEW t \in Sockets, NEW e \in Fds, descs'[e].owner = t,
               closesFailed' \/ descs'[e].status # "failed"
        PROVE  t \in owed' /\ e = FdOf(t)'
    <3>1. CASE e = d
      BY <1>2, <1>3, <1>6, <1>10, <1>11, <2>1, <3>1 DEF TypeOK
    <3>2. CASE e # d
      <4>1. t \in owed /\ e = FdOf(t)
        BY <1>2, <1>11, <2>1, <3>2 DEF NativeInv, Accounted
      <4> QED
        BY <1>2, <1>12, <4>1
    <3> QED
      BY <3>1, <3>2
  <2>2. ASSUME NEW t \in Sockets, NEW g \in Blocks, blocks'[g].owner = t,
               closesFailed' \/ blocks'[g].status # "failed"
        PROVE  t \in owed' /\ g = handle'[t]
    <3>1. CASE g = h
      BY <1>2, <1>3, <1>6, <1>9, <1>10, <2>2, <3>1 DEF TypeOK
    <3>2. CASE g # h
      <4>1. t \in owed /\ g = handle[t]
        BY <1>2, <1>9, <2>2, <3>2 DEF NativeInv, Accounted
      <4> QED
        BY <1>2, <1>12, <4>1
    <3> QED
      BY <3>1, <3>2
  <2> QED
    BY <2>1, <2>2 DEF Accounted
<1> QED
  BY <1>8, <1>13, <1>14, <1>2 DEF NativeInv, OwnResources

(* An operation of a socket that owes a close() is on its own resource. *)
LEMMA OwedWhose == ASSUME NativeInv, NEW s \in owed PROVE Whose(s) = "own"
<1>1. s \in Sockets /\ Owns(s) /\ s # Nobody
  BY NativeAssumption DEF NativeInv, TypeOK, Ownership
<1> QED
  BY <1>1, NativeAssumption DEF Whose, WhoseFd, WhoseBlock, Owns, Sockets

(* close() releases what its socket holds, and nothing else. *)
LEMMA CloseStep == ASSUME NativeInv, NEW s \in Sockets, Close(s) PROVE NativeInv'
<1> USE NativeAssumption
<1> DEFINE f == FdOf(s)
<1>1. /\ s \in owed /\ owed' = owed \ {s} /\ TypeOK /\ Owns(s) /\ Whose(s) = "own"
      /\ f \in Fds /\ descs[f].owner = s /\ s # Nobody
      /\ closesFailed' = closesFailed /\ handle' = handle
  BY OwedFd, OwedWhose DEF NativeInv, Ownership, Close
<1>2. socketState' = [socketState EXCEPT ![s] = "UNCONNECTED"]
  BY DEF Close, Closed
<1>3. /\ descs' = [descs EXCEPT ![f] = FreeDesc]
      /\ s \in Plain => blocks' = blocks
      /\ s \in Tls => blocks' = [blocks EXCEPT ![handle[s]] = FreeBlock]
  <2>1. CASE s \in Plain
    BY <1>1, <2>1 DEF Close, Released, FdOf
  <2>2. CASE s \in Tls
    <3>1. s \notin Plain /\ WhoseBlock(s, handle[s]) = "own"
      BY <1>1, <2>2 DEF Whose
    <3> QED
      BY <1>1, <2>2, <3>1 DEF Close, Released, FdOf, Owns
  <2> QED
    BY <2>1, <2>2 DEF Sockets
<1>4. FreeDesc \in Descs /\ FreeBlock \in BlockRecs
  BY DEF FreeDesc, FreeBlock, Descs, BlockRecs
<1>5. touched' \in {"own", "unset"} /\ (~closesFailed => touched' = "own")
  <2>1. touched' \in {"own", "unset"}
    BY <1>1 DEF Close
  <2>2. ASSUME ~closesFailed PROVE touched' = "own"
    <3>1. socketState[s] = "CONNECTED"
      BY <1>1, <2>2 DEF NativeInv, Ownership
    <3>2. s \in Tls => blocks[handle[s]].ssl = "live"
      BY <3>1 DEF NativeInv, Ownership, IsUp
    <3> QED
      BY <1>1, <3>2 DEF Close
  <2> QED
    BY <2>1, <2>2
<1>6. TypeOK'
  <2>1. descs' \in [Fds -> Descs]
    BY <1>1, <1>3, <1>4 DEF TypeOK, Descs
  <2>2. blocks' \in [Blocks -> BlockRecs]
    BY <1>1, <1>3, <1>4 DEF TypeOK, BlockRecs, Sockets
  <2> QED
    BY <1>1, <1>2, <1>5, <2>1, <2>2 DEF TypeOK, Descs, BlockRecs
<1>7. descs'[f] = FreeDesc /\ \A e \in Fds : e # f => descs'[e] = descs[e]
  BY <1>1, <1>3 DEF TypeOK
<1>8. \A g \in Blocks : blocks[g].owner # s => blocks'[g] = blocks[g]
  BY <1>1, <1>3 DEF TypeOK, Owns, Sockets
<1>9. ASSUME NEW t \in owed, t # s
      PROVE  /\ t \in Sockets
             /\ t \in Tls => blocks'[handle[t]] = blocks[handle[t]]
             /\ FdOf(t)' = FdOf(t) /\ descs'[FdOf(t)] = descs[FdOf(t)]
  <2>1. t \in Sockets /\ FdOf(t) \in Fds /\ descs[FdOf(t)].owner = t
    BY OwedFd
  <2>2. t \in Tls => handle[t] \in Blocks /\ blocks'[handle[t]] = blocks[handle[t]]
    BY <1>8, <1>9 DEF NativeInv, Ownership, Owns
  <2>3. FdOf(t)' = FdOf(t)
    BY <1>1, <2>1, <2>2 DEF FdOf, Sockets
  <2> QED
    BY <1>1, <1>7, <1>9, <2>1, <2>2, <2>3
<1>10. Ownership'
  <2>1. ASSUME NEW t \in Sockets, socketState'[t] = "CONNECTED" PROVE t \in owed' /\ IsUp(t)'
    <3>1. t # s /\ socketState[t] = "CONNECTED"
      BY <1>1, <1>2, <2>1 DEF TypeOK
    <3>2. t \in owed /\ IsUp(t)
      BY <3>1 DEF NativeInv, Ownership
    <3> QED
      BY <1>1, <1>9, <3>1, <3>2 DEF IsUp
  <2>2. ASSUME NEW t \in owed' PROVE Owns(t)' /\ (closesFailed' \/ socketState'[t] = "CONNECTED")
    <3>1. t \in owed /\ t # s /\ Owns(t) /\ (closesFailed \/ socketState[t] = "CONNECTED")
      BY <1>1, <2>2 DEF NativeInv, Ownership
    <3>2. t \in Sockets /\ (t \in Tls => blocks'[handle[t]] = blocks[handle[t]])
      BY <1>9, <3>1
    <3>3. \A e \in Fds : descs[e].owner = t => descs'[e].owner = t
      BY <1>1, <1>7, <3>1
    <3>4. Owns(t)'
      BY <1>1, <3>1, <3>2, <3>3 DEF Owns
    <3> QED
      BY <1>1, <1>2, <3>1, <3>2, <3>4 DEF TypeOK
  <2> QED
    BY <2>1, <2>2 DEF Ownership
<1>11. Accounted'
  <2>1. ASSUME NEW t \in Sockets, NEW e \in Fds, descs'[e].owner = t,
               closesFailed' \/ descs'[e].status # "failed"
        PROVE  t \in owed' /\ e = FdOf(t)'
    <3>1. e # f
      BY <1>7, <2>1 DEF FreeDesc
    <3>2. t \in owed /\ e = FdOf(t)
      BY <1>1, <1>7, <2>1, <3>1 DEF NativeInv, Accounted
    <3> QED
      BY <1>1, <1>9, <3>1, <3>2
  <2>2. ASSUME NEW t \in Sockets, NEW g \in Blocks, blocks'[g].owner = t,
               closesFailed' \/ blocks'[g].status # "failed"
        PROVE  t \in owed' /\ g = handle'[t]
    <3>1. blocks'[g] = blocks[g] /\ (t = s => g # handle[s])
      BY <1>1, <1>3, <2>2 DEF TypeOK, Owns, FreeBlock, Sockets
    <3>2. t \in owed /\ g = handle[t]
      BY <1>1, <2>2, <3>1 DEF NativeInv, Accounted
    <3> QED
      BY <1>1, <3>1, <3>2
  <2> QED
    BY <2>1, <2>2 DEF Accounted
<1> QED
  BY <1>1, <1>5, <1>6, <1>10, <1>11 DEF NativeInv, OwnResources

(* A change of one descriptor that no socket owns, or that leaves its owner *)
(* and its status as they are.                                              *)
LEMMA DescChange ==
  ASSUME NativeInv, NEW d \in Fds, NEW r \in Descs,
         descs' = [descs EXCEPT ![d] = r],
         \/ descs[d].owner \notin Sockets /\ r.owner \notin Sockets
         \/ descs[d].owner = r.owner /\ descs[d].status = r.status,
         UNCHANGED <<closesFailed, socketState, handle, blocks, owed>>,
         touched' \in {"none", "own"}
  PROVE  NativeInv'
<1> USE NativeAssumption
<1>1. TypeOK
  BY DEF NativeInv
<1>2. TypeOK'
  <2>1. descs' \in [Fds -> Descs]
    BY <1>1 DEF TypeOK, Descs
  <2> QED
    BY <1>1, <2>1 DEF TypeOK, Descs
<1>3. ASSUME NEW t \in Sockets, NEW e \in Fds
      PROVE  /\ descs[e].owner = t <=> descs'[e].owner = t
             /\ descs[e].owner = t => descs'[e].status = descs[e].status
  BY <1>1 DEF TypeOK
<1>4. \A t \in Sockets : FdOf(t)' = FdOf(t)
  BY DEF FdOf
<1>5. Ownership'
  <2>1. ASSUME NEW t \in Sockets, socketState'[t] = "CONNECTED" PROVE t \in owed' /\ IsUp(t)'
    <3>1. t \in owed /\ IsUp(t)
      BY <2>1 DEF NativeInv, Ownership
    <3>2. FdOf(t) \in Fds /\ descs[FdOf(t)].owner = t
      BY <3>1, OwedFd
    <3> QED
      BY <1>3, <1>4, <3>1, <3>2 DEF IsUp
  <2>2. ASSUME NEW t \in owed' PROVE Owns(t)' /\ (closesFailed' \/ socketState'[t] = "CONNECTED")
    <3>1. t \in Sockets /\ Owns(t) /\ (closesFailed \/ socketState[t] = "CONNECTED")
      BY <1>1, <2>2 DEF NativeInv, Ownership, TypeOK
    <3> QED
      BY <1>3, <3>1 DEF Owns
  <2> QED
    BY <2>1, <2>2 DEF Ownership
<1>6. Accounted'
  <2>1. ASSUME NEW t \in Sockets, NEW e \in Fds, descs'[e].owner = t,
               closesFailed' \/ descs'[e].status # "failed"
        PROVE  t \in owed' /\ e = FdOf(t)'
    BY <1>3, <1>4, <2>1 DEF NativeInv, Accounted
  <2>2. ASSUME NEW t \in Sockets, NEW g \in Blocks, blocks'[g].owner = t,
               closesFailed' \/ blocks'[g].status # "failed"
        PROVE  t \in owed' /\ g = handle'[t]
    BY <2>2 DEF NativeInv, Accounted
  <2> QED
    BY <2>1, <2>2 DEF Accounted
<1> QED
  BY <1>2, <1>5, <1>6 DEF NativeInv, OwnResources

(* connect() that fails in socket(), and operations that change nothing. *)
LEMMA QuietStep ==
  ASSUME NativeInv, UNCHANGED <<closesFailed, socketState, handle, descs, blocks, owed>>,
         touched' \in {"none", "own"}
  PROVE  NativeInv'
BY DEF NativeInv, TypeOK, Ownership, Owns, IsUp, Accounted, OwnResources, FdOf

(* Every step keeps the invariant. *)
LEMMA NativeNext == ASSUME NativeInv, [Next]_vars PROVE NativeInv'
<1> USE NativeAssumption
<1>1. ASSUME NEW s \in Sockets, Connect(s) PROVE NativeInv'
  <2>1. CASE SetupFailed(s)
    <3>1. /\ UNCHANGED <<closesFailed, socketState, handle, descs, blocks>>
          /\ ~closesFailed /\ s \notin owed /\ touched' = "none"
          /\ owed' = IF socketState'[s] = "CONNECTED" \/ closesFailed THEN owed \cup {s} ELSE owed
      BY <1>1, <2>1 DEF Connect, SetupFailed
    <3>2. owed' = owed
      BY <3>1 DEF NativeInv, Ownership
    <3> QED
      BY <3>1, <3>2, QuietStep
  <2> QED
    BY <1>1, <2>1, ConnectPlainStep, ConnectTlsStep DEF Connect
<1>2. ASSUME NEW s \in Sockets, Close(s) PROVE NativeInv'
  BY <1>2, CloseStep
<1>3. ASSUME NEW s \in Sockets, Use(s) PROVE NativeInv'
  <2>1. s \in owed
    BY <1>3 DEF Use, EnsureConnected, NativeInv, Ownership
  <2>2. touched' = "own"
    BY <1>3, <2>1, OwedWhose DEF Use
  <2> QED
    BY <1>3, <2>2, QuietStep DEF Use
<1>4. ASSUME NEW s \in Sockets, NEW blocking \in BOOLEAN, ConfigureBlocking(s, blocking)
      PROVE  NativeInv'
  <2>1. s \in owed
    BY <1>4 DEF ConfigureBlocking, EnsureConnected, NativeInv, Ownership
  <2>2. touched' = "own" /\ FdOf(s) \in Fds /\ descs[FdOf(s)].owner = s /\ s # Nobody
    BY <1>4, <2>1, OwedWhose, OwedFd DEF ConfigureBlocking
  <2>3. PICK d \in Fds : d = FdOf(s)
    BY <2>2
  <2>4. PICK r : r = [descs[d] EXCEPT !.nonblocking = ~blocking]
    OBVIOUS
  <2>5. descs' = [descs EXCEPT ![d] = r]
    BY <1>4, <2>2, <2>3, <2>4 DEF ConfigureBlocking
  <2>6. descs[d] \in Descs
    BY DEF NativeInv, TypeOK, Descs
  <2>7. r \in Descs /\ r.owner = descs[d].owner /\ r.status = descs[d].status
    BY <2>4, <2>6 DEF Descs
  <2> QED
    BY <1>4, <2>2, <2>5, <2>7, DescChange DEF ConfigureBlocking
<1>5. CASE OthersOpen
  <2>1. PICK d \in Fds : Lowest(d) /\ descs' = Opened(Others, d, "new")
    BY <1>5 DEF OthersOpen
  <2>2. PICK r : r = [owner |-> Others, status |-> "new", nonblocking |-> FALSE]
    OBVIOUS
  <2>3. r \in Descs /\ r.owner \notin Sockets /\ descs[d].owner \notin Sockets
    BY <2>1, <2>2 DEF Descs, Lowest, FreeFds
  <2>4. descs' = [descs EXCEPT ![d] = r]
    BY <2>1, <2>2 DEF Opened
  <2> QED
    BY <1>5, <2>3, <2>4, DescChange DEF OthersOpen
<1>6. CASE OthersClose
  <2>1. PICK d \in Fds : descs[d].owner = Others /\ descs' = [descs EXCEPT ![d] = FreeDesc]
    BY <1>6 DEF OthersClose
  <2>2. FreeDesc \in Descs /\ FreeDesc.owner \notin Sockets /\ descs[d].owner \notin Sockets
    BY <2>1 DEF Descs, FreeDesc
  <2> QED
    BY <1>6, <2>1, <2>2, DescChange DEF OthersClose
<1>7. CASE UNCHANGED vars
  BY <1>7 DEF NativeInv, TypeOK, Ownership, Owns, IsUp, Accounted, OwnResources, FdOf, vars
<1> QED
  BY <1>1, <1>2, <1>3, <1>4, <1>5, <1>6, <1>7 DEF Next

(* The invariant holds in every reachable state. *)
LEMMA NativeInvHolds == Spec => []NativeInv
BY NativeInit, NativeNext, PTL DEF Spec

(* Every field, descriptor and block is well formed. *)
THEOREM NativeTypes == Spec => []TypeOK
<1>1. NativeInv => TypeOK
  BY DEF NativeInv
<1> QED
  BY <1>1, NativeInvHolds, PTL

(* However many sockets share the process with however many other users of  *)
(* its descriptors: if every successful connect() is followed by one        *)
(* close(), no operation works on a descriptor or block of someone else,    *)
(* nor on one that is closed or freed.                                      *)
THEOREM NativeOwnResources == Spec => []OwnResources
<1>1. NativeInv => OwnResources
  BY DEF NativeInv
<1> QED
  BY <1>1, NativeInvHolds, PTL

(* A socket that says CONNECTED has a descriptor of its own that connect0   *)
(* brought up, and a TLS socket a live session on it.                       *)
THEOREM NativeConnectedIsUsable == Spec => []ConnectedIsUsable
<1>1. NativeInv => ConnectedIsUsable
  <2> SUFFICES ASSUME NativeInv, NEW s \in Sockets, socketState[s] = "CONNECTED"
               PROVE  /\ Whose(s) = "own" /\ descs[FdOf(s)].status = "connected"
                      /\ s \in Tls => blocks[handle[s]].ssl = "live"
    BY DEF ConnectedIsUsable
  <2>1. s \in owed /\ IsUp(s)
    BY DEF NativeInv, Ownership
  <2> QED
    BY <2>1, OwedWhose DEF IsUp
<1> QED
  BY <1>1, NativeInvHolds, PTL

(* Nothing but what a failed connect() took stays behind. *)
THEOREM NativeLeaks == Spec => []OnlyFailedConnectsLeak
<1>1. NativeInv => OnlyFailedConnectsLeak
  BY DEF NativeInv, Accounted, OnlyFailedConnectsLeak
<1> QED
  BY <1>1, NativeInvHolds, PTL

(* Nothing at all stays behind with owners that call close() after a failed *)
(* connect() too.                                                           *)
THEOREM NativeNothingLeaks == Spec => []NothingLeaks
<1>1. NativeInv => NothingLeaks
  BY DEF NativeInv, Accounted, NothingLeaks
<1> QED
  BY <1>1, NativeInvHolds, PTL
=============================================================================
