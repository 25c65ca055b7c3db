-------------------------- MODULE HTTPClientProofs --------------------------
(***************************************************************************)
(* Proofs about HTTPClient for every set of hosts, buffer size, set of     *)
(* content lengths and number of connections and calls: no request is      *)
(* executed twice, the pool owns exactly the open sockets; each response   *)
(* is whole and the next reply of its connection, the body is its body,    *)
(* and the buffer continues where it ended.                                *)
(***************************************************************************)
EXTENDS HTTPClient, BufferLemmas, TLAPS

(* Sequences: their elements and lengths. *)
LEMMA SeqIs == \A S : Seq(S) = UNION {[1..n -> S] : n \in Nat}
  OBVIOUS

LEMMA SeqShape ==
  ASSUME NEW S, NEW s \in Seq(S)
  PROVE  Len(s) \in Nat /\ s \in [1..Len(s) -> S] /\ DOMAIN s = 1..Len(s)
  OBVIOUS

LEMMA AppendShape ==
  ASSUME NEW S, NEW s \in Seq(S), NEW e \in S
  PROVE  /\ Append(s, e) \in Seq(S) /\ Len(Append(s, e)) = Len(s) + 1
         /\ \A i \in 1..Len(s) : Append(s, e)[i] = s[i]
         /\ Append(s, e)[Len(s) + 1] = e
  OBVIOUS

LEMMA ConcatShape ==
  ASSUME NEW S, NEW s \in Seq(S), NEW t \in Seq(S)
  PROVE  /\ s \o t \in Seq(S) /\ Len(s \o t) = Len(s) + Len(t)
         /\ \A i \in 1..Len(s) + Len(t) :
              (s \o t)[i] = IF i <= Len(s) THEN s[i] ELSE t[i - Len(s)]
  OBVIOUS

LEMMA SubSeqShape ==
  ASSUME NEW S, NEW s, NEW m \in Int, NEW n \in Int, \A i \in m..n : s[i] \in S
  PROVE  /\ SubSeq(s, m, n) \in Seq(S)
         /\ Len(SubSeq(s, m, n)) = IF m <= n THEN n - m + 1 ELSE 0
         /\ \A i \in 1..n - m + 1 : SubSeq(s, m, n)[i] = s[m + i - 1]
  OBVIOUS

Fields == {"open", "link", "reqs", "stream", "ends", "rcvd", "buf", "torn",
           "framing", "taken", "skipped"}

(* A client object, as far as the proofs look into it. *)
IsConn(c) == DOMAIN c = Fields /\ c.open \in BOOLEAN /\ c.reqs \in Seq(Nat)

(* A sequence with n elements, of any kind. *)
IsSeq(s, n) == s = [i \in 1..n |-> s[i]]

Sent == {"none", "whole", "part", "zero", "error"}

Shape ==
  /\ \E n \in Nat : IsSeq(conns, n)
  /\ \A c \in DOMAIN conns : IsConn(conns[c])
  /\ pool \in [Hosts -> Nat] /\ \A h \in Hosts : pool[h] # 0 => pool[h] \in DOMAIN conns
  /\ call \in [id : Nat, host : Hosts, sent : Sent]
  /\ pc \in {"idle", "write", "recreate", "retry", "read"}
  /\ pc # "idle" => Conn # 0

(* No server has the request of a later call, nor that of the current call  *)
(* as long as it may still be sent.                                         *)
NotSentYet ==
  \A c \in DOMAIN conns : \A i \in DOMAIN conns[c].reqs :
    /\ conns[c].reqs[i] <= call.id
    /\ pc \in {"write", "recreate", "retry"} => conns[c].reqs[i] # call.id

HTTPInv == Shape /\ NotSentYet /\ AtMostOnce /\ PoolOwnsSockets

-----------------------------------------------------------------------------
(* Append to a sequence of anything: the old elements and the new one. *)
LEMMA AppendToAny ==
  ASSUME NEW s, NEW n \in Nat, IsSeq(s, n), NEW e
  PROVE  /\ Len(s) = n /\ DOMAIN s = 1..n
         /\ IsSeq(Append(s, e), n + 1) /\ DOMAIN Append(s, e) = 1..n+1
         /\ Append(s, e)[n + 1] = e
         /\ \A i \in 1..n : Append(s, e)[i] = s[i]
<1> DEFINE T == {s[i] : i \in 1..n} \cup {e}
<1>1. s \in [1..n -> T]
  BY DEF IsSeq
<1>2. s \in Seq(T)
  BY <1>1, SeqIs
<1>3. Len(s) = n /\ DOMAIN s = 1..n
  BY <1>1, <1>2, SeqShape
<1>4. e \in T
  OBVIOUS
<1> HIDE DEF T
<1>5. /\ Append(s, e) \in Seq(T) /\ Len(Append(s, e)) = Len(s) + 1
      /\ \A i \in 1..Len(s) : Append(s, e)[i] = s[i]
      /\ Append(s, e)[Len(s) + 1] = e
  BY <1>2, <1>4, AppendShape
<1>6. DOMAIN Append(s, e) = 1..n+1 /\ IsSeq(Append(s, e), n + 1)
  BY <1>5, <1>3, SeqShape DEF IsSeq
<1> QED
  BY <1>3, <1>5, <1>6

(* What a step that only reads, answers or ends a connection leaves alone.  *)
Keeps ==
  /\ \E n \in Nat : IsSeq(conns, n) /\ IsSeq(conns', n)
  /\ \A c \in DOMAIN conns :
       /\ IsConn(conns'[c]) /\ conns'[c].open = conns[c].open
       /\ conns'[c].reqs = conns[c].reqs
  /\ pool' = pool /\ call' = call

(* A connection that is replaced by one with the same requests, open or     *)
(* closed as before.                                                        *)
LEMMA ReplaceKeeps ==
  ASSUME Shape, NEW k \in DOMAIN conns, NEW x, IsConn(x), x.open = conns[k].open,
         x.reqs = conns[k].reqs, conns' = [conns EXCEPT ![k] = x],
         pool' = pool, call' = call
  PROVE  Keeps
<1>1. PICK n \in Nat : IsSeq(conns, n)
  BY DEF Shape
<1>2. DOMAIN conns = 1..n
  BY <1>1 DEF IsSeq
<1>3. IsSeq(conns', n)
  BY <1>1, <1>2, Zenon DEF IsSeq
<1>4. ASSUME NEW c \in DOMAIN conns
      PROVE  /\ IsConn(conns'[c]) /\ conns'[c].open = conns[c].open
             /\ conns'[c].reqs = conns[c].reqs
  BY DEF Shape
<1> QED
  BY <1>1, <1>3, <1>4 DEF Keeps

(* A step that keeps the pool and the requests, and ends the call or leaves *)
(* it where it is, preserves the invariant.                                 *)
LEMMA KeepsInv ==
  ASSUME HTTPInv, Keeps, pc' = pc \/ pc' = "idle"
  PROVE  HTTPInv'
<1>1. PICK n \in Nat : IsSeq(conns, n) /\ IsSeq(conns', n)
  BY DEF Keeps
<1>2. DOMAIN conns = 1..n /\ DOMAIN conns' = 1..n
  BY <1>1 DEF IsSeq
<1>3. \A c \in DOMAIN conns : IsConn(conns'[c]) /\ conns'[c].open = conns[c].open
                              /\ conns'[c].reqs = conns[c].reqs
  BY DEF Keeps
<1>4. pool' = pool /\ call' = call
  BY DEF Keeps
<1>5. Shape'
  BY <1>1, <1>2, <1>3, <1>4 DEF HTTPInv, Shape, Conn
<1>6. NotSentYet'
  BY <1>2, <1>3, <1>4 DEF HTTPInv, NotSentYet
<1>7. AtMostOnce'
  BY <1>2, <1>3 DEF HTTPInv, AtMostOnce
<1>8. PoolOwnsSockets'
  BY <1>2, <1>3, <1>4 DEF HTTPInv, PoolOwnsSockets
<1> QED
  BY <1>5, <1>6, <1>7, <1>8 DEF HTTPInv

(* parseResponse ends the call and leaves the requests and the pool alone.  *)
LEMMA NoResponseKeeps ==
  ASSUME Shape, Conn \in DOMAIN conns, NEW c, IsConn(c), c.open = conns[Conn].open,
         c.reqs = conns[Conn].reqs, NEW kind, NoResponse(c, kind),
         pool' = pool, call' = call
  PROVE  Keeps /\ pc' = "idle"
<1> DEFINE x == [c EXCEPT !.skipped = @ + (IF call.sent = "whole" THEN 1 ELSE 0)]
<1>1. IsConn(x) /\ x.open = conns[Conn].open /\ x.reqs = conns[Conn].reqs
  BY DEF IsConn, Fields
<1>2. conns' = [conns EXCEPT ![Conn] = x] /\ pc' = "idle"
  BY DEF NoResponse, Return
<1> HIDE DEF x
<1>3. PICK k \in DOMAIN conns : k = Conn
  OBVIOUS
<1> QED
  BY <1>1, <1>2, <1>3, ReplaceKeeps, Zenon

LEMMA TakeResponseKeeps ==
  ASSUME Shape, Conn \in DOMAIN conns, NEW c, IsConn(c), c.open = conns[Conn].open,
         c.reqs = conns[Conn].reqs, NEW ts, TakeResponse(c, ts),
         pool' = pool, call' = call
  PROVE  Keeps /\ pc' = "idle"
<1> DEFINE length == HeadersEnd(ts) + ContentLength(ts)
           x == [c EXCEPT !.buf = Advance(@, length), !.taken = @ + 1]
<1>1. conns' = [conns EXCEPT ![Conn] = x] /\ pc' = "idle"
  BY DEF TakeResponse, Return
<1> HIDE DEF length
<1>2. IsConn(x) /\ x.open = conns[Conn].open /\ x.reqs = conns[Conn].reqs
  BY DEF IsConn, Fields
<1> HIDE DEF x
<1>3. PICK k \in DOMAIN conns : k = Conn
  OBVIOUS
<1> QED
  BY <1>1, <1>2, <1>3, ReplaceKeeps, Zenon

LEMMA ParseResponseKeeps ==
  ASSUME HTTPInv, NEW interrupted \in BOOLEAN, ParseResponse(interrupted)
  PROVE  Keeps /\ pc' = "idle"
<1>1. Shape /\ Conn \in DOMAIN conns /\ pool' = pool /\ call' = call
  BY DEF HTTPInv, Shape, ParseResponse, Conn
<1> DEFINE Like(c) == /\ IsConn(c) /\ c.open = conns[Conn].open
                      /\ c.reqs = conns[Conn].reqs
<1>2. Like(conns[Conn])
  BY <1>1 DEF Shape
<1> DEFINE Lost(c) == [c EXCEPT !.framing = "lost"]
<1>3. ASSUME NEW c, Like(c) PROVE Like(Lost(c))
  BY <1>3 DEF IsConn, Fields
<1> DEFINE After(b, n) == Received(conns[Conn], b, n)
<1>4. ASSUME NEW b, NEW n PROVE Like(After(b, n))
  BY <1>2 DEF IsConn, Fields, Received
<1>5. ASSUME NEW c, Like(c), NEW kind, NoResponse(c, kind) PROVE Keeps /\ pc' = "idle"
  BY <1>1, <1>5, NoResponseKeeps
<1>6. ASSUME NEW c, Like(c), NEW ts, TakeResponse(c, ts) PROVE Keeps /\ pc' = "idle"
  BY <1>1, <1>6, TakeResponseKeeps
<1>7. \/ NoResponse(conns[Conn], "unknown")
      \/ \E ts : TakeResponse(conns[Conn], ts)
      \/ NoResponse(Lost(conns[Conn]), "exception")
      \/ ReadOnce(conns[Conn], interrupted)
  BY DEF ParseResponse, CheckMessage
<1>8. ASSUME ReadOnce(conns[Conn], interrupted)
      PROVE  \E b, n : \/ \E kind : NoResponse(After(b, n), kind)
                       \/ \E ts : TakeResponse(After(b, n), ts)
                       \/ NoResponse(Lost(After(b, n)), "exception")
  <2>1. PICK b, n : \E after \in {After(b, n)} :
                      \/ NoResponse(after, "closed")
                      \/ CheckMessage(after, NoResponse(after, "noMessage"))
    BY <1>8, Zenon DEF ReadOnce
  <2> HIDE DEF After
  <2>2. \/ NoResponse(After(b, n), "closed")
        \/ CheckMessage(After(b, n), NoResponse(After(b, n), "noMessage"))
    BY <2>1
  <2>3. ASSUME CheckMessage(After(b, n), NoResponse(After(b, n), "noMessage"))
        PROVE  \/ \E ts : TakeResponse(After(b, n), ts)
               \/ NoResponse(Lost(After(b, n)), "exception")
               \/ NoResponse(After(b, n), "noMessage")
    BY <2>3 DEF CheckMessage
  <2> QED
    BY <2>2, <2>3
<1> HIDE DEF Like, Lost, After
<1>9. CASE ReadOnce(conns[Conn], interrupted)
  <2>1. PICK b, n : \/ \E kind : NoResponse(After(b, n), kind)
                    \/ \E ts : TakeResponse(After(b, n), ts)
                    \/ NoResponse(Lost(After(b, n)), "exception")
    BY <1>8, <1>9
  <2>2. Like(After(b, n)) /\ Like(Lost(After(b, n)))
    BY <1>3, <1>4
  <2> QED
    BY <1>5, <1>6, <2>1, <2>2
<1> QED
  BY <1>2, <1>3, <1>5, <1>6, <1>7, <1>9

LEMMA ServerKeeps ==
  ASSUME HTTPInv, NEW c \in DOMAIN conns, Serve(c) \/ PeerClose(c)
  PROVE  Keeps /\ pc' = pc
<1>1. Shape /\ pool' = pool /\ call' = call /\ pc' = pc
  BY Zenon DEF HTTPInv, Serve, PeerClose
<1>2. IsConn(conns[c])
  BY <1>1 DEF Shape
<1>3. CASE Serve(c)
  <2>1. PICK stream : conns' = [conns EXCEPT ![c].stream = stream,
                                             ![c].ends = Append(@, Len(stream))]
    BY <1>3, Zenon DEF Serve
  <2> DEFINE x == [conns[c] EXCEPT !.stream = stream, !.ends = Append(@, Len(stream))]
  <2>2. conns' = [conns EXCEPT ![c] = x]
    BY <2>1, <1>2, Zenon DEF IsConn, Fields
  <2>3. IsConn(x) /\ x.open = conns[c].open /\ x.reqs = conns[c].reqs
    BY <1>2 DEF IsConn, Fields
  <2> HIDE DEF x
  <2> QED
    BY <1>1, <2>2, <2>3, ReplaceKeeps, Zenon
<1>4. CASE PeerClose(c)
  <2>1. PICK e : conns' = [conns EXCEPT ![c].stream = SubSeq(@, 1, e), ![c].link = "eof"]
    BY <1>4, Zenon DEF PeerClose
  <2> DEFINE x == [conns[c] EXCEPT !.stream = SubSeq(@, 1, e), !.link = "eof"]
  <2>2. conns' = [conns EXCEPT ![c] = x]
    BY <2>1, <1>2, Zenon DEF IsConn, Fields
  <2>3. IsConn(x) /\ x.open = conns[c].open /\ x.reqs = conns[c].reqs
    BY <1>2 DEF IsConn, Fields
  <2> HIDE DEF x
  <2> QED
    BY <1>1, <2>2, <2>3, ReplaceKeeps
<1>5. Serve(c) \/ PeerClose(c)
  OBVIOUS
<1> QED
  BY <1>3, <1>4, <1>5, Zenon

LEMMA OverflowKeeps ==
  ASSUME HTTPInv, EncodeOverflows
  PROVE  Keeps /\ pc' = "idle"
<1>1. conns' = conns /\ pool' = pool /\ call' = call /\ pc' = "idle"
  BY DEF EncodeOverflows, Return
<1>2. Shape
  BY DEF HTTPInv
<1> QED
  BY <1>1, <1>2 DEF Keeps, Shape

(* A host gets a new connection, or none, in place of the one it had.       *)
LEMMA ConnectInv ==
  ASSUME HTTPInv, NEW h \in Hosts, NEW cs, NEW n \in Nat, IsSeq(conns, n), IsSeq(cs, n),
         \A c \in 1..n : /\ IsConn(cs[c]) /\ cs[c].reqs = conns[c].reqs
                         /\ cs[c].open <=> conns[c].open /\ c # pool[h],
         NEW then \in {"write", "retry"}, ConnectTo(h, cs, then),
         call' \in [id : Nat, host : Hosts, sent : Sent], call'.host = h,
         \A c \in 1..n : \A i \in DOMAIN conns[c].reqs : conns[c].reqs[i] < call'.id
  PROVE  HTTPInv'
<1>1. /\ Len(conns) = n /\ DOMAIN conns = 1..n /\ DOMAIN cs = 1..n
      /\ IsSeq(Append(cs, NewConn), n + 1) /\ DOMAIN Append(cs, NewConn) = 1..n+1
      /\ Append(cs, NewConn)[n + 1] = NewConn
      /\ \A i \in 1..n : Append(cs, NewConn)[i] = cs[i]
  BY AppendToAny
<1>2. IsConn(NewConn) /\ NewConn.open = TRUE /\ NewConn.reqs = <<>>
  BY DEF IsConn, NewConn, Fields
<1>3. /\ pool \in [Hosts -> Nat] /\ \A g \in Hosts : pool[g] # 0 => pool[g] \in 1..n
      /\ \A c \in 1..n : conns[c].reqs \in Seq(Nat) /\ conns[c].open \in BOOLEAN
  BY <1>1, Zenon DEF HTTPInv, Shape, IsConn
<1>4. CASE /\ conns' = Append(cs, NewConn) /\ pool' = [pool EXCEPT ![h] = Len(conns) + 1]
           /\ pc' = then
  <2>1. /\ IsSeq(conns', n + 1) /\ DOMAIN conns' = 1..n+1 /\ conns'[n + 1] = NewConn
        /\ \A c \in 1..n : conns'[c] = cs[c]
    BY <1>1, <1>4
  <2>2. pool' = [pool EXCEPT ![h] = n + 1]
    BY <1>1, <1>4
  <2>3. \A c \in 1..n+1 : IsConn(conns'[c])
    BY <1>2, <2>1
  <2>4. /\ pool' \in [Hosts -> Nat] /\ \A g \in Hosts : pool'[g] # 0 => pool'[g] \in 1..n+1
        /\ pool'[call'.host] # 0
    BY <1>3, <2>2
  <2>5. Shape'
    BY <1>4, <2>1, <2>3, <2>4 DEF Shape, Conn
  <2>6. \A c \in 1..n+1 : \A i \in DOMAIN conns'[c].reqs : c \in 1..n /\ conns'[c].reqs = conns[c].reqs
    BY <1>2, <2>1
  <2>7. NotSentYet'
    <3>1. ASSUME NEW c \in 1..n+1, NEW i \in DOMAIN conns'[c].reqs
          PROVE  conns'[c].reqs[i] <= call'.id /\ conns'[c].reqs[i] # call'.id
      <4>1. c \in 1..n /\ conns'[c].reqs = conns[c].reqs
        BY <2>6
      <4>2. conns[c].reqs[i] \in Nat /\ conns[c].reqs[i] < call'.id
        BY <4>1, <1>3
      <4> QED
        BY <4>1, <4>2
    <3> QED
      BY <2>1, <3>1 DEF NotSentYet
  <2>8. AtMostOnce'
    BY <1>1, <2>1, <2>6 DEF HTTPInv, AtMostOnce
  <2>9. PoolOwnsSockets'
    <3>1. ASSUME NEW c \in 1..n+1
          PROVE  conns'[c].open <=> \E g \in Hosts : pool'[g] = c
      <4>1. CASE c = n + 1
        BY <4>1, <1>2, <1>3, <2>1, <2>2
      <4>2. CASE c \in 1..n
        <5>1. conns'[c].open <=> conns[c].open /\ c # pool[h]
          BY <4>2, <2>1
        <5>2. conns[c].open <=> \E g \in Hosts : pool[g] = c
          BY <4>2, <1>1 DEF HTTPInv, PoolOwnsSockets
        <5>3. ASSUME NEW g \in Hosts, pool[g] = c, c # pool[h] PROVE pool'[g] = c
          BY <5>3, <1>3, <2>2
        <5>4. ASSUME NEW g \in Hosts, pool'[g] = c PROVE pool[g] = c /\ c # pool[h]
          <6>1. g # h
            BY <5>4, <4>2, <1>3, <2>2
          <6>2. pool[g] = c /\ c # 0
            BY <5>4, <4>2, <6>1, <1>3, <2>2
          <6> QED
            BY <6>1, <6>2 DEF HTTPInv, PoolOwnsSockets
        <5> QED
          BY <5>1, <5>2, <5>3, <5>4
      <4> QED
        BY <4>1, <4>2
    <3>2. ASSUME NEW f \in Hosts, NEW g \in Hosts, pool'[f] = pool'[g], pool'[f] # 0
          PROVE  f = g
      BY <3>2, <1>3, <2>2 DEF HTTPInv, PoolOwnsSockets
    <3> QED
      BY <2>1, <3>1, <3>2 DEF PoolOwnsSockets
  <2> QED
    BY <2>5, <2>7, <2>8, <2>9 DEF HTTPInv
<1>5. CASE conns' = cs /\ pool' = [pool EXCEPT ![h] = 0] /\ pc' = "idle"
  <2>1. /\ pool' \in [Hosts -> Nat] /\ \A g \in Hosts : pool'[g] # 0 => pool'[g] \in 1..n
    BY <1>3, <1>5
  <2>2. Shape'
    BY <1>1, <1>5, <2>1 DEF Shape
  <2>3. NotSentYet'
    <3>1. ASSUME NEW c \in 1..n, NEW i \in DOMAIN conns'[c].reqs
          PROVE  conns'[c].reqs[i] <= call'.id
      <4>1. conns[c].reqs[i] \in Nat /\ conns[c].reqs[i] < call'.id
        BY <1>3, <1>5
      <4> QED
        BY <4>1, <1>5
    <3> QED
      BY <1>1, <1>5, <3>1 DEF NotSentYet
  <2>4. AtMostOnce'
    BY <1>1, <1>5 DEF HTTPInv, AtMostOnce
  <2>5. PoolOwnsSockets'
    <3>1. ASSUME NEW c \in 1..n
          PROVE  conns'[c].open <=> \E g \in Hosts : pool'[g] = c
      <4>1. conns'[c].open <=> conns[c].open /\ c # pool[h]
        BY <1>5
      <4>2. conns[c].open <=> \E g \in Hosts : pool[g] = c
        BY <1>1 DEF HTTPInv, PoolOwnsSockets
      <4>3. ASSUME NEW g \in Hosts, pool[g] = c, c # pool[h] PROVE pool'[g] = c
        BY <4>3, <1>3, <1>5
      <4>4. ASSUME NEW g \in Hosts, pool'[g] = c PROVE pool[g] = c /\ c # pool[h]
        <5>1. g # h
          BY <4>4, <1>3, <1>5
        <5>2. pool[g] = c /\ c # 0
          BY <4>4, <5>1, <1>3, <1>5
        <5> QED
          BY <5>1, <5>2 DEF HTTPInv, PoolOwnsSockets
      <4> QED
        BY <4>1, <4>2, <4>3, <4>4
    <3>2. ASSUME NEW f \in Hosts, NEW g \in Hosts, pool'[f] = pool'[g], pool'[f] # 0
          PROVE  f = g
      BY <3>2, <1>3, <1>5 DEF HTTPInv, PoolOwnsSockets
    <3> QED
      BY <1>1, <1>5, <3>1, <3>2 DEF PoolOwnsSockets
  <2> QED
    BY <2>2, <2>3, <2>4, <2>5 DEF HTTPInv
<1> QED
  BY <1>4, <1>5 DEF ConnectTo, Return

LEMMA RequestInv ==
  ASSUME HTTPInv, NEW h \in Hosts, Request(h)
  PROVE  HTTPInv'
<1>1. PICK n \in Nat : IsSeq(conns, n)
  BY DEF HTTPInv, Shape
<1>2. DOMAIN conns = 1..n
  BY <1>1 DEF IsSeq
<1>3. /\ call \in [id : Nat, host : Hosts, sent : Sent] /\ pc = "idle"
      /\ call' = [id |-> call.id + 1, host |-> h, sent |-> "none"]
      /\ \A c \in 1..n : IsConn(conns[c])
  BY <1>2 DEF HTTPInv, Shape, Request
<1>4. /\ call' \in [id : Nat, host : Hosts, sent : Sent] /\ call'.host = h
      /\ call'.id = call.id + 1
  <2>1. call.id + 1 \in Nat /\ "none" \in Sent
    BY <1>3 DEF Sent
  <2> QED
    BY <1>3, <2>1
<1>5. \A c \in 1..n : \A i \in DOMAIN conns[c].reqs : conns[c].reqs[i] < call'.id
  <2>1. ASSUME NEW c \in 1..n, NEW i \in DOMAIN conns[c].reqs
        PROVE  conns[c].reqs[i] < call'.id
    <3>1. conns[c].reqs[i] \in Nat
      BY <1>3 DEF IsConn
    <3>2. conns[c].reqs[i] <= call.id
      BY <1>2 DEF HTTPInv, NotSentYet
    <3> QED
      BY <3>1, <3>2, <1>3, <1>4
  <2> QED
    BY <2>1
<1>6. CASE pool[h] # 0 /\ pc' = "write" /\ UNCHANGED <<pool, conns>>
  <2>1. Shape'
    BY <1>3, <1>4, <1>6 DEF HTTPInv, Shape, Conn
  <2>2. NotSentYet'
    <3>1. ASSUME NEW c \in 1..n, NEW i \in DOMAIN conns[c].reqs
          PROVE  conns[c].reqs[i] <= call'.id /\ conns[c].reqs[i] # call'.id
      <4>1. conns[c].reqs[i] \in Nat
        BY <1>3 DEF IsConn
      <4> QED
        BY <4>1, <1>4, <1>5
    <3> QED
      BY <1>2, <1>6, <3>1 DEF NotSentYet
  <2>3. AtMostOnce' /\ PoolOwnsSockets'
    BY <1>6 DEF HTTPInv, AtMostOnce, PoolOwnsSockets
  <2> QED
    BY <2>1, <2>2, <2>3 DEF HTTPInv
<1>7. CASE pool[h] = 0 /\ ConnectTo(h, conns, "write")
  <2>1. \A c \in 1..n : /\ IsConn(conns[c]) /\ conns[c].reqs = conns[c].reqs
                        /\ conns[c].open <=> conns[c].open /\ c # pool[h]
    BY <1>3, <1>7
  <2> QED
    BY <1>1, <1>4, <1>5, <1>7, <2>1, ConnectInv
<1> QED
  BY <1>6, <1>7 DEF Request

(* recreateConnection() runs only while the request may still be sent. *)
LEMMA RecreateInv ==
  ASSUME HTTPInv, RecreateConnection
  PROVE  HTTPInv'
<1> DEFINE cs == [conns EXCEPT ![Conn] = Closed(@)]
<1>1. PICK n \in Nat : IsSeq(conns, n)
  BY DEF HTTPInv, Shape
<1>2. DOMAIN conns = 1..n
  BY <1>1 DEF IsSeq
<1>3. PICK h \in Hosts : h = call.host
  BY DEF HTTPInv, Shape
<1>4. /\ pc = "recreate" /\ call' = call /\ ConnectTo(h, cs, "retry")
      /\ call' \in [id : Nat, host : Hosts, sent : Sent] /\ call'.host = h
  BY <1>3 DEF RecreateConnection, HTTPInv, Shape
<1>5. Conn = pool[h] /\ Conn \in 1..n /\ \A c \in 1..n : IsConn(conns[c])
  BY <1>2, <1>3, <1>4 DEF HTTPInv, Shape, Conn
<1>6. ASSUME NEW c, IsConn(c)
      PROVE  IsConn(Closed(c)) /\ Closed(c).reqs = c.reqs /\ Closed(c).open = FALSE
  BY <1>6 DEF IsConn, Closed, NewConn, Fields
<1>7. IsSeq(cs, n)
  BY <1>1, <1>2, <1>5 DEF IsSeq
<1>8. \A c \in 1..n : /\ IsConn(cs[c]) /\ cs[c].reqs = conns[c].reqs
                      /\ cs[c].open <=> conns[c].open /\ c # pool[h]
  <2>1. ASSUME NEW c \in 1..n
        PROVE  /\ IsConn(cs[c]) /\ cs[c].reqs = conns[c].reqs
               /\ cs[c].open <=> conns[c].open /\ c # pool[h]
    <3>1. CASE c = Conn
      <4>1. cs[c] = Closed(conns[c])
        BY <3>1, <1>2
      <4> HIDE DEF cs
      <4> QED
        BY <3>1, <4>1, <1>5, <1>6, Zenon
    <3>2. CASE c # Conn
      <4>1. cs[c] = conns[c]
        BY <3>2, <1>2
      <4> HIDE DEF cs
      <4> QED
        BY <3>2, <4>1, <1>5
    <3> QED
      BY <3>1, <3>2
  <2> QED
    BY <2>1
<1>9. \A c \in 1..n : \A i \in DOMAIN conns[c].reqs : conns[c].reqs[i] < call'.id
  <2>1. ASSUME NEW c \in 1..n, NEW i \in DOMAIN conns[c].reqs
        PROVE  conns[c].reqs[i] < call'.id
    <3>1. conns[c].reqs[i] \in Nat
      BY <1>5 DEF IsConn
    <3>2. conns[c].reqs[i] <= call.id /\ conns[c].reqs[i] # call.id
      BY <1>2, <1>4 DEF HTTPInv, NotSentYet
    <3> QED
      BY <3>1, <3>2, <1>4
  <2> QED
    BY <2>1
<1> HIDE DEF cs
<1> QED
  BY <1>1, <1>4, <1>7, <1>8, <1>9, ConnectInv

LEMMA WriteInv ==
  ASSUME HTTPInv, Write
  PROVE  HTTPInv'
<1>1. PICK n \in Nat : IsSeq(conns, n)
  BY DEF HTTPInv, Shape
<1>2. DOMAIN conns = 1..n
  BY <1>1 DEF IsSeq
<1>3. /\ pc \in {"write", "retry"} /\ pool' = pool
      /\ pool \in [Hosts -> Nat] /\ call \in [id : Nat, host : Hosts, sent : Sent]
      /\ \A h \in Hosts : pool[h] # 0 => pool[h] \in 1..n
      /\ \A c \in 1..n : IsConn(conns[c])
      /\ Conn # 0
  BY <1>2 DEF HTTPInv, Shape, Write
<1>4. PICK k \in 1..n : k = Conn
  BY <1>3 DEF Conn
<1>5. PICK sent \in SocketWrites :
        /\ call' = [call EXCEPT !.sent = sent]
        /\ conns' = CASE sent = "whole" /\ ~conns[k].torn ->
                           [conns EXCEPT ![k].reqs = Append(@, call.id)]
                      [] sent = "part" -> [conns EXCEPT ![k].torn = TRUE]
                      [] OTHER -> conns
        /\ pc' \in {"read", "recreate", "idle"}
        /\ sent = "whole" => pc' = "read"
  BY <1>3, <1>4 DEF Write, Retries, Return
<1>6. /\ call' \in [id : Nat, host : Hosts, sent : Sent] /\ call'.id = call.id
      /\ call'.host = call.host
  <2>1. sent \in Sent
    BY DEF SocketWrites, Sent
  <2>2. call' = [call EXCEPT !.sent = sent]
    BY <1>5
  <2> QED
    BY <1>3, <2>1, <2>2
<1>7. ASSUME NEW c \in 1..n, NEW i \in DOMAIN conns[c].reqs
      PROVE  /\ conns[c].reqs[i] \in Nat /\ conns[c].reqs[i] <= call.id
             /\ conns[c].reqs[i] # call.id
  <2>1. conns[c].reqs[i] \in Nat
    BY <1>3 DEF IsConn
  <2>2. conns[c].reqs[i] <= call.id /\ conns[c].reqs[i] # call.id
    BY <1>2, <1>3 DEF HTTPInv, NotSentYet
  <2> QED
    BY <2>1, <2>2
<1>8. CASE sent = "whole" /\ ~conns[k].torn
  <2> DEFINE r == conns[k].reqs
             x == [conns[k] EXCEPT !.reqs = Append(@, call.id)]
  <2>1. r \in Seq(Nat) /\ call.id \in Nat /\ DOMAIN conns[k] = Fields /\ conns[k].open \in BOOLEAN
    BY <1>3 DEF IsConn
  <2>2. conns' = [conns EXCEPT ![k] = x] /\ pc' = "read"
    BY <1>5, <1>8, <2>1 DEF Fields
  <2>3. IsConn(x) /\ x.open = conns[k].open /\ x.reqs = Append(r, call.id)
    BY <2>1, AppendShape DEF IsConn, Fields
  <2>4. /\ DOMAIN Append(r, call.id) = 1..Len(r)+1 /\ DOMAIN r = 1..Len(r) /\ Len(r) \in Nat
        /\ Append(r, call.id)[Len(r)+1] = call.id
        /\ \A i \in 1..Len(r) : Append(r, call.id)[i] = r[i]
    BY <2>1, AppendShape, SeqShape
  <2> HIDE DEF x
  <2>5. /\ IsSeq(conns', n) /\ DOMAIN conns' = 1..n /\ conns'[k] = x
        /\ \A c \in 1..n : c # k => conns'[c] = conns[c]
    BY <1>1, <1>2, <2>2, Zenon DEF IsSeq
  <2>6. \A c \in 1..n : IsConn(conns'[c]) /\ conns'[c].open = conns[c].open
    BY <1>3, <2>3, <2>5
  <2>7. Shape'
    BY <1>2, <1>3, <1>6, <2>2, <2>5, <2>6 DEF Shape, Conn
  <2>8. ASSUME NEW c \in 1..n, NEW i \in DOMAIN conns'[c].reqs
        PROVE  \/ c = k /\ i = Len(r) + 1 /\ conns'[c].reqs[i] = call.id
               \/ i \in DOMAIN conns[c].reqs /\ conns'[c].reqs[i] = conns[c].reqs[i]
    <3>1. CASE c # k
      BY <3>1, <2>5
    <3>2. CASE c = k
      <4>1. conns'[c].reqs = Append(r, call.id) /\ conns[c].reqs = r
        BY <3>2, <2>3, <2>5
      <4>2. i \in 1..Len(r)+1
        BY <4>1, <2>4
      <4> HIDE DEF r
      <4>3. i \in 1..Len(r) \/ i = Len(r) + 1
        BY <4>2, <2>4
      <4> QED
        BY <3>2, <4>1, <4>3, <2>4
    <3> QED
      BY <3>1, <3>2
  <2>9. NotSentYet'
    <3>1. ASSUME NEW c \in 1..n, NEW i \in DOMAIN conns'[c].reqs
          PROVE  conns'[c].reqs[i] <= call'.id
      <4>1. CASE conns'[c].reqs[i] = call.id
        BY <4>1, <1>3, <1>6
      <4>2. CASE i \in DOMAIN conns[c].reqs /\ conns'[c].reqs[i] = conns[c].reqs[i]
        BY <4>2, <1>6, <1>7
      <4> QED
        BY <2>8, <4>1, <4>2
    <3> QED
      BY <2>2, <2>5, <3>1 DEF NotSentYet
  <2>10. AtMostOnce'
    <3>1. ASSUME NEW c \in 1..n, NEW d \in 1..n,
                 NEW i \in DOMAIN conns'[c].reqs, NEW j \in DOMAIN conns'[d].reqs,
                 conns'[c].reqs[i] = conns'[d].reqs[j]
          PROVE  c = d /\ i = j
      <4>1. /\ \/ c = k /\ i = Len(r) + 1 /\ conns'[c].reqs[i] = call.id
               \/ i \in DOMAIN conns[c].reqs /\ conns'[c].reqs[i] = conns[c].reqs[i]
            /\ \/ d = k /\ j = Len(r) + 1 /\ conns'[d].reqs[j] = call.id
               \/ j \in DOMAIN conns[d].reqs /\ conns'[d].reqs[j] = conns[d].reqs[j]
        BY <2>8
      <4>2. CASE /\ i \in DOMAIN conns[c].reqs /\ conns'[c].reqs[i] = conns[c].reqs[i]
                 /\ j \in DOMAIN conns[d].reqs /\ conns'[d].reqs[j] = conns[d].reqs[j]
        <5>1. conns[c].reqs[i] = conns[d].reqs[j]
          BY <3>1, <4>2, Zenon
        <5>2. AtMostOnce
          BY DEF HTTPInv
        <5> QED
          BY <4>2, <5>1, <5>2, <1>2 DEF AtMostOnce
      <4> QED
        BY <3>1, <4>1, <4>2, <1>7
    <3> QED
      BY <2>5, <3>1 DEF AtMostOnce
  <2>11. PoolOwnsSockets'
    BY <1>2, <1>3, <2>5, <2>6 DEF HTTPInv, PoolOwnsSockets
  <2> QED
    BY <2>7, <2>9, <2>10, <2>11 DEF HTTPInv
<1>9. CASE ~(sent = "whole" /\ ~conns[k].torn)
  <2> DEFINE x == IF sent = "part" THEN [conns[k] EXCEPT !.torn = TRUE] ELSE conns[k]
  <2>1. IsConn(x) /\ x.open = conns[k].open /\ x.reqs = conns[k].reqs
    BY <1>3 DEF IsConn, Fields
  <2>2. conns' = [conns EXCEPT ![k] = x]
    BY <1>1, <1>2, <1>3, <1>5, <1>9, Zenon DEF IsConn, Fields, IsSeq
  <2> HIDE DEF x
  <2>3. /\ IsSeq(conns', n) /\ DOMAIN conns' = 1..n
        /\ \A c \in 1..n : /\ IsConn(conns'[c]) /\ conns'[c].open = conns[c].open
                            /\ conns'[c].reqs = conns[c].reqs
    BY <1>1, <1>2, <1>3, <2>1, <2>2, Zenon DEF IsSeq
  <2>4. Shape'
    BY <1>2, <1>3, <1>5, <1>6, <2>3, Zenon DEF Shape, Conn
  <2>5. NotSentYet'
    BY <1>6, <1>7, <2>3 DEF NotSentYet
  <2>6. AtMostOnce'
    BY <1>2, <2>3 DEF HTTPInv, AtMostOnce
  <2>7. PoolOwnsSockets'
    BY <1>2, <1>3, <2>3 DEF HTTPInv, PoolOwnsSockets
  <2> QED
    BY <2>4, <2>5, <2>6, <2>7 DEF HTTPInv
<1> QED
  BY <1>8, <1>9

LEMMA CloseInv ==
  ASSUME HTTPInv, Close
  PROVE  HTTPInv'
<1>1. PICK n \in Nat : IsSeq(conns, n)
  BY DEF HTTPInv, Shape
<1>2. /\ DOMAIN conns = 1..n /\ \A c \in 1..n : IsConn(conns[c])
      /\ pool \in [Hosts -> Nat] /\ \A h \in Hosts : pool[h] # 0 => pool[h] \in 1..n
  BY <1>1 DEF HTTPInv, Shape, IsSeq
<1>3. PICK closed \in SUBSET Hosts :
        /\ \A h \in closed : pool[h] # 0
        /\ conns' = [c \in DOMAIN conns |->
                       IF \E h \in closed : pool[h] = c THEN Closed(conns[c]) ELSE conns[c]]
        /\ pool' = [h \in Hosts |-> IF h \in closed THEN 0 ELSE pool[h]]
  BY DEF Close
<1>4. pc = "idle" /\ pc' = "idle" /\ call' = call
  BY DEF Close
<1>5. ASSUME NEW c, IsConn(c)
      PROVE  IsConn(Closed(c)) /\ Closed(c).reqs = c.reqs /\ Closed(c).open = FALSE
  BY <1>5 DEF IsConn, Closed, NewConn, Fields
<1>6. DOMAIN conns' = 1..n /\ IsSeq(conns', n)
  BY <1>2, <1>3 DEF IsSeq
<1>7. ASSUME NEW c \in 1..n
      PROVE  /\ IsConn(conns'[c]) /\ conns'[c].reqs = conns[c].reqs
             /\ conns'[c].open <=> conns[c].open /\ ~\E h \in closed : pool[h] = c
  <2>1. CASE \E h \in closed : pool[h] = c
    <3>1. conns'[c] = Closed(conns[c])
      BY <1>2, <1>3, <2>1
    <3> QED
      BY <1>2, <1>5, <2>1, <3>1, Zenon
  <2>2. CASE ~\E h \in closed : pool[h] = c
    <3>1. conns'[c] = conns[c]
      BY <1>2, <1>3, <2>2
    <3> QED
      BY <1>2, <2>2, <3>1
  <2> QED
    BY <2>1, <2>2
<1>8. /\ pool' \in [Hosts -> Nat] /\ \A h \in Hosts : pool'[h] # 0 => pool'[h] \in 1..n
      /\ \A h \in Hosts : pool'[h] # 0 <=> pool[h] # 0 /\ h \notin closed
      /\ \A h \in Hosts : pool'[h] # 0 => pool'[h] = pool[h]
  BY <1>2, <1>3
<1>9. Shape'
  BY <1>4, <1>6, <1>7, <1>8 DEF HTTPInv, Shape
<1>10. NotSentYet'
  BY <1>2, <1>4, <1>6, <1>7 DEF HTTPInv, NotSentYet
<1>11. AtMostOnce'
  BY <1>2, <1>6, <1>7 DEF HTTPInv, AtMostOnce
<1>12. PoolOwnsSockets'
  <2>1. ASSUME NEW c \in 1..n
        PROVE  conns'[c].open <=> \E h \in Hosts : pool'[h] = c
    <3>1. conns[c].open <=> \E h \in Hosts : pool[h] = c
      BY <1>2 DEF HTTPInv, PoolOwnsSockets
    <3>2. c # 0
      OBVIOUS
    <3>3. ASSUME conns'[c].open PROVE \E h \in Hosts : pool'[h] = c
      <4>1. PICK h \in Hosts : pool[h] = c /\ h \notin closed
        BY <1>7, <3>1, <3>3
      <4> QED
        BY <1>8, <3>2, <4>1
    <3>4. ASSUME NEW h \in Hosts, pool'[h] = c PROVE conns'[c].open
      <4>1. pool[h] = c /\ h \notin closed
        BY <1>8, <3>2, <3>4
      <4>2. ~\E g \in closed : pool[g] = c
        BY <3>2, <4>1 DEF HTTPInv, PoolOwnsSockets
      <4> QED
        BY <1>7, <3>1, <4>1, <4>2
    <3> QED
      BY <3>3, <3>4
  <2>2. ASSUME NEW f \in Hosts, NEW g \in Hosts, pool'[f] = pool'[g], pool'[f] # 0
        PROVE  f = g
    <3>1. pool[f] = pool[g] /\ pool[f] # 0
      BY <1>8, <2>2
    <3> QED
      BY <3>1 DEF HTTPInv, PoolOwnsSockets
  <2> QED
    BY <1>6, <2>1, <2>2 DEF PoolOwnsSockets
<1> QED
  BY <1>9, <1>10, <1>11, <1>12 DEF HTTPInv

-----------------------------------------------------------------------------
LEMMA InitInv == Init => HTTPInv
<1> SUFFICES ASSUME Init PROVE HTTPInv
  OBVIOUS
<1>1. conns = <<>> /\ DOMAIN conns = {} /\ IsSeq(conns, 0)
  BY DEF Init, IsSeq
<1>2. PICK h \in Hosts : h = CHOOSE g \in Hosts : TRUE
  BY HTTPAssumption
<1>3. call = [id |-> 0, host |-> h, sent |-> "none"]
  BY <1>2 DEF Init
<1>4. call \in [id : Nat, host : Hosts, sent : Sent]
  BY <1>3 DEF Sent
<1>5. pool = [g \in Hosts |-> 0] /\ pc = "idle"
  BY DEF Init
<1>6. Shape
  BY <1>1, <1>4, <1>5 DEF Shape
<1> QED
  BY <1>1, <1>5, <1>6 DEF HTTPInv, NotSentYet, AtMostOnce, PoolOwnsSockets

LEMMA NextInv == HTTPInv /\ [Next]_vars => HTTPInv'
<1> SUFFICES ASSUME HTTPInv, [Next]_vars PROVE HTTPInv'
  OBVIOUS
<1>1. ASSUME NEW h \in Hosts, Request(h) PROVE HTTPInv'
  BY <1>1, RequestInv
<1>2. CASE RecreateConnection
  BY <1>2, RecreateInv
<1>3. CASE Write
  BY <1>3, WriteInv
<1>4. ASSUME NEW interrupted \in BOOLEAN, ParseResponse(interrupted) PROVE HTTPInv'
  BY <1>4, ParseResponseKeeps, KeepsInv
<1>5. CASE Close
  BY <1>5, CloseInv
<1>6. ASSUME NEW c \in DOMAIN conns, Serve(c) \/ PeerClose(c) PROVE HTTPInv'
  BY <1>6, ServerKeeps, KeepsInv
<1>7. CASE UNCHANGED vars
  BY <1>7 DEF vars, HTTPInv, Shape, Conn, NotSentYet, AtMostOnce, PoolOwnsSockets
<1>8. CASE EncodeOverflows
  BY <1>8, OverflowKeeps, KeepsInv
<1> QED
  BY <1>1, <1>2, <1>3, <1>4, <1>5, <1>6, <1>7, <1>8, Zenon DEF Next

LEMMA AlwaysInv == Spec => []HTTPInv
  BY InitInv, NextInv, PTL DEF Spec

(* HTTPClient.request, for all hosts, any number of calls and connections:   *)
(* the retry never makes a server execute a request a second time.          *)
THEOREM HTTPAtMostOnce == Spec => []AtMostOnce
<1>1. HTTPInv => AtMostOnce
  BY DEF HTTPInv
<1> QED
  BY <1>1, AlwaysInv, PTL

(* HTTPClient's pool, for all hosts: exactly the pooled connections are     *)
(* open, each under one host, also when recreateConnection fails to connect *)
(* and when close() throws half-way.                                        *)
THEOREM HTTPPoolOwnsSockets == Spec => []PoolOwnsSockets
<1>1. HTTPInv => PoolOwnsSockets
  BY DEF HTTPInv
<1> QED
  BY <1>1, AlwaysInv, PTL
-----------------------------------------------------------------------------
(* The responses. *)

Names == {"HT", "TP", "SL", "LEN", "CR", "LF", "B", "NUL"}
Tokens == Names \X Nat

(* The tokens from+1..to of the stream s are a reply, as far as s goes: a   *)
(* server that ends the connection may cut its last replies off.            *)
IsReply(s, from, to) ==
  \E n \in Lengths \cup {-1} :
    /\ to = from + Len(Reply(n))
    /\ \A i \in 1..Len(Reply(n)) : from + i <= Len(s) => s[from + i] = Reply(n)[i]

(* The server's side of a connection: its stream is its replies, one after  *)
(* the other, at most one for a request.                                    *)
ServerSide(c) ==
  /\ c.stream \in Seq(Tokens) /\ c.ends \in Seq(Nat) /\ Len(c.ends) <= Len(c.reqs)
  /\ Len(c.stream) <= EndOf(c, Len(c.ends))
  /\ c.link = "up" => /\ Len(c.stream) = EndOf(c, Len(c.ends))
                      /\ \A j \in 1..Len(c.ends) : c.ends[j] <= Len(c.stream)
  /\ \A j \in 1..Len(c.ends) : IsReply(c.stream, EndOf(c, j - 1), EndOf(c, j))

ClientSide(c) ==
  /\ c.buf \in Buffers(ReadCap) /\ c.rcvd \in 0..Len(c.stream)
  /\ \A i \in 0..ReadCap-1 : c.buf.data[i] <= c.rcvd
  /\ c.taken \in Nat /\ c.skipped \in Nat /\ c.torn \in BOOLEAN

(* The buffer starts at the end of a reply. *)
Aligned(c) ==
  /\ c.taken <= Len(c.ends)
  /\ c.rcvd = EndOf(c, c.taken) + Remaining(c.buf)
  /\ Holds(c.buf, c.buf.pos, c.buf.lim, EndOf(c, c.taken))

ConnInv(c) ==
  /\ ServerSide(c) /\ ClientSide(c)
  /\ c.framing = "intact" => Aligned(c)

(* The calls that wait for the response to a request that was sent whole. *)
Waiting(k) == IF pc = "read" /\ call.sent = "whole" /\ Conn = k THEN 1 ELSE 0

(* Every whole request was answered to its caller, given up or is waited    *)
(* for.                                                                     *)
Accounted(k) ==
  LET c == conns[k] IN
  c.open /\ c.framing = "intact" /\ ~c.torn => c.taken + c.skipped + Waiting(k) = Len(c.reqs)

(* The current call's request: the retry is on a connection that has seen   *)
(* no request, and the last whole request is the call's own.                *)
CallInv ==
  /\ pc = "retry" => conns[Conn].reqs = <<>>
  /\ pc = "read" /\ call.sent # "whole" => conns[Conn].torn \/ conns[Conn].reqs = <<>>
  /\ pc = "read" /\ call.sent = "whole" /\ ~conns[Conn].torn =>
       Len(conns[Conn].reqs) > 0 /\ conns[Conn].reqs[Len(conns[Conn].reqs)] = call.id

BodyShape == body.cap = ReadCap /\ body.lim \in 0..ReadCap /\ body.pos \in 0..body.lim

ResultInv ==
  /\ result.kind = "response" => result.conn \in DOMAIN conns /\ pc = "idle"
  /\ ReplyInTurn /\ BodyIsReply
  /\ result.kind = "response" /\ conns[result.conn].framing = "intact" =>
       conns[result.conn].taken > 0

StreamInv ==
  /\ \A k \in DOMAIN conns : ConnInv(conns[k]) /\ Accounted(k)
  /\ CallInv /\ BodyShape /\ ResultInv
-----------------------------------------------------------------------------
(* The server's replies and what HTTPDecoder finds in them. *)
LEMMA ReplyShape ==
  ASSUME NEW n \in Lengths \cup {-1}
  PROVE  /\ Reply(n) \in Seq(Tokens)
         /\ n \in Nat => /\ Len(Reply(n)) = 8 + n
                         /\ Reply(n)[1] = <<"HT", 0>> /\ Reply(n)[2] = <<"TP", 0>>
                         /\ Reply(n)[3] = <<"SL", 0>> /\ Reply(n)[4] = <<"LEN", n>>
                         /\ Reply(n)[5] = <<"CR", 0>> /\ Reply(n)[6] = <<"LF", 0>>
                         /\ Reply(n)[7] = <<"CR", 0>> /\ Reply(n)[8] = <<"LF", 0>>
         /\ n \notin Nat => /\ n = -1 /\ Len(Reply(n)) = 5
                            /\ Reply(n)[1] = <<"HT", 0>> /\ Reply(n)[2] = <<"TP", 0>>
                            /\ Reply(n)[3] = <<"SL", 0>> /\ Reply(n)[4] = <<"CR", 0>>
                            /\ Reply(n)[5] = <<"LF", 0>>
<1>1. n \in Nat \/ n = -1
  BY HTTPAssumption
<1>2. \A name \in Names : Token(name) \in Tokens
  BY DEF Token, Tokens
<1>3. CASE n \in Nat
  <2> DEFINE head == <<Token("HT"), Token("TP"), Token("SL"), <<"LEN", n>>, Token("CR"),
                       Token("LF"), Token("CR"), Token("LF")>>
             tail == [i \in 1..n |-> Token("B")]
  <2>1. Reply(n) = head \o tail
    BY <1>3 DEF Reply
  <2>2. <<"LEN", n>> \in Tokens
    BY <1>3 DEF Tokens, Names
  <2>3. head \in Seq(Tokens)
    BY <1>2, <2>2 DEF Names
  <2>4. Len(head) = 8
    OBVIOUS
  <2>5. tail \in [1..n -> Tokens]
    BY <1>2 DEF Names
  <2>6. tail \in Seq(Tokens) /\ Len(tail) = n
    <3> HIDE DEF tail
    <3>1. tail \in Seq(Tokens)
      BY <1>3, <2>5, SeqIs
    <3> QED
      BY <1>3, <2>5, <3>1, SeqShape
  <2> DEFINE hd == head
  <2>7. /\ hd[1] = <<"HT", 0>> /\ hd[2] = <<"TP", 0>> /\ hd[3] = <<"SL", 0>>
        /\ hd[4] = <<"LEN", n>> /\ hd[5] = <<"CR", 0>> /\ hd[6] = <<"LF", 0>>
        /\ hd[7] = <<"CR", 0>> /\ hd[8] = <<"LF", 0>>
    BY DEF Token
  <2> HIDE DEF head, tail
  <2>8. /\ head \o tail \in Seq(Tokens) /\ Len(head \o tail) = Len(head) + Len(tail)
        /\ \A i \in 1..Len(head) + Len(tail) :
             (head \o tail)[i] = IF i <= Len(head) THEN head[i] ELSE tail[i - Len(head)]
    BY <2>3, <2>6, ConcatShape, Zenon
  <2>9. \A i \in 1..8 : Reply(n)[i] = hd[i]
    BY <1>3, <2>1, <2>4, <2>6, <2>8
  <2> HIDE DEF hd
  <2>10. Reply(n) \in Seq(Tokens) /\ Len(Reply(n)) = 8 + n
    BY <2>1, <2>4, <2>6, <2>8
  <2>11. 1 \in 1..8 /\ 2 \in 1..8 /\ 3 \in 1..8 /\ 4 \in 1..8 /\ 5 \in 1..8
         /\ 6 \in 1..8 /\ 7 \in 1..8 /\ 8 \in 1..8
    OBVIOUS
  <2>12. /\ Reply(n)[1] = hd[1] /\ Reply(n)[2] = hd[2] /\ Reply(n)[3] = hd[3]
         /\ Reply(n)[4] = hd[4] /\ Reply(n)[5] = hd[5] /\ Reply(n)[6] = hd[6]
         /\ Reply(n)[7] = hd[7] /\ Reply(n)[8] = hd[8]
    BY <2>9, <2>11, Zenon
  <2> QED
    BY <1>3, <2>7, <2>10, <2>12, Zenon
<1>4. CASE n = -1
  <2>1. Reply(n) = <<Token("HT"), Token("TP"), Token("SL"), Token("CR"), Token("LF")>>
    BY <1>4 DEF Reply
  <2>2. Reply(n) \in Seq(Tokens)
    BY <1>2, <2>1 DEF Names
  <2>3. n \notin Nat
    BY <1>4
  <2>4. /\ Len(Reply(n)) = 5
        /\ Reply(n)[1] = Token("HT") /\ Reply(n)[2] = Token("TP") /\ Reply(n)[3] = Token("SL")
        /\ Reply(n)[4] = Token("CR") /\ Reply(n)[5] = Token("LF")
    BY <2>1
  <2> QED
    BY <1>4, <2>2, <2>3, <2>4, Zenon DEF Token
<1> QED
  BY <1>1, <1>3, <1>4, Zenon

(* parseHeaders and contentLength stay inside what they are given. *)
LEMMA CompleteFits ==
  ASSUME NEW m \in Nat, NEW ts \in [1..m -> Tokens], Len(ts) = m, IsComplete(ts)
  PROVE  /\ HeadersEnd(ts) \in 1..m /\ ContentLength(ts) \in Nat
         /\ HeadersEnd(ts) + ContentLength(ts) <= m
<1> DEFINE ends == {i \in 5..Len(ts) : /\ ts[i] = Token("LF") /\ ts[i-1] = Token("CR")
                                       /\ ts[i-2] \in {Token("SL"), Token("LF")}}
           at == {i \in 1..HeadersEnd(ts) : ts[i][1] = "LEN"}
<1>1. HeadersEnd(ts) = IF ends = {} THEN 0 ELSE Min(ends)
  BY DEF HeadersEnd
<1>2. ContentLength(ts) = IF at = {} THEN -1 ELSE ts[Max(at)][2]
  BY DEF ContentLength
<1>3. /\ HeadersEnd(ts) > 0 /\ ContentLength(ts) >= 0
      /\ m - HeadersEnd(ts) >= ContentLength(ts)
  BY DEF IsComplete
<1>4. ends \subseteq 5..m
  OBVIOUS
<1>5. HeadersEnd(ts) \in 1..m
  <2> HIDE DEF ends
  <2>1. ends # {}
    BY <1>1, <1>3
  <2>2. ends \subseteq Nat
    BY <1>4
  <2>3. Min(ends) \in ends
    BY <2>1, <2>2, MinLeast, Zenon
  <2>4. HeadersEnd(ts) = Min(ends)
    BY <1>1, <2>1
  <2>5. Min(ends) \in 5..m
    BY <1>4, <2>3, Zenon
  <2> QED
    BY <2>4, <2>5
<1>6. at \subseteq 1..m /\ at \subseteq 0..m
  BY <1>5
<1>7. ContentLength(ts) \in Nat
  <2> HIDE DEF at
  <2>1. at # {}
    BY <1>2, <1>3
  <2>2. Max(at) \in at
    BY <1>6, <2>1, MaxBounded, Zenon
  <2>3. ts[Max(at)] \in Tokens
    BY <1>6, <2>2, Zenon
  <2>4. \A t \in Tokens : t[2] \in Nat
    BY DEF Tokens
  <2>5. ts[Max(at)][2] \in Nat
    BY <2>3, <2>4
  <2> QED
    BY <1>2, <2>1, <2>5
<1> QED
  BY <1>3, <1>5, <1>7

(* HTTPDecoder on a buffer that starts with a reply: it is complete exactly *)
(* when it is there whole, with its own length; without a Content-Length it *)
(* never is.                                                                *)
LEMMA ParseReply ==
  ASSUME NEW n \in Lengths \cup {-1}, NEW m \in Nat, NEW ts, Len(ts) = m,
         \A i \in 1..Len(Reply(n)) : i <= m => ts[i] = Reply(n)[i]
  PROVE  /\ IsComplete(ts) <=> n \in Nat /\ Len(Reply(n)) <= m
         /\ IsComplete(ts) => /\ HeadersEnd(ts) + ContentLength(ts) = Len(Reply(n))
                              /\ ContentLength(ts) = n
<1> DEFINE ends == {i \in 5..Len(ts) : /\ ts[i] = Token("LF") /\ ts[i-1] = Token("CR")
                                       /\ ts[i-2] \in {Token("SL"), Token("LF")}}
           at == {i \in 1..HeadersEnd(ts) : ts[i][1] = "LEN"}
<1>1. HeadersEnd(ts) = IF ends = {} THEN 0 ELSE Min(ends)
  BY DEF HeadersEnd
<1>2. ContentLength(ts) = IF at = {} THEN -1 ELSE ts[Max(at)][2]
  BY DEF ContentLength
<1>3. ends \subseteq 5..m /\ ends \subseteq Nat
  OBVIOUS
<1>4. ends # {} => Min(ends) \in ends /\ \A y \in ends : Min(ends) <= y
  <2> HIDE DEF ends
  <2> QED
    BY <1>3, MinLeast, Zenon
<1>5. Token("LF") = <<"LF", 0>> /\ Token("CR") = <<"CR", 0>> /\ Token("SL") = <<"SL", 0>>
  BY DEF Token
<1>6. CASE n \in Nat
  <2>1. /\ Len(Reply(n)) = 8 + n
        /\ 1 <= m => ts[1] = <<"HT", 0>>
        /\ 2 <= m => ts[2] = <<"TP", 0>>
        /\ 3 <= m => ts[3] = <<"SL", 0>>
        /\ 4 <= m => ts[4] = <<"LEN", n>>
        /\ 5 <= m => ts[5] = <<"CR", 0>>
        /\ 6 <= m => ts[6] = <<"LF", 0>>
        /\ 7 <= m => ts[7] = <<"CR", 0>>
        /\ 8 <= m => ts[8] = <<"LF", 0>>
    BY <1>6, ReplyShape
  <2>2. /\ 5 \notin ends /\ 6 \notin ends /\ 7 \notin ends
    BY <1>5, <2>1
  <2>3. ASSUME 8 <= m PROVE 8 \in ends
    <3>0. 7 <= m /\ 6 <= m
      BY <2>3
    <3>1. ts[8] = Token("LF") /\ ts[7] = Token("CR") /\ ts[6] = Token("LF")
      BY <1>5, <2>1, <2>3, <3>0, Zenon
    <3>2. 8 \in 5..Len(ts)
      BY <2>3
    <3>3. ts[8 - 1] = Token("CR") /\ ts[8 - 2] = Token("LF")
      BY <3>1
    <3> QED
      BY <3>1, <3>2, <3>3, Zenon
  <2> HIDE DEF ends
  <2>4. HeadersEnd(ts) = IF 8 <= m THEN 8 ELSE 0
    <3>1. CASE 8 <= m
      <4>1. ends # {} /\ Min(ends) \in ends /\ Min(ends) <= 8
        BY <1>4, <2>3, <3>1
      <4>2. Min(ends) \in 5..m
        BY <1>3, <4>1, Zenon
      <4>3. Min(ends) # 5 /\ Min(ends) # 6 /\ Min(ends) # 7
        BY <2>2, <4>1
      <4> QED
        BY <1>1, <3>1, <4>1, <4>2, <4>3
    <3>2. CASE m < 8
      <4>1. ASSUME NEW i \in ends PROVE FALSE
        <5>1. i \in 5..m
          BY <1>3
        <5>2. i = 5 \/ i = 6 \/ i = 7
          BY <3>2, <5>1
        <5> QED
          BY <2>2, <5>2
      <4>2. ends = {}
        BY <4>1
      <4> QED
        BY <1>1, <3>2, <4>2
    <3> QED
      BY <3>1, <3>2
  <2>5. CASE m < 8
    <3>1. ~IsComplete(ts)
      BY <2>4, <2>5 DEF IsComplete
    <3> QED
      BY <1>6, <2>1, <2>5, <3>1
  <2>6. CASE 8 <= m
    <3>1. HeadersEnd(ts) = 8
      BY <2>4, <2>6
    <3>2. at = {i \in 1..8 : ts[i][1] = "LEN"}
      BY <3>1
    <3>3. at = {4}
      <4>1. ASSUME NEW i \in 1..8 PROVE i \in {1, 2, 3, 4, 5, 6, 7, 8}
        OBVIOUS
      <4>2. /\ ts[1][1] = "HT" /\ ts[2][1] = "TP" /\ ts[3][1] = "SL" /\ ts[4][1] = "LEN"
            /\ ts[5][1] = "CR" /\ ts[6][1] = "LF" /\ ts[7][1] = "CR" /\ ts[8][1] = "LF"
        BY <2>1, <2>6
      <4>3. ASSUME NEW i \in 1..8 PROVE ts[i][1] = "LEN" <=> i = 4
        BY <4>1, <4>2
      <4> HIDE DEF at
      <4> QED
        BY <3>2, <4>3
    <3> HIDE DEF at
    <3>4. Max(at) = 4
      <4>1. at \subseteq 0..8 /\ at # {}
        BY <3>3
      <4> QED
        BY <3>3, <4>1, MaxBounded
    <3>5. ContentLength(ts) = n
      BY <1>2, <2>1, <2>6, <3>3, <3>4
    <3>6. IsComplete(ts) <=> m - 8 >= n
      BY <1>6, <3>1, <3>5 DEF IsComplete
    <3> QED
      BY <1>6, <2>1, <3>1, <3>5, <3>6
  <2> QED
    BY <2>5, <2>6
<1>7. CASE n \notin Nat
  <2>1. /\ Len(Reply(n)) = 5
        /\ 1 <= m => ts[1] = <<"HT", 0>>
        /\ 2 <= m => ts[2] = <<"TP", 0>>
        /\ 3 <= m => ts[3] = <<"SL", 0>>
        /\ 4 <= m => ts[4] = <<"CR", 0>>
        /\ 5 <= m => ts[5] = <<"LF", 0>>
    BY <1>7, ReplyShape
  <2>2. ASSUME 5 <= m PROVE 5 \in ends
    <3>1. 5 \in 5..m /\ 5-1 = 4 /\ 5-2 = 3 /\ 3 <= m /\ 4 <= m
      BY <2>2
    <3>2. ts[5] = <<"LF", 0>> /\ ts[4] = <<"CR", 0>> /\ ts[3] = <<"SL", 0>>
      BY <2>1, <2>2, <3>1, Zenon
    <3> QED
      BY <1>5, <3>1, <3>2
  <2> HIDE DEF ends
  <2>3. HeadersEnd(ts) = IF 5 <= m THEN 5 ELSE 0
    <3>1. CASE 5 <= m
      <4>1. ends # {} /\ Min(ends) \in ends /\ Min(ends) <= 5
        BY <1>4, <2>2, <3>1
      <4>2. Min(ends) \in 5..m
        BY <1>3, <4>1
      <4> QED
        BY <1>1, <3>1, <4>1, <4>2
    <3>2. CASE m < 5
      <4>1. ends = {}
        BY <1>3, <3>2
      <4> QED
        BY <1>1, <3>2, <4>1
    <3> QED
      BY <3>1, <3>2
  <2>4. at = {}
    <3>1. CASE 5 <= m
      <4>1. at = {i \in 1..5 : ts[i][1] = "LEN"}
        BY <2>3, <3>1
      <4>2. /\ ts[1][1] = "HT" /\ ts[2][1] = "TP" /\ ts[3][1] = "SL" /\ ts[4][1] = "CR"
            /\ ts[5][1] = "LF"
        BY <2>1, <3>1
      <4>3. ASSUME NEW i \in 1..5 PROVE ts[i][1] # "LEN"
        <5>1. i \in {1, 2, 3, 4, 5}
          OBVIOUS
        <5> QED
          BY <4>2, <5>1
      <4> HIDE DEF at
      <4> QED
        BY <4>1, <4>3
    <3>2. CASE m < 5
      BY <2>3, <3>2
    <3> QED
      BY <3>1, <3>2
  <2> HIDE DEF at
  <2>5. ContentLength(ts) = -1
    BY <1>2, <2>4
  <2>6. ~IsComplete(ts)
    BY <2>5 DEF IsComplete
  <2> QED
    BY <1>7, <2>6
<1> QED
  BY <1>6, <1>7

(* An empty buffer has no message. *)
LEMMA NothingIsComplete ==
  ASSUME NEW ts, Len(ts) = 0
  PROVE  ~IsComplete(ts)
<1>1. 5..Len(ts) = {}
  OBVIOUS
<1>2. HeadersEnd(ts) = 0
  BY <1>1 DEF HeadersEnd
<1> QED
  BY <1>2 DEF IsComplete
-----------------------------------------------------------------------------
(* One connection: what each thing that happens to it does to ConnInv. *)
LEMMA EndOfType ==
  ASSUME NEW c, c.ends \in Seq(Nat), NEW k \in 0..Len(c.ends)
  PROVE  EndOf(c, k) \in Nat
<1>1. Len(c.ends) \in Nat /\ \A j \in 1..Len(c.ends) : c.ends[j] \in Nat
  BY SeqShape
<1> QED
  BY <1>1 DEF EndOf

LEMMA UnreadShape ==
  ASSUME NEW c, ServerSide(c), ClientSide(c)
  PROVE  /\ Unread(c) \in [1..Remaining(c.buf) -> Tokens]
         /\ Len(Unread(c)) = Remaining(c.buf) /\ Remaining(c.buf) \in 0..ReadCap
<1>0. \A i \in 0..ReadCap-1 : c.buf.data[i] <= c.rcvd
  BY DEF ClientSide
<1>1. /\ ReadCap \in Nat \ {0} /\ c.buf \in Buffers(ReadCap)
      /\ c.rcvd \in 0..Len(c.stream) /\ c.stream \in Seq(Tokens)
  BY HTTPAssumption DEF ServerSide, ClientSide
<1>2. /\ ReadCap \in Nat /\ c.buf.pos \in 0..ReadCap /\ c.buf.lim \in 0..ReadCap
      /\ c.buf.pos <= c.buf.lim
  BY <1>1, BufferFields
<1>data. c.buf.data \in [0..ReadCap-1 -> Nat]
  BY <1>1, BufferFields
<1>3. Remaining(c.buf) \in 0..ReadCap
  BY <1>2 DEF Remaining
<1>4. Len(c.stream) \in Nat /\ \A j \in 1..Len(c.stream) : c.stream[j] \in Tokens
  BY <1>1, SeqShape
<1>5. ASSUME NEW i \in 1..Remaining(c.buf)
      PROVE  Value(c, c.buf.data[c.buf.pos + i - 1]) \in Tokens
  <2>1. c.buf.pos + i - 1 \in 0..ReadCap-1
    BY <1>2 DEF Remaining
  <2> DEFINE d == c.buf.data[c.buf.pos + i - 1]
  <2>2. d \in Nat
    BY <1>data, <2>1, Zenon
  <2>3. d <= c.rcvd
    BY <1>0, <2>1
  <2> HIDE DEF d
  <2>4. d # 0 => d \in 1..Len(c.stream)
    BY <1>1, <1>4, <2>2, <2>3
  <2>5. Token("NUL") \in Tokens
    BY DEF Token, Tokens, Names
  <2>6. Value(c, d) \in Tokens
    BY <1>4, <2>4, <2>5 DEF Value
  <2> QED
    BY <2>6 DEF d
<1>6. Unread(c) \in [1..Remaining(c.buf) -> Tokens]
  BY <1>5 DEF Unread
<1>7. Unread(c) \in Seq(Tokens)
  BY <1>3, <1>6, SeqIs
<1>8. Len(Unread(c)) = Remaining(c.buf)
  BY <1>3, <1>6, <1>7, SeqShape
<1> QED
  BY <1>3, <1>6, <1>8

(* The unread part of an aligned buffer is what follows in the stream. *)
LEMMA UnreadFollows ==
  ASSUME NEW c, ServerSide(c), ClientSide(c), Aligned(c)
  PROVE  /\ EndOf(c, c.taken) \in Nat /\ c.taken \in 0..Len(c.ends) /\ Len(c.ends) \in Nat
         /\ \A i \in 1..Remaining(c.buf) :
              /\ c.buf.data[c.buf.pos + i - 1] = EndOf(c, c.taken) + i
              /\ Unread(c)[i] = c.stream[EndOf(c, c.taken) + i]
<1>1. /\ ReadCap \in Nat \ {0} /\ c.buf \in Buffers(ReadCap)
      /\ c.taken \in Nat /\ c.ends \in Seq(Nat) /\ c.taken <= Len(c.ends)
      /\ Holds(c.buf, c.buf.pos, c.buf.lim, EndOf(c, c.taken))
  BY HTTPAssumption DEF ServerSide, ClientSide, Aligned
<1>2. /\ c.buf.cap = ReadCap /\ c.buf.pos \in 0..ReadCap /\ c.buf.lim \in 0..ReadCap
      /\ c.buf.pos <= c.buf.lim
  BY <1>1, BufferFields
<1>3. Len(c.ends) \in Nat /\ c.taken \in 0..Len(c.ends)
  BY <1>1, SeqShape
<1>4. EndOf(c, c.taken) \in Nat
  BY <1>1, <1>3, EndOfType
<1>5. ASSUME NEW i \in 1..Remaining(c.buf)
      PROVE  /\ c.buf.data[c.buf.pos + i - 1] = EndOf(c, c.taken) + i
             /\ Unread(c)[i] = c.stream[EndOf(c, c.taken) + i]
  <2> DEFINE at == c.buf.pos + i - 1
             from == EndOf(c, c.taken)
  <2>1. /\ at \in 0..c.buf.cap-1 /\ c.buf.pos <= at /\ at < c.buf.lim
        /\ at - c.buf.pos + 1 = i
    <3> DEFINE p == c.buf.pos
               l == c.buf.lim
    <3>1. ReadCap \in Nat /\ c.buf.cap = ReadCap
      BY <1>2, HTTPAssumption
    <3>2. p \in 0..ReadCap /\ l \in 0..ReadCap
      BY <1>2
    <3>3. i \in 1..l-p
      BY DEF Remaining
    <3> HIDE DEF p, l
    <3>4. /\ p + i - 1 \in 0..ReadCap-1 /\ p <= p + i - 1 /\ p + i - 1 < l
          /\ (p + i - 1) - p + 1 = i
      BY <3>1, <3>2, <3>3
    <3> QED
      BY <3>1, <3>4, Zenon DEF p, l
  <2> HIDE DEF at, from
  <2>2. c.buf.data[at] = from + (at - c.buf.pos) + 1
    BY <1>1, <2>1, Zenon DEF Holds, from
  <2>3. at \in Int /\ from \in Nat /\ i \in Nat /\ i > 0
    BY <1>1, <1>2, <1>4 DEF Remaining, at, from
  <2>4. c.buf.data[at] = from + i /\ from + i # 0
    BY <1>2, <2>1, <2>2, <2>3
  <2>5. Value(c, from + i) = c.stream[from + i]
    BY <2>4 DEF Value
  <2>6. Unread(c)[i] = Value(c, c.buf.data[at])
    BY DEF Unread, at
  <2> QED
    BY <2>4, <2>5, <2>6 DEF at, from
<1> QED
  BY <1>3, <1>4, <1>5

(* Whatever is unread belongs to the reply after the last one taken. *)
LEMMA UnreadIsReply ==
  ASSUME NEW c, ServerSide(c), ClientSide(c), Aligned(c), Remaining(c.buf) # 0
  PROVE  /\ c.taken + 1 \in 1..Len(c.ends)
         /\ \E n \in Lengths \cup {-1} :
              /\ EndOf(c, c.taken + 1) = EndOf(c, c.taken) + Len(Reply(n))
              /\ \A i \in 1..Len(Reply(n)) :
                   EndOf(c, c.taken) + i <= Len(c.stream) =>
                     c.stream[EndOf(c, c.taken) + i] = Reply(n)[i]
<1>1. /\ EndOf(c, c.taken) \in Nat /\ c.taken \in 0..Len(c.ends) /\ Len(c.ends) \in Nat
  BY UnreadFollows
<1>2. Remaining(c.buf) \in Nat
  BY UnreadShape, HTTPAssumption
<1>3. /\ c.rcvd = EndOf(c, c.taken) + Remaining(c.buf) /\ c.rcvd \in 0..Len(c.stream)
      /\ Len(c.stream) <= EndOf(c, Len(c.ends)) /\ c.stream \in Seq(Tokens)
  BY DEF ServerSide, ClientSide, Aligned
<1>4. Len(c.stream) \in Nat
  BY <1>3, SeqShape
<1>5. c.taken # Len(c.ends)
  <2>1. SUFFICES ASSUME c.taken = Len(c.ends) PROVE FALSE
    OBVIOUS
  <2>2. Len(c.stream) <= EndOf(c, c.taken)
    BY <1>3, <2>1
  <2> QED
    BY <1>1, <1>2, <1>3, <1>4, <2>2
<1>6. c.taken + 1 \in 1..Len(c.ends) /\ c.taken + 1 - 1 = c.taken
  BY <1>1, <1>5
<1>7. PICK j \in 1..Len(c.ends) : j = c.taken + 1
  BY <1>6, Zenon
<1>8. IsReply(c.stream, EndOf(c, c.taken), EndOf(c, c.taken + 1))
  <2>1. IsReply(c.stream, EndOf(c, j - 1), EndOf(c, j))
    BY Zenon DEF ServerSide
  <2>2. j - 1 = c.taken
    BY <1>1, <1>7
  <2> QED
    BY <1>7, <2>1, <2>2, Zenon
<1> QED
  BY <1>6, <1>8, Zenon DEF IsReply

(* A complete message in an aligned buffer is the next reply, whole. *)
LEMMA CompleteIsReply ==
  ASSUME NEW c, ServerSide(c), ClientSide(c), Aligned(c), IsComplete(Unread(c))
  PROVE  /\ c.taken + 1 \in 1..Len(c.ends)
         /\ EndOf(c, c.taken + 1) =
              EndOf(c, c.taken) + (HeadersEnd(Unread(c)) + ContentLength(Unread(c)))
<1> DEFINE ts == Unread(c)
           from == EndOf(c, c.taken)
<1>1. Len(ts) = Remaining(c.buf) /\ Remaining(c.buf) \in Nat
  BY UnreadShape, HTTPAssumption
<1>2. Remaining(c.buf) # 0
  BY <1>1, NothingIsComplete
<1>3. c.taken + 1 \in 1..Len(c.ends)
  BY <1>2, UnreadIsReply
<1>4. PICK n \in Lengths \cup {-1} :
        /\ EndOf(c, c.taken + 1) = EndOf(c, c.taken) + Len(Reply(n))
        /\ \A i \in 1..Len(Reply(n)) :
             EndOf(c, c.taken) + i <= Len(c.stream) =>
               c.stream[EndOf(c, c.taken) + i] = Reply(n)[i]
  BY <1>2, UnreadIsReply
<1>5. /\ from \in Nat
      /\ \A i \in 1..Remaining(c.buf) : ts[i] = c.stream[from + i]
  BY UnreadFollows
<1>6. from + Remaining(c.buf) <= Len(c.stream) /\ Len(c.stream) \in Nat
  BY SeqShape DEF Aligned, ClientSide, ServerSide
<1>7. Len(Reply(n)) \in Nat
  BY ReplyShape, SeqShape
<1> HIDE DEF ts, from
<1>8. ASSUME NEW i \in 1..Len(Reply(n)), i <= Remaining(c.buf)
      PROVE  ts[i] = Reply(n)[i]
  <2>1. i \in 1..Remaining(c.buf) /\ from + i <= Len(c.stream)
    BY <1>1, <1>5, <1>6, <1>7, <1>8
  <2>2. ts[i] = c.stream[from + i]
    BY <1>5, <2>1
  <2>3. c.stream[from + i] = Reply(n)[i]
    BY <1>4, <2>1 DEF from
  <2> QED
    BY <2>2, <2>3
<1>9. HeadersEnd(ts) + ContentLength(ts) = Len(Reply(n))
  BY <1>1, <1>8, ParseReply DEF ts
<1> QED
  BY <1>3, <1>4, <1>9 DEF ts

(* The server's side does not depend on what the client does with it. *)
LEMMA SameServer ==
  ASSUME NEW c, ServerSide(c), NEW x, x.stream = c.stream, x.ends = c.ends,
         x.link = c.link, x.reqs = c.reqs
  PROVE  ServerSide(x) /\ \A k : EndOf(x, k) = EndOf(c, k)
<1>1. \A k : EndOf(x, k) = EndOf(c, k)
  BY DEF EndOf
<1> QED
  BY <1>1, Zenon DEF ServerSide

(* What only touches the history keeps the connection as it was. *)
LEMMA SameConn ==
  ASSUME NEW c, ConnInv(c), NEW x, x.stream = c.stream, x.ends = c.ends,
         x.link = c.link, x.reqs = c.reqs, x.buf = c.buf, x.rcvd = c.rcvd,
         x.taken = c.taken, x.skipped \in Nat, x.torn \in BOOLEAN,
         x.framing = "intact" => c.framing = "intact"
  PROVE  ConnInv(x)
<1>1. ServerSide(x) /\ \A k : EndOf(x, k) = EndOf(c, k)
  BY SameServer DEF ConnInv
<1>2. ClientSide(x)
  BY Zenon DEF ConnInv, ClientSide
<1>3. Aligned(c) => Aligned(x)
  BY <1>1, Zenon DEF Aligned
<1> QED
  BY <1>1, <1>2, <1>3 DEF ConnInv

(* parseResponse takes a complete message from the buffer. *)
LEMMA TakeConn ==
  ASSUME NEW c, IsConn(c), ConnInv(c), IsComplete(Unread(c)), NEW x,
         x = [c EXCEPT !.buf = Advance(@, HeadersEnd(Unread(c)) + ContentLength(Unread(c))),
                       !.taken = @ + 1]
  PROVE  ConnInv(x)
<1> DEFINE length == HeadersEnd(Unread(c)) + ContentLength(Unread(c))
<1>0. x = [c EXCEPT !.buf = Advance(@, length), !.taken = @ + 1]
  OBVIOUS
<1>1. ServerSide(c) /\ ClientSide(c)
  BY DEF ConnInv
<1>2. /\ Unread(c) \in [1..Remaining(c.buf) -> Tokens]
      /\ Len(Unread(c)) = Remaining(c.buf) /\ Remaining(c.buf) \in 0..ReadCap
  BY <1>1, UnreadShape
<1>3. Remaining(c.buf) \in Nat /\ ReadCap \in Nat \ {0}
  BY <1>2, HTTPAssumption
<1>4. length \in 0..Remaining(c.buf)
  <2>1. /\ HeadersEnd(Unread(c)) \in 1..Remaining(c.buf) /\ ContentLength(Unread(c)) \in Nat
        /\ HeadersEnd(Unread(c)) + ContentLength(Unread(c)) <= Remaining(c.buf)
    BY <1>2, <1>3, CompleteFits, Zenon
  <2> QED
    BY <1>3, <2>1
<1> HIDE DEF length
<1>5. /\ x.stream = c.stream /\ x.ends = c.ends /\ x.link = c.link /\ x.reqs = c.reqs
      /\ x.rcvd = c.rcvd /\ x.skipped = c.skipped /\ x.torn = c.torn
      /\ x.framing = c.framing /\ x.taken = c.taken + 1 /\ x.buf = Advance(c.buf, length)
  BY <1>0, Zenon DEF IsConn, Fields
<1>6. ServerSide(x) /\ \A k : EndOf(x, k) = EndOf(c, k)
  BY <1>1, <1>5, SameServer, Zenon
<1>7. ClientSide(x)
  <2>1. c.buf \in Buffers(ReadCap) /\ c.taken \in Nat
    BY <1>1 DEF ClientSide
  <2>2. x.buf \in Buffers(ReadCap)
    BY <1>3, <1>4, <1>5, <2>1, BufferOps, Zenon
  <2>3. x.buf.data = c.buf.data
    BY <1>5 DEF Advance, Set
  <2>4. x.taken \in Nat
    BY <1>5, <2>1
  <2> QED
    BY <1>1, <1>5, <2>2, <2>3, <2>4, Zenon DEF ClientSide
<1>8. ASSUME c.framing = "intact" PROVE Aligned(x)
  <2> DEFINE from == EndOf(c, c.taken)
  <2>1. Aligned(c)
    BY <1>8 DEF ConnInv
  <2>2. c.taken + 1 \in 1..Len(c.ends) /\ EndOf(c, c.taken + 1) = from + length
    BY <1>1, <2>1, CompleteIsReply, Zenon DEF length
  <2>3. EndOf(x, x.taken) = from + length
    BY <1>5, <1>6, <2>2, Zenon
  <2>4. c.buf \in Buffers(ReadCap) /\ Holds(c.buf, c.buf.pos, c.buf.lim, from)
    BY <1>1, <2>1 DEF ClientSide, Aligned
  <2>5. from \in Nat /\ Len(c.ends) \in Nat
    BY <1>1, <2>1, UnreadFollows
  <2> HIDE DEF from
  <2>6. /\ Remaining(x.buf) = Remaining(c.buf) - length
        /\ Holds(x.buf, x.buf.pos, x.buf.lim, from + length)
    <3>1. LET y == Advance(c.buf, length) IN
          /\ Remaining(y) = Remaining(c.buf) - length
          /\ Holds(y, y.pos, y.lim, from + length)
      BY <1>3, <1>4, <2>4, <2>5, AdvanceKeepsUnread, Zenon
    <3>2. x.buf = Advance(c.buf, length)
      BY <1>5
    <3> QED
      BY <3>1, <3>2, Zenon
  <2>7. c.rcvd = from + Remaining(c.buf)
    BY <2>1, Zenon DEF Aligned, from
  <2>8. x.rcvd = EndOf(x, x.taken) + Remaining(x.buf)
    BY <1>3, <1>4, <1>5, <2>3, <2>5, <2>6, <2>7
  <2>9. x.taken <= Len(x.ends)
    BY <1>5, <2>2, <2>5
  <2> QED
    BY <2>3, <2>6, <2>8, <2>9 DEF Aligned
<1> QED
  BY <1>5, <1>6, <1>7, <1>8 DEF ConnInv

(* SocketClient.read, with what the socket may return. *)
LEMMA ReceiveConn ==
  ASSUME NEW c, IsConn(c), ConnInv(c), NEW interrupted \in BOOLEAN,
         NEW n \in SocketReads(c, Remaining(BeforeRead(c.buf)), interrupted)
  PROVE  LET x == Received(c, BeforeRead(c.buf), n) IN
         /\ ConnInv(x) /\ n \in Int
         /\ x.open = c.open /\ x.reqs = c.reqs /\ x.torn = c.torn /\ x.taken = c.taken
         /\ x.skipped = c.skipped /\ IsConn(x) /\ x.ends = c.ends
         /\ x.framing = "intact" => c.framing = "intact"
<1> DEFINE b == BeforeRead(c.buf)
           d == IF n > 0 THEN PutRun(b, c.rcvd, n) ELSE b
           x == Received(c, b, n)
<1>1. ServerSide(c) /\ ClientSide(c) /\ ReadCap \in Nat \ {0}
  BY HTTPAssumption DEF ConnInv
<1>2. c.buf \in Buffers(ReadCap) /\ c.rcvd \in 0..Len(c.stream) /\ Len(c.stream) \in Nat
  BY <1>1, SeqShape DEF ClientSide, ServerSide
<1>3. b \in Buffers(ReadCap)
  BY <1>1, <1>2, BeforeReadType
<1>4. b.cap = ReadCap /\ b.pos \in 0..ReadCap /\ b.lim \in 0..ReadCap /\ b.pos <= b.lim
  BY <1>1, <1>3, BufferFields
<1>5. /\ x.stream = c.stream /\ x.ends = c.ends /\ x.link = c.link /\ x.reqs = c.reqs
      /\ x.taken = c.taken /\ x.skipped = c.skipped /\ x.torn = c.torn
      /\ x.open = c.open /\ x.buf = AfterRead(d, n)
      /\ x.rcvd = c.rcvd + (IF n > 0 THEN n ELSE 0)
      /\ x.framing = (IF n < 0 \/ Full(c.buf) THEN "broken" ELSE c.framing)
      /\ IsConn(x)
  BY DEF Received, IsConn, Fields
<1>6. /\ n \in Int /\ n <= ReadCap
      /\ n > 0 => n \in 0..Remaining(b) /\ c.rcvd + n <= Len(c.stream)
  <2> HIDE DEF b
  <2>1. Remaining(b) \in 0..ReadCap
    BY <1>1, <1>4 DEF Remaining
  <2> DEFINE r == Remaining(b)
             m == Len(c.stream) - c.rcvd
  <2>2. m \in Nat
    BY <1>2
  <2>3. n = 0 \/ n = -1 \/ n \in 1..Min2(r, m)
    BY DEF SocketReads, b
  <2>4. ReadCap \in Nat /\ r \in 0..ReadCap
    BY <1>1, <2>1
  <2> HIDE DEF r, m
  <2>5. n \in Int /\ n <= ReadCap /\ (n > 0 => n \in 0..r /\ n <= m)
    BY <2>2, <2>3, <2>4 DEF Min2
  <2> QED
    BY <1>2, <2>5 DEF r, m
<1>7. d \in Buffers(ReadCap)
  <2> HIDE DEF b
  <2>1. CASE n > 0
    <3>1. d = PutRun(b, c.rcvd, n) /\ n \in 0..Remaining(b) /\ c.rcvd \in Nat
      BY <1>2, <1>6, <2>1
    <3> HIDE DEF d
    <3> QED
      BY <1>1, <1>3, <3>1, BufferOps, Zenon
  <2>2. CASE ~(n > 0)
    BY <1>3, <2>2
  <2> QED
    BY <2>1, <2>2
<1>8. ServerSide(x) /\ \A k : EndOf(x, k) = EndOf(c, k)
  BY <1>1, <1>5, SameServer
<1> HIDE DEF x
<1>9. ClientSide(x)
  <2>1. x.buf \in Buffers(ReadCap)
    <3> HIDE DEF d
    <3> QED
      BY <1>1, <1>5, <1>6, <1>7, AfterReadType
  <2> DEFINE m == c.rcvd + (IF n > 0 THEN n ELSE 0)
  <2>2. m \in 0..Len(c.stream) /\ m >= c.rcvd
    BY <1>2, <1>6
  <2>3. \A i \in 0..ReadCap-1 : c.buf.data[i] <= m
    <3>1. ASSUME NEW i \in 0..ReadCap-1 PROVE c.buf.data[i] <= m
      <4>1. c.buf.data[i] <= c.rcvd
        BY <1>1 DEF ClientSide
      <4>2. c.buf.data[i] \in Nat
        BY <1>1, <1>2, BufferFields
      <4> HIDE DEF m
      <4> QED
        BY <1>2, <2>2, <4>1, <4>2
    <3> QED
      BY <3>1
  <2>4. m \in Nat
    BY <1>2, <2>2
  <2>5. \A i \in 0..ReadCap-1 : b.data[i] <= m
    <3> HIDE DEF m
    <3> QED
      BY <1>1, <1>2, <2>3, <2>4, CellsBounded, Zenon
  <2>6. \A i \in 0..ReadCap-1 : d.data[i] <= m
    <3> HIDE DEF b
    <3>1. CASE n > 0
      <4>1. d = PutRun(b, c.rcvd, n) /\ n \in 0..Remaining(b) /\ c.rcvd \in Nat
            /\ c.rcvd + n <= m
        BY <1>2, <1>6, <3>1
      <4> HIDE DEF d, m
      <4> QED
        BY <1>1, <1>3, <2>4, <2>5, <4>1, CellsBounded, Zenon
    <3>2. CASE ~(n > 0)
      <4>1. d = b
        BY <3>2
      <4> HIDE DEF d, m
      <4> QED
        BY <2>5, <4>1
    <3> QED
      BY <3>1, <3>2
  <2>7. \A i \in 0..ReadCap-1 : x.buf.data[i] <= m
    <3> HIDE DEF d, m
    <3> QED
      BY <1>1, <1>5, <1>6, <1>7, <2>4, <2>6, CellsBounded, Zenon
  <2>8. c.taken \in Nat /\ c.skipped \in Nat /\ c.torn \in BOOLEAN
    BY <1>1 DEF ClientSide
  <2>9. x.rcvd = m
    BY <1>5
  <2> HIDE DEF m
  <2> QED
    BY <1>5, <2>1, <2>2, <2>7, <2>8, <2>9, Zenon DEF ClientSide
<1>10. ASSUME x.framing = "intact"
       PROVE  n >= 0 /\ ~Full(c.buf) /\ c.framing = "intact"
  BY <1>5, <1>6, <1>10
<1>11. ASSUME x.framing = "intact" PROVE Aligned(x)
  <2> DEFINE from == EndOf(c, c.taken)
             r == Remaining(c.buf)
  <2>1. n >= 0 /\ ~Full(c.buf) /\ c.framing = "intact"
    BY <1>10, <1>11
  <2>2. Aligned(c)
    BY <2>1 DEF ConnInv
  <2>3. from \in Nat /\ r \in 0..ReadCap
    BY <1>1, <2>2, UnreadFollows, UnreadShape
  <2>4. Holds(c.buf, c.buf.pos, c.buf.lim, from) /\ c.rcvd = from + r
    BY <2>2, Zenon DEF Aligned
  <2> HIDE DEF from
  <2>5. b.pos = r /\ b.lim = ReadCap /\ Holds(b, 0, r, from)
    BY <1>1, <1>2, <2>1, <2>3, <2>4, BeforeReadKeepsUnread, Zenon
  <2> HIDE DEF r, b
  <2>6. CASE n > 0
    <3>1. d = PutRun(b, from + b.pos, n)
      BY <2>4, <2>5, <2>6
    <3>2. n \in 0..Remaining(b) /\ Holds(b, 0, b.pos, from)
      BY <1>6, <2>5, <2>6
    <3>3. d.pos = b.pos + n /\ Holds(d, 0, b.pos + n, from)
      <4> HIDE DEF d
      <4>1. ReadCap \in Nat \ {0} /\ from \in Nat
        BY <1>1, <2>3
      <4>2. LET e == PutRun(b, from + b.pos, n)
            IN  e.pos = b.pos + n /\ Holds(e, 0, b.pos + n, from)
        BY <1>3, <3>2, <4>1, PutRunExtends
      <4> QED
        BY <3>1, <4>2
    <3> HIDE DEF d
    <3>4. n \in Nat /\ d.pos # 0 /\ d.pos = r + n
      BY <1>6, <2>3, <2>5, <2>6, <3>3
    <3>5. /\ x.buf.data = d.data /\ x.buf.pos = 0 /\ x.buf.lim = d.pos
          /\ x.buf.cap = ReadCap
      <4>1. /\ AfterRead(d, n).cap = ReadCap /\ AfterRead(d, n).data = d.data
            /\ AfterRead(d, n).pos = 0 /\ AfterRead(d, n).lim = d.pos
        BY <1>1, <1>7, <3>4, AfterReadFlips
      <4> QED
        BY <1>5, <4>1
    <3>6. d.cap = ReadCap
      BY <1>1, <1>7, BufferFields
    <3>7. Holds(x.buf, x.buf.pos, x.buf.lim, from)
      BY <3>3, <3>5, <3>6 DEF Holds
    <3>8. Remaining(x.buf) = r + n
      BY <1>1, <2>3, <3>4, <3>5 DEF Remaining
    <3>9. x.rcvd = from + Remaining(x.buf)
      BY <1>1, <1>5, <1>6, <2>3, <2>4, <2>6, <3>8
    <3> QED
      BY <1>5, <1>8, <2>2, <3>7, <3>9, Zenon DEF Aligned, from
  <2>7. CASE n = 0
    <3>1. d = b
      BY <2>7
    <3> HIDE DEF d
    <3>2. 0 \in Nat /\ (d.pos = 0 => n = 0) /\ n \in Nat
      BY <2>7
    <3>3. /\ x.buf.data = b.data /\ x.buf.pos = 0 /\ x.buf.lim = b.pos
          /\ x.buf.cap = ReadCap
      <4>1. /\ AfterRead(d, n).cap = ReadCap /\ AfterRead(d, n).data = d.data
            /\ AfterRead(d, n).pos = 0 /\ AfterRead(d, n).lim = d.pos
        BY <1>1, <1>7, <3>2, AfterReadFlips
      <4> QED
        BY <1>5, <3>1, <4>1
    <3>4. Holds(x.buf, x.buf.pos, x.buf.lim, from)
      BY <1>4, <2>5, <3>3 DEF Holds
    <3>5. Remaining(x.buf) = r
      BY <1>1, <2>3, <2>5, <3>3 DEF Remaining
    <3>6. x.rcvd = from + Remaining(x.buf)
      BY <1>1, <1>5, <2>3, <2>4, <2>7, <3>5
    <3> QED
      BY <1>5, <1>8, <2>2, <3>4, <3>6, Zenon DEF Aligned, from
  <2> QED
    BY <1>6, <2>1, <2>6, <2>7
<1> QED
  BY <1>5, <1>6, <1>8, <1>9, <1>10, <1>11 DEF ConnInv, x

(* A new connection, and one whose client object is gone. *)
LEMMA FreshConn ==
  ASSUME NEW x, IsConn(x), x.stream = <<>>, x.ends = <<>>, x.rcvd = 0,
         x.buf = EmptyRead(Allocate(ReadCap)), x.taken = 0, x.skipped = 0, x.torn = FALSE
  PROVE  ConnInv(x)
<1>1. ReadCap \in Nat \ {0}
  BY HTTPAssumption
<1>2. /\ x.stream \in Seq(Tokens) /\ x.ends \in Seq(Nat) /\ Len(x.stream) = 0
      /\ Len(x.ends) = 0
  OBVIOUS
<1>3. EndOf(x, 0) = 0
  BY DEF EndOf
<1>4. Len(x.reqs) \in Nat
  BY SeqShape DEF IsConn
<1>5. \A j \in 1..Len(x.ends) : FALSE
  BY <1>2
<1>6. ServerSide(x)
  BY <1>2, <1>3, <1>4, <1>5 DEF ServerSide
<1>7. x.buf \in Buffers(ReadCap)
  BY <1>1, AllocateType, BufferOps
<1>8. /\ x.buf.pos = 0 /\ x.buf.lim = 0 /\ \A i \in 0..ReadCap-1 : x.buf.data[i] = 0
  BY <1>1 DEF EmptyRead, Allocate, Clear, SetLimit, Set
<1>9. ClientSide(x)
  <2>1. x.rcvd \in 0..Len(x.stream)
    BY <1>2
  <2>2. \A i \in 0..ReadCap-1 : x.buf.data[i] <= x.rcvd
    BY <1>8
  <2>3. x.taken \in Nat /\ x.skipped \in Nat
    OBVIOUS
  <2>4. x.torn \in BOOLEAN
    BY Zenon
  <2> QED
    BY <1>7, <2>1, <2>2, <2>3, <2>4 DEF ClientSide
<1>10. Aligned(x)
  <2>1. Remaining(x.buf) = 0
    BY <1>8 DEF Remaining
  <2>2. x.taken <= Len(x.ends) /\ EndOf(x, x.taken) = 0
    BY <1>2, <1>3
  <2>3. \A i \in 0..x.buf.cap-1 : ~(x.buf.pos <= i /\ i < x.buf.lim)
    BY <1>1, <1>7, <1>8, BufferFields
  <2>4. Holds(x.buf, x.buf.pos, x.buf.lim, 0)
    BY <2>3, Zenon DEF Holds
  <2> QED
    BY <2>1, <2>2, <2>4 DEF Aligned
<1> QED
  BY <1>6, <1>9, <1>10 DEF ConnInv

(* The server gets a request. *)
LEMMA WriteConn ==
  ASSUME NEW c, IsConn(c), ConnInv(c), NEW id \in Nat, NEW x,
         x = [c EXCEPT !.reqs = Append(@, id)]
  PROVE  ConnInv(x)
<1>1. /\ x.stream = c.stream /\ x.ends = c.ends /\ x.link = c.link
      /\ x.buf = c.buf /\ x.rcvd = c.rcvd /\ x.taken = c.taken /\ x.skipped = c.skipped
      /\ x.torn = c.torn /\ x.framing = c.framing /\ x.reqs = Append(c.reqs, id)
  BY DEF IsConn, Fields
<1>2. c.reqs \in Seq(Nat) /\ Len(c.reqs) \in Nat /\ Len(x.reqs) = Len(c.reqs) + 1
  BY <1>1, AppendShape, SeqShape DEF IsConn
<1>3. \A k : EndOf(x, k) = EndOf(c, k)
  BY <1>1 DEF EndOf
<1>4. ServerSide(x)
  <2>1. ServerSide(c)
    BY DEF ConnInv
  <2>2. Len(c.ends) \in Nat /\ Len(c.ends) <= Len(c.reqs)
    BY <2>1, SeqShape DEF ServerSide
  <2>3. Len(x.ends) <= Len(x.reqs)
    BY <1>1, <1>2, <2>2
  <2> QED
    BY <1>1, <1>3, <2>1, <2>3, Zenon DEF ServerSide
<1>5. ClientSide(x)
  BY <1>1, Zenon DEF ConnInv, ClientSide
<1>6. Aligned(c) => Aligned(x)
  BY <1>1, <1>3, Zenon DEF Aligned
<1> QED
  BY <1>1, <1>4, <1>5, <1>6 DEF ConnInv

(* The connection c after the server has sent a reply with length n. *)
Served(c, n) ==
  LET stream == c.stream \o Reply(n)
  IN  [c EXCEPT !.stream = stream, !.ends = Append(@, Len(stream))]

LEMMA ServeConn ==
  ASSUME NEW c, IsConn(c), ConnInv(c), c.link = "up", Len(c.ends) < Len(c.reqs),
         NEW n \in Lengths \cup {-1}
  PROVE  LET x == Served(c, n) IN
         ConnInv(x) /\ \A k \in 0..Len(c.ends) : EndOf(x, k) = EndOf(c, k)
<1> DEFINE x == Served(c, n)
           stream == c.stream \o Reply(n)
           m == Len(c.stream)
           e == Len(c.ends)
           r == Len(Reply(n))
<1>1. /\ x.stream = stream /\ x.ends = Append(c.ends, Len(stream)) /\ x.link = c.link
      /\ x.buf = c.buf /\ x.rcvd = c.rcvd /\ x.taken = c.taken /\ x.skipped = c.skipped
      /\ x.torn = c.torn /\ x.framing = c.framing /\ x.reqs = c.reqs
  BY DEF IsConn, Fields, Served
<1> HIDE DEF x
<1>2. ServerSide(c) /\ ClientSide(c)
  BY DEF ConnInv
<1>3. /\ c.stream \in Seq(Tokens) /\ c.ends \in Seq(Nat) /\ m = EndOf(c, e)
      /\ m \in Nat /\ e \in Nat
  BY <1>2, SeqShape DEF ServerSide
<1>4. Reply(n) \in Seq(Tokens) /\ r \in Nat
  BY ReplyShape, SeqShape
<1>5. /\ stream \in Seq(Tokens) /\ Len(stream) = m + r
      /\ \A i \in 1..m + r : stream[i] = IF i <= m THEN c.stream[i] ELSE Reply(n)[i - m]
  BY <1>3, <1>4, ConcatShape, Zenon
<1> HIDE DEF stream
<1>6. Len(stream) \in Nat
  BY <1>3, <1>4, <1>5
<1>7. /\ x.ends \in Seq(Nat) /\ Len(x.ends) = e + 1 /\ x.ends[e + 1] = Len(stream)
      /\ \A j \in 1..e : x.ends[j] = c.ends[j]
  <2> DEFINE y == Append(c.ends, Len(stream))
  <2>1. /\ y \in Seq(Nat) /\ Len(y) = Len(c.ends) + 1 /\ y[Len(c.ends) + 1] = Len(stream)
        /\ \A j \in 1..Len(c.ends) : y[j] = c.ends[j]
    BY <1>3, <1>6, AppendShape
  <2>2. x.ends = y
    BY <1>1
  <2> HIDE DEF y
  <2> QED
    BY <2>1, <2>2
<1>8. \A j \in 1..e : c.ends[j] <= m /\ c.ends[j] \in Nat
  BY <1>2, <1>3, SeqShape DEF ServerSide
<1> HIDE DEF m, e, r
<1>9. ASSUME NEW k \in 0..e PROVE EndOf(x, k) = EndOf(c, k)
  <2>1. CASE k = 0
    BY <2>1 DEF EndOf
  <2>2. CASE k \in 1..e
    BY <2>2, <1>7 DEF EndOf
  <2> QED
    BY <1>3, <2>1, <2>2
<1>10. EndOf(x, e + 1) = m + r
  <2>1. e + 1 # 0
    BY <1>3
  <2> QED
    BY <1>5, <1>7, <2>1 DEF EndOf
<1>11. ASSUME NEW k \in 0..e PROVE EndOf(c, k) \in Nat /\ EndOf(c, k) <= m
  <2>1. CASE k = 0
    BY <1>3, <2>1 DEF EndOf
  <2>2. CASE k \in 1..e
    <3>1. EndOf(c, k) = c.ends[k]
      BY <1>3, <2>2 DEF EndOf
    <3> QED
      BY <1>8, <2>2, <3>1
  <2> QED
    BY <1>3, <2>1, <2>2
<1>12. ASSUME NEW j \in 1..e + 1
       PROVE  IsReply(stream, EndOf(x, j - 1), EndOf(x, j)) /\ x.ends[j] <= Len(stream)
  <2>1. CASE j = e + 1
    <3>1. EndOf(x, j - 1) = m /\ EndOf(x, j) = m + r
      <4>1. j - 1 = e /\ e \in 0..e
        BY <1>3, <2>1
      <4>2. EndOf(x, e) = m
        BY <1>3, <1>9, <4>1 DEF e, m
      <4> QED
        BY <1>10, <2>1, <4>1, <4>2
    <3>2. ASSUME NEW i \in 1..r PROVE stream[m + i] = Reply(n)[i]
      <4>1. m + i \in 1..m + r /\ ~(m + i <= m) /\ m + i - m = i
        BY <1>3, <1>4
      <4>2. PICK k \in 1..m + r : k = m + i
        BY <4>1
      <4>3. stream[k] = IF k <= m THEN c.stream[k] ELSE Reply(n)[k - m]
        BY <1>5
      <4>4. ~(k <= m) /\ k - m = i
        BY <1>3, <1>4, <4>2
      <4>5. stream[k] = Reply(n)[k - m]
        BY <4>3, <4>4, Zenon
      <4> QED
        BY <4>2, <4>4, <4>5, Zenon
    <3>3. IsReply(stream, m, m + r)
      BY <3>2, Zenon DEF IsReply, r
    <3> QED
      BY <1>5, <1>6, <1>7, <2>1, <3>1, <3>3
  <2>2. CASE j \in 1..e
    <3>1. j - 1 \in 0..e /\ j \in 0..e
      BY <1>3, <2>2
    <3>2. IsReply(c.stream, EndOf(c, j - 1), EndOf(c, j))
      BY <1>2, <2>2, Zenon DEF ServerSide, e
    <3>3. EndOf(x, j - 1) = EndOf(c, j - 1) /\ EndOf(x, j) = EndOf(c, j)
      BY <1>9, <3>1
    <3> DEFINE from == EndOf(c, j - 1)
               to == EndOf(c, j)
    <3>4. from \in Nat /\ to \in Nat /\ to <= m
      BY <1>11, <3>1
    <3>5. PICK p \in Lengths \cup {-1} :
            /\ to = from + Len(Reply(p))
            /\ \A i \in 1..Len(Reply(p)) :
                 from + i <= Len(c.stream) => c.stream[from + i] = Reply(p)[i]
      BY <3>2, Zenon DEF IsReply
    <3> HIDE DEF from, to
    <3>6. ASSUME NEW i \in 1..Len(Reply(p)) PROVE stream[from + i] = Reply(p)[i]
      <4>1. Len(Reply(p)) \in Nat
        BY ReplyShape, SeqShape
      <4>2. from + i \in 1..m + r /\ from + i <= m
        BY <1>3, <1>4, <3>4, <3>5, <4>1
      <4>3. stream[from + i] = c.stream[from + i]
        BY <1>5, <4>2
      <4>4. c.stream[from + i] = Reply(p)[i]
        BY <3>5, <4>2 DEF m
      <4> QED
        BY <4>3, <4>4
    <3>7. IsReply(stream, from, to)
      BY <3>5, <3>6, Zenon DEF IsReply
    <3>8. x.ends[j] <= Len(stream)
      <4>1. x.ends[j] = c.ends[j] /\ c.ends[j] <= m /\ c.ends[j] \in Nat
        BY <1>7, <1>8, <2>2
      <4> QED
        BY <1>3, <1>4, <1>5, <4>1
    <3> QED
      BY <3>3, <3>7, <3>8, Zenon DEF from, to
  <2> QED
    BY <1>3, <2>1, <2>2
<1>13. ServerSide(x)
  <2>1. Len(x.ends) <= Len(x.reqs)
    <3>1. Len(c.reqs) \in Nat /\ e < Len(c.reqs)
      BY SeqShape DEF IsConn, e
    <3> QED
      BY <1>1, <1>3, <1>7, <3>1
  <2>2. Len(x.stream) = EndOf(x, Len(x.ends)) /\ Len(x.stream) <= EndOf(x, Len(x.ends))
    BY <1>1, <1>5, <1>6, <1>7, <1>10
  <2>3. \A j \in 1..Len(x.ends) : /\ x.ends[j] <= Len(x.stream)
                                  /\ IsReply(x.stream, EndOf(x, j - 1), EndOf(x, j))
    BY <1>1, <1>7, <1>12, Zenon
  <2> QED
    BY <1>1, <1>5, <1>7, <2>1, <2>2, <2>3, Zenon DEF ServerSide
<1>14. ClientSide(x)
  <2>1. c.rcvd \in 0..m
    BY <1>2 DEF ClientSide, m
  <2>2. x.rcvd \in 0..Len(x.stream)
    BY <1>1, <1>3, <1>4, <1>5, <2>1
  <2> QED
    BY <1>1, <1>2, <2>2, Zenon DEF ClientSide
<1>15. ASSUME Aligned(c) PROVE Aligned(x)
  <2>1. c.taken \in 0..e
    BY <1>2, <1>15, UnreadFollows DEF e
  <2>2. EndOf(x, x.taken) = EndOf(c, c.taken)
    BY <1>1, <1>9, <2>1
  <2>3. x.taken <= Len(x.ends)
    BY <1>1, <1>3, <1>7, <2>1
  <2> QED
    BY <1>1, <1>15, <2>2, <2>3, Zenon DEF Aligned
<1> QED
  BY <1>1, <1>9, <1>13, <1>14, <1>15 DEF ConnInv, e, x

(* The server ends the connection and cuts off what was not received. *)
LEMMA PeerCloseConn ==
  ASSUME NEW c, IsConn(c), ConnInv(c), NEW to \in c.rcvd..Len(c.stream), NEW x,
         x = [c EXCEPT !.stream = SubSeq(@, 1, to), !.link = "eof"]
  PROVE  ConnInv(x) /\ \A k : EndOf(x, k) = EndOf(c, k)
<1>1. /\ x.stream = SubSeq(c.stream, 1, to) /\ x.ends = c.ends /\ x.link = "eof"
      /\ x.buf = c.buf /\ x.rcvd = c.rcvd /\ x.taken = c.taken /\ x.skipped = c.skipped
      /\ x.torn = c.torn /\ x.framing = c.framing /\ x.reqs = c.reqs
  BY DEF IsConn, Fields
<1>2. ServerSide(c) /\ ClientSide(c)
  BY DEF ConnInv
<1>3. /\ c.stream \in Seq(Tokens) /\ c.ends \in Seq(Nat) /\ Len(c.stream) \in Nat
      /\ c.rcvd \in Nat /\ Len(c.ends) \in Nat
  BY <1>2, SeqShape DEF ServerSide, ClientSide
<1>4. to \in Nat /\ to <= Len(c.stream) /\ c.rcvd <= to
  BY <1>3
<1>5. \A i \in 1..to : c.stream[i] \in Tokens
  BY <1>3, <1>4, SeqShape
<1>6. x.stream \in Seq(Tokens) /\ Len(x.stream) = to /\ \A i \in 1..to : x.stream[i] = c.stream[i]
  <2> DEFINE s == SubSeq(c.stream, 1, to)
  <2>1. /\ s \in Seq(Tokens) /\ Len(s) = IF 1 <= to THEN to - 1 + 1 ELSE 0
        /\ \A i \in 1..to - 1 + 1 : s[i] = c.stream[1 + i - 1]
    BY <1>4, <1>5, SubSeqShape
  <2> HIDE DEF s
  <2>2. Len(s) = to /\ to - 1 + 1 = to
    BY <1>4, <2>1
  <2>3. ASSUME NEW i \in 1..to PROVE s[i] = c.stream[i]
    <3>1. 1 + i - 1 = i
      OBVIOUS
    <3> QED
      BY <2>1, <2>2, <3>1
  <2> QED
    BY <1>1, <2>1, <2>2, <2>3 DEF s
<1>7. \A k : EndOf(x, k) = EndOf(c, k)
  BY <1>1 DEF EndOf
<1>8. ASSUME NEW j \in 1..Len(x.ends)
      PROVE  IsReply(x.stream, EndOf(x, j - 1), EndOf(x, j))
  <2> DEFINE from == EndOf(c, j - 1)
             end == EndOf(c, j)
  <2>1. IsReply(c.stream, from, end)
    BY <1>1, <1>2, Zenon DEF ServerSide
  <2>2. PICK p \in Lengths \cup {-1} :
          /\ end = from + Len(Reply(p))
          /\ \A i \in 1..Len(Reply(p)) :
               from + i <= Len(c.stream) => c.stream[from + i] = Reply(p)[i]
    BY <2>1, Zenon DEF IsReply
  <2>3. from \in Nat
    <3>1. j - 1 \in 0..Len(c.ends)
      BY <1>1, <1>3
    <3> QED
      BY <1>3, <3>1, EndOfType
  <2> HIDE DEF from, end
  <2>4. ASSUME NEW i \in 1..Len(Reply(p)), from + i <= Len(x.stream)
        PROVE  x.stream[from + i] = Reply(p)[i]
    <3>1. Len(Reply(p)) \in Nat
      BY ReplyShape, SeqShape
    <3>2. from + i \in 1..to /\ from + i <= Len(c.stream)
      <4>1. Len(x.stream) = to /\ i \in Nat \ {0}
        BY <1>6, <3>1
      <4>2. from + i <= to
        BY <2>4, <4>1, Zenon
      <4>3. Len(c.stream) \in Nat
        BY <1>3
      <4> HIDE DEF from
      <4> QED
        BY <1>4, <2>3, <4>1, <4>2, <4>3
    <3>3. x.stream[from + i] = c.stream[from + i]
      BY <1>6, <3>2
    <3> QED
      BY <2>2, <3>2, <3>3
  <2>5. IsReply(x.stream, from, end)
    BY <2>2, <2>4, Zenon DEF IsReply
  <2> QED
    BY <1>7, <2>5, Zenon DEF from, end
<1>9. ServerSide(x)
  <2>1. Len(x.stream) <= EndOf(x, Len(x.ends))
    <3>1. Len(c.stream) <= EndOf(c, Len(c.ends))
      BY <1>2 DEF ServerSide
    <3>2. EndOf(c, Len(c.ends)) \in Nat
      BY <1>3, EndOfType
    <3>3. EndOf(x, Len(x.ends)) = EndOf(c, Len(c.ends))
      BY <1>1, <1>7, Zenon
    <3> QED
      BY <1>3, <1>4, <1>6, <3>1, <3>2, <3>3
  <2>2. Len(x.ends) <= Len(x.reqs)
    BY <1>1, <1>2 DEF ServerSide
  <2>3. x.link # "up"
    BY <1>1
  <2> QED
    BY <1>1, <1>3, <1>6, <1>8, <2>1, <2>2, <2>3, Zenon DEF ServerSide
<1>10. ClientSide(x)
  <2>1. x.rcvd \in 0..Len(x.stream)
    BY <1>1, <1>3, <1>4, <1>6
  <2> QED
    BY <1>1, <1>2, <2>1, Zenon DEF ClientSide
<1>11. Aligned(c) => Aligned(x)
  BY <1>1, <1>7, Zenon DEF Aligned
<1> QED
  BY <1>1, <1>7, <1>9, <1>10, <1>11 DEF ConnInv
-----------------------------------------------------------------------------
(* The steps of the client and of the servers. *)
LEMMA ConnsShape ==
  ASSUME HTTPInv
  PROVE  \E n \in Nat : /\ IsSeq(conns, n) /\ DOMAIN conns = 1..n /\ Len(conns) = n
                        /\ \A k \in 1..n : IsConn(conns[k])
<1>1. PICK n \in Nat : IsSeq(conns, n)
  BY DEF HTTPInv, Shape
<1>2. DOMAIN conns = 1..n /\ Len(conns) = n
  BY <1>1, AppendToAny
<1> QED
  BY <1>1, <1>2 DEF HTTPInv, Shape

(* The parts of a connection that the accounts are about. *)
SameBooks(x, c) ==
  /\ x.open = c.open /\ x.reqs = c.reqs /\ x.torn = c.torn /\ x.framing = c.framing
  /\ x.taken = c.taken /\ x.skipped = c.skipped

LEMMA AccountedAsBefore ==
  ASSUME NEW k, Accounted(k), Waiting(k)' = Waiting(k), SameBooks(conns'[k], conns[k])
  PROVE  Accounted(k)'
<1>1. /\ conns'[k].open = conns[k].open /\ conns'[k].reqs = conns[k].reqs
      /\ conns'[k].torn = conns[k].torn /\ conns'[k].framing = conns[k].framing
      /\ conns'[k].taken = conns[k].taken /\ conns'[k].skipped = conns[k].skipped
  BY DEF SameBooks
<1> QED
  BY <1>1, Zenon DEF Accounted

LEMMA NotWaiting ==
  ASSUME NEW k, pc # "read" PROVE Waiting(k) = 0
  BY DEF Waiting

LEMMA NotWaitingNext ==
  ASSUME NEW k, pc' # "read" PROVE Waiting(k)' = 0
  BY DEF Waiting

LEMMA NoResponseInv ==
  ASSUME result'.kind # "response" PROVE ResultInv'
  BY Zenon DEF ResultInv, ReplyInTurn, BodyIsReply

LEMMA NoResultKind ==
  /\ NoResult.kind # "response"
  /\ \A kind : Result(kind).kind = kind
  BY DEF NoResult, Result

(* A host gets a new connection, or none, in place of the one it had. *)
LEMMA ConnectStream ==
  ASSUME HTTPInv, StreamInv, pc # "read", NEW h \in Hosts, NEW cs, NEW n \in Nat,
         IsSeq(conns, n), IsSeq(cs, n),
         \A k \in 1..n : ConnInv(cs[k]) /\ (cs[k] = conns[k] \/ cs[k].open = FALSE),
         NEW then \in {"write", "retry"}, ConnectTo(h, cs, then),
         call'.host = h, body' = body
  PROVE  StreamInv'
<1>1. /\ Len(conns) = n /\ DOMAIN conns = 1..n /\ DOMAIN cs = 1..n
      /\ IsSeq(Append(cs, NewConn), n + 1) /\ DOMAIN Append(cs, NewConn) = 1..n+1
      /\ Append(cs, NewConn)[n + 1] = NewConn
      /\ \A i \in 1..n : Append(cs, NewConn)[i] = cs[i]
  BY AppendToAny
<1>2. /\ IsConn(NewConn) /\ NewConn.open = TRUE /\ NewConn.reqs = <<>>
      /\ NewConn.stream = <<>> /\ NewConn.ends = <<>> /\ NewConn.rcvd = 0
      /\ NewConn.buf = EmptyRead(Allocate(ReadCap)) /\ NewConn.taken = 0
      /\ NewConn.skipped = 0 /\ NewConn.torn = FALSE
  BY DEF IsConn, NewConn, Fields
<1>3. ConnInv(NewConn)
  BY <1>2, FreshConn, Zenon
<1>4. pc' # "read" /\ result'.kind # "response"
  BY NoResultKind DEF ConnectTo, Return
<1>5. ResultInv'
  BY <1>4, NoResponseInv
<1>6. BodyShape'
  BY DEF StreamInv, BodyShape
<1>7. \A k : Waiting(k)' = Waiting(k) /\ Waiting(k)' = 0
  BY <1>4, NotWaiting, NotWaitingNext
<1>8. ASSUME NEW k \in 1..n, conns'[k] = cs[k] PROVE ConnInv(conns'[k]) /\ Accounted(k)'
  <2>1. ConnInv(conns'[k])
    BY <1>8
  <2>2. CASE cs[k] = conns[k]
    <3>1. Accounted(k)
      BY <1>1 DEF StreamInv
    <3>2. SameBooks(conns'[k], conns[k])
      BY <1>8, <2>2 DEF SameBooks
    <3>3. Accounted(k)'
      BY <1>7, <3>1, <3>2, AccountedAsBefore
    <3> QED
      BY <2>1, <3>3
  <2>3. CASE cs[k].open = FALSE
    BY <1>8, <2>1, <2>3 DEF Accounted
  <2> QED
    BY <2>2, <2>3, Zenon
<1>9. CASE /\ conns' = Append(cs, NewConn) /\ pool' = [pool EXCEPT ![h] = Len(conns) + 1]
           /\ pc' = then
  <2>1. /\ DOMAIN conns' = 1..n+1 /\ conns'[n + 1] = NewConn
        /\ \A k \in 1..n : conns'[k] = cs[k]
    BY <1>1, <1>9
  <2>2. Conn' = n + 1
    BY <1>1, <1>9 DEF HTTPInv, Shape, Conn
  <2>3. CallInv'
    BY <1>2, <1>4, <2>1, <2>2 DEF CallInv
  <2>4. Accounted(n + 1)'
    <3>1. Len(<<>>) = 0
      OBVIOUS
    <3>2. 0 + 0 + 0 = 0
      OBVIOUS
    <3> QED
      BY <1>2, <1>7, <2>1, <3>1, <3>2, Zenon DEF Accounted
  <2>5. \A k \in 1..n+1 : ConnInv(conns'[k]) /\ Accounted(k)'
    <3>1. ASSUME NEW k \in 1..n+1 PROVE ConnInv(conns'[k]) /\ Accounted(k)'
      <4>1. k \in 1..n \/ k = n + 1
        OBVIOUS
      <4> QED
        BY <1>3, <1>8, <2>1, <2>4, <4>1, Zenon
    <3> QED
      BY <3>1
  <2> QED
    BY <1>5, <1>6, <2>1, <2>3, <2>5 DEF StreamInv
<1>10. CASE conns' = cs /\ pc' = "idle"
  <2>1. CallInv'
    BY <1>10 DEF CallInv
  <2>2. \A k \in 1..n : ConnInv(conns'[k]) /\ Accounted(k)'
    BY <1>8, <1>10
  <2> QED
    BY <1>1, <1>5, <1>6, <1>10, <2>1, <2>2 DEF StreamInv
<1> QED
  BY <1>9, <1>10 DEF ConnectTo, Return

LEMMA RequestStream ==
  ASSUME HTTPInv, StreamInv, NEW h \in Hosts, Request(h)
  PROVE  StreamInv'
<1>1. PICK n \in Nat : IsSeq(conns, n) /\ DOMAIN conns = 1..n
  BY ConnsShape
<1>2. pc = "idle" /\ call'.host = h /\ body' = body
  BY DEF Request
<1>3. CASE pc' = "write" /\ result' = NoResult /\ UNCHANGED <<pool, conns>>
  <2>1. ResultInv'
    BY <1>3, NoResponseInv, NoResultKind
  <2>2. \A k : Waiting(k)' = Waiting(k)
    BY <1>2, <1>3, NotWaiting, NotWaitingNext
  <2>3. ASSUME NEW k \in 1..n PROVE ConnInv(conns'[k]) /\ Accounted(k)'
    <3>1. ConnInv(conns[k]) /\ Accounted(k)
      BY <1>1 DEF StreamInv
    <3>2. SameBooks(conns'[k], conns[k])
      BY <1>3 DEF SameBooks
    <3> QED
      BY <1>3, <2>2, <3>1, <3>2, AccountedAsBefore
  <2>4. CallInv' /\ BodyShape'
    BY <1>2, <1>3 DEF StreamInv, CallInv, BodyShape
  <2> QED
    BY <1>1, <1>3, <2>1, <2>3, <2>4 DEF StreamInv
<1>4. CASE ConnectTo(h, conns, "write")
  <2>1. \A k \in 1..n : ConnInv(conns[k]) /\ (conns[k] = conns[k] \/ conns[k].open = FALSE)
    BY <1>1 DEF StreamInv
  <2> QED
    BY <1>1, <1>2, <1>4, <2>1, ConnectStream, Zenon
<1> QED
  BY <1>3, <1>4 DEF Request

LEMMA ClosedConn ==
  ASSUME NEW c, IsConn(c)
  PROVE  ConnInv(Closed(c)) /\ Closed(c).open = FALSE
<1>1. /\ IsConn(Closed(c)) /\ Closed(c).open = FALSE
      /\ Closed(c).stream = <<>> /\ Closed(c).ends = <<>> /\ Closed(c).rcvd = 0
      /\ Closed(c).buf = EmptyRead(Allocate(ReadCap)) /\ Closed(c).taken = 0
      /\ Closed(c).skipped = 0 /\ Closed(c).torn = FALSE
  BY DEF IsConn, Closed, NewConn, Fields
<1> QED
  BY <1>1, FreshConn, Zenon

LEMMA RecreateStream ==
  ASSUME HTTPInv, StreamInv, RecreateConnection
  PROVE  StreamInv'
<1> DEFINE cs == [conns EXCEPT ![Conn] = Closed(@)]
<1>1. PICK n \in Nat : IsSeq(conns, n) /\ DOMAIN conns = 1..n
                       /\ \A k \in 1..n : IsConn(conns[k])
  BY ConnsShape
<1>2. PICK h \in Hosts : h = call.host
  BY DEF HTTPInv, Shape
<1>3. pc # "read" /\ call'.host = h /\ ConnectTo(h, cs, "retry") /\ body' = body
  BY <1>2 DEF RecreateConnection
<1>4. IsSeq(cs, n)
  BY <1>1 DEF IsSeq
<1>5. ASSUME NEW k \in 1..n
      PROVE  ConnInv(cs[k]) /\ (cs[k] = conns[k] \/ cs[k].open = FALSE)
  <2>1. CASE k = Conn
    <3>1. cs[k] = Closed(conns[k])
      BY <1>1, <2>1
    <3> HIDE DEF cs
    <3> QED
      BY <1>1, <3>1, ClosedConn, Zenon
  <2>2. CASE k # Conn
    <3>1. cs[k] = conns[k]
      BY <1>1, <2>2
    <3> HIDE DEF cs
    <3> QED
      BY <1>1, <3>1 DEF StreamInv
  <2> QED
    BY <2>1, <2>2, Zenon
<1> HIDE DEF cs
<1> QED
  BY <1>1, <1>3, <1>4, <1>5, ConnectStream, Zenon

LEMMA CloseStream ==
  ASSUME HTTPInv, StreamInv, Close
  PROVE  StreamInv'
<1>1. PICK n \in Nat : IsSeq(conns, n) /\ DOMAIN conns = 1..n
                       /\ \A k \in 1..n : IsConn(conns[k])
  BY ConnsShape
<1>2. PICK closed \in SUBSET Hosts :
        conns' = [c \in DOMAIN conns |->
                    IF \E h \in closed : pool[h] = c THEN Closed(conns[c]) ELSE conns[c]]
  BY DEF Close
<1>3. pc = "idle" /\ pc' = "idle" /\ body' = body /\ result'.kind # "response"
  BY NoResultKind DEF Close
<1>4. \A k : Waiting(k)' = Waiting(k)
  BY <1>3, NotWaiting, NotWaitingNext
<1>5. ASSUME NEW k \in 1..n PROVE ConnInv(conns'[k]) /\ Accounted(k)'
  <2>1. CASE conns'[k] = Closed(conns[k])
    <3>1. ConnInv(conns'[k]) /\ conns'[k].open = FALSE
      BY <1>1, <2>1, ClosedConn, Zenon
    <3> QED
      BY <3>1 DEF Accounted
  <2>2. CASE conns'[k] = conns[k]
    <3>1. ConnInv(conns[k]) /\ Accounted(k)
      BY <1>1 DEF StreamInv
    <3>2. SameBooks(conns'[k], conns[k])
      BY <2>2 DEF SameBooks
    <3> QED
      BY <1>4, <2>2, <3>1, <3>2, AccountedAsBefore
  <2> QED
    BY <1>1, <1>2, <2>1, <2>2
<1>6. ResultInv' /\ CallInv' /\ BodyShape'
  BY <1>3, NoResponseInv DEF CallInv, BodyShape, StreamInv
<1>7. DOMAIN conns' = 1..n
  BY <1>1, <1>2
<1> QED
  BY <1>5, <1>6, <1>7 DEF StreamInv

LEMMA OverflowStream ==
  ASSUME HTTPInv, StreamInv, EncodeOverflows
  PROVE  StreamInv'
<1>1. /\ pc # "read" /\ pc' = "idle" /\ conns' = conns /\ body' = body
      /\ result'.kind # "response"
  BY NoResultKind DEF EncodeOverflows, Return
<1>2. \A k : Waiting(k)' = Waiting(k)
  BY <1>1, NotWaiting, NotWaitingNext
<1>3. ASSUME NEW k \in DOMAIN conns PROVE ConnInv(conns'[k]) /\ Accounted(k)'
  <2>1. ConnInv(conns[k]) /\ Accounted(k)
    BY DEF StreamInv
  <2>2. SameBooks(conns'[k], conns[k])
    BY <1>1 DEF SameBooks
  <2> QED
    BY <1>1, <1>2, <2>1, <2>2, AccountedAsBefore
<1>4. ResultInv' /\ CallInv' /\ BodyShape'
  BY <1>1, NoResponseInv DEF CallInv, BodyShape, StreamInv
<1> QED
  BY <1>1, <1>3, <1>4 DEF StreamInv

(* One connection is replaced by x, and the others wait for nothing. *)
LEMMA ReplaceConn ==
  ASSUME HTTPInv, StreamInv, NEW k \in DOMAIN conns, NEW x, ConnInv(x),
         conns' = [conns EXCEPT ![k] = x], Accounted(k)',
         \A j : j # k => Waiting(j)' = Waiting(j),
         CallInv', BodyShape', ResultInv'
  PROVE  StreamInv'
<1>1. ASSUME NEW j \in DOMAIN conns PROVE ConnInv(conns'[j]) /\ Accounted(j)'
  <2>1. CASE j = k
    BY <2>1
  <2>2. CASE j # k
    <3>1. conns'[j] = conns[j]
      BY <2>2
    <3>2. ConnInv(conns[j]) /\ Accounted(j)
      BY DEF StreamInv
    <3>3. SameBooks(conns'[j], conns[j])
      BY <3>1 DEF SameBooks
    <3>4. Accounted(j)'
      BY <2>2, <3>2, <3>3, AccountedAsBefore
    <3> QED
      BY <3>1, <3>2, <3>4
  <2> QED
    BY <2>1, <2>2
<1>2. DOMAIN conns' = DOMAIN conns
  OBVIOUS
<1> QED
  BY <1>1, <1>2 DEF StreamInv

(* The connection of the current call. *)
LEMMA ConnOfCall ==
  ASSUME HTTPInv, pc # "idle"
  PROVE  Conn \in DOMAIN conns /\ IsConn(conns[Conn]) /\ conns[Conn].open
<1>1. PICK h \in Hosts : h = call.host
  BY DEF HTTPInv, Shape
<1>2. Conn = pool[h] /\ Conn # 0
  BY <1>1 DEF HTTPInv, Shape, Conn
<1>3. Conn \in DOMAIN conns /\ IsConn(conns[Conn])
  BY <1>2 DEF HTTPInv, Shape
<1>4. conns[Conn].open
  BY <1>2, <1>3, Zenon DEF HTTPInv, PoolOwnsSockets
<1> QED
  BY <1>3, <1>4

LEMMA WriteStream ==
  ASSUME HTTPInv, StreamInv, Write
  PROVE  StreamInv'
<1>1. pc \in {"write", "retry"} /\ pool' = pool /\ body' = body
  BY DEF Write
<1>2. PICK k \in DOMAIN conns : k = Conn /\ IsConn(conns[k])
  BY <1>1, ConnOfCall
<1>3. PICK sent \in SocketWrites :
        /\ call' = [call EXCEPT !.sent = sent]
        /\ conns' = CASE sent = "whole" /\ ~conns[k].torn ->
                           [conns EXCEPT ![k].reqs = Append(@, call.id)]
                      [] sent = "part" -> [conns EXCEPT ![k].torn = TRUE]
                      [] OTHER -> conns
        /\ \/ pc = "write" /\ Retries(sent) /\ pc' = "recreate" /\ result' = NoResult
           \/ pc = "retry" /\ sent = "error" /\ Return(Result("failed"))
           \/ /\ ~(pc = "write" /\ Retries(sent)) /\ ~(pc = "retry" /\ sent = "error")
              /\ pc' = "read" /\ result' = NoResult
  BY <1>2 DEF Write
<1>4. call \in [id : Nat, host : Hosts, sent : Sent]
  BY DEF HTTPInv, Shape
<1>5. call'.sent = sent /\ call'.id = call.id /\ call'.host = call.host /\ call.id \in Nat
  BY <1>3, <1>4
<1>6. Conn' = k
  BY <1>1, <1>2, <1>5 DEF Conn
<1>7. result'.kind # "response"
  BY <1>3, NoResultKind DEF Return
<1>8. ResultInv'
  BY <1>7, NoResponseInv
<1>9. BodyShape'
  BY <1>1 DEF StreamInv, BodyShape
<1>10. \A j : Waiting(j) = 0
  BY <1>1, NotWaiting
<1>11. \A j : j # k => Waiting(j)' = Waiting(j)
  BY <1>6, <1>10 DEF Waiting
<1>12. ConnInv(conns[k]) /\ Accounted(k)
  BY DEF StreamInv
<1>13. CASE sent = "whole" /\ ~conns[k].torn
  <2> DEFINE r == conns[k].reqs
             x == [conns[k] EXCEPT !.reqs = Append(@, call.id)]
  <2>1. r \in Seq(Nat) /\ Len(r) \in Nat /\ DOMAIN conns[k] = Fields
    BY <1>2, SeqShape DEF IsConn
  <2>2. conns' = [conns EXCEPT ![k] = x]
    BY <1>3, <1>13, <2>1 DEF Fields
  <2>3. ConnInv(x)
    BY <1>2, <1>5, <1>12, WriteConn
  <2>4. /\ x.open = conns[k].open /\ x.torn = conns[k].torn /\ x.framing = conns[k].framing
        /\ x.taken = conns[k].taken /\ x.skipped = conns[k].skipped
        /\ x.reqs = Append(r, call.id)
    BY <2>1 DEF Fields
  <2>5. Len(Append(r, call.id)) = Len(r) + 1 /\ Append(r, call.id)[Len(r) + 1] = call.id
    BY <1>5, <2>1, AppendShape
  <2> HIDE DEF x
  <2>6. conns'[k] = x
    BY <2>2
  <2>7. pc' = "read"
    BY <1>3, <1>13 DEF Retries, Return
  <2>8. Waiting(k)' = 1
    BY <1>5, <1>6, <1>13, <2>7 DEF Waiting
  <2>9. Accounted(k)'
    <3>1. SUFFICES ASSUME x.open, x.framing = "intact", ~x.torn
                   PROVE  x.taken + x.skipped + 1 = Len(x.reqs)
      BY <2>6, <2>8, Zenon DEF Accounted
    <3>2. conns[k].taken + conns[k].skipped + 0 = Len(r)
      BY <1>10, <1>12, <2>4, <3>1, Zenon DEF Accounted
    <3>3. conns[k].taken \in Nat /\ conns[k].skipped \in Nat
      BY <1>12 DEF ConnInv, ClientSide
    <3> QED
      BY <2>1, <2>4, <2>5, <3>2, <3>3
  <2>10. CallInv'
    <3>1. Len(x.reqs) > 0 /\ x.reqs[Len(x.reqs)] = call.id
      BY <2>1, <2>4, <2>5
    <3> QED
      BY <1>5, <1>6, <1>13, <2>6, <2>7, <3>1 DEF CallInv
  <2> QED
    BY <1>8, <1>9, <1>11, <2>2, <2>3, <2>9, <2>10, ReplaceConn, Zenon
<1>14. CASE sent = "part"
  <2> DEFINE x == [conns[k] EXCEPT !.torn = TRUE]
  <2>1. DOMAIN conns[k] = Fields
    BY <1>2 DEF IsConn
  <2>2. conns' = [conns EXCEPT ![k] = x]
    BY <1>3, <1>14, <2>1 DEF Fields
  <2>3. /\ x.stream = conns[k].stream /\ x.ends = conns[k].ends /\ x.link = conns[k].link
        /\ x.reqs = conns[k].reqs /\ x.buf = conns[k].buf /\ x.rcvd = conns[k].rcvd
        /\ x.taken = conns[k].taken /\ x.skipped = conns[k].skipped
        /\ x.framing = conns[k].framing /\ x.torn = TRUE
    BY <2>1 DEF Fields
  <2> HIDE DEF x
  <2>4. x.skipped \in Nat /\ x.torn \in BOOLEAN
    BY <1>12, <2>3, Zenon DEF ConnInv, ClientSide
  <2>5. ConnInv(x)
    BY <1>12, <2>3, <2>4, SameConn
  <2>6. conns'[k] = x
    BY <2>2
  <2>7. Accounted(k)'
    BY <2>3, <2>6 DEF Accounted
  <2>8. pc' = "read"
    BY <1>3, <1>14 DEF Retries, Return
  <2>9. CallInv'
    BY <1>5, <1>6, <1>14, <2>3, <2>6, <2>8 DEF CallInv
  <2> QED
    BY <1>8, <1>9, <1>11, <2>2, <2>5, <2>7, <2>9, ReplaceConn, Zenon
<1>15. CASE ~(sent = "whole" /\ ~conns[k].torn) /\ sent # "part"
  <2>1. conns' = conns
    BY <1>3, <1>15
  <2>2. pc' = "read" => (sent = "whole" /\ conns[k].torn) \/ pc = "retry"
    <3>1. pc' = "read" => ~(pc = "write" /\ Retries(sent))
      BY <1>3 DEF Return
    <3>2. sent = "whole" \/ Retries(sent)
      BY <1>15 DEF Retries, SocketWrites
    <3>3. sent = "whole" => conns[k].torn
      BY <1>15
    <3> QED
      BY <1>1, <3>1, <3>2, <3>3, Zenon
  <2>3. pc' # "retry"
    BY <1>3 DEF Return
  <2>4. pc = "retry" => conns[k].reqs = <<>>
    BY <1>2 DEF StreamInv, CallInv
  <2>5. CallInv'
    BY <1>5, <1>6, <1>15, <2>1, <2>2, <2>3, <2>4 DEF CallInv
  <2>6. Accounted(k)'
    <3>1. CASE conns[k].torn
      BY <2>1, <3>1 DEF Accounted
    <3>2. CASE ~conns[k].torn
      <4>1. Waiting(k)' = Waiting(k)
        BY <1>5, <1>10, <1>15, <3>2 DEF Waiting
      <4>2. SameBooks(conns'[k], conns[k])
        BY <2>1 DEF SameBooks
      <4> QED
        BY <1>12, <4>1, <4>2, AccountedAsBefore
    <3> QED
      BY <3>1, <3>2
  <2>7. conns' = [conns EXCEPT ![k] = conns[k]]
    BY <1>2, <2>1, Zenon DEF HTTPInv, Shape, IsSeq
  <2> QED
    BY <1>8, <1>9, <1>11, <1>12, <2>5, <2>6, <2>7, ReplaceConn, Zenon
<1> QED
  BY <1>13, <1>14, <1>15

(* The connection of the current call, after a read or as it was. *)
IsCallConn(c) ==
  /\ IsConn(c) /\ ConnInv(c)
  /\ c.open = conns[Conn].open /\ c.reqs = conns[Conn].reqs /\ c.torn = conns[Conn].torn
  /\ c.taken = conns[Conn].taken /\ c.skipped = conns[Conn].skipped
  /\ c.framing = "intact" => conns[Conn].framing = "intact"

(* parseResponse returns without a response. *)
LEMMA NoResponseStream ==
  ASSUME HTTPInv, StreamInv, pc = "read", pool' = pool, call' = call,
         NEW c, IsCallConn(c), NEW kind, kind # "response", NoResponse(c, kind)
  PROVE  StreamInv'
<1> DEFINE w == IF call.sent = "whole" THEN 1 ELSE 0
           x == [c EXCEPT !.skipped = @ + w]
<1>1. PICK k \in DOMAIN conns : k = Conn /\ IsConn(conns[k])
  BY ConnOfCall
<1>2. conns' = [conns EXCEPT ![k] = x] /\ body' = body /\ pc' = "idle" /\ result' = Result(kind)
  BY <1>1 DEF NoResponse, Return
<1>3. IsConn(c) /\ ConnInv(c)
  BY DEF IsCallConn
<1>4. c.taken \in Nat /\ c.skipped \in Nat /\ c.torn \in BOOLEAN
  BY <1>3 DEF ConnInv, ClientSide
<1>5. w \in Nat
  OBVIOUS
<1> HIDE DEF w
<1>6. /\ x.stream = c.stream /\ x.ends = c.ends /\ x.link = c.link /\ x.reqs = c.reqs
      /\ x.buf = c.buf /\ x.rcvd = c.rcvd /\ x.taken = c.taken /\ x.torn = c.torn
      /\ x.framing = c.framing /\ x.open = c.open /\ x.skipped = c.skipped + w
  BY <1>3 DEF IsConn, Fields
<1> HIDE DEF x
<1>7. x.skipped \in Nat
  BY <1>4, <1>5, <1>6
<1>8. ConnInv(x)
  BY <1>3, <1>4, <1>6, <1>7, SameConn
<1>9. \A j : j # k => Waiting(j) = 0
  BY <1>1 DEF Waiting
<1>10. \A j : Waiting(j)' = 0
  BY <1>2, NotWaitingNext
<1>11. Waiting(k) = w
  BY <1>1 DEF Waiting, w
<1>12. conns'[k] = x
  BY <1>2
<1>13. Accounted(k)'
  <2>1. SUFFICES ASSUME x.open, x.framing = "intact", ~x.torn
                 PROVE  x.taken + x.skipped + 0 = Len(x.reqs)
    BY <1>10, <1>12, Zenon DEF Accounted
  <2>2. Accounted(k)
    BY DEF StreamInv
  <2>3. /\ conns[k].open /\ conns[k].framing = "intact" /\ ~conns[k].torn
        /\ c.taken = conns[k].taken /\ c.skipped = conns[k].skipped /\ c.reqs = conns[k].reqs
    BY <1>1, <1>6, <2>1 DEF IsCallConn
  <2>4. c.taken + c.skipped + w = Len(c.reqs)
    BY <1>11, <2>2, <2>3, Zenon DEF Accounted
  <2> QED
    BY <1>4, <1>5, <1>6, <2>4
<1>14. ResultInv'
  BY <1>2, NoResponseInv, NoResultKind
<1>15. CallInv' /\ BodyShape'
  BY <1>2 DEF CallInv, StreamInv, BodyShape
<1> QED
  BY <1>2, <1>8, <1>9, <1>10, <1>13, <1>14, <1>15, ReplaceConn, Zenon

(* The message at the front of a buffer lies inside it. *)
LEMMA UnreadFits ==
  ASSUME NEW c, ServerSide(c), ClientSide(c), IsComplete(Unread(c))
  PROVE  /\ HeadersEnd(Unread(c)) \in 1..Remaining(c.buf) /\ ContentLength(Unread(c)) \in Nat
         /\ HeadersEnd(Unread(c)) + ContentLength(Unread(c)) <= Remaining(c.buf)
<1>1. /\ Unread(c) \in [1..Remaining(c.buf) -> Tokens]
      /\ Len(Unread(c)) = Remaining(c.buf) /\ Remaining(c.buf) \in 0..ReadCap
  BY UnreadShape
<1>2. Remaining(c.buf) \in Nat
  BY <1>1
<1> QED
  BY <1>1, <1>2, CompleteFits, Zenon

(* parseResponse returns the message at the front of the buffer. *)
LEMMA TakeResponseStream ==
  ASSUME HTTPInv, StreamInv, pc = "read", pool' = pool, call' = call,
         NEW c, IsCallConn(c), IsComplete(Unread(c)), TakeResponse(c, Unread(c))
  PROVE  StreamInv'
<1> DEFINE ts == Unread(c)
           n == ContentLength(ts)
           length == HeadersEnd(ts) + n
           x == [c EXCEPT !.buf = Advance(@, length), !.taken = @ + 1]
           cells == [i \in 1..length |-> <<Conn, c.buf.data[c.buf.pos + i - 1]>>]
<1>1. PICK k \in DOMAIN conns : k = Conn /\ IsConn(conns[k])
  BY ConnOfCall
<1>2. /\ conns' = [conns EXCEPT ![k] = x] /\ pc' = "idle"
      /\ body' = CopyBody(c.buf, c.buf.pos + HeadersEnd(ts), n)
      /\ result' = Response(k, cells, n)
  <2>1. /\ conns' = [conns EXCEPT ![Conn] = x] /\ pc' = "idle"
        /\ body' = CopyBody(c.buf, c.buf.pos + HeadersEnd(ts), n)
        /\ result' = Response(Conn, cells, n)
    BY Zenon DEF TakeResponse, Return
  <2> HIDE DEF x, cells, ts
  <2> QED
    BY <1>1, <2>1, Zenon
<1>3. IsConn(c) /\ ConnInv(c) /\ ServerSide(c) /\ ClientSide(c)
  BY DEF IsCallConn, ConnInv
<1>4. c.taken \in Nat /\ c.skipped \in Nat /\ Len(c.reqs) \in Nat /\ Len(c.ends) \in Nat
  BY <1>3, SeqShape DEF ClientSide, IsConn, ServerSide
<1>5. /\ ts \in [1..Remaining(c.buf) -> Tokens]
      /\ Len(ts) = Remaining(c.buf) /\ Remaining(c.buf) \in 0..ReadCap
  BY <1>3, UnreadShape
<1>6. Remaining(c.buf) \in Nat /\ ReadCap \in Nat
  BY <1>5, HTTPAssumption
<1>7. /\ HeadersEnd(ts) \in 1..Remaining(c.buf) /\ n \in Nat
      /\ HeadersEnd(ts) + n <= Remaining(c.buf)
  BY <1>3, UnreadFits, Zenon
<1>8. ConnInv(x)
  BY <1>3, TakeConn, Zenon
<1>9. /\ x.ends = c.ends /\ x.reqs = c.reqs /\ x.open = c.open /\ x.torn = c.torn
      /\ x.framing = c.framing /\ x.taken = c.taken + 1 /\ x.skipped = c.skipped
  <2> HIDE DEF length
  <2> QED
    BY <1>3 DEF IsConn, Fields
<1>10. conns'[k] = x
  BY <1>2
<1> HIDE DEF x
<1>11. \A j : j # k => Waiting(j) = 0
  BY <1>1 DEF Waiting
<1>12. \A j : Waiting(j)' = 0
  BY <1>2, NotWaitingNext
<1>13. ASSUME c.framing = "intact"
       PROVE  /\ Aligned(c) /\ c.taken + 1 \in 1..Len(c.ends)
              /\ EndOf(c, c.taken + 1) = EndOf(c, c.taken) + length
  <2>1. Aligned(c)
    BY <1>3, <1>13, Zenon DEF ConnInv
  <2> QED
    BY <1>3, <2>1, CompleteIsReply, Zenon
<1> HIDE DEF ts, n, length, cells
<1>14. ASSUME c.framing = "intact", ~c.torn, c.open
       PROVE  /\ x.taken + x.skipped = Len(x.reqs)
              /\ Len(c.reqs) > 0 /\ c.reqs[Len(c.reqs)] = call.id
  <2>1. /\ conns[k].open /\ conns[k].framing = "intact" /\ ~conns[k].torn
        /\ c.taken = conns[k].taken /\ c.skipped = conns[k].skipped /\ c.reqs = conns[k].reqs
    BY <1>1, <1>14 DEF IsCallConn
  <2>2. Len(c.ends) <= Len(c.reqs)
    BY <1>3 DEF ServerSide
  <2>3. Len(c.reqs) # 0
    BY <1>4, <1>13, <1>14, <2>2
  <2>4. c.reqs # <<>>
    BY <2>3
  <2>5. call.sent = "whole"
    BY <1>1, <2>1, <2>4, Zenon DEF StreamInv, CallInv
  <2>6. Waiting(k) = 1
    BY <1>1, <2>5 DEF Waiting
  <2>7. c.taken + c.skipped + 1 = Len(c.reqs)
    BY <2>1, <2>6, Zenon DEF StreamInv, Accounted
  <2>8. Len(c.reqs) > 0 /\ c.reqs[Len(c.reqs)] = call.id
    BY <1>1, <2>1, <2>5, Zenon DEF StreamInv, CallInv
  <2>9. x.taken + x.skipped = Len(x.reqs)
    BY <1>4, <1>9, <2>7
  <2> QED
    BY <2>8, <2>9
<1>15. Accounted(k)'
  <2>1. SUFFICES ASSUME x.open, x.framing = "intact", ~x.torn
                 PROVE  x.taken + x.skipped + 0 = Len(x.reqs)
    BY <1>10, <1>12, Zenon DEF Accounted
  <2>2. x.taken + x.skipped = Len(x.reqs)
    BY <1>9, <1>14, <2>1
  <2>3. x.taken \in Nat /\ x.skipped \in Nat
    BY <1>4, <1>9
  <2> QED
    BY <2>2, <2>3
<1>16. /\ result'.kind = "response" /\ result'.conn = k /\ result'.cells = cells
       /\ result'.length = n
  BY <1>2 DEF Response
<1>17. ASSUME c.framing = "intact"
       PROVE  cells = ReplyCells(k, x.taken)'
  <2> DEFINE from == EndOf(c, c.taken)
  <2>1. EndOf(x, x.taken) = from + length
    BY <1>9, <1>13, <1>17 DEF EndOf
  <2>2. x.taken - 1 = c.taken
    BY <1>4, <1>9
  <2>3. EndOf(x, x.taken - 1) = from
    BY <1>9, <2>2 DEF EndOf
  <2>4. /\ from \in Nat
        /\ \A i \in 1..Remaining(c.buf) : c.buf.data[c.buf.pos + i - 1] = from + i
    <3>1. ServerSide(c) /\ ClientSide(c) /\ Aligned(c)
      BY <1>3, <1>13, <1>17
    <3> QED
      BY <3>1, UnreadFollows, Zenon
  <2>5. length \in 0..Remaining(c.buf)
    BY <1>6, <1>7 DEF length
  <2> HIDE DEF from
  <2>6. EndOf(x, x.taken) - EndOf(x, x.taken - 1) = length
    BY <1>6, <2>1, <2>3, <2>4, <2>5
  <2>7. ReplyCells(k, x.taken)' = [i \in 1..length |-> <<k, from + i>>]
    BY <1>10, <2>3, <2>6, Zenon DEF ReplyCells
  <2>8. ASSUME NEW i \in 1..length PROVE c.buf.data[c.buf.pos + i - 1] = from + i
    <3>1. i \in 1..Remaining(c.buf)
      BY <1>6, <2>5
    <3> QED
      BY <2>4, <3>1
  <2>9. cells = [i \in 1..length |-> <<k, from + i>>]
    BY <1>1, <2>8 DEF cells
  <2> QED
    BY <2>7, <2>9, Zenon
<1>18. ReplyInTurn'
  <2>1. SUFFICES ASSUME x.framing = "intact", ~x.torn
                 PROVE  /\ cells = ReplyCells(k, x.taken)'
                        /\ x.taken = Len(x.reqs) - x.skipped
                        /\ x.skipped = 0 => x.reqs[x.taken] = call'.id
    BY <1>10, <1>16, Zenon DEF ReplyInTurn
  <2>2. c.framing = "intact" /\ ~c.torn /\ c.open
    BY <1>1, <1>9, <2>1, ConnOfCall DEF IsCallConn
  <2>3. cells = ReplyCells(k, x.taken)'
    BY <1>17, <2>2
  <2>4. /\ x.taken + x.skipped = Len(x.reqs) /\ x.taken \in Nat /\ x.skipped \in Nat
        /\ c.reqs[Len(c.reqs)] = call.id
    BY <1>4, <1>9, <1>14, <2>2
  <2>5. x.taken = Len(x.reqs) - x.skipped
    BY <2>4
  <2>6. x.skipped = 0 => x.taken = Len(c.reqs)
    BY <1>9, <2>4
  <2>7. x.skipped = 0 => x.reqs[x.taken] = call'.id
    BY <1>9, <2>4, <2>6
  <2> QED
    BY <2>3, <2>5, <2>7
<1>19. body.cap = ReadCap
  BY DEF StreamInv, BodyShape
<1>20. BodyShape'
  <2>1. CASE n > 0
    <3>1. body'.cap = body.cap /\ body'.pos = 0 /\ body'.lim = n
      BY <1>2, <2>1 DEF CopyBody, Set
    <3>2. n \in 0..ReadCap
      BY <1>5, <1>6, <1>7
    <3> QED
      BY <1>19, <3>1, <3>2 DEF BodyShape
  <2>2. CASE ~(n > 0)
    <3>1. body'.cap = body.cap /\ body'.pos = 0 /\ body'.lim = body.cap
      BY <1>2, <2>2 DEF CopyBody, Set, Clear
    <3> QED
      BY <1>6, <1>19, <3>1 DEF BodyShape
  <2> QED
    BY <2>1, <2>2
<1>21. BodyIsReply'
  <2>1. SUFFICES ASSUME n > 0
                 PROVE  /\ body'.pos = 0 /\ body'.lim = n
                        /\ \A i \in 1..n : body'.data[i-1] = cells[Len(cells) - n + i]
    BY <1>16, Zenon DEF BodyIsReply
  <2> DEFINE h == HeadersEnd(ts)
  <2>2. h \in Nat /\ n \in Nat /\ length = h + n /\ h + n <= ReadCap
    BY <1>5, <1>6, <1>7 DEF length
  <2> HIDE DEF h
  <2>3. /\ body'.pos = 0 /\ body'.lim = n
        /\ body'.data = [i \in 0..ReadCap-1 |->
             IF i < n THEN <<k, c.buf.data[c.buf.pos + h + i]>> ELSE body.data[i]]
    BY <1>1, <1>2, <1>19, <2>1 DEF CopyBody, Set, h
  <2>4. Len(cells) = length
    <3>1. length \in Nat
      BY <2>2
    <3>2. IsSeq(cells, length)
      BY DEF IsSeq, cells
    <3> QED
      BY <3>1, <3>2, AppendToAny
  <2>5. c.buf.pos \in Nat
    <3>1. c.buf \in Buffers(ReadCap) /\ ReadCap \in Nat \ {0}
      BY <1>3, HTTPAssumption DEF ClientSide
    <3> QED
      BY <3>1, BufferFields
  <2>6. ASSUME NEW i \in 1..n PROVE body'.data[i-1] = cells[Len(cells) - n + i]
    <3> DEFINE at == c.buf.pos + h + (i - 1)
    <3>1. i - 1 \in 0..ReadCap-1 /\ i - 1 < n
      BY <1>6, <2>2
    <3>2. body'.data[i-1] = <<k, c.buf.data[at]>>
      BY <2>3, <3>1
    <3>3. /\ Len(cells) - n + i = h + i /\ h + i \in 1..length
          /\ c.buf.pos + (h + i) - 1 = at
      BY <2>2, <2>4, <2>5
    <3> HIDE DEF at
    <3>4. cells[h + i] = <<k, c.buf.data[c.buf.pos + (h + i) - 1]>>
      BY <1>1, <3>3 DEF cells
    <3> QED
      BY <3>2, <3>3, <3>4, Zenon
  <2> QED
    BY <2>3, <2>6, Zenon
<1>22. ResultInv'
  <2>1. result'.conn \in DOMAIN conns'
    BY <1>2, <1>16
  <2>2. conns'[result'.conn].taken > 0
    BY <1>4, <1>9, <1>10, <1>16
  <2> QED
    BY <1>2, <1>18, <1>21, <2>1, <2>2 DEF ResultInv
<1>23. CallInv'
  BY <1>2 DEF CallInv
<1> QED
  BY <1>2, <1>8, <1>11, <1>12, <1>15, <1>20, <1>22, <1>23, ReplaceConn, Zenon DEF x

LEMMA ParseResponseStream ==
  ASSUME HTTPInv, StreamInv, NEW interrupted \in BOOLEAN, ParseResponse(interrupted)
  PROVE  StreamInv'
<1>1. pc = "read" /\ pool' = pool /\ call' = call
  BY DEF ParseResponse
<1>2. Conn \in DOMAIN conns /\ IsConn(conns[Conn])
  BY <1>1, ConnOfCall
<1>3. IsCallConn(conns[Conn])
  BY <1>2 DEF IsCallConn, StreamInv
<1> DEFINE Lost(c) == [c EXCEPT !.framing = "lost"]
<1>4. ASSUME NEW c, IsCallConn(c) PROVE IsCallConn(Lost(c))
  <2> DEFINE x == Lost(c)
  <2>1. /\ x.stream = c.stream /\ x.ends = c.ends /\ x.link = c.link /\ x.reqs = c.reqs
        /\ x.buf = c.buf /\ x.rcvd = c.rcvd /\ x.taken = c.taken /\ x.torn = c.torn
        /\ x.framing = "lost" /\ x.open = c.open /\ x.skipped = c.skipped /\ IsConn(x)
    BY <1>4 DEF IsCallConn, IsConn, Fields
  <2> HIDE DEF x
  <2>2. ConnInv(c) /\ c.skipped \in Nat /\ c.torn \in BOOLEAN
    BY <1>4 DEF IsCallConn, ConnInv, ClientSide
  <2>3. x.skipped \in Nat /\ x.torn \in BOOLEAN /\ (x.framing = "intact" => c.framing = "intact")
    BY <2>1, <2>2
  <2>4. ConnInv(x)
    BY <2>1, <2>2, <2>3, SameConn
  <2>5. IsCallConn(x)
    BY <1>4, <2>1, <2>4 DEF IsCallConn
  <2> QED
    BY <2>5 DEF x
<1> HIDE DEF Lost
<1>5. ASSUME NEW c, IsCallConn(c), NEW kind, kind # "response", NoResponse(c, kind)
      PROVE  StreamInv'
  BY <1>1, <1>5, NoResponseStream
<1>6. ASSUME NEW c, IsCallConn(c), NEW d \in Decodes(Unread(c)),
             \/ d = "complete" /\ TakeResponse(c, Unread(c))
             \/ d = "throws" /\ NoResponse(Lost(c), "exception")
      PROVE  StreamInv'
  <2>2. ASSUME d = "complete" PROVE IsComplete(Unread(c))
    BY <2>2 DEF Decodes
  <2>3. CASE d = "complete" /\ TakeResponse(c, Unread(c))
    BY <1>1, <1>6, <2>2, <2>3, TakeResponseStream
  <2>4. CASE d = "throws" /\ NoResponse(Lost(c), "exception")
    <3>1. "exception" # "response"
      OBVIOUS
    <3> QED
      BY <1>4, <1>5, <1>6, <2>4, <3>1, Zenon
  <2> QED
    BY <1>6, <2>3, <2>4, Zenon
<1>7. CASE ReadOnce(conns[Conn], interrupted)
  <2> DEFINE c == conns[Conn]
             b == BeforeRead(c.buf)
  <2>1. PICK n \in SocketReads(c, Remaining(b), interrupted) :
          \/ NoResponse(Received(c, b, n), "closed")
          \/ CheckMessage(Received(c, b, n), NoResponse(Received(c, b, n), "noMessage"))
    BY <1>7, Zenon DEF ReadOnce
  <2> DEFINE x == Received(c, b, n)
  <2>2. /\ ConnInv(x) /\ IsConn(x)
        /\ x.open = c.open /\ x.reqs = c.reqs /\ x.torn = c.torn /\ x.taken = c.taken
        /\ x.skipped = c.skipped /\ (x.framing = "intact" => c.framing = "intact")
    <3>1. IsConn(c) /\ ConnInv(c)
      BY <1>3 DEF IsCallConn
    <3> HIDE DEF c
    <3> QED
      BY <3>1, ReceiveConn
  <2> HIDE DEF x, b
  <2>3. IsCallConn(x)
    BY <2>2 DEF IsCallConn
  <2>4. "closed" # "response" /\ "noMessage" # "response"
    OBVIOUS
  <2>5. NoResponse(x, "closed") \/ CheckMessage(x, NoResponse(x, "noMessage"))
    BY <2>1 DEF x
  <2>6. CASE NoResponse(x, "closed")
    BY <1>5, <2>3, <2>4, <2>6, Zenon
  <2>7. CASE CheckMessage(x, NoResponse(x, "noMessage"))
    <3>1. PICK d \in Decodes(Unread(x)) :
            \/ d = "complete" /\ TakeResponse(x, Unread(x))
            \/ d = "throws" /\ NoResponse(Lost(x), "exception")
            \/ d = "incomplete" /\ NoResponse(x, "noMessage")
      BY <2>7, Zenon DEF CheckMessage, Lost
    <3>2. CASE NoResponse(x, "noMessage")
      BY <1>5, <2>3, <2>4, <3>2, Zenon
    <3> QED
      BY <1>6, <2>3, <3>1, <3>2, Zenon
  <2> QED
    BY <2>5, <2>6, <2>7, Zenon
<1>8. CASE NoResponse(conns[Conn], "unknown")
  <2>1. "unknown" # "response"
    OBVIOUS
  <2> QED
    BY <1>3, <1>5, <1>8, <2>1, Zenon
<1>9. CASE CheckMessage(conns[Conn], ReadOnce(conns[Conn], interrupted))
  <2> DEFINE c == conns[Conn]
  <2>1. PICK d \in Decodes(Unread(c)) :
          \/ d = "complete" /\ TakeResponse(c, Unread(c))
          \/ d = "throws" /\ NoResponse(Lost(c), "exception")
          \/ d = "incomplete" /\ ReadOnce(c, interrupted)
    BY <1>9, Zenon DEF CheckMessage, Lost
  <2> QED
    BY <1>3, <1>6, <1>7, <2>1, Zenon
<1> QED
  BY <1>8, <1>9, Zenon DEF ParseResponse

(* The tokens of connection c after number from, up to number to. *)
Cells(c, from, to) == [i \in 1..to-from |-> <<c, from + i>>]

LEMMA ReplyIsCells ==
  \A c, k : ReplyCells(c, k) = Cells(c, EndOf(conns[c], k - 1), EndOf(conns[c], k))
BY Zenon DEF ReplyCells, Cells

(* A server answers or ends a connection: what the client has is the same. *)
LEMMA ServerStream ==
  ASSUME HTTPInv, StreamInv, NEW k \in DOMAIN conns, NEW x, ConnInv(x),
         SameBooks(x, conns[k]),
         \A j \in 0..Len(conns[k].ends) : EndOf(x, j) = EndOf(conns[k], j),
         conns' = [conns EXCEPT ![k] = x], UNCHANGED <<pool, body, pc, call, result>>
  PROVE  StreamInv'
<1>1. \A j : Waiting(j)' = Waiting(j)
  BY DEF Waiting, Conn
<1>2. conns'[k] = x
  OBVIOUS
<1>3. Accounted(k)'
  <2>1. Accounted(k)
    BY DEF StreamInv
  <2> QED
    BY <1>1, <1>2, <2>1, AccountedAsBefore
<1>4. ASSUME NEW j \in DOMAIN conns
      PROVE  /\ conns'[j].reqs = conns[j].reqs /\ conns'[j].torn = conns[j].torn
             /\ conns'[j].framing = conns[j].framing /\ conns'[j].taken = conns[j].taken
             /\ conns'[j].skipped = conns[j].skipped
  <2>1. CASE j = k
    BY <1>2, <2>1 DEF SameBooks
  <2>2. CASE j # k
    BY <2>2
  <2> QED
    BY <2>1, <2>2
<1>5. CallInv'
  <2>1. Conn' = Conn /\ pc' = pc /\ call' = call
    BY DEF Conn
  <2>2. CallInv
    BY DEF StreamInv
  <2>3. CASE pc = "idle"
    BY <2>1, <2>3 DEF CallInv
  <2>4. CASE pc # "idle"
    <3>1. Conn \in DOMAIN conns
      BY <2>4, ConnOfCall
    <3>2. conns'[Conn].reqs = conns[Conn].reqs /\ conns'[Conn].torn = conns[Conn].torn
      BY <1>4, <3>1
    <3> QED
      BY <2>1, <2>2, <3>2, Zenon DEF CallInv
  <2> QED
    BY <2>3, <2>4
<1>6. BodyShape'
  BY DEF StreamInv, BodyShape
<1>7. ResultInv'
  <2>1. result' = result /\ body' = body /\ call' = call /\ pc' = pc
    OBVIOUS
  <2>2. ResultInv
    BY DEF StreamInv
  <2>3. BodyIsReply'
    BY <2>1, <2>2, Zenon DEF ResultInv, BodyIsReply
  <2>4. CASE result.kind # "response"
    BY <2>1, <2>4, NoResponseInv
  <2>5. CASE result.kind = "response"
    <3> DEFINE r == result.conn
    <3>1. r \in DOMAIN conns /\ pc = "idle"
      BY <2>2, <2>5 DEF ResultInv
    <3>2. /\ conns'[r].reqs = conns[r].reqs /\ conns'[r].torn = conns[r].torn
          /\ conns'[r].framing = conns[r].framing /\ conns'[r].taken = conns[r].taken
          /\ conns'[r].skipped = conns[r].skipped
      BY <1>4, <3>1
    <3>3. conns[r].framing = "intact" => conns[r].taken > 0
      BY <2>2, <2>5 DEF ResultInv
    <3>4. ASSUME conns[r].framing = "intact"
          PROVE  ReplyCells(r, conns[r].taken)' = ReplyCells(r, conns[r].taken)
      <4> DEFINE c == conns[r]
      <4>1. ServerSide(c) /\ ClientSide(c) /\ Aligned(c)
        BY <3>1, <3>4 DEF StreamInv, ConnInv
      <4>2. c.taken \in 0..Len(c.ends) /\ Len(c.ends) \in Nat /\ c.taken > 0
        BY <3>3, <3>4, <4>1, UnreadFollows
      <4>3. c.taken - 1 \in 0..Len(c.ends)
        BY <4>2
      <4>4. ASSUME NEW j \in 0..Len(c.ends) PROVE EndOf(conns'[r], j) = EndOf(c, j)
        <5>1. CASE r = k
          BY <1>2, <5>1
        <5>2. CASE r # k
          BY <3>1, <5>2
        <5> QED
          BY <5>1, <5>2
      <4>5. /\ EndOf(conns'[r], c.taken) = EndOf(c, c.taken)
            /\ EndOf(conns'[r], c.taken - 1) = EndOf(c, c.taken - 1)
        BY <4>2, <4>3, <4>4
      <4>6. ReplyCells(r, c.taken) = Cells(r, EndOf(c, c.taken - 1), EndOf(c, c.taken))
        BY ReplyIsCells, Zenon
      <4>7. ReplyCells(r, conns[r].taken)' =
              Cells(r, EndOf(conns'[r], conns'[r].taken - 1), EndOf(conns'[r], conns'[r].taken))
        BY <2>1 DEF ReplyCells, Cells
      <4> QED
        BY <3>2, <4>5, <4>6, <4>7, Zenon
    <3>5. ReplyInTurn
      BY <2>2 DEF ResultInv
    <3>6. ReplyInTurn'
      <4>1. SUFFICES ASSUME conns'[r].framing = "intact", ~conns'[r].torn
                     PROVE  /\ result.cells = ReplyCells(r, conns[r].taken)'
                            /\ conns'[r].taken = Len(conns'[r].reqs) - conns'[r].skipped
                            /\ conns'[r].skipped = 0 => conns'[r].reqs[conns'[r].taken] = call.id
        BY <2>1, <3>2, Zenon DEF ReplyInTurn
      <4>2. conns[r].framing = "intact" /\ ~conns[r].torn
        BY <3>2, <4>1
      <4>3. /\ result.cells = ReplyCells(r, conns[r].taken)
            /\ conns[r].taken = Len(conns[r].reqs) - conns[r].skipped
            /\ conns[r].skipped = 0 => conns[r].reqs[conns[r].taken] = call.id
        BY <2>5, <3>5, <4>2, Zenon DEF ReplyInTurn
      <4> QED
        BY <3>2, <3>4, <4>2, <4>3, Zenon
    <3>7. DOMAIN conns' = DOMAIN conns
      OBVIOUS
    <3> QED
      BY <2>1, <2>3, <3>1, <3>2, <3>3, <3>6, <3>7, Zenon DEF ResultInv
  <2> QED
    BY <2>4, <2>5
<1> QED
  BY <1>1, <1>3, <1>5, <1>6, <1>7, ReplaceConn, Zenon

LEMMA ServeStream ==
  ASSUME HTTPInv, StreamInv, NEW c \in DOMAIN conns, Serve(c)
  PROVE  StreamInv'
<1>1. IsConn(conns[c]) /\ ConnInv(conns[c])
  BY DEF HTTPInv, Shape, StreamInv
<1>2. /\ conns[c].link = "up" /\ Len(conns[c].ends) < Len(conns[c].reqs)
      /\ UNCHANGED <<pool, body, pc, call, result>>
  BY DEF Serve
<1>3. PICK n \in Lengths \cup {-1} :
        conns' = [conns EXCEPT ![c].stream = conns[c].stream \o Reply(n),
                               ![c].ends = Append(@, Len(conns[c].stream \o Reply(n)))]
  BY Zenon DEF Serve
<1> DEFINE x == Served(conns[c], n)
<1>4. conns' = [conns EXCEPT ![c] = x]
  BY <1>1, <1>3, Zenon DEF IsConn, Fields, Served
<1>5. SameBooks(x, conns[c])
  BY <1>1 DEF IsConn, Fields, Served, SameBooks
<1>6. ConnInv(x) /\ \A k \in 0..Len(conns[c].ends) : EndOf(x, k) = EndOf(conns[c], k)
  BY <1>1, <1>2, ServeConn
<1> HIDE DEF x
<1> QED
  BY <1>2, <1>4, <1>5, <1>6, ServerStream, Zenon

LEMMA PeerCloseStream ==
  ASSUME HTTPInv, StreamInv, NEW c \in DOMAIN conns, PeerClose(c)
  PROVE  StreamInv'
<1>1. IsConn(conns[c]) /\ ConnInv(conns[c])
  BY DEF HTTPInv, Shape, StreamInv
<1>2. UNCHANGED <<pool, body, pc, call, result>>
  BY DEF PeerClose
<1>3. PICK to \in conns[c].rcvd..Len(conns[c].stream) :
        conns' = [conns EXCEPT ![c].stream = SubSeq(@, 1, to), ![c].link = "eof"]
  BY Zenon DEF PeerClose
<1> DEFINE x == [conns[c] EXCEPT !.stream = SubSeq(@, 1, to), !.link = "eof"]
<1>4. conns' = [conns EXCEPT ![c] = x]
  BY <1>1, <1>3, Zenon DEF IsConn, Fields
<1>5. SameBooks(x, conns[c])
  BY <1>1 DEF IsConn, Fields, SameBooks
<1>6. ConnInv(x) /\ \A k : EndOf(x, k) = EndOf(conns[c], k)
  BY <1>1, PeerCloseConn, Zenon
<1> HIDE DEF x
<1>7. \A k \in 0..Len(conns[c].ends) : EndOf(x, k) = EndOf(conns[c], k)
  BY <1>6
<1> QED
  BY <1>2, <1>4, <1>5, <1>6, <1>7, ServerStream, Zenon

-----------------------------------------------------------------------------
LEMMA InitStream == Init => StreamInv
<1> SUFFICES ASSUME Init PROVE StreamInv
  OBVIOUS
<1>1. DOMAIN conns = {} /\ pc = "idle" /\ result.kind # "response"
  BY NoResultKind DEF Init
<1>2. body.cap = ReadCap /\ body.lim = ReadCap /\ body.pos = 0
  BY DEF Init, Allocate
<1>3. BodyShape
  BY <1>2, HTTPAssumption DEF BodyShape
<1> QED
  BY <1>1, <1>3 DEF StreamInv, CallInv, ResultInv, ReplyInTurn, BodyIsReply

LEMMA NextStream == HTTPInv /\ StreamInv /\ [Next]_vars => StreamInv'
<1> SUFFICES ASSUME HTTPInv, StreamInv, [Next]_vars PROVE StreamInv'
  OBVIOUS
<1>1. ASSUME NEW h \in Hosts, Request(h) PROVE StreamInv'
  BY <1>1, RequestStream
<1>2. CASE RecreateConnection
  BY <1>2, RecreateStream
<1>3. CASE Write
  BY <1>3, WriteStream
<1>4. ASSUME NEW interrupted \in BOOLEAN, ParseResponse(interrupted) PROVE StreamInv'
  BY <1>4, ParseResponseStream
<1>5. CASE Close
  BY <1>5, CloseStream
<1>6. ASSUME NEW c \in DOMAIN conns, Serve(c) \/ PeerClose(c) PROVE StreamInv'
  BY <1>6, ServeStream, PeerCloseStream
<1>7. CASE UNCHANGED vars
  <2>1. UNCHANGED <<pool, conns, body, pc, call, result>>
    BY <1>7 DEF vars
  <2> QED
    BY <2>1, Zenon DEF StreamInv, Accounted, Waiting, CallInv, Conn, BodyShape, ResultInv,
                       ReplyInTurn, ReplyCells, BodyIsReply
<1>8. CASE EncodeOverflows
  BY <1>8, OverflowStream
<1> QED
  BY <1>1, <1>2, <1>3, <1>4, <1>5, <1>6, <1>7, <1>8, Zenon DEF Next

LEMMA AlwaysStream == Spec => [](HTTPInv /\ StreamInv)
<1>1. Spec => []HTTPInv
  BY AlwaysInv
<1>2. Init => StreamInv
  BY InitStream
<1>3. HTTPInv /\ StreamInv /\ [Next]_vars => StreamInv'
  BY NextStream
<1> QED
  BY <1>1, <1>2, <1>3, PTL DEF Spec

(* Every state the client reaches is well formed: buffers keep capacity,    *)
(* limit and position in order, hold only tokens that were received, and a  *)
(* call in progress has an open connection.                                 *)
THEOREM HTTPTypes == Spec => []TypeOK
<1>1. ASSUME HTTPInv, StreamInv PROVE TypeOK
  <2>1. PICK n \in Nat : DOMAIN conns = 1..n /\ Len(conns) = n
    BY <1>1, ConnsShape
  <2>2. \A h \in Hosts : pool[h] \in 0..Len(conns)
    <3>1. ASSUME NEW h \in Hosts PROVE pool[h] \in 0..Len(conns)
      <4>1. pool[h] = 0 \/ pool[h] \in 1..n
        BY <1>1, <2>1 DEF HTTPInv, Shape
      <4> QED
        BY <2>1, <4>1
    <3> QED
      BY <3>1
  <2>3. \A c \in DOMAIN conns :
          /\ conns[c].buf \in Buffers(ReadCap) /\ conns[c].rcvd \in 0..Len(conns[c].stream)
          /\ \A i \in 0..ReadCap-1 : conns[c].buf.data[i] <= conns[c].rcvd
    BY <1>1, Zenon DEF StreamInv, ConnInv, ClientSide
  <2>4. body.cap = ReadCap /\ body.lim \in 0..ReadCap /\ body.pos \in 0..body.lim
    BY <1>1 DEF StreamInv, BodyShape
  <2>5. pc \in {"idle", "write", "recreate", "retry", "read"} /\ (pc # "idle" => Conn # 0)
    BY <1>1 DEF HTTPInv, Shape
  <2>6. pc # "idle" => conns[Conn].open
    BY <1>1, ConnOfCall
  <2> QED
    BY <2>2, <2>3, <2>4, <2>5, <2>6, Zenon DEF TypeOK
<1> QED
  BY <1>1, AlwaysStream, PTL

(* HTTPClient.parseResponse, for all hosts, buffer sizes and content        *)
(* lengths: a response is the next reply of its connection, whole, and      *)
(* answers the request made as many calls ago as calls on this connection   *)
(* got no response; its own if none did.                                    *)
THEOREM HTTPReplyInTurn == Spec => []ReplyInTurn
<1>1. StreamInv => ReplyInTurn
  BY DEF StreamInv, ResultInv
<1> QED
  BY <1>1, AlwaysStream, PTL

(* HTTPClient.parseResponse and HTTPDecoder.copyBody, for all buffer sizes  *)
(* and content lengths: the body handed out with a response is exactly its  *)
(* body, whatever the reused buffer held before.                            *)
THEOREM HTTPBodyIsReply == Spec => []BodyIsReply
<1>1. StreamInv => BodyIsReply
  BY DEF StreamInv, ResultInv
<1> QED
  BY <1>1, AlwaysStream, PTL

(* HTTPSocketMessageClient.readMessage, for all buffer sizes: between calls *)
(* the buffer continues where the last response ended, also when a call     *)
(* gave up on half a response.                                              *)
THEOREM HTTPBufferContinues == Spec => []BufferContinues
<1>1. ASSUME HTTPInv, StreamInv PROVE BufferContinues
  BY <1>1, Zenon DEF StreamInv, ConnInv, Aligned, BufferContinues
<1> QED
  BY <1>1, AlwaysStream, PTL

(* SocketClient.read drops the buffer of an HTTP connection only for a      *)
(* reply that does not fit it or has no Content-Length, for all buffer      *)
(* sizes and content lengths.                                               *)
THEOREM HTTPFullOnlyIfUnfit == Spec => []FullOnlyIfUnfit
<1>1. ASSUME HTTPInv, StreamInv, NEW k \in DOMAIN conns, conns[k].framing = "intact",
             Full(conns[k].buf), ~IsComplete(Unread(conns[k]))
      PROVE  LET reply == ReplyCells(k, conns[k].taken + 1) IN
             \/ Len(reply) > ReadCap
             \/ \A i \in DOMAIN reply : Value(conns[k], reply[i][2])[1] # "LEN"
  <2> DEFINE c == conns[k]
             from == EndOf(c, c.taken)
             reply == ReplyCells(k, c.taken + 1)
  <2>1. ServerSide(c) /\ ClientSide(c) /\ Aligned(c)
    BY <1>1 DEF StreamInv, ConnInv
  <2>2. ReadCap \in Nat \ {0} /\ c.buf \in Buffers(ReadCap)
    BY <2>1, HTTPAssumption DEF ClientSide
  <2>3. Remaining(c.buf) = ReadCap
    <3>1. c.buf.cap = ReadCap
      BY <2>2, BufferFields
    <3> QED
      BY <1>1, <2>2, <3>1 DEF Full, Remaining
  <2>4. /\ from \in Nat /\ c.taken \in Nat
        /\ \A i \in 1..ReadCap : Unread(c)[i] = c.stream[from + i]
    <3>1. /\ from \in Nat /\ c.taken \in 0..Len(c.ends)
          /\ \A i \in 1..Remaining(c.buf) : Unread(c)[i] = c.stream[from + i]
      BY <2>1, UnreadFollows
    <3>2. c.taken \in Nat
      BY <2>1 DEF ClientSide
    <3> QED
      BY <2>3, <3>1, <3>2, Zenon
  <2>5. PICK n \in Lengths \cup {-1} :
          /\ EndOf(c, c.taken + 1) = from + Len(Reply(n))
          /\ \A i \in 1..Len(Reply(n)) :
               from + i <= Len(c.stream) => c.stream[from + i] = Reply(n)[i]
    <3>1. Remaining(c.buf) # 0
      BY <2>2, <2>3
    <3> QED
      BY <2>1, <3>1, UnreadIsReply, Zenon
  <2>6. Len(c.stream) \in Nat /\ from + ReadCap <= Len(c.stream)
    <3>1. Len(c.stream) \in Nat
      BY <2>1, SeqShape DEF ServerSide
    <3>2. c.rcvd = from + ReadCap /\ c.rcvd \in 0..Len(c.stream)
      BY <2>1, <2>3 DEF Aligned, ClientSide
    <3> QED
      BY <3>1, <3>2
  <2>7. Len(Reply(n)) \in Nat
    BY ReplyShape, SeqShape
  <2> DEFINE m == Len(Reply(n))
  <2>8. reply = [i \in 1..m |-> <<k, from + i>>]
    <3> HIDE DEF m, from
    <3>1. (c.taken + 1) - 1 = c.taken
      BY <2>4
    <3>2. reply = Cells(k, from, from + m)
      BY <2>5, <3>1, ReplyIsCells, Zenon DEF m, from
    <3>3. (from + m) - from = m
      BY <2>4, <2>7 DEF m
    <3>4. Cells(k, from, from + m) = [i \in 1..(from + m) - from |-> <<k, from + i>>]
      BY Zenon DEF Cells
    <3> QED
      BY <3>2, <3>3, <3>4, Zenon
  <2>9. Len(reply) = m /\ DOMAIN reply = 1..m
    <3> HIDE DEF reply, m
    <3>1. IsSeq(reply, m)
      BY <2>8 DEF IsSeq
    <3> QED
      BY <2>7, <3>1, AppendToAny DEF m
  <2> HIDE DEF c, from, reply
  <2>10. SUFFICES ASSUME ~(m > ReadCap), NEW i \in 1..m
                  PROVE  Value(c, reply[i][2])[1] # "LEN"
    BY <2>9, Zenon DEF c, reply
  <2> HIDE DEF m
  <2>11. ASSUME NEW j \in 1..m PROVE c.stream[from + j] = Reply(n)[j] /\ j \in 1..ReadCap
    <3>1. from + j <= Len(c.stream) /\ j \in 1..ReadCap
      BY <2>2, <2>4, <2>6, <2>7, <2>10 DEF m
    <3> QED
      BY <2>5, <3>1 DEF m
  <2>12. n \notin Nat
    <3>1. SUFFICES ASSUME n \in Nat PROVE FALSE
      OBVIOUS
    <3>2. ASSUME NEW j \in 1..Len(Reply(n)), j <= ReadCap PROVE Unread(c)[j] = Reply(n)[j]
      BY <2>4, <2>11, <3>2 DEF m
    <3>3. Len(Unread(c)) = ReadCap
      BY <2>1, <2>3, UnreadShape DEF c
    <3>4. Len(Reply(n)) <= ReadCap
      BY <2>2, <2>7, <2>10 DEF m
    <3>5. ReadCap \in Nat
      BY <2>2
    <3>6. IsComplete(Unread(c))
      BY <3>1, <3>2, <3>3, <3>4, <3>5, ParseReply
    <3> QED
      BY <1>1, <3>6 DEF c
  <2>13. Reply(n)[i][1] # "LEN"
    <3>1. /\ m = 5 /\ Reply(n)[1] = <<"HT", 0>> /\ Reply(n)[2] = <<"TP", 0>>
          /\ Reply(n)[3] = <<"SL", 0>> /\ Reply(n)[4] = <<"CR", 0>>
          /\ Reply(n)[5] = <<"LF", 0>>
      BY <2>12, ReplyShape DEF m
    <3>2. i \in {1, 2, 3, 4, 5}
      BY <3>1
    <3> QED
      BY <3>1, <3>2
  <2>14. reply[i][2] = from + i /\ from + i # 0
    BY <2>4, <2>7, <2>8 DEF m
  <2> QED
    BY <2>11, <2>13, <2>14, Zenon DEF Value
<1>2. ASSUME HTTPInv, StreamInv PROVE FullOnlyIfUnfit
  BY <1>1, <1>2, Zenon DEF FullOnlyIfUnfit
<1> QED
  BY <1>2, AlwaysStream, PTL
=============================================================================
