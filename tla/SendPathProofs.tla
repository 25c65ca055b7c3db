--------------------------- MODULE SendPathProofs ---------------------------
(***************************************************************************)
(* For every fragment size and every number of bytes: the wire carries the *)
(* application's bytes in order, a close_notify follows exactly what was   *)
(* reported, and the send path implements ByteStream.                      *)
(***************************************************************************)
EXTENDS SendPath, SequenceTheorems, TLAPS

(* Where SSL_write stands: the bytes that are on the wire and not reported. *)
Ahead == IF call = "record" THEN total ELSE unreported

(* What a record that waits looks like, and when there is none. *)
Waits ==
  /\ pending.len = 0 => sealed = <<>> /\ (call # "record" => unreported = 0)
  /\ pending.len > 0 => tls /\ sealed # <<>>
  /\ ~tls => unreported = 0 /\ call # "record"
  /\ call = "record" => total <= arg.len
  /\ call # "record" => total = 0
  /\ streaming => ~torn

(* The argument of a call is what the client has not been told is sent. *)
Argument ==
  /\ call # "idle" => arg.after = reported /\ arg.len <= made - reported
  /\ call # "idle" /\ ~streaming => reported < made
  /\ ~streaming /\ reported < made => arg.after = reported /\ arg.len = made - reported

(* The wire, the record that waits and the rest of the argument are one run. *)
Position ==
  /\ wire = Run(0, Len(wire))
  /\ Len(wire) = reported + Ahead
  /\ sealed = Run(Len(wire), pending.len)
  /\ Len(wire) + pending.len <= made

Closing == 
  /\ kernel = "closed" => call = "idle"
  /\ notified => kernel = "closed" /\ sealed = <<>> /\ pending.len = 0

SendInv == TypeOK /\ Waits /\ Closing /\ (~torn => Argument /\ Position)

-----------------------------------------------------------------------------

(* A run is a sequence of its length. *)
LEMMA RunType ==
  ASSUME NEW a \in Nat, NEW n \in Nat
  PROVE  Run(a, n) \in Seq(Nat) /\ Len(Run(a, n)) = n
         /\ \A i \in 1..n : Run(a, n)[i] = a + i
BY DEF Run

(* An empty run is the empty sequence. *)
LEMMA RunEmpty == ASSUME NEW a \in Nat PROVE Run(a, 0) = <<>>
<1>1. Run(a, 0) \in Seq(Nat) /\ Len(Run(a, 0)) = 0
  BY RunType
<1> QED
  BY <1>1, EmptySeq

(* Two adjacent runs make one. *)
LEMMA RunConcat ==
  ASSUME NEW a \in Nat, NEW m \in Nat, NEW n \in Nat
  PROVE  Run(a, m) \o Run(a + m, n) = Run(a, m + n)
<1> DEFINE s == Run(a, m)
           t == Run(a + m, n)
           u == Run(a, m + n)
<1>1. s \in Seq(Nat) /\ Len(s) = m /\ \A i \in 1..m : s[i] = a + i
  BY RunType
<1>2. t \in Seq(Nat) /\ Len(t) = n /\ \A i \in 1..n : t[i] = a + m + i
  <2>1. a + m \in Nat
    OBVIOUS
  <2> QED
    BY <2>1, RunType
<1>3. u \in Seq(Nat) /\ Len(u) = m + n /\ \A i \in 1..(m + n) : u[i] = a + i
  <2>1. m + n \in Nat
    OBVIOUS
  <2> QED
    BY <2>1, RunType
<1> HIDE DEF s, t, u
<1>4. s \o t \in Seq(Nat) /\ Len(s \o t) = m + n
  BY <1>1, <1>2, ConcatProperties
<1>5. ASSUME NEW i \in 1..(m + n) PROVE (s \o t)[i] = a + i
  <2>1. (s \o t)[i] = IF i <= m THEN s[i] ELSE t[i - m]
    BY <1>1, <1>2, ConcatProperties
  <2>2. CASE i <= m
    BY <2>1, <2>2, <1>1
  <2>3. CASE i > m
    <3>1. i - m \in 1..n /\ a + m + (i - m) = a + i
      BY <2>3
    <3>2. (s \o t)[i] = t[i - m]
      BY <2>1, <2>3
    <3> QED
      BY <3>1, <3>2, <1>2
  <2>4. i <= m \/ i > m
    OBVIOUS
  <2> QED
    BY <2>2, <2>3, <2>4, Zenon
<1>6. s \o t = u
  BY <1>3, <1>4, <1>5, SeqEqual
<1> QED
  BY <1>6 DEF s, t, u
(* What follows the wire directly extends it. *)
LEMMA WireGrows ==
  ASSUME NEW w \in Seq(Nat), w = Run(0, Len(w)), NEW n \in Nat
  PROVE  /\ w \o Run(Len(w), n) \in Seq(Nat)
         /\ Len(w \o Run(Len(w), n)) = Len(w) + n
         /\ w \o Run(Len(w), n) = Run(0, Len(w) + n)
<1>1. Len(w) \in Nat /\ 0 + Len(w) = Len(w)
  OBVIOUS
<1>2. Run(Len(w), n) \in Seq(Nat) /\ Len(Run(Len(w), n)) = n
  BY <1>1, RunType
<1>3. Run(0, Len(w)) \o Run(0 + Len(w), n) = Run(0, Len(w) + n)
  BY <1>1, RunConcat
<1>4. w \o Run(Len(w), n) = Run(0, Len(w) + n)
  BY <1>1, <1>3, Zenon
<1>5. 0 \in Nat /\ Len(w) + n \in Nat
  BY <1>1
<1>6. Run(0, Len(w) + n) \in Seq(Nat) /\ Len(Run(0, Len(w) + n)) = Len(w) + n
  BY <1>5, RunType
<1> QED
  BY <1>4, <1>6, Zenon

-----------------------------------------------------------------------------

(* A first connection satisfies the invariant. *)
LEMMA SendInit == Init => SendInv
<1> SUFFICES ASSUME Init PROVE SendInv
  OBVIOUS
<1>1. Run(0, 0) = <<>>
  BY RunEmpty
<1>2. <<>> \in Seq(Nat) /\ Len(<<>>) = 0
  BY EmptySeq
<1>3. TypeOK
  BY <1>2 DEF Init, TypeOK, NoArg, NoPending, Buffers
<1>4. Waits /\ Closing /\ Argument
  BY DEF Init, Waits, Closing, Argument, NoPending
<1>5. Position
  BY <1>1, <1>2 DEF Init, Position, NoPending, Ahead
<1> QED
  BY <1>3, <1>4, <1>5 DEF SendInv

(* Putting bytes only moves `made' up. *)
LEMMA PutStep == ASSUME SendInv, NEW k \in 1..MaxBytes, Put(k) PROVE SendInv'
<1> USE SendAssumption
<1>1. TypeOK'
  BY DEF SendInv, TypeOK, Put, callVars, sslVars, netVars
<1>2. Waits' /\ Closing'
  BY DEF SendInv, Waits, Closing, Put, callVars, sslVars, netVars
<1>3. ASSUME ~torn PROVE Argument' /\ Position'
  <2>1. Argument'
    BY <1>3 DEF SendInv, TypeOK, Argument, Put, Idle, callVars, sslVars, netVars
  <2>2. Position'
    BY <1>3 DEF SendInv, TypeOK, Position, Ahead, Put, callVars, sslVars, netVars
  <2> QED
    BY <2>1, <2>2
<1> QED
  BY <1>1, <1>2, <1>3 DEF SendInv, Put

(* A streaming write starts with what is not reported. *)
LEMMA WriteStep == ASSUME SendInv, NEW len \in 0..MaxBytes, Write(len) PROVE SendInv'
<1> USE SendAssumption
<1>1. ~torn /\ Argument /\ Position /\ TypeOK
  BY DEF SendInv, Waits, Write
<1>2. reported <= made /\ made \in Nat /\ reported \in Nat /\ len \in Nat
  BY <1>1 DEF TypeOK, Position, Ahead
<1>3. /\ Smaller(len, made - reported) \in Nat
      /\ Smaller(len, made - reported) <= made - reported
  BY <1>2 DEF Smaller
<1>4. TypeOK'
  BY <1>1, <1>3 DEF TypeOK, Write, appVars, sslVars, netVars, Buffers
<1>5. Waits' /\ Closing'
  BY <1>1 DEF SendInv, TypeOK, Waits, Closing, Write, Idle, appVars, sslVars, netVars
<1>6. Argument'
  BY <1>1, <1>3 DEF TypeOK, Argument, Write, appVars, sslVars, netVars
<1>7. Position'
  BY <1>1 DEF TypeOK, Position, Ahead, Write, Idle, appVars, sslVars, netVars
<1> QED
  BY <1>4, <1>5, <1>6, <1>7 DEF SendInv

(* A new message starts where the reported bytes end, or, when a part of    *)
(* the one before is held, the wire is torn.                                *)
LEMMA SendStep ==
  ASSUME SendInv, NEW k \in 1..MaxBytes, NEW buf \in Buffers, Send(k, buf)
  PROVE  SendInv'
<1> USE SendAssumption
<1> DEFINE base == IF Held THEN made ELSE reported
<1>1. base \in Nat /\ k \in Nat
  BY DEF SendInv, TypeOK
<1>2. TypeOK'
  BY <1>1 DEF SendInv, TypeOK, Send, sslVars, netVars
<1>3. Waits' /\ Closing'
  BY DEF SendInv, TypeOK, Waits, Closing, Send, Idle, sslVars, netVars
<1>4. ASSUME ~torn' PROVE Argument' /\ Position'
  <2>1. ~torn /\ ~Held /\ Argument /\ Position
    BY <1>4 DEF SendInv, Send
  <2>2. made' = reported + k /\ reported' = reported
    BY <2>1 DEF Send
  <2>3. Argument'
    BY <1>1, <2>1, <2>2 DEF SendInv, TypeOK, Argument, Send
  <2>4. pending.len = 0 /\ unreported = 0
    BY <2>1 DEF SendInv, TypeOK, Waits, Position, Ahead, Held, Send, Idle
  <2>5. Position'
    BY <1>1, <2>1, <2>2, <2>4
       DEF SendInv, TypeOK, Position, Ahead, Send, Idle, sslVars, netVars
  <2> QED
    BY <2>3, <2>5
<1> QED
  BY <1>2, <1>3, <1>4 DEF SendInv

(* A retry has the argument of the call that was refused. *)
LEMMA ResendStep == ASSUME SendInv, Resend PROVE SendInv'
<1>1. TypeOK'
  BY DEF SendInv, TypeOK, Resend, appVars, sslVars, netVars
<1>2. Waits' /\ Closing'
  BY DEF SendInv, TypeOK, Waits, Closing, Resend, Idle, appVars, sslVars, netVars
<1>3. ASSUME ~torn' PROVE Argument' /\ Position'
  BY <1>3 DEF SendInv, TypeOK, Argument, Position, Ahead, Resend, Idle, appVars, sslVars, netVars
<1> QED
  BY <1>1, <1>2, <1>3 DEF SendInv

(* A plain socket takes a prefix of the argument. *)
LEMMA PlainWriteStep == ASSUME SendInv, NEW n \in -1..MaxBytes, PlainWrite(n) PROVE SendInv'
<1> USE SendAssumption
<1>1. n \in Int /\ pending.len = 0 /\ unreported = 0 /\ total = 0 /\ sealed = <<>>
  BY DEF SendInv, TypeOK, Waits, PlainWrite
<1>2. n > 0 => Run(arg.after, n) \in Seq(Nat)
  BY <1>1, RunType DEF SendInv, TypeOK
<1>3. wire' \in Seq(Nat)
  BY <1>1, <1>2, ConcatProperties DEF SendInv, TypeOK, PlainWrite
<1>4. reported' \in Nat /\ result' \in {"none", "sent", "again", "error"} /\ torn' \in BOOLEAN
  BY <1>1 DEF SendInv, TypeOK, PlainWrite, Return
<1>5. TypeOK'
  BY <1>3, <1>4 DEF SendInv, TypeOK, PlainWrite, Return, sslVars
<1>6. Waits' /\ Closing'
  BY <1>1 DEF SendInv, TypeOK, Waits, Closing, PlainWrite, Return, sslVars
<1>7. ASSUME ~torn' PROVE Argument' /\ Position'
  <2>1. ~torn /\ Argument /\ Position /\ arg.after = reported /\ Len(wire) = reported
    BY <1>1, <1>7 DEF SendInv, TypeOK, Argument, Position, Ahead, PlainWrite, Return
  <2>2. Run(Len(wire'), 0) = <<>>
    BY <1>3, RunEmpty
  <2>3. CASE n <= 0
    BY <1>1, <2>1, <2>2, <2>3
       DEF SendInv, TypeOK, Argument, Position, Ahead, PlainWrite, Return, sslVars
  <2>4. CASE n > 0
    <3>1. /\ Len(wire') = Len(wire) + n
          /\ wire' = Run(0, Len(wire'))
      <4>1. wire' = wire \o Run(Len(wire), n) /\ n \in Nat
        BY <1>1, <2>1, <2>4 DEF PlainWrite
      <4>2. wire \in Seq(Nat) /\ wire = Run(0, Len(wire))
        BY <2>1 DEF SendInv, TypeOK, Position
      <4> QED
        BY <4>1, <4>2, WireGrows
    <3>2. reported' = reported + n /\ reported' <= made
      <4>1. n \in 0..arg.len
        BY <1>1, <2>4 DEF PlainWrite
      <4>2. ~(~streaming /\ 0 < n /\ n < arg.len)
        BY <1>7, Zenon DEF PlainWrite, Return
      <4>3. ~streaming => n = arg.len
        BY <4>1, <4>2, <2>4 DEF SendInv, TypeOK
      <4>4. reported' = IF streaming THEN reported + n ELSE made
        BY <1>1, <2>4 DEF PlainWrite, Return
      <4>5. arg.len <= made - reported /\ (~streaming => arg.len = made - reported)
        BY <2>1 DEF SendInv, TypeOK, Argument, PlainWrite
      <4> QED
        BY <2>1, <4>1, <4>3, <4>4, <4>5 DEF SendInv, TypeOK
    <3>3. Argument'
      BY <1>1, <2>1, <2>4, <3>2 DEF SendInv, TypeOK, Argument, PlainWrite, Return
    <3>4. Position'
      <4>1. /\ call' = "idle" /\ made' = made /\ unreported' = 0
            /\ pending'.len = 0 /\ sealed' = <<>>
        BY <1>1 DEF PlainWrite, Return, sslVars
      <4>2. Ahead' = 0
        BY <4>1 DEF Ahead
      <4>3. Len(wire') = reported' /\ reported' \in Nat
        BY <1>4, <2>1, <3>1, <3>2
      <4>4. Len(wire') = reported' + Ahead' /\ Len(wire') + pending'.len <= made'
        BY <3>2, <4>1, <4>2, <4>3
      <4>5. sealed' = Run(Len(wire'), pending'.len)
        BY <2>2, <4>1, Zenon
      <4> QED
        BY <3>1, <4>4, <4>5, Zenon DEF Position
    <3> QED
      BY <3>3, <3>4
  <2> QED
    BY <1>1, <2>3, <2>4
<1> QED
  BY <1>5, <1>6, <1>7 DEF SendInv

(* A call that ends with nothing reported leaves the client as it was. *)
LEMMA ReturnNothing ==
  ASSUME TypeOK, NEW n \in {-1, 0}, Return(n)
  PROVE  /\ call' = "idle" /\ reported' = reported /\ torn' = torn /\ made' = made
         /\ arg' = arg /\ tls' = tls /\ streaming' = streaming
         /\ result' \in {"none", "sent", "again", "error"}
<1>1. n \in Int /\ n <= 0 /\ ~(0 < n)
  OBVIOUS
<1>2. torn' = torn
  BY <1>1, Zenon DEF TypeOK, Return
<1> QED
  BY <1>1, <1>2 DEF TypeOK, Return

(* SSL_write refuses the call, or starts behind what went out before. *)
LEMMA SslWriteStep == ASSUME SendInv, SslWrite PROVE SendInv'
<1>1. CASE shut # "none" \/ arg.len < unreported
  <2>1. PICK n \in {-1, 0} : Return(n)
    BY <1>1 DEF SslWrite, Misuse
  <2>2. /\ call' = "idle" /\ reported' = reported /\ torn' = torn /\ made' = made
        /\ arg' = arg /\ tls' = tls /\ streaming' = streaming
        /\ result' \in {"none", "sent", "again", "error"}
    BY <2>1, ReturnNothing DEF SendInv
  <2>3. UNCHANGED <<sslVars, netVars>> /\ call = "enter"
    BY <1>1 DEF SslWrite
  <2> QED
    BY <2>2, <2>3
       DEF SendInv, TypeOK, Waits, Closing, Argument, Position, Ahead, sslVars, netVars
<1>2. CASE ~(shut # "none" \/ arg.len < unreported)
  BY <1>2 DEF SendInv, TypeOK, Waits, Closing, Argument, Position, Ahead, SslWrite,
              appVars, netVars
<1> QED
  BY <1>1, <1>2

(* A retry that BoringSSL refuses leaves the record where it is. *)
LEMMA BadRetryStep == ASSUME SendInv, BadRetry PROVE SendInv'
<1>1. PICK n \in {-1, 0} : Fail(n)
  BY DEF BadRetry, Misuse
<1>2. /\ call' = "idle" /\ reported' = reported /\ torn' = torn /\ made' = made
      /\ arg' = arg /\ tls' = tls /\ streaming' = streaming
      /\ result' \in {"none", "sent", "again", "error"}
  BY <1>1, ReturnNothing DEF SendInv, Fail
<1>3. /\ unreported' = total /\ total' = 0 /\ UNCHANGED shut
      /\ UNCHANGED <<pending, sealed, netVars>>
      /\ call = "record" /\ pending.len # 0
  BY <1>1 DEF BadRetry, Fail, Consistent
<1> QED
  BY <1>2, <1>3 DEF SendInv, TypeOK, Waits, Closing, Argument, Position, Ahead, netVars

(* The next fragment is a part of the argument. *)
LEMMA ToWriteType ==
  ASSUME SendInv, call = "record"
  PROVE  ToWrite \in Nat /\ ToWrite <= arg.len - total /\ (ToWrite = 0 => total = arg.len)
BY SendAssumption DEF SendInv, TypeOK, Waits, ToWrite, Smaller

(* A record that waits for the next call follows the wire directly. *)
LEMMA KeepRecordStep == ASSUME SendInv, KeepRecord PROVE SendInv'
<1>1. Refusal \in {-1, 0} /\ Fail(Refusal) /\ call = "record"
  BY DEF KeepRecord, Refusal
<1>2. /\ call' = "idle" /\ reported' = reported /\ torn' = torn /\ made' = made
      /\ arg' = arg /\ tls' = tls /\ streaming' = streaming
      /\ result' \in {"none", "sent", "again", "error"}
  BY <1>1, ReturnNothing DEF SendInv, Fail
<1>3. unreported' = total /\ total' = 0 /\ UNCHANGED shut /\ UNCHANGED netVars
  BY <1>1 DEF KeepRecord, Fail
<1>4. CASE pending.len > 0
  <2>1. UNCHANGED <<pending, sealed>>
    BY <1>4 DEF KeepRecord
  <2> QED
    BY <1>1, <1>2, <1>3, <1>4, <2>1
       DEF SendInv, TypeOK, Waits, Closing, Argument, Position, Ahead, netVars
<1>5. CASE ~(pending.len > 0)
  <2>1. pending.len = 0 /\ ToWrite \in Nat /\ ToWrite > 0 /\ ToWrite <= arg.len - total
    BY <1>1, <1>5, ToWriteType DEF SendInv, TypeOK, KeepRecord
  <2>2. pending' = [len |-> ToWrite, buf |-> arg.buf] /\ sealed' = Run(arg.after + total, ToWrite)
    BY <1>5 DEF KeepRecord, Fragment
  <2>3. arg.after + total \in Nat
    BY DEF SendInv, TypeOK
  <2>4. sealed' \in Seq(Nat) /\ Len(sealed') = ToWrite
    BY <2>1, <2>2, <2>3, RunType
  <2>5. sealed' # <<>>
    BY <2>1, <2>4
  <2>6. TypeOK'
    BY <1>2, <1>3, <2>1, <2>2, <2>4 DEF SendInv, TypeOK, netVars
  <2>7. Waits' /\ Closing'
    BY <1>1, <1>2, <1>3, <2>1, <2>2, <2>5 DEF SendInv, TypeOK, Waits, Closing, netVars
  <2>8. ASSUME ~torn' PROVE Argument' /\ Position'
    <3>1. ~torn /\ Argument /\ Position
      BY <1>2, <2>8 DEF SendInv
    <3>2. Argument'
      BY <1>1, <1>2, <3>1 DEF Argument
    <3>3. Len(wire) = arg.after + total /\ Len(wire) + ToWrite <= made
      BY <1>1, <2>1, <3>1 DEF SendInv, TypeOK, Argument, Position, Ahead
    <3>4. Position'
      BY <1>1, <1>2, <1>3, <2>1, <2>2, <3>1, <3>3
         DEF SendInv, TypeOK, Position, Ahead, netVars
    <3> QED
      BY <3>2, <3>4
  <2> QED
    BY <2>6, <2>7, <2>8 DEF SendInv
<1> QED
  BY <1>4, <1>5

(* A round that succeeds: the wire has grown by the bytes it reports. *)
LEMMA AdvanceStep ==
  ASSUME SendInv, call = "record", NEW w \in Nat, Advance(w),
         total + w <= arg.len, w = 0 => total = arg.len,
         pending' \in [len : Nat, buf : Buffers], pending'.len = 0, sealed' = <<>>,
         wire' \in Seq(Nat), ~torn => wire' = wire \o Run(Len(wire), w)
  PROVE  SendInv'
<1>1. UNCHANGED <<shut, kernel, notified>> /\ sealed' \in Seq(Nat)
  BY EmptySeq DEF Advance
<1>2. ~notified /\ kernel # "closed"
  BY DEF SendInv, Closing
<1>3. ASSUME ~torn
      PROVE  /\ wire' = Run(0, Len(wire')) /\ Len(wire') = reported + total + w
             /\ sealed' = Run(Len(wire'), pending'.len)
             /\ Argument /\ arg.after = reported /\ arg.len <= made - reported
  <2>1. Argument /\ Position
    BY <1>3 DEF SendInv
  <2>2. wire \in Seq(Nat) /\ wire = Run(0, Len(wire)) /\ wire' = wire \o Run(Len(wire), w)
    BY <1>3, <2>1 DEF SendInv, TypeOK, Position
  <2>3. Len(wire') = Len(wire) + w /\ wire' = Run(0, Len(wire'))
    <3>1. /\ Len(wire \o Run(Len(wire), w)) = Len(wire) + w
          /\ wire \o Run(Len(wire), w) = Run(0, Len(wire) + w)
      BY <2>2, WireGrows, Zenon
    <3> QED
      BY <2>2, <3>1, Zenon
  <2>4. Len(wire) = reported + total
    BY <2>1 DEF Position, Ahead
  <2>5. sealed' = Run(Len(wire'), pending'.len)
    BY RunEmpty
  <2> QED
    BY <2>1, <2>3, <2>4, <2>5 DEF Argument, SendInv, TypeOK
<1>4. CASE total + w = arg.len
  <2>1. PICK n \in (IF arg.len = 0 THEN Misuse ELSE {arg.len}) : Return(n)
    BY <1>4 DEF Advance
  <2>2. unreported' = 0 /\ total' = 0
    BY <1>4 DEF Advance
  <2>3. n \in Int /\ n <= arg.len /\ (n <= 0 => arg.len = 0) /\ (n > 0 => n = arg.len)
    BY <2>1 DEF SendInv, TypeOK, Misuse
  <2>4. torn' = torn
    <3>1. ~(0 < n /\ n < arg.len)
      BY <2>3 DEF SendInv, TypeOK
    <3> QED
      BY <2>1, <3>1, Zenon DEF SendInv, TypeOK, Return
  <2>5. /\ call' = "idle" /\ UNCHANGED <<tls, streaming, made, arg>>
        /\ reported' = IF n <= 0 THEN reported ELSE IF streaming THEN reported + n ELSE made
        /\ result' \in {"none", "sent", "again", "error"}
    BY <2>1, <2>3 DEF Return
  <2>6. TypeOK'
    BY <1>1, <2>2, <2>3, <2>4, <2>5 DEF SendInv, TypeOK
  <2>7. Waits' /\ Closing'
    BY <1>1, <1>2, <2>2, <2>4, <2>5 DEF SendInv, Waits, Closing
  <2>8. ASSUME ~torn' PROVE Argument' /\ Position'
    <3>1. ~torn
      BY <2>4, <2>8
    <3>2. /\ wire' = Run(0, Len(wire')) /\ Len(wire') = reported + total + w
          /\ sealed' = Run(Len(wire'), pending'.len)
          /\ Argument /\ arg.after = reported /\ arg.len <= made - reported
      BY <3>1, <1>3
    <3>3. reported' = reported + arg.len /\ reported' <= made
      <4>1. ~streaming => arg.len = made - reported
        BY <3>2 DEF SendInv, TypeOK, Argument
      <4>2. made \in Nat /\ reported \in Nat /\ arg.len \in Nat
        BY DEF SendInv, TypeOK
      <4>3. CASE n <= 0
        BY <2>3, <2>5, <3>2, <4>2, <4>3
      <4>4. CASE n > 0 /\ streaming
        BY <2>3, <2>5, <3>2, <4>2, <4>4
      <4>5. CASE n > 0 /\ ~streaming
        BY <2>3, <2>5, <3>2, <4>1, <4>2, <4>5
      <4> QED
        BY <2>3, <4>3, <4>4, <4>5
    <3>4. Argument'
      BY <2>5, <3>2, <3>3 DEF SendInv, TypeOK, Argument
    <3>5. Position'
      <4>1. reported \in Nat /\ arg.len \in Nat /\ reported' \in Nat
        BY <2>6 DEF SendInv, TypeOK
      <4>2. Len(wire') = reported + (total + w)
        BY <3>2 DEF SendInv, TypeOK
      <4>3. Len(wire') = reported'
        BY <1>4, <3>3, <4>2
      <4>4. Ahead' = 0
        BY <2>2, <2>5 DEF Ahead
      <4>5. Len(wire') = reported' + Ahead' /\ Len(wire') + pending'.len <= made'
        BY <2>5, <3>3, <4>1, <4>3, <4>4
      <4> QED
        BY <3>2, <4>5, Zenon DEF Position
    <3> QED
      BY <3>4, <3>5
  <2> QED
    BY <2>6, <2>7, <2>8 DEF SendInv
<1>5. CASE total + w # arg.len
  <2>1. /\ total' = total + w
        /\ UNCHANGED <<tls, streaming, appVars, callVars, unreported>>
    BY <1>5 DEF Advance
  <2>2. TypeOK'
    BY <1>1, <2>1 DEF SendInv, TypeOK, appVars, callVars
  <2>3. Waits' /\ Closing'
    BY <1>1, <1>2, <2>1 DEF SendInv, Waits, Closing, appVars, callVars
  <2>4. ASSUME ~torn' PROVE Argument' /\ Position'
    <3>1. ~torn
      BY <2>1, <2>4 DEF appVars
    <3>2. /\ wire' = Run(0, Len(wire')) /\ Len(wire') = reported + total + w
          /\ sealed' = Run(Len(wire'), pending'.len)
          /\ Argument /\ arg.after = reported /\ arg.len <= made - reported
      BY <3>1, <1>3
    <3>3. Argument'
      BY <2>1, <3>2 DEF Argument, appVars, callVars
    <3>4. Position'
      BY <2>1, <3>2 DEF SendInv, TypeOK, Position, Ahead, appVars, callVars
    <3> QED
      BY <3>3, <3>4
  <2> QED
    BY <2>2, <2>3, <2>4 DEF SendInv
<1> QED
  BY <1>4, <1>5

(* The record that waited goes out. *)
LEMMA FlushPendingStep == ASSUME SendInv, FlushPending PROVE SendInv'
<1>1. ToWrite \in Nat /\ ToWrite <= arg.len - total
  BY ToWriteType DEF FlushPending
<1>2. pending.len \in Nat /\ pending.len > 0 /\ total + pending.len <= arg.len
  BY <1>1 DEF SendInv, TypeOK, FlushPending, Consistent
<1>3. pending' \in [len : Nat, buf : Buffers] /\ pending'.len = 0 /\ sealed' = <<>>
  BY DEF FlushPending, NoPending, Buffers
<1>4. wire' = wire \o sealed /\ wire' \in Seq(Nat)
  BY ConcatProperties DEF SendInv, TypeOK, FlushPending
<1>5. ~torn => wire' = wire \o Run(Len(wire), pending.len)
  BY <1>4 DEF SendInv, Position
<1>6. PICK w \in Nat : w = pending.len
  BY <1>2
<1>7. call = "record" /\ Advance(w)
  BY <1>6 DEF FlushPending, Advance
<1>8. /\ total + w <= arg.len /\ (w = 0 => total = arg.len)
      /\ (~torn => wire' = wire \o Run(Len(wire), w))
  BY <1>2, <1>5, <1>6
<1>9. wire' \in Seq(Nat)
  BY <1>4
<1> QED
  BY <1>3, <1>7, <1>8, <1>9, AdvanceStep

(* The next fragment goes out at once. *)
LEMMA WriteRecordStep == ASSUME SendInv, WriteRecord PROVE SendInv'
<1>1. /\ ToWrite \in Nat /\ ToWrite <= arg.len - total
      /\ (ToWrite = 0 => total = arg.len) /\ total + ToWrite <= arg.len
  BY ToWriteType DEF WriteRecord, SendInv, TypeOK
<1>2. pending' \in [len : Nat, buf : Buffers] /\ pending'.len = 0 /\ sealed' = <<>>
  BY DEF WriteRecord, SendInv, TypeOK, Waits
<1>3. arg.after + total \in Nat
  BY DEF SendInv, TypeOK
<1>4. wire' = wire \o Run(arg.after + total, ToWrite) /\ wire' \in Seq(Nat)
  BY <1>1, <1>3, RunType, ConcatProperties DEF SendInv, TypeOK, WriteRecord, Fragment
<1>5. ~torn => arg.after + total = Len(wire)
  BY DEF SendInv, TypeOK, Argument, Position, Ahead, WriteRecord
<1>6. ~torn => wire' = wire \o Run(Len(wire), ToWrite)
  BY <1>4, <1>5
<1>7. PICK w \in Nat : w = ToWrite
  BY <1>1
<1>8. call = "record" /\ Advance(w)
  BY <1>7 DEF WriteRecord, Advance
<1>9. /\ total + w <= arg.len /\ (w = 0 => total = arg.len)
      /\ (~torn => wire' = wire \o Run(Len(wire), w))
  BY <1>1, <1>6, <1>7
<1>10. wire' \in Seq(Nat)
  BY <1>4
<1> QED
  BY <1>2, <1>8, <1>9, <1>10, AdvanceStep

(* A fatal alert, a broken connection, close() and connect(). *)
LEMMA EndSteps ==
  ASSUME SendInv, ReadFails \/ KernelBreaks \/ Close \/ Connect
  PROVE  SendInv'
<1>1. CASE ReadFails
  BY <1>1 DEF SendInv, TypeOK, Waits, Closing, Argument, Position, Ahead, ReadFails,
              appVars, callVars, netVars
<1>2. CASE KernelBreaks
  BY <1>2 DEF SendInv, TypeOK, Waits, Closing, Argument, Position, Ahead, KernelBreaks,
              appVars, callVars, sslVars
<1>3. CASE Close
  <2>1. notified' \in BOOLEAN /\ (notified' => sealed = <<>>)
    BY <1>3, Zenon DEF Close, CanNotify
  <2>2. notified' => pending.len = 0
    BY <2>1 DEF SendInv, TypeOK, Waits
  <2>3. /\ call = "idle" /\ kernel' = "closed"
        /\ UNCHANGED <<tls, streaming, appVars, callVars, sslVars, wire>>
    BY <1>3 DEF Close, Idle
  <2> QED
    BY <2>1, <2>2, <2>3
       DEF SendInv, TypeOK, Waits, Closing, Argument, Position, Ahead, appVars, callVars, sslVars
<1>4. CASE Connect
  <2>1. Run(0, 0) = <<>> /\ <<>> \in Seq(Nat) /\ Len(<<>>) = 0
    BY RunEmpty, EmptySeq
  <2>2. TypeOK'
    BY <1>4, <2>1 DEF SendInv, TypeOK, Connect, NoArg, NoPending, Buffers
  <2>3. Waits' /\ Closing' /\ Argument'
    BY <1>4 DEF Waits, Closing, Argument, Connect, NoPending
  <2>4. Position'
    BY <1>4, <2>1 DEF Position, Ahead, Connect, NoPending
  <2> QED
    BY <2>2, <2>3, <2>4 DEF SendInv
<1> QED
  BY <1>1, <1>2, <1>3, <1>4

(* Every step keeps the invariant. *)
LEMMA SendNext == ASSUME SendInv, [Next]_vars PROVE SendInv'
<1>1. CASE UNCHANGED vars
  BY <1>1 DEF SendInv, TypeOK, Waits, Closing, Argument, Position, Ahead, vars,
              appVars, callVars, sslVars, netVars
<1>2. CASE Next
  BY <1>2, PutStep, WriteStep, SendStep, ResendStep, PlainWriteStep, SslWriteStep,
     BadRetryStep, FlushPendingStep, WriteRecordStep, KeepRecordStep, EndSteps DEF Next
<1> QED
  BY <1>1, <1>2

(* The invariant holds in every reachable state. *)
LEMMA SendInvHolds == Spec => []SendInv
BY SendInit, SendNext, PTL DEF Spec

(* The state is well formed, and so is every argument and every result. *)
THEOREM SendTypes == Spec => []TypeOK
<1>1. SendInv => TypeOK
  BY DEF SendInv
<1> QED
  BY <1>1, SendInvHolds, PTL

(* For every fragment size, the wire has the application's bytes in order,  *)
(* none missing and none twice, through every refusal and retry of          *)
(* SSL_write and every partial write of a streaming caller.                 *)
THEOREM SendOrder == Spec => []WireIsStream
<1>1. SendInv => WireIsStream
  BY DEF SendInv, Position, WireIsStream
<1> QED
  BY <1>1, SendInvHolds, PTL

(* close() sends a close_notify only behind exactly the bytes that were     *)
(* reported.                                                                *)
THEOREM SendCleanClose == Spec => []CleanClose
<1>1. SendInv => CleanClose
  <2> SUFFICES ASSUME SendInv, notified, ~torn PROVE wire = Run(0, reported)
    BY DEF CleanClose
  <2>1. call = "idle" /\ pending.len = 0
    BY DEF SendInv, Closing
  <2>2. Len(wire) = reported
    BY <2>1 DEF SendInv, TypeOK, Waits, Position, Ahead
  <2> QED
    BY <2>2 DEF SendInv, Position
<1> QED
  BY <1>1, SendInvHolds, PTL

-----------------------------------------------------------------------------

(* What a call returns never takes back a byte that was reported. *)
LEMMA ReturnReports ==
  ASSUME TypeOK, reported <= made, NEW n \in Int, Return(n), ~torn'
  PROVE  ~torn /\ reported <= reported'
<1>1. ~torn
  BY Zenon DEF Return
<1>2. reported' = IF n <= 0 THEN reported ELSE IF streaming THEN reported + n ELSE made
  BY DEF Return
<1> QED
  BY <1>1, <1>2 DEF TypeOK

(* Within a connection, nothing on the wire and nothing reported is taken   *)
(* back.                                                                    *)
LEMMA NothingTakenBack ==
  ASSUME SendInv, Next, ~Connect, ~torn'
  PROVE  ~torn /\ reported <= reported' /\ Len(wire) <= Len(wire')
<1> USE DEF appVars, callVars, sslVars, netVars
<1>1. TypeOK /\ reported \in Nat /\ wire \in Seq(Nat) /\ Len(wire) \in Nat
  BY DEF SendInv, TypeOK
<1>2. ~torn => reported <= made
  BY DEF SendInv, TypeOK, Position, Ahead
<1>3. ASSUME NEW k \in 1..MaxBytes, Put(k)
      PROVE ~torn /\ reported <= reported' /\ Len(wire) <= Len(wire')
  BY <1>1, <1>3 DEF Put
<1>4. ASSUME NEW len \in 0..MaxBytes, Write(len)
      PROVE ~torn /\ reported <= reported' /\ Len(wire) <= Len(wire')
  BY <1>1, <1>4 DEF Write
<1>5. ASSUME NEW k \in 1..MaxBytes, NEW buf \in Buffers, Send(k, buf)
      PROVE ~torn /\ reported <= reported' /\ Len(wire) <= Len(wire')
  <2>1. ~torn /\ ~Held
    BY <1>5, Zenon DEF Send
  <2>2. reported' = reported /\ wire' = wire
    BY <1>5, <2>1 DEF Send
  <2> QED
    BY <1>1, <2>1, <2>2
<1>6. CASE Resend \/ ReadFails \/ KernelBreaks \/ Close
  <2>1. torn' = torn /\ reported' = reported /\ wire' = wire
    BY <1>6 DEF Resend, ReadFails, KernelBreaks, Close
  <2> QED
    BY <1>1, <2>1
<1>7. ASSUME NEW n \in -1..MaxBytes, PlainWrite(n)
      PROVE ~torn /\ reported <= reported' /\ Len(wire) <= Len(wire')
  <2>1. n \in Int /\ Return(n)
    BY <1>7, SendAssumption DEF PlainWrite
  <2>2. ~torn /\ reported <= made
    BY <1>2, <2>1, Zenon DEF Return
  <2>3. ~torn /\ reported <= reported'
    BY <1>1, <2>1, <2>2, ReturnReports
  <2>4. CASE n > 0
    <3>1. Run(arg.after, n) \in Seq(Nat) /\ Len(Run(arg.after, n)) = n
      BY <2>1, <2>4, RunType DEF SendInv, TypeOK
    <3>2. wire' = wire \o Run(arg.after, n)
      BY <1>7, <2>4 DEF PlainWrite
    <3> QED
      BY <1>1, <2>1, <2>3, <2>4, <3>1, <3>2, ConcatProperties
  <2>5. CASE ~(n > 0)
    BY <1>1, <1>7, <2>3, <2>5 DEF PlainWrite
  <2> QED
    BY <2>4, <2>5
<1>8. CASE SslWrite \/ BadRetry \/ KeepRecord
  <2>1. (\E n \in {-1, 0} : Return(n)) \/ UNCHANGED <<reported, torn>>
    BY <1>8 DEF SslWrite, BadRetry, KeepRecord, Fail, Misuse, Refusal
  <2>2. UNCHANGED wire
    BY <1>8 DEF SslWrite, BadRetry, KeepRecord
  <2>3. CASE \E n \in {-1, 0} : Return(n)
    BY <1>1, <2>2, <2>3, ReturnNothing
  <2>4. CASE UNCHANGED <<reported, torn>>
    BY <1>1, <2>2, <2>4
  <2> QED
    BY <2>1, <2>3, <2>4
<1>9. CASE FlushPending \/ WriteRecord
  <2>1. PICK w \in Seq(Nat) : wire' = wire \o w
    <3>1. CASE FlushPending
      BY <3>1 DEF FlushPending, SendInv, TypeOK
    <3>2. CASE WriteRecord
      <4>1. ToWrite \in Nat /\ arg.after + total \in Nat
        <5>1. call = "record"
          BY <3>2 DEF WriteRecord
        <5>2. ToWrite \in Nat
          BY <5>1, ToWriteType
        <5>3. arg.after \in Nat /\ total \in Nat
          BY DEF SendInv, TypeOK
        <5> QED
          BY <5>2, <5>3
      <4>2. Fragment \in Seq(Nat)
        BY <4>1, RunType DEF Fragment
      <4> QED
        BY <3>2, <4>2 DEF WriteRecord
    <3> QED
      BY <1>9, <3>1, <3>2
  <2>2. Len(wire) <= Len(wire')
    BY <1>1, <2>1, ConcatProperties
  <2>3. (\E n \in Int : Return(n)) \/ UNCHANGED <<reported, torn>>
    BY <1>1, <1>9 DEF FlushPending, WriteRecord, Advance, Misuse, TypeOK
  <2>4. ASSUME NEW n \in Int, Return(n) PROVE ~torn /\ reported <= reported'
    <3>1. ~torn /\ reported <= made
      BY <1>2, <2>4, Zenon DEF Return
    <3> QED
      BY <1>1, <2>4, <3>1, ReturnReports
  <2> QED
    BY <1>1, <2>2, <2>3, <2>4
<1> QED
  BY <1>3, <1>4, <1>5, <1>6, <1>7, <1>8, <1>9 DEF Next

(* What the invariant says of the three positions of the stream. *)
InStream ==
  /\ wire = Run(0, Len(wire)) /\ Len(wire) \in Nat
  /\ reported <= Len(wire) /\ Len(wire) <= made

(* The invariant says so. *)
LEMMA SendInStream == SendInv /\ ~torn => InStream
BY DEF SendInv, TypeOK, Position, Ahead, InStream

(* A step of the send path is a step of the byte stream, or changes nothing *)
(* of it.                                                                   *)
LEMMA StepImplements ==
  ASSUME SendInv, SendInv', [Next]_vars
  PROVE  [Stream!Next]_(Stream!streamVars)
<1>1. CASE UNCHANGED vars
  BY <1>1 DEF vars, appVars, netVars, Stream!streamVars
<1>2. CASE torn'
  BY <1>2, Zenon DEF SendInv, TypeOK, Stream!Next, Stream!Break
<1>3. CASE Connect
  BY <1>3 DEF Connect, Stream!Next, Stream!Restart
<1>4. CASE Next /\ ~Connect /\ ~torn'
  <2>1. ~torn /\ reported <= reported' /\ Len(wire) <= Len(wire')
    BY <1>4, NothingTakenBack
  <2>2. /\ wire \in Seq(Nat) /\ wire = Run(0, Len(wire)) /\ Len(wire) \in Nat
        /\ wire' = Run(0, Len(wire')) /\ Len(wire') \in Nat
        /\ reported' <= Len(wire') /\ Len(wire') <= made'
    <3>1. wire \in Seq(Nat) /\ wire = Run(0, Len(wire)) /\ Len(wire) \in Nat
      BY <2>1 DEF SendInv, TypeOK, Position
    <3>2. (SendInv /\ ~torn => InStream)'
      BY SendInStream, PTL
    <3> QED
      BY <1>4, <3>1, <3>2, Zenon DEF InStream
  <2>3. PICK n \in 0..Len(wire') : Len(wire') = Len(wire) + n
    <3> DEFINE d == Len(wire') - Len(wire)
    <3>1. d \in 0..Len(wire') /\ Len(wire') = Len(wire) + d
      BY <2>1, <2>2
    <3> HIDE DEF d
    <3> QED
      BY <3>1
  <2>4. wire' = wire \o Run(Len(wire), n)
    <3>1. n \in Nat
      OBVIOUS
    <3> QED
      BY <2>2, <2>3, <3>1, WireGrows
  <2>5. wire' = wire \o Stream!Run(Len(wire), n)
    BY <2>4 DEF Run, Stream!Run
  <2> QED
    BY <1>4, <2>1, <2>2, <2>5 DEF Stream!Next, Stream!Move
<1> QED
  BY <1>1, <1>2, <1>3, <1>4

(* The send path implements the byte stream, on both sockets, for both      *)
(* kinds of callers and for every fragment size: what the application was   *)
(* told is written is on the wire, in order.                                *)
THEOREM SendImplementsStream == Spec => ImplementsStream
<1>1. Init => Stream!Init
  BY DEF Init, Stream!Init
<1>2. SendInv /\ SendInv' /\ [Next]_vars => [Stream!Next]_(Stream!streamVars)
  BY StepImplements
<1> QED
  BY <1>1, <1>2, SendInvHolds, PTL DEF Spec, ImplementsStream, Stream!Spec
=============================================================================
