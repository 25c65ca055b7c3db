----------------------------- MODULE ByteBuffer -----------------------------
(***************************************************************************)
(* The part of java.nio.ByteBuffer that the clients use, as operators on a *)
(* record.  The class belongs to the JDK; it is modelled from the calls    *)
(* the clients make.                                                       *)
(*                                                                         *)
(* A cell of `data' does not hold a byte but the NUMBER of a byte in the   *)
(* stream it came from (0 is the zero that allocateDirect leaves there).   *)
(* A lost, repeated, reordered or stale byte is then visible as a wrong    *)
(* number, whatever the bytes' values are.                                 *)
(***************************************************************************)
EXTENDS Integers

(* Buffers of capacity cap, in the states ByteBuffer allows. *)
Buffers(cap) ==
  { b \in [cap : {cap}, pos : 0..cap, lim : 0..cap, data : [0..cap-1 -> Nat]] :
      b.pos <= b.lim }

Allocate(cap) ==
  [cap |-> cap, pos |-> 0, lim |-> cap, data |-> [i \in 0..cap-1 |-> 0]]

Remaining(b) == b.lim - b.pos

(* b with position p, limit l and contents d. *)
Set(b, p, l, d) == [cap |-> b.cap, pos |-> p, lim |-> l, data |-> d]

Clear(b) == Set(b, 0, b.cap, b.data)

Flip(b) == Set(b, 0, b.pos, b.data)

Compact(b) ==
  Set(b, b.lim - b.pos, b.cap,
      [i \in 0..b.cap-1 |->
         IF i < b.lim - b.pos THEN b.data[b.pos + i] ELSE b.data[i]])

(* limit(n), which also pulls the position down to n. *)
SetLimit(b, n) == Set(b, IF b.pos > n THEN n ELSE b.pos, n, b.data)

(* position(position() + n) *)
Advance(b, n) == Set(b, b.pos + n, b.lim, b.data)

(* n relative puts of the bytes numbered after + 1, after + 2, ... *)
PutRun(b, after, n) ==
  Set(b, b.pos + n, b.lim,
      [i \in 0..b.cap-1 |->
         IF b.pos <= i /\ i < b.pos + n THEN after + (i - b.pos) + 1 ELSE b.data[i]])

(* The cells [from, to) hold exactly the bytes after + 1, after + 2, ...    *)
Holds(b, from, to, after) ==
  \A i \in 0..b.cap-1 : from <= i /\ i < to => b.data[i] = after + (i - from) + 1
=============================================================================
