----------------------------- MODULE ByteStream -----------------------------
(***************************************************************************)
(* What a connection promises to the application that writes to it: the    *)
(* bytes the application has made, 1, 2, ..., reach the wire in this       *)
(* order, none missing, repeated or made up, and a byte that was reported  *)
(* as written is on the wire.  The promise ends when the connection breaks *)
(* it openly (`whole' becomes FALSE) and starts again with a new           *)
(* connection.                                                             *)
(***************************************************************************)
EXTENDS Integers, Sequences

VARIABLES
  made,       \* the last byte the application has made
  reported,   \* the last byte it was told is written
  arrived,    \* the bytes on the wire
  whole       \* is the promise still in force?

streamVars == <<made, reported, arrived, whole>>

(* The bytes after + 1, ..., after + n. *)
Run(after, n) == [i \in 1..n |-> after + i]

Init == made = 0 /\ reported = 0 /\ arrived = <<>> /\ whole = TRUE

(* Bytes are made, some of them arrive, some of those are reported.  A byte *)
(* that was reported or has arrived is never taken back.                    *)
Move ==
  /\ whole /\ whole'
  /\ \E n \in 0..Len(arrived') : arrived' = arrived \o Run(Len(arrived), n)
  /\ reported <= reported' /\ reported' <= Len(arrived') /\ Len(arrived') <= made'

Break == whole' = FALSE

Restart == made' = 0 /\ reported' = 0 /\ arrived' = <<>> /\ whole'

Next == Move \/ Break \/ Restart

Spec == Init /\ [][Next]_streamVars
=============================================================================
