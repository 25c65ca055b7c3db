--------------------------- MODULE MessageChannel ---------------------------
(***************************************************************************)
(* What a WebSocket client promises an application that reads: a FIFO of   *)
(* whole messages per connection.  There are no bytes, buffers or partial  *)
(* reads here.  WebSocketReader is shown to implement this specification.  *)
(***************************************************************************)
EXTENDS Integers

CONSTANT MaxMessages    \* the messages of a connection whose delivery is promised

VARIABLES
  sent,       \* how many messages will reach the client whole
  delivered,  \* how many of them the application has been told about
  told,       \* the number of the message the last call told about, 0 if none
  open        \* is the connection up, with nothing of it dropped?

vars == <<sent, delivered, told, open>>

Init == sent = 0 /\ delivered = 0 /\ told = 0 /\ open = FALSE

(* A new connection: its messages are counted from 1. *)
Open ==
  /\ sent' \in Nat /\ delivered' = 0 /\ told' = 0
  /\ open' \in BOOLEAN

(* The application is told about exactly the next message. *)
Deliver ==
  /\ delivered < sent /\ delivered' = delivered + 1 /\ told' = delivered'
  /\ sent' = sent /\ open' = open

(* Any other call or event: the connection may end, and messages that were  *)
(* still under way may be lost with it, but none that was delivered.        *)
Other ==
  /\ sent' \in delivered..sent /\ delivered' = delivered
  /\ told' \in {0, told} /\ open' \in {FALSE, open}

Next == Open \/ Deliver \/ Other

(* While the connection is up, message k is delivered. *)
Delivers(k) == (open /\ k <= sent) ~> (delivered >= k \/ ~open \/ sent < k)

Spec == Init /\ [][Next]_vars

(* What the channel promises beyond its steps. *)
Delivery == \A k \in 1..MaxMessages : Delivers(k)
=============================================================================
