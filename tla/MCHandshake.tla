----------------------------- MODULE MCHandshake ----------------------------
(***************************************************************************)
(* Servers for the handshake: complete ones with the headers in different  *)
(* orders, with extra headers and with frames right behind, one that lacks *)
(* a header, one that refuses, and one whose headers exceed the buffer.    *)
(***************************************************************************)
EXTENDS Handshake

Answer(first, headers, frames) == [first |-> first, headers |-> headers, frames |-> frames]

MCResponses == {
  Answer(<<"P", "Q">>, <<"u", "c", "a">>, 2),
  Answer(<<"P", "Q">>, <<"x", "a", "c", "u">>, 0),
  Answer(<<"P", "Q">>, <<"a", "u", "c", "x">>, 1),
  Answer(<<"P", "Q">>, <<"u", "x", "a">>, 2),
  Answer(<<"P", "x">>, <<"u", "c", "a">>, 0),
  Answer(<<"P", "Q">>, <<"x", "x", "u", "c", "a">>, 1) }
=============================================================================
