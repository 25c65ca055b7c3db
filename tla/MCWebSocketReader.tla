-------------------------- MODULE MCWebSocketReader -------------------------
(***************************************************************************)
(* Peers for the WebSocket reader.  The buffer holds 7 bytes, more than    *)
(* any header the peers send.                                              *)
(***************************************************************************)
EXTENDS WebSocketReader, SequencesExt

Text     == <<129, 1, 7>>
Ping     == <<137, 0>>
Closing  == <<136, 0>>
Masked1  == <<130, 129, 1, 2, 3, 4, 6>>
Fragment == <<1, 1, 7>>
BadCode  == <<131, 0>>
Long126  == <<130, 126, 0, 1, 7>>
Over     == <<130, 126, 0, 4, 1, 2, 3, 4>>

Script(fs) ==
  [bytes  |-> FlattenSeq(fs),
   bounds |-> [k \in 1..Len(fs)+1 |-> Len(FlattenSeq(SubSeq(fs, 1, k - 1)))]]

MCScripts == { Script(<<Text, Masked1, Ping>>),
               Script(<<Fragment, BadCode, Text, Closing>>),
               Script(<<Long126, Text>>),
               Script(<<Text, Over>>) }
=============================================================================
