---------------------------- MODULE MCFrameWriter ---------------------------
(***************************************************************************)
(* Payloads named by their sizes, and mask keys with a clear and with a    *)
(* set sign bit, and with zero bytes.                                      *)
(***************************************************************************)
EXTENDS FrameWriter, Bitwise

MCPayloads == {0, 1, 6, 125, 126, 65535, 65536}
MCSizeOf(p) == p

(* The bytes differ from their neighbours and from those four further on. *)
MCPayloadByte(p, i) == (i * 37 + i \div 256) % 256

MCMaskKeys == {305419896, -2, 255}

ASSUME XorIsBitwise == \A a, b \in 0..255 : XorByte(a, b) = a ^^ b
=============================================================================
