------------------------------- MODULE MCFifos -------------------------------
(* Two machines, rings of two.  What order the bytes have is left to the    *)
(* proofs: with two byte values the instance is out of reach.               *)
EXTENDS Fifos

MCByte == {0}
MCTwo == {0, 1}
=============================================================================
