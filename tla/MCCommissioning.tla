---------------------------- MODULE MCCommissioning ----------------------------
(* Bytes of one bit: a search address has three bits, addsub is 2 and 1.   *)
EXTENDS Commissioning

MCHalf == {1, 2}
=============================================================================
