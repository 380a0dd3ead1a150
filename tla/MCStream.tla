------------------------------ MODULE MCStream ------------------------------
(* Constants for checking Stream. *)
EXTENDS Stream
ByteSymmetry == Permutations(Byte)
=============================================================================
