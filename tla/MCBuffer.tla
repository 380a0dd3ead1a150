------------------------------ MODULE MCBuffer ------------------------------
(* Buffer for TLC: the constants are in buffer_stream.cfg. *)
EXTENDS Buffer
=============================================================================
