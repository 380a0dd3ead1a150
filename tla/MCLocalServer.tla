--------------------------- MODULE MCLocalServer ---------------------------
(* Constants for checking LocalServer. *)
EXTENDS LocalServer
=============================================================================
