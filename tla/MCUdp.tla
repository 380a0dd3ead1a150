-------------------------------- MODULE MCUdp --------------------------------
(* Constants for checking Udp. *)
EXTENDS Udp
=============================================================================
