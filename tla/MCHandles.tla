----------------------------- MODULE MCHandles -----------------------------
(* Constants for checking Handles: the program's variables and their types. *)
EXTENDS Handles, TLC

(* A slot of every type, for the factories, accept() and the destructors. *)
EveryType  == {"device", "local", "tcp", "udp"}
EveryTypes == [device |-> "device",     local |-> "local_server",
               tcp    |-> "tcp_server", udp   |-> "udp_server"]

(* Two slots of one type, between which objects are moved and swapped. *)
Pair  == {"one", "two"}
Pairs == [one |-> "device", two |-> "device"]

ThreadSymmetry == Permutations(Threads)
=============================================================================
