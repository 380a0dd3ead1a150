---------------------------- MODULE MCFileDevice ----------------------------
(* Constants for checking FileDevice: who holds which device, and the      *)
(* flags and permissions passed.                                           *)
EXTENDS FileDevice

CONSTANTS d1, d2, d3

MCUserOf == (d1 :> "ann") @@ (d2 :> "bob") @@ (d3 :> "cat")
MCFlagSets ==
  {{}, {"read_only"}, {"write_only", "truncate"}, {"read_only", "write_only"},
   {"read_only", "truncate"}, {"write_only", "non_blocking"}}
MCPermSets ==
  {{}, {"owner", "group"} \X {"read", "write"},
   {<<"owner", "read">>, <<"group", "write">>, <<"others", "read">>}}
MCUmask == {<<"W", "GRP">>}
MCGarbage == {<<"R", "USR">>, <<"W", "OTH">>}
=============================================================================
