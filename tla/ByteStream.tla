----------------------------- MODULE ByteStream -----------------------------
(***************************************************************************)
(* What pfs::io promises of a device that carries a stream of bytes: the   *)
(* reader gets the bytes that were put into it, each once and in order, in *)
(* pieces of any size.                                                     *)
(***************************************************************************)
EXTENDS SequencesExt

CONSTANT Byte

VARIABLES
  sent,     \* every byte put into the stream so far
  received  \* every byte taken out of it so far

StreamInit == sent \in Seq(Byte) /\ received = <<>>

Put == /\ sent' \in Seq(Byte) /\ IsPrefix(sent, sent')
       /\ UNCHANGED received

Get == /\ IsPrefix(received, received') /\ IsPrefix(received', sent)
       /\ UNCHANGED sent

(* A writer that can reach into the stream takes back unread bytes. *)
TakeBack == /\ IsPrefix(sent', sent) /\ IsPrefix(received, sent')
            /\ UNCHANGED received

StreamSpec == StreamInit /\ [][Put \/ Get]_<<sent, received>>

(* A step of such a stream. *)
RevocableNext == Put \/ Get \/ TakeBack
=============================================================================
