------------------------------- MODULE Buffer -------------------------------
(***************************************************************************)
(* pfs::io::buffer: a device over a container that stays the caller's.     *)
(* read() advances a position in the container, write() appends to it, and *)
(* the owner goes on using it directly.                                    *)
(***************************************************************************)
EXTENDS SequencesExt, Integers

CONSTANTS
  MaxSize,         \* the container's max_size()
  SizeMod,         \* size_t holds the numbers below it
  MaxChunk,        \* the most bytes one call reads or writes (a bound)
  MaxPut           \* how many bytes are put into the container (a bound)

ASSUME BufferAssumption ==
  /\ MaxSize \in Nat /\ MaxChunk \in Nat /\ SizeMod \in Nat /\ MaxPut \in Nat
  /\ MaxSize < SizeMod

VARIABLES
  content,    \* the container
  put,        \* how many bytes were put into the container so far
  attached,   \* _c is not null
  oflags,     \* _oflags
  pos,        \* _pos
  got,        \* all that read() has returned
  intact,     \* the owner has left the bytes already read in place (history)
  terminated  \* an exception left a noexcept function

vars == <<content, put, attached, oflags, pos, got, intact, terminated>>

(* A byte is its number among all that were put into the container. *)
Byte == Nat

Modes == SUBSET {"read_only", "write_only"}

(* The next n bytes to be put. *)
Fresh(n) == [i \in 1 .. n |-> put + i]

(* make_buffer(container, oflags), over whatever the container holds. *)
Init ==
  /\ put \in 0 .. MaxChunk /\ put <= MaxSize
  /\ content = [i \in 1 .. put |-> i]
  /\ attached = TRUE
  /\ oflags \in Modes
  /\ pos = 0
  /\ got = <<>>
  /\ intact = TRUE
  /\ terminated = FALSE

-----------------------------------------------------------------------------
(* Mutants: the test is on the size alone; the last byte is not counted. *)
HasContent == Len(content) > 0
HasMoreThanOne == (Len(content) - pos) % SizeMod > 1

(* `_c->size() - _pos > 0', in size_t: true also when the owner has cut the *)
(* container below the position, and whatever the mode.                     *)
HasPendingData == (Len(content) - pos) % SizeMod > 0

(* The bytes a read() of up to n finds behind the position. *)
Smaller(m, n) == IF m < n THEN m ELSE n
Available(n) == Smaller(n, Len(content) - pos)

(* Mutant: copy() starts at the container's first byte. *)
CopyFromStart(n) == SubSeq(content, 1, Available(n))

Copy(n) == SubSeq(content, pos + 1, pos + Available(n))

(* Mutant: the position advances by the bytes asked for. *)
ReadAsked(n) ==
  /\ ~terminated /\ "read_only" \in oflags
  /\ pos < Len(content)
  /\ got' = got \o Copy(n)
  /\ pos' = pos + n
  /\ UNCHANGED <<content, put, attached, oflags, intact, terminated>>

(* Mutant: a position behind the container's end is set back to 0. *)
ReadRestarts(n) ==
  /\ ~terminated /\ "read_only" \in oflags
  /\ \/ /\ pos < Len(content)
        /\ got' = got \o Copy(n)
        /\ pos' = pos + Available(n)
     \/ /\ pos > Len(content)
        /\ pos' = 0
        /\ UNCHANGED got
  /\ UNCHANGED <<content, put, attached, oflags, intact, terminated>>

(* read() of up to n bytes.  Without the mode (a closed buffer has none)   *)
(* it fails, and past the end it returns 0: nothing changes then.          *)
Read(n) ==
  /\ ~terminated /\ "read_only" \in oflags
  /\ pos < Len(content)
  /\ got' = got \o Copy(n)
  /\ pos' = pos + Available(n)
  /\ UNCHANGED <<content, put, attached, oflags, intact, terminated>>

(* write() of n bytes: they are compared with the room behind the position *)
(* but appended at the end, and append() throws length_error if they do    *)
(* not fit there.                                                          *)
Write(n) ==
  /\ ~terminated /\ "write_only" \in oflags
  /\ put + n <= MaxPut
  /\ n <= MaxSize - pos
  /\ \/ /\ Len(content) + n <= MaxSize
        /\ content' = content \o Fresh(n)
        /\ put' = put + n
        /\ UNCHANGED terminated
     \/ /\ Len(content) + n > MaxSize
        /\ terminated' = TRUE
        /\ UNCHANGED <<content, put>>
  /\ UNCHANGED <<attached, oflags, pos, got, intact>>

Close ==
  /\ ~terminated
  /\ attached' = FALSE /\ oflags' = {}
  /\ UNCHANGED <<content, put, pos, got, intact, terminated>>

(* The owner appends a byte to its container, or cuts it to its first n. *)
OwnerAppends ==
  /\ ~terminated /\ put < MaxPut /\ Len(content) < MaxSize
  /\ content' = content \o Fresh(1)
  /\ put' = put + 1
  /\ UNCHANGED <<attached, oflags, pos, got, intact, terminated>>

OwnerErases(n) ==
  /\ ~terminated
  /\ content' = SubSeq(content, 1, n)
  /\ intact' = (intact /\ n >= pos)
  /\ UNCHANGED <<put, attached, oflags, pos, got, terminated>>

Next ==
  \/ \E n \in 1 .. MaxChunk : Read(n)
  \/ \E n \in 1 .. MaxChunk : Write(n)
  \/ Close
  \/ OwnerAppends
  \/ \E n \in 0 .. Len(content) - 1 : OwnerErases(n)

Spec == Init /\ [][Next]_vars

(* A program that polls: `while (d.has_pending_data()) d.read(...)'. *)
PollAndRead == HasPendingData /\ \E n \in 1 .. MaxChunk : Read(n)

FairSpec == Spec /\ WF_vars(PollAndRead)

-----------------------------------------------------------------------------
(* The types of the variables.  The position never passes max_size(), so    *)
(* that `_c->max_size() - _pos' does not wrap.                              *)
TypeOK ==
  /\ content \in Seq(Byte) /\ Len(content) <= MaxSize
  /\ put \in Nat
  /\ attached \in BOOLEAN
  /\ oflags \in Modes
  /\ pos \in 0 .. MaxSize
  /\ got \in Seq(Byte) /\ Len(got) = pos
  /\ intact \in BOOLEAN
  /\ terminated \in BOOLEAN

(* A buffer is a byte stream: read() returns the container's bytes from the *)
(* first on, none lost, repeated or reordered, whatever write(), the owner  *)
(* and close() do in between, as long as the owner leaves the bytes read    *)
(* where they are.                                                          *)
Stream == INSTANCE ByteStream WITH sent <- content, received <- got
IsByteStream ==
  /\ Stream!StreamInit
  /\ [][intact' => Stream!RevocableNext]_<<content, got>>

Increasing(s) == \A i, j \in 1 .. Len(s) : i < j => s[i] < s[j]

(* read() returns no byte twice and none before an earlier one, not even if *)
(* the owner cuts the container below the position and fills it again: some *)
(* bytes are skipped then, but none comes back.                             *)
InOrder == Increasing(got)

(* A program that polls a buffer it may read does not loop for ever, though *)
(* the writer and the owner go on: has_pending_data() turns false, unless   *)
(* the buffer is closed or the owner cuts the container below the position: *)
(* there the size_t difference wraps, and has_pending_data() stays true     *)
(* while read() returns 0.                                                  *)
ReadingEnds ==
  ("read_only" \in oflags /\ HasPendingData)
    ~> \/ ~HasPendingData \/ "read_only" \notin oflags
       \/ terminated \/ ~intact

(* has_pending_data() hides no byte from a program that polls: each byte    *)
(* behind the position is read, or taken away by the owner, or the buffer   *)
(* is closed - whatever the owner erases, and though the test wraps.        *)
Holds(s, k) == \E i \in 1 .. Len(s) : s[i] = k
Unread(k) ==
  /\ ~terminated /\ "read_only" \in oflags
  /\ \E i \in pos + 1 .. Len(content) : content[i] = k
Settled(k) ==
  \/ Holds(got, k) \/ ~Holds(content, k)
  \/ "read_only" \notin oflags \/ terminated
UnreadIsRead == \A k \in 1 .. MaxPut : Unread(k) ~> Settled(k)
=============================================================================
