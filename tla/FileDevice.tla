----------------------------- MODULE FileDevice -----------------------------
(***************************************************************************)
(* File devices of pfs::io on one path: the flags and permissions that     *)
(* make_file() hands to open(2), reading and writing through devices of    *)
(* several users, and what close() promises when the power may fail.       *)
(***************************************************************************)
EXTENDS SequencesExt, FiniteSets, Integers

CONSTANTS
  Devices,   \* the device objects
  UserOf,    \* the user whose program holds each device
  Group,     \* the users of one group
  FlagSets,  \* the open mode flags that the programs pass
  PermSets,  \* the permissions that they pass
  Umask,     \* the bits that the system takes from the mode of a new file
  Garbage,   \* the bits that a mode never passed may hold
  Bytes,     \* the values of a byte
  MaxSize,   \* the longest file (a bound)
  IntMax     \* the greatest value of an int

Flags == {"read_only", "write_only", "non_blocking", "truncate"}
Permissions == {"owner", "group", "others"} \X {"read", "write", "exec"}
Bits == {"R", "W", "X"} \X {"USR", "GRP", "OTH"}  \* <<"R", "USR">> is S_IRUSR

ASSUME FileAssumption ==
  /\ MaxSize \in Nat \ {0} /\ IntMax \in Nat \ {0} /\ 0 \in Bytes
  /\ FlagSets \subseteq SUBSET Flags /\ PermSets \subseteq SUBSET Permissions
  /\ Umask \subseteq Bits /\ Garbage \subseteq Bits
  /\ {"nobody", "finished"} \cap Devices = {}

VARIABLES
  exists,   \* whether the path names a file
  settled,  \* whether that name is on the disk
  owner,    \* the user who created the file
  mode,     \* its permission bits
  content,  \* its bytes
  synced,   \* the positions whose bytes are on the disk
  opened,   \* the devices that are open
  asked,    \* the flags each was opened with
  offset,   \* the file offset of each
  dirty,    \* the positions written through each and by no other device since
  wanted,   \* history: the permissions passed when the file was created
  maker,    \* history: the open device that created it, or Nobody
  author,   \* history: who started the file afresh and alone wrote to it
  text,     \* history: what it wrote
  quiet,    \* history: the devices since whose open only the author wrote
  got,      \* history: what each quiet device has read
  safe      \* history: the positions a close() without an error promised

fileVars == <<exists, settled, owner, mode, wanted>>
history  == <<author, text, quiet, got>>
vars == <<fileVars, content, synced, opened, asked, offset, dirty, maker,
          history, safe>>

Nobody   == "nobody"
Finished == "finished"  \* an author that has closed the file

Init ==
  /\ exists = FALSE /\ settled = FALSE /\ owner = Nobody /\ mode = {}
  /\ content = <<>> /\ synced = {} /\ opened = {}
  /\ asked  = [d \in Devices |-> {}]
  /\ offset = [d \in Devices |-> 0]
  /\ dirty  = [d \in Devices |-> {}]
  /\ wanted = {} /\ maker = Nobody /\ author = Nobody /\ text = <<>>
  /\ quiet = {} /\ got = [d \in Devices |-> <<>>] /\ safe = {}

-----------------------------------------------------------------------------
(* Flags and permissions. *)

(* Mutant: the test for both comes after the tests for one of them. *)
FlagsTestedLast(flags) ==
  (IF "write_only" \in flags THEN {"O_WRONLY", "O_CREAT"} ELSE {})
    \cup (IF "non_blocking" \in flags THEN {"O_NONBLOCK"} ELSE {})
    \cup (IF "truncate" \in flags THEN {"O_TRUNC"} ELSE {})

(* Mutant: truncate is understood as in its comment, "Create device". *)
TruncateCreates(flags) ==
  (IF {"read_only", "write_only"} \subseteq flags THEN {"O_RDWR", "O_CREAT"}
   ELSE IF "write_only" \in flags THEN {"O_WRONLY", "O_CREAT"} ELSE {})
    \cup (IF "non_blocking" \in flags THEN {"O_NONBLOCK"} ELSE {})
    \cup (IF "truncate" \in flags THEN {"O_CREAT"} ELSE {})

(* The flags of open(2).  O_RDONLY is zero: the absence of the other two. *)
NativeFlags(flags) ==
  (IF {"read_only", "write_only"} \subseteq flags THEN {"O_RDWR", "O_CREAT"}
   ELSE IF "write_only" \in flags THEN {"O_WRONLY", "O_CREAT"} ELSE {})
    \cup (IF "non_blocking" \in flags THEN {"O_NONBLOCK"} ELSE {})
    \cup (IF "truncate" \in flags THEN {"O_TRUNC"} ELSE {})

Status(d) == NativeFlags(asked[d])  \* fcntl(F_GETFL)

(* open_mode(): a read() of nothing tells whether the device is readable. *)
OpenMode(d) ==
  (IF "O_WRONLY" \notin Status(d) THEN {"read_only"} ELSE {})
    \cup (IF "O_RDWR" \in Status(d) THEN {"read_only", "write_only"} ELSE {})
    \cup (IF "O_WRONLY" \in Status(d) THEN {"write_only"} ELSE {})
    \cup (IF "O_NONBLOCK" \in Status(d) THEN {"non_blocking"} ELSE {})

Readable(d) == d \in opened /\ "O_WRONLY" \notin Status(d)
Writable(d) == d \in opened /\ Status(d) \cap {"O_RDWR", "O_WRONLY"} # {}

Letter == [read |-> "R", write |-> "W", exec |-> "X"]
Suffix == [owner |-> "USR", group |-> "GRP", others |-> "OTH"]

(* Mutant: S_IRGRP and S_IWGRP for the others' permissions. *)
ToNativeTwiceGroup(perms) ==
  {<<Letter[p[2]], IF p[1] = "owner" THEN "USR" ELSE "GRP">> : p \in perms}

(* to_native_perms(). *)
ToNative(perms) == {<<Letter[p[2]], Suffix[p[1]]>> : p \in perms}

(* The modes a new file may get.  Without a permission open(2) is called   *)
(* with no mode, and takes what it finds in the place of its argument.     *)
NewModes(perms) ==
  IF ToNative(perms) # {} THEN {ToNative(perms) \ Umask}
                          ELSE {garbage \ Umask : garbage \in SUBSET Garbage}

(* The system's check of an open() of a file that exists. *)
Class(u) == IF u = owner THEN "owner"
            ELSE IF {u, owner} \subseteq Group THEN "group" ELSE "others"

Needed(native) ==
  (IF "O_WRONLY" \notin native THEN {"read"} ELSE {})
    \cup (IF native \cap {"O_WRONLY", "O_RDWR", "O_TRUNC"} # {} THEN {"write"} ELSE {})

Permitted(u, native) ==
  \A r \in Needed(native) : <<Letter[r], Suffix[Class(u)]>> \in mode

-----------------------------------------------------------------------------
(* Opening.  An open() that fails changes nothing. *)

(* Only what the caller asked for, and no flag of open(2), decides who     *)
(* begins the file afresh.                                                 *)
Starts(d, flags) ==
  IF ~exists \/ "truncate" \in flags
  THEN /\ author' = IF "write_only" \in flags THEN d ELSE Nobody
       /\ text' = <<>> /\ quiet' = {d}
       /\ got' = [e \in Devices |-> <<>>]
  ELSE /\ quiet' = quiet \cup {d}
       /\ UNCHANGED <<author, text, got>>

Create(d, perms) ==
  /\ ~exists /\ exists' = TRUE
  /\ mode' \in NewModes(perms) /\ owner' = UserOf[d]
  /\ wanted' = perms /\ maker' = d
  /\ UNCHANGED <<settled, content, synced, dirty, safe>>

Truncate ==
  /\ content' = <<>> /\ synced' = {} /\ safe' = {}
  /\ dirty' = [e \in Devices |-> {}]

Open(d, flags, perms) ==
  /\ d \notin opened
  /\ IF ~exists THEN "O_CREAT" \in NativeFlags(flags) /\ Create(d, perms)
     ELSE /\ Permitted(UserOf[d], NativeFlags(flags))
          /\ IF "O_TRUNC" \in NativeFlags(flags) THEN Truncate
             ELSE UNCHANGED <<content, synced, dirty, safe>>
          /\ UNCHANGED <<fileVars, maker>>
  /\ opened' = opened \cup {d}
  /\ asked' = [asked EXCEPT ![d] = flags]
  /\ Starts(d, flags)
  /\ UNCHANGED offset

-----------------------------------------------------------------------------
(* Reading and writing. *)

Longer(m, n)  == IF m > n THEN m ELSE n
Shorter(m, n) == IF m < n THEN m ELSE n

(* A file after a write: a gap behind its old end is full of zeros. *)
Overlay(file, at, bytes) ==
  [i \in 1 .. Longer(Len(file), at + Len(bytes)) |->
     IF i \in at + 1 .. at + Len(bytes) THEN bytes[i - at]
     ELSE IF i <= Len(file) THEN file[i] ELSE 0]

(* write(): `bytes' are those the system took, all the caller's or fewer. *)
Write(d, bytes) ==
  LET end == offset[d] + Len(bytes)
      new == Shorter(Len(content), offset[d]) + 1 .. end
  IN /\ Writable(d) /\ end <= MaxSize
     /\ content' = Overlay(content, offset[d], bytes)
     /\ offset' = [offset EXCEPT ![d] = end]
     /\ synced' = synced \ new /\ safe' = safe \ new
     /\ dirty' = [e \in Devices |-> IF e = d THEN dirty[e] \cup new ELSE dirty[e] \ new]
     /\ IF author = d THEN text' = text \o bytes /\ UNCHANGED <<author, quiet, got>>
        ELSE /\ author' = Nobody /\ text' = <<>> /\ quiet' = {}
             /\ got' = [e \in Devices |-> <<>>]
     /\ UNCHANGED <<fileVars, opened, asked, maker>>

(* Mutant: the offset moves by the size of the buffer. *)
Skips(d, n) == n

(* The bytes that read() moves the offset by. *)
Advance(d, n) == Longer(0, Shorter(n, Len(content) - offset[d]))

(* read() of a buffer of n bytes. *)
Read(d, n) ==
  LET data == SubSeq(content, offset[d] + 1, offset[d] + Shorter(n, Len(content) - offset[d]))
  IN /\ Readable(d) /\ Advance(d, n) > 0
     /\ offset' = [offset EXCEPT ![d] = @ + Advance(d, n)]
     /\ got' = IF d \in quiet THEN [got EXCEPT ![d] = @ \o data] ELSE got
     /\ UNCHANGED <<fileVars, content, synced, opened, asked, dirty, maker,
                    author, text, quiet, safe>>

(* ioctl(FIONREAD) counts in an int: n as its value. *)
AsInt(n) == ((n + IntMax + 1) % (2 * (IntMax + 1))) - (IntMax + 1)

HasPendingData(d) == d \in opened /\ AsInt(Len(content) - offset[d]) > 0

-----------------------------------------------------------------------------
(* Closing. *)

(* Mutant: only the result of ::close() is returned. *)
CloseOnly(fsyncFails, closeFails) == IF closeFails THEN "close" ELSE "none"

(* The error that close() returns: of two, the second. *)
CloseError(fsyncFails, closeFails) ==
  IF closeFails THEN "close" ELSE IF fsyncFails THEN "fsync" ELSE "none"

(* The devices of D are open no more. *)
Release(D) ==
  /\ opened' = opened \ D
  /\ asked'  = [d \in Devices |-> IF d \in D THEN {} ELSE asked[d]]
  /\ offset' = [d \in Devices |-> IF d \in D THEN 0 ELSE offset[d]]
  /\ dirty'  = [d \in Devices |-> IF d \in D THEN {} ELSE dirty[d]]
  /\ maker'  = IF maker \in D THEN Nobody ELSE maker

Leave(D) ==
  /\ author' = IF author \in D THEN Finished ELSE author
  /\ quiet' = quiet \ D
  /\ got' = [d \in Devices |-> IF d \in D THEN <<>> ELSE got[d]]
  /\ UNCHANGED text

(* close(): the handle is given up whatever fails.  A successful fsync()   *)
(* brings to the disk what was written through this device.                *)
Close(d, fsyncFails, closeFails) ==
  /\ d \in opened
  /\ synced' = IF fsyncFails THEN synced ELSE synced \cup dirty[d]
  /\ safe' = IF CloseError(fsyncFails, closeFails) = "none"
             THEN safe \cup dirty[d] ELSE safe
  /\ Release({d}) /\ Leave({d})
  /\ UNCHANGED <<fileVars, content>>

(* The program is killed: nothing is synced. *)
Kill(d) ==
  /\ d \in opened /\ Release({d}) /\ Leave({d})
  /\ UNCHANGED <<fileVars, content, synced, safe>>

(* Power fails.  The file may vanish while its name is not on the disk;    *)
(* what is not synced may be anything, and of any length.                  *)
PowerLoss ==
  /\ exists /\ Release(Devices)
  /\ author' = Nobody /\ text' = <<>> /\ quiet' = {}
  /\ got' = [d \in Devices |-> <<>>]
  /\ \/ /\ exists' = TRUE /\ settled' = TRUE
        /\ content' \in {f \in SeqOf(Bytes, MaxSize) :
             \A i \in synced : i <= Len(f) /\ f[i] = content[i]}
        /\ UNCHANGED <<owner, mode, wanted, synced, safe>>
     \/ /\ ~settled /\ exists' = FALSE /\ owner' = Nobody /\ mode' = {}
        /\ content' = <<>> /\ synced' = {} /\ safe' = {} /\ wanted' = {}
        /\ UNCHANGED settled

Next ==
  \/ \E d \in Devices :
       \/ \E flags \in FlagSets, perms \in PermSets : Open(d, flags, perms)
       \/ \E bytes \in SeqOf(Bytes, MaxSize) \ {<<>>} : Write(d, bytes)
       \/ \E n \in 1 .. MaxSize : Read(d, n)
       \/ \E fsyncFails, closeFails \in BOOLEAN : Close(d, fsyncFails, closeFails)
       \/ Kill(d)
  \/ PowerLoss

Spec == Init /\ [][Next]_vars

-----------------------------------------------------------------------------
(* Properties. *)

(* The types of the variables; no offset of a reader is beyond the longest *)
(* file, and no byte counts as synced, dirty or safe that is not there.    *)
TypeOK ==
  /\ {exists, settled} \subseteq BOOLEAN
  /\ mode \subseteq Bits /\ wanted \subseteq Permissions
  /\ content \in Seq(Bytes) /\ Len(content) <= MaxSize
  /\ opened \subseteq Devices
  /\ asked \in [Devices -> SUBSET Flags]
  /\ offset \in [Devices -> 0 .. MaxSize]
  /\ dirty \in [Devices -> SUBSET (1 .. Len(content))]
  /\ synced \subseteq 1 .. Len(content) /\ safe \subseteq 1 .. Len(content)
  /\ author \in Devices \cup {Nobody, Finished}
  /\ quiet \subseteq opened
  /\ \A d \in Devices : got[d] \in Seq(Bytes)

(* An open device reports the mode it was asked for; truncate is not a     *)
(* mode, and a device opened for nothing can be read.                      *)
ModeRoundTrip ==
  \A d \in opened :
    OpenMode(d) =
      LET m == asked[d] \ {"truncate"}
      IN IF m \cap {"read_only", "write_only"} = {} THEN m \cup {"read_only"} ELSE m

(* Nobody but its creator gets at a file in a way the creator's            *)
(* permissions do not name, once it has passed any.                        *)
Granted ==
  wanted # {} =>
    \A d \in opened \ {maker} :
      \A r \in OpenMode(d) \cap {"read_only", "write_only"} :
        <<Class(UserOf[d]), IF r = "read_only" THEN "read" ELSE "write">> \in wanted

(* What one device wrote into a file of its own, a device that only reads  *)
(* finds, byte by byte; when nothing is pending it has read all of it,     *)
(* unless more is left than an int can count.                              *)
ReadBack ==
  author # Nobody =>
    \A d \in quiet :
      /\ "write_only" \notin asked[d] => IsPrefix(got[d], text)
      /\ (/\ "write_only" \notin asked[d] /\ ~HasPendingData(d)
          /\ Len(content) - offset[d] <= IntMax) => got[d] = text

(* What was written before a close() without an error is there after a     *)
(* failure of the power, if the file still has its name.                   *)
Survives ==
  [][exists' => \A i \in safe \cap safe' :
       i <= Len(content') /\ content'[i] = content[i]]_vars
=============================================================================
