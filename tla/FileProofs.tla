----------------------------- MODULE FileProofs -----------------------------
(***************************************************************************)
(* Flags, rights, contents and promises of file devices, for any devices,  *)
(* users, flags, permissions and sizes.                                    *)
(***************************************************************************)
EXTENDS FileDevice, SequenceFacts

PathTypes ==
  /\ exists \in BOOLEAN /\ settled \in BOOLEAN
  /\ mode \subseteq Bits /\ wanted \subseteq Permissions
  /\ maker \in Devices \cup {Nobody}

ObjectTypes ==
  /\ opened \subseteq Devices
  /\ asked \in [Devices -> SUBSET Flags]
  /\ offset \in [Devices -> 0 .. MaxSize]
  /\ author \in Devices \cup {Nobody, Finished}
  /\ quiet \subseteq opened
  /\ got \in [Devices -> Seq(Bytes)]

(* What a close() has promised is on the disk. *)
DataTypes ==
  /\ content \in Seq(Bytes) /\ Len(content) <= MaxSize
  /\ dirty \in [Devices -> SUBSET (1 .. Len(content))]
  /\ synced \subseteq 1 .. Len(content) /\ safe \subseteq synced

(* Without a file nothing is open, and a device is opened at the start. *)
Fresh ==
  /\ ~exists => content = <<>> /\ opened = {}
  /\ \A d \in Devices \ opened : offset[d] = 0 /\ got[d] = <<>>

(* The mode names no more than the creator did, and whoever has the file   *)
(* open was permitted to or has created it.                                *)
Rights ==
  /\ wanted # {} => mode \subseteq ToNative(wanted)
  /\ \A d \in opened \ {maker} : Permitted(UserOf[d], Status(d))

(* A lone writer is at the end of what it wrote, and whoever reads that    *)
(* has got the part before its offset.                                     *)
Lone ==
  author # Nobody =>
    /\ content = text
    /\ author \in Devices =>
         /\ author \in opened /\ "write_only" \in asked[author]
         /\ offset[author] = Len(content)
    /\ \A d \in quiet \ {author} :
         offset[d] <= Len(content) /\ got[d] = SubSeq(content, 1, offset[d])

Inv == PathTypes /\ ObjectTypes /\ DataTypes /\ Fresh /\ Rights /\ Lone

LEMMA Sizes == MaxSize \in Nat /\ MaxSize > 0 /\ IntMax \in Nat /\ 0 \in Bytes
BY FileAssumption

LEMMA Names == Nobody \notin Devices /\ Finished \notin Devices /\ Nobody # Finished
BY FileAssumption DEF Nobody, Finished

LEMMA Empty ==
  /\ <<>> \in Seq(Bytes) /\ Len(<<>>) = 0
  /\ \A s \in Seq(Bytes) : SubSeq(s, 1, 0) = <<>>
<1>1. <<>> \in Seq(Bytes) /\ Len(<<>>) = 0
  BY EmptySeq
<1>2. ASSUME NEW s \in Seq(Bytes) PROVE SubSeq(s, 1, 0) = <<>>
  <2> DEFINE u == SubSeq(s, 1, 0)
  <2>1. 0 \in 0 .. Len(s)
    BY LenProperties
  <2>2. u \in Seq(Bytes) /\ Len(u) = 0
    BY <2>1, FrontProperties
  <2> HIDE DEF u
  <2>3. u = <<>>
    BY <2>2, EmptySeq
  <2> QED
    BY <2>3 DEF u
<1> QED
  BY <1>1, <1>2

LEMMA InitInv == Init => Inv
<1> SUFFICES ASSUME Init PROVE Inv
  OBVIOUS
<1>1. PathTypes
  BY DEF Init, PathTypes
<1>2. ObjectTypes
  BY Sizes, Empty DEF Init, ObjectTypes
<1>3. DataTypes
  BY Sizes, Empty DEF Init, DataTypes
<1>4. Fresh /\ Rights /\ Lone
  BY DEF Init, Fresh, Rights, Lone
<1> QED
  BY <1>1, <1>2, <1>3, <1>4 DEF Inv

-----------------------------------------------------------------------------
(* Flags and permissions. *)

LEMMA NativeMeans ==
  ASSUME NEW flags
  PROVE  /\ "O_RDWR" \in NativeFlags(flags) <=> {"read_only", "write_only"} \subseteq flags
         /\ "O_WRONLY" \in NativeFlags(flags)
              <=> "write_only" \in flags /\ "read_only" \notin flags
         /\ "O_NONBLOCK" \in NativeFlags(flags) <=> "non_blocking" \in flags
         /\ "O_TRUNC" \in NativeFlags(flags) <=> "truncate" \in flags
         /\ "O_CREAT" \in NativeFlags(flags) <=> "write_only" \in flags
BY DEF NativeFlags

LEMMA ModesHold ==
  ASSUME NEW perms \in SUBSET Permissions, NEW m \in NewModes(perms)
  PROVE  m \subseteq Bits /\ (perms # {} => m \subseteq ToNative(perms))
<1>1. ToNative(perms) \subseteq Bits
  BY DEF ToNative, Permissions, Bits, Letter, Suffix
<1>2. perms # {} => ToNative(perms) # {}
  BY DEF ToNative
<1>3. \A garbage \in SUBSET Garbage : garbage \ Umask \subseteq Bits
  BY FileAssumption
<1> QED
  BY <1>1, <1>2, <1>3 DEF NewModes

-----------------------------------------------------------------------------
(* Opening. *)

LEMMA OpenInv ==
  ASSUME Inv, NEW d \in Devices, NEW flags \in FlagSets, NEW perms \in PermSets,
         Open(d, flags, perms)
  PROVE  Inv'
<1>1. flags \in SUBSET Flags /\ perms \in SUBSET Permissions
  BY FileAssumption
<1>2. /\ d \notin opened /\ opened' = opened \cup {d}
      /\ asked' = [asked EXCEPT ![d] = flags] /\ UNCHANGED offset
      /\ Starts(d, flags)
  BY DEF Open
<1>3. CASE ~exists /\ Create(d, perms) /\ "O_CREAT" \in NativeFlags(flags)
  <2>1. /\ exists' = TRUE /\ mode' \in NewModes(perms) /\ wanted' = perms /\ maker' = d
        /\ UNCHANGED <<settled, content, synced, dirty, safe>>
    BY <1>3 DEF Create
  <2>2. /\ author' = d /\ text' = <<>> /\ quiet' = {d}
        /\ got' = [e \in Devices |-> <<>>]
    BY <1>2, <1>3, NativeMeans DEF Starts
  <2>3. content = <<>> /\ opened = {} /\ \A e \in Devices : offset[e] = 0
    BY <1>3 DEF Inv, Fresh
  <2>4. PathTypes'
    BY <1>1, <2>1, ModesHold DEF Inv, PathTypes
  <2>5. ObjectTypes'
    BY <1>1, <1>2, <2>2, Empty DEF Inv, ObjectTypes
  <2>6. DataTypes'
    BY <2>1 DEF Inv, DataTypes
  <2>7. Fresh'
    BY <1>2, <2>1, <2>2, <2>3 DEF Fresh
  <2>8. Rights'
    BY <1>1, <1>2, <2>1, <2>3, ModesHold DEF Rights
  <2>9. Lone'
    BY <1>2, <1>3, <2>1, <2>2, <2>3, Empty, NativeMeans DEF Lone, Inv, ObjectTypes
  <2> QED
    BY <2>4, <2>5, <2>6, <2>7, <2>8, <2>9 DEF Inv
<1>4. CASE /\ exists /\ Permitted(UserOf[d], NativeFlags(flags))
           /\ UNCHANGED <<fileVars, maker>>
           /\ IF "O_TRUNC" \in NativeFlags(flags) THEN Truncate
              ELSE UNCHANGED <<content, synced, dirty, safe>>
  <2>1. PathTypes'
    BY <1>4 DEF Inv, PathTypes, fileVars
  <2>2. Rights'
    <3>1. /\ asked'[d] = flags
          /\ \A e \in opened : asked'[e] = asked[e]
      BY <1>2 DEF Inv, ObjectTypes
    <3>2. ASSUME NEW e \in opened' \ {maker'} PROVE Permitted(UserOf[e], Status(e))'
      BY <1>2, <1>4, <3>1 DEF Inv, Rights, Permitted, Class, Status, fileVars
    <3> QED
      BY <1>4, <3>2 DEF Inv, Rights, fileVars
  <2>3. CASE "truncate" \in flags
    <3>1. /\ content' = <<>> /\ synced' = {} /\ safe' = {}
          /\ dirty' = [e \in Devices |-> {}]
      BY <1>4, <2>3, NativeMeans DEF Truncate
    <3>2. /\ author' = IF "write_only" \in flags THEN d ELSE Nobody
          /\ text' = <<>> /\ quiet' = {d} /\ got' = [e \in Devices |-> <<>>]
      BY <1>2, <2>3 DEF Starts
    <3>3. ObjectTypes'
      BY <1>1, <1>2, <3>2, Empty DEF Inv, ObjectTypes
    <3>4. DataTypes'
      BY <3>1, Empty, Sizes DEF DataTypes
    <3>5. Fresh'
      BY <1>2, <1>4, <3>2 DEF Inv, Fresh, fileVars
    <3>6. asked'[d] = flags /\ offset'[d] = 0
      BY <1>2 DEF Inv, ObjectTypes, Fresh
    <3>7. Lone'
      BY <1>2, <3>1, <3>2, <3>6, Empty DEF Lone
    <3> QED
      BY <2>1, <2>2, <3>3, <3>4, <3>5, <3>7 DEF Inv
  <2>4. CASE "truncate" \notin flags
    <3>1. UNCHANGED <<content, synced, dirty, safe>>
      BY <1>4, <2>4, NativeMeans
    <3>2. quiet' = quiet \cup {d} /\ UNCHANGED <<author, text, got>>
      BY <1>2, <1>4, <2>4 DEF Starts
    <3>3. ObjectTypes'
      BY <1>1, <1>2, <3>2 DEF Inv, ObjectTypes
    <3>4. DataTypes'
      BY <3>1 DEF Inv, DataTypes
    <3>5. Fresh'
      BY <1>2, <1>4, <3>2 DEF Inv, Fresh, fileVars
    <3>6. /\ offset[d] = 0 /\ got[d] = <<>> /\ SubSeq(content, 1, 0) = <<>>
          /\ Len(content) \in Nat
          /\ \A e \in opened : asked'[e] = asked[e]
      BY <1>2, Empty, LenProperties DEF Inv, ObjectTypes, DataTypes, Fresh
    <3>7. ASSUME author # Nobody, NEW e \in quiet \cup {d}, e # author
          PROVE  offset[e] <= Len(content) /\ got[e] = SubSeq(content, 1, offset[e])
      <4>1. CASE e = d
        <5>1. offset[d] <= Len(content) /\ got[d] = SubSeq(content, 1, offset[d])
          BY <3>6
        <5> QED
          BY <4>1, <5>1
      <4>2. CASE e \in quiet
        BY <3>7, <4>2 DEF Inv, Lone
      <4> QED
        BY <4>1, <4>2
    <3>8. ASSUME author # Nobody, author \in Devices
          PROVE  /\ author \in opened' /\ "write_only" \in asked'[author]
                 /\ offset[author] = Len(content)
      BY <1>2, <3>6, <3>8 DEF Inv, Lone
    <3>9. author # Nobody => content = text
      BY DEF Inv, Lone
    <3>10. Lone'
      BY <1>2, <3>1, <3>2, <3>7, <3>8, <3>9 DEF Lone
    <3> QED
      BY <2>1, <2>2, <3>3, <3>4, <3>5, <3>10 DEF Inv
  <2> QED
    BY <2>3, <2>4
<1> QED
  BY <1>3, <1>4 DEF Open, Inv, PathTypes

-----------------------------------------------------------------------------
(* Reading and writing. *)

(* A write changes nothing before its offset or the old end, and leaves a   *)
(* file that reaches to the end of what was written.                        *)
LEMMA OverlayMeans ==
  ASSUME NEW file \in Seq(Bytes), NEW at \in Nat, NEW bytes \in Seq(Bytes)
  PROVE  LET new == Overlay(file, at, bytes)
         IN /\ new \in Seq(Bytes)
            /\ Len(new) = Longer(Len(file), at + Len(bytes))
            /\ \A i \in 1 .. Len(file) : i \notin at + 1 .. at + Len(bytes) => new[i] = file[i]
            /\ \A i \in at + 1 .. at + Len(bytes) : new[i] = bytes[i - at]
<1> DEFINE n == Longer(Len(file), at + Len(bytes))
           new == Overlay(file, at, bytes)
<1>1. Len(file) \in Nat /\ Len(bytes) \in Nat
  BY LenProperties
<1>2. n \in Nat /\ Len(file) <= n /\ at + Len(bytes) <= n
  BY <1>1 DEF Longer
<1>3. ASSUME NEW i \in 1 .. n
      PROVE  (IF i \in at + 1 .. at + Len(bytes) THEN bytes[i - at]
              ELSE IF i <= Len(file) THEN file[i] ELSE 0) \in Bytes
  <2>1. CASE i \in at + 1 .. at + Len(bytes)
    <3>1. i - at \in 1 .. Len(bytes)
      BY <1>1, <2>1
    <3> QED
      BY <2>1, <3>1, ElementOfSeq
  <2>2. CASE i \notin at + 1 .. at + Len(bytes) /\ i <= Len(file)
    <3>1. i \in 1 .. Len(file)
      BY <1>1, <1>2, <2>2
    <3> QED
      BY <2>2, <3>1, ElementOfSeq
  <2>3. CASE i \notin at + 1 .. at + Len(bytes) /\ ~(i <= Len(file))
    BY <2>3, Sizes
  <2> QED
    BY <2>1, <2>2, <2>3
<1> HIDE DEF n
<1>4. new \in [1 .. n -> Bytes]
  BY <1>3 DEF Overlay, n
<1>5. new \in Seq(Bytes) /\ Len(new) = n
  BY <1>2, <1>4, SeqDef, LenProperties
<1>6. \A i \in 1 .. n :
        new[i] = IF i \in at + 1 .. at + Len(bytes) THEN bytes[i - at]
                 ELSE IF i <= Len(file) THEN file[i] ELSE 0
  BY DEF Overlay, n
<1> HIDE DEF new
<1>7. ASSUME NEW i \in 1 .. Len(file), i \notin at + 1 .. at + Len(bytes)
      PROVE  new[i] = file[i]
  <2>1. i \in 1 .. n /\ i <= Len(file)
    BY <1>1, <1>2
  <2> QED
    BY <1>6, <1>7, <2>1
<1>8. ASSUME NEW i \in at + 1 .. at + Len(bytes) PROVE new[i] = bytes[i - at]
  <2>1. i \in 1 .. n
    BY <1>1, <1>2
  <2> QED
    BY <1>6, <2>1
<1> QED
  BY <1>5, <1>7, <1>8 DEF n, new

(* A write at the end appends. *)
LEMMA OverlayAppends ==
  ASSUME NEW file \in Seq(Bytes), NEW bytes \in Seq(Bytes)
  PROVE  Overlay(file, Len(file), bytes) = file \o bytes
<1> DEFINE u == Overlay(file, Len(file), bytes)
           v == file \o bytes
<1>1. Len(file) \in Nat /\ Len(bytes) \in Nat
  BY LenProperties
<1>2. Longer(Len(file), Len(file) + Len(bytes)) = Len(file) + Len(bytes)
  BY <1>1 DEF Longer
<1>3. /\ u \in Seq(Bytes) /\ Len(u) = Len(file) + Len(bytes)
      /\ \A i \in 1 .. Len(file) : i \notin Len(file) + 1 .. Len(file) + Len(bytes) => u[i] = file[i]
      /\ \A i \in Len(file) + 1 .. Len(file) + Len(bytes) : u[i] = bytes[i - Len(file)]
  BY <1>1, <1>2, OverlayMeans
<1>4. /\ v \in Seq(Bytes) /\ Len(v) = Len(file) + Len(bytes)
      /\ \A i \in 1 .. Len(v) :
           v[i] = IF i <= Len(file) THEN file[i] ELSE bytes[i - Len(file)]
  BY ConcatProperties
<1> HIDE DEF u, v
<1>5. ASSUME NEW i \in 1 .. Len(u) PROVE u[i] = v[i]
  <2>1. CASE i <= Len(file)
    <3>1. /\ i \in 1 .. Len(file) /\ i \in 1 .. Len(v)
          /\ i \notin Len(file) + 1 .. Len(file) + Len(bytes)
      BY <1>1, <1>3, <1>4, <2>1
    <3> QED
      BY <1>3, <1>4, <2>1, <3>1
  <2>2. CASE ~(i <= Len(file))
    <3>1. i \in Len(file) + 1 .. Len(file) + Len(bytes) /\ i \in 1 .. Len(v)
      BY <1>1, <1>3, <1>4, <2>2
    <3> QED
      BY <1>3, <1>4, <2>2, <3>1
  <2> QED
    BY <2>1, <2>2
<1>6. u = v
  BY <1>3, <1>4, <1>5, SeqEqual
<1> QED
  BY <1>6 DEF u, v

(* The positions that a write changes. *)
Written(d, bytes) ==
  Shorter(Len(content), offset[d]) + 1 .. offset[d] + Len(bytes)

(* The file as a write leaves it, for readers of the bytes elsewhere. *)
LEMMA WriteKeeps ==
  ASSUME Inv, NEW d \in Devices, NEW bytes \in Seq(Bytes), Write(d, bytes)
  PROVE  /\ content' \in Seq(Bytes)
         /\ Len(content') <= MaxSize /\ Len(content) <= Len(content')
         /\ Written(d, bytes) \subseteq 1 .. Len(content')
         /\ \A i \in 1 .. Len(content) : i \notin Written(d, bytes) => content'[i] = content[i]
<1> DEFINE at == offset[d]
           end == at + Len(bytes)
<1>1. /\ content \in Seq(Bytes) /\ Len(content) \in Nat /\ Len(content) <= MaxSize
      /\ Len(bytes) \in Nat /\ at \in Nat /\ end <= MaxSize
  BY Sizes, LenProperties DEF Inv, ObjectTypes, DataTypes, Write
<1> DEFINE file == Overlay(content, at, bytes)
<1>2. content' = file
  BY DEF Write
<1> HIDE DEF at
<1>3. /\ content' \in Seq(Bytes)
      /\ Len(content') = Longer(Len(content), end)
      /\ \A i \in 1 .. Len(content) : i \notin at + 1 .. end => content'[i] = content[i]
  <2>1. /\ file \in Seq(Bytes)
        /\ Len(file) = Longer(Len(content), at + Len(bytes))
        /\ \A i \in 1 .. Len(content) :
             i \notin at + 1 .. at + Len(bytes) => file[i] = content[i]
    BY <1>1, OverlayMeans
  <2> HIDE DEF file
  <2> QED
    BY <1>2, <2>1
<1>4. Len(content') <= MaxSize /\ Len(content) <= Len(content') /\ end <= Len(content')
  BY <1>1, <1>3, Sizes DEF Longer
<1>5. Written(d, bytes) = Shorter(Len(content), at) + 1 .. end
  BY DEF Written, at
<1>6. /\ Shorter(Len(content), at) \in Nat /\ Shorter(Len(content), at) <= at
      /\ Shorter(Len(content), at) <= Len(content)
  BY <1>1 DEF Shorter
<1> DEFINE least == Shorter(Len(content), at)
<1> HIDE DEF least, end
<1>7. \A i \in at + 1 .. end : i \in least + 1 .. end
  BY <1>1, <1>6 DEF least, end
<1>8. least + 1 .. end \subseteq 1 .. Len(content')
  BY <1>1, <1>3, <1>4, <1>6, LenProperties DEF least, end
<1>9. Written(d, bytes) = least + 1 .. end
  BY <1>5 DEF least
<1> QED
  BY <1>3, <1>4, <1>7, <1>8, <1>9

LEMMA WriteInv ==
  ASSUME Inv, NEW d \in Devices, NEW bytes \in Seq(Bytes), Write(d, bytes)
  PROVE  Inv'
<1> DEFINE new == Written(d, bytes)
<1>1. /\ offset' = [offset EXCEPT ![d] = offset[d] + Len(bytes)]
      /\ synced' = synced \ new /\ safe' = safe \ new
      /\ dirty' = [e \in Devices |-> IF e = d THEN dirty[e] \cup new ELSE dirty[e] \ new]
      /\ UNCHANGED <<fileVars, opened, asked, maker>>
      /\ d \in opened /\ "write_only" \in asked[d]
  BY NativeMeans DEF Write, Written, Writable, Status
<1>2. /\ content' \in Seq(Bytes)
      /\ Len(content') <= MaxSize /\ Len(content) <= Len(content')
      /\ new \subseteq 1 .. Len(content')
      /\ \A i \in 1 .. Len(content) : i \notin new => content'[i] = content[i]
  BY WriteKeeps
<1>3. /\ Len(content) \in Nat /\ Len(content') \in Nat /\ Len(bytes) \in Nat
      /\ offset[d] + Len(bytes) \in 0 .. MaxSize
  BY <1>2, Sizes, LenProperties DEF Inv, ObjectTypes, DataTypes, Write
<1> HIDE DEF new
<1>4. PathTypes'
  BY <1>1 DEF Inv, PathTypes, fileVars
<1>5. DataTypes'
  <2>1. 1 .. Len(content) \subseteq 1 .. Len(content')
    BY <1>2, <1>3
  <2>2. dirty' \in [Devices -> SUBSET (1 .. Len(content'))]
    BY <1>1, <1>2, <2>1 DEF Inv, DataTypes
  <2> QED
    BY <1>1, <1>2, <2>1, <2>2 DEF Inv, DataTypes
<1>6. Rights'
  BY <1>1 DEF Inv, Rights, Permitted, Class, Status, fileVars
<1>7. offset' \in [Devices -> 0 .. MaxSize]
  BY <1>1, <1>3 DEF Inv, ObjectTypes
<1>8. exists
  BY <1>1 DEF Inv, Fresh
<1>9. \A e \in Devices \ {d} : offset'[e] = offset[e]
  BY <1>1 DEF Inv, ObjectTypes
<1>10. CASE author = d
  <2>1. text' = text \o bytes /\ UNCHANGED <<author, quiet, got>>
    BY <1>10 DEF Write
  <2>2. ObjectTypes'
    BY <1>1, <1>7, <2>1 DEF Inv, ObjectTypes
  <2>3. Fresh'
    BY <1>1, <1>8, <1>9, <2>1 DEF Inv, Fresh, fileVars
  <2>4. author # Nobody /\ content = text /\ offset[d] = Len(content)
    BY <1>10, Names DEF Inv, Lone
  <2>5. content' = Overlay(content, offset[d], bytes)
    BY DEF Write
  <2>6. content' = content \o bytes /\ content \in Seq(Bytes)
    BY <2>4, <2>5, OverlayAppends DEF Inv, DataTypes
  <2>7. Len(content') = Len(content) + Len(bytes)
    BY <2>6, ConcatProperties
  <2>8. offset'[d] = Len(content')
    BY <1>1, <2>4, <2>7 DEF Inv, ObjectTypes
  <2>9. \A i \in 1 .. Len(content) : content'[i] = content[i]
    <3>1. \A i \in 1 .. Len(content) : i <= Len(content) /\ i \in 1 .. Len(content) + Len(bytes)
      BY <1>3
    <3> QED
      BY <2>6, <3>1, ConcatProperties
  <2>10. ASSUME NEW e \in quiet \ {author}
         PROVE  offset'[e] <= Len(content') /\ got[e] = SubSeq(content', 1, offset'[e])
    <3>1. offset[e] <= Len(content) /\ got[e] = SubSeq(content, 1, offset[e])
      BY <2>4 DEF Inv, Lone
    <3>2. e \in Devices \ {d}
      BY <1>10 DEF Inv, ObjectTypes
    <3>3. offset[e] \in Nat /\ offset[e] <= Len(content') /\ offset'[e] = offset[e]
      BY <1>2, <1>3, <1>9, <3>1, <3>2, Sizes DEF Inv, ObjectTypes
    <3>4. \A i \in 1 .. offset[e] : content'[i] = content[i]
      BY <1>3, <2>9, <3>1, <3>3
    <3>5. SubSeq(content, 1, offset[e]) = SubSeq(content', 1, offset[e])
      BY <1>2, <2>6, <3>1, <3>3, <3>4, FrontEqual
    <3> QED
      BY <3>1, <3>3, <3>5
  <2>11. Lone'
    BY <1>1, <1>10, <2>1, <2>4, <2>6, <2>8, <2>10 DEF Lone
  <2> QED
    BY <1>4, <1>5, <1>6, <2>2, <2>3, <2>11 DEF Inv
<1>11. CASE author # d
  <2>1. author' = Nobody /\ quiet' = {} /\ got' = [e \in Devices |-> <<>>]
    BY <1>11 DEF Write
  <2>2. ObjectTypes'
    BY <1>1, <1>7, <2>1, Empty DEF Inv, ObjectTypes
  <2>3. Fresh'
    BY <1>1, <1>8, <1>9, <2>1 DEF Inv, Fresh, fileVars
  <2>4. Lone'
    BY <2>1 DEF Lone
  <2> QED
    BY <1>4, <1>5, <1>6, <2>2, <2>3, <2>4 DEF Inv
<1> QED
  BY <1>10, <1>11

LEMMA ReadInv ==
  ASSUME Inv, NEW d \in Devices, NEW n \in 1 .. MaxSize, Read(d, n)
  PROVE  Inv'
<1> DEFINE at == offset[d]
           k == Advance(d, n)
           data == SubSeq(content, at + 1, at + k)
<1>1. /\ content \in Seq(Bytes) /\ Len(content) \in Nat /\ Len(content) <= MaxSize
      /\ at \in Nat /\ n \in Nat
  BY Sizes, LenProperties DEF Inv, ObjectTypes, DataTypes
<1>2. /\ k \in Nat /\ k > 0 /\ at + k <= Len(content)
      /\ k = Shorter(n, Len(content) - at)
  <2>1. Longer(0, Shorter(n, Len(content) - at)) > 0
    BY DEF Read, Advance
  <2>2. Shorter(n, Len(content) - at) \in Int
    BY <1>1 DEF Shorter
  <2>3. Shorter(n, Len(content) - at) <= Len(content) - at
    BY <1>1 DEF Shorter
  <2>4. Shorter(n, Len(content) - at) > 0 /\ k = Shorter(n, Len(content) - at)
    BY <2>1, <2>2 DEF Longer, Advance
  <2> HIDE DEF k
  <2> QED
    BY <1>1, <2>2, <2>3, <2>4
<1>3. /\ offset' = [offset EXCEPT ![d] = at + k]
      /\ got' = IF d \in quiet THEN [got EXCEPT ![d] = @ \o data] ELSE got
      /\ UNCHANGED <<fileVars, content, synced, opened, asked, dirty, maker,
                     author, text, quiet, safe>>
      /\ d \in opened
  BY <1>2 DEF Read, Readable
<1> HIDE DEF at, k
<1>4. data \in Seq(Bytes)
  <2>1. \A i \in at + 1 .. at + k : i \in 1 .. Len(content)
    BY <1>1, <1>2
  <2>2. \A i \in at + 1 .. at + k : content[i] \in Bytes
    BY <1>1, <2>1, ElementOfSeq
  <2>3. at + 1 \in Int /\ at + k \in Int
    BY <1>1, <1>2
  <2> QED
    BY <2>2, <2>3, SubSeqProperties
<1> HIDE DEF data
<1>5. /\ got' \in [Devices -> Seq(Bytes)]
      /\ \A e \in Devices \ {d} : got'[e] = got[e]
  <2>1. got[d] \in Seq(Bytes) /\ got[d] \o data \in Seq(Bytes)
    BY <1>4, ConcatProperties DEF Inv, ObjectTypes
  <2> QED
    BY <1>3, <2>1 DEF Inv, ObjectTypes
<1>6. /\ offset' \in [Devices -> 0 .. MaxSize] /\ offset'[d] = at + k
      /\ \A e \in Devices \ {d} : offset'[e] = offset[e]
  <2>1. at + k \in 0 .. MaxSize
    BY <1>1, <1>2, Sizes
  <2> QED
    BY <1>3, <2>1 DEF Inv, ObjectTypes
<1>7. PathTypes' /\ DataTypes' /\ Rights'
  BY <1>3 DEF Inv, PathTypes, DataTypes, Rights, Permitted, Class, Status, fileVars
<1>8. ObjectTypes'
  BY <1>3, <1>5, <1>6 DEF Inv, ObjectTypes
<1>9. Fresh'
  BY <1>3, <1>5, <1>6 DEF Inv, Fresh, fileVars
<1>10. Lone'
  <2> SUFFICES ASSUME author # Nobody
               PROVE  /\ content = text
                      /\ author \in Devices =>
                           /\ author \in opened /\ "write_only" \in asked[author]
                           /\ offset'[author] = Len(content)
                      /\ \A e \in quiet \ {author} :
                           /\ offset'[e] <= Len(content)
                           /\ got'[e] = SubSeq(content, 1, offset'[e])
    BY <1>3 DEF Lone
  <2>1. author # d
    BY <1>1, <1>2 DEF Inv, Lone, at
  <2>2. /\ content = text
        /\ author \in Devices =>
             /\ author \in opened /\ "write_only" \in asked[author]
             /\ offset'[author] = Len(content)
    BY <1>6, <2>1 DEF Inv, Lone
  <2>3. ASSUME NEW e \in quiet \ {author}
        PROVE  offset'[e] <= Len(content) /\ got'[e] = SubSeq(content, 1, offset'[e])
    <3>1. offset[e] <= Len(content) /\ got[e] = SubSeq(content, 1, offset[e])
      BY DEF Inv, Lone
    <3>2. CASE e # d
      BY <1>5, <1>6, <3>1, <3>2 DEF Inv, ObjectTypes
    <3>3. CASE e = d
      <4>1. got'[d] = SubSeq(content, 1, at) \o data
        BY <1>3, <3>1, <3>3 DEF Inv, ObjectTypes, at
      <4>2. 1 \in 1 .. Len(content) + 1 /\ at \in 1 - 1 .. Len(content)
            /\ at + k \in at .. Len(content)
        BY <1>1, <1>2
      <4>3. SubSeq(content, 1, at) \o SubSeq(content, at + 1, at + k)
              = SubSeq(content, 1, at + k)
        BY <1>1, <4>2, ConcatAdjacentSubSeq
      <4>4. got'[d] = SubSeq(content, 1, at + k)
        BY <4>1, <4>3 DEF data
      <4>5. offset'[d] <= Len(content) /\ got'[d] = SubSeq(content, 1, offset'[d])
        BY <1>2, <1>6, <4>4
      <4> QED
        BY <3>3, <4>5
    <3> QED
      BY <3>2, <3>3
  <2> QED
    BY <2>2, <2>3
<1> QED
  BY <1>7, <1>8, <1>9, <1>10 DEF Inv

-----------------------------------------------------------------------------
(* Closing. *)

(* What the end of some devices leaves of the invariant, if the data stays. *)
LEMMA ReleaseInv ==
  ASSUME Inv, NEW d \in Devices, Release({d}), Leave({d}),
         UNCHANGED <<fileVars, content>>, synced' \subseteq 1 .. Len(content),
         safe' \subseteq synced'
  PROVE  Inv'
<1>1. /\ opened' = opened \ {d}
      /\ asked'  = [e \in Devices |-> IF e \in {d} THEN {} ELSE asked[e]]
      /\ offset' = [e \in Devices |-> IF e \in {d} THEN 0 ELSE offset[e]]
      /\ dirty'  = [e \in Devices |-> IF e \in {d} THEN {} ELSE dirty[e]]
      /\ maker'  = IF maker \in {d} THEN Nobody ELSE maker
      /\ author' = IF author \in {d} THEN Finished ELSE author
      /\ quiet' = quiet \ {d}
      /\ got' = [e \in Devices |-> IF e \in {d} THEN <<>> ELSE got[e]]
      /\ UNCHANGED text
  BY DEF Release, Leave
<1>2. PathTypes'
  BY <1>1 DEF Inv, PathTypes, fileVars
<1>3. ObjectTypes'
  BY <1>1, Sizes, Empty DEF Inv, ObjectTypes
<1>4. DataTypes'
  BY <1>1 DEF Inv, DataTypes
<1>5. Fresh'
  BY <1>1 DEF Inv, Fresh, fileVars
<1>6. Rights'
  <2>1. ASSUME NEW e \in opened' \ {maker'} PROVE Permitted(UserOf[e], Status(e))'
    <3>1. e \in opened \ {maker} /\ asked'[e] = asked[e]
      BY <1>1, <2>1 DEF Inv, ObjectTypes
    <3>2. Permitted(UserOf[e], Status(e))
      BY <3>1 DEF Inv, Rights
    <3> QED
      BY <3>1, <3>2 DEF Permitted, Class, Status, fileVars
  <2> QED
    BY <2>1 DEF Inv, Rights, fileVars
<1>7. Lone'
  <2> SUFFICES ASSUME author' # Nobody PROVE Lone'
    BY DEF Lone
  <2>1. author # Nobody
    BY <1>1, Names
  <2>2. \A e \in opened' : asked'[e] = asked[e] /\ offset'[e] = offset[e] /\ got'[e] = got[e]
    BY <1>1 DEF Inv, ObjectTypes
  <2>3. author' \in Devices => author' = author /\ author # d
    BY <1>1, Names
  <2>4. author' \in Devices =>
          /\ author' \in opened' /\ "write_only" \in asked'[author']
          /\ offset'[author'] = Len(content)
    BY <1>1, <2>1, <2>2, <2>3 DEF Inv, Lone
  <2>5. quiet' \subseteq opened' /\ quiet' \ {author'} \subseteq quiet \ {author}
    BY <1>1 DEF Inv, ObjectTypes
  <2>6. \A e \in quiet' \ {author'} :
          offset'[e] <= Len(content) /\ got'[e] = SubSeq(content, 1, offset'[e])
    BY <2>1, <2>2, <2>5 DEF Inv, Lone
  <2>7. content = text
    BY <2>1 DEF Inv, Lone
  <2> QED
    BY <1>1, <2>4, <2>6, <2>7 DEF Lone
<1> QED
  BY <1>2, <1>3, <1>4, <1>5, <1>6, <1>7 DEF Inv

LEMMA CloseInv ==
  ASSUME Inv, NEW d \in Devices, NEW fsyncFails \in BOOLEAN, NEW closeFails \in BOOLEAN,
         Close(d, fsyncFails, closeFails)
  PROVE  Inv'
<1>1. /\ synced' = IF fsyncFails THEN synced ELSE synced \cup dirty[d]
      /\ safe' = safe \/ (safe' = safe \cup dirty[d] /\ ~fsyncFails)
      /\ Release({d}) /\ Leave({d}) /\ UNCHANGED <<fileVars, content>>
  BY DEF Close, CloseError
<1>2. dirty[d] \subseteq 1 .. Len(content)
  BY DEF Inv, DataTypes
<1>3. synced' \subseteq 1 .. Len(content) /\ safe' \subseteq synced'
  BY <1>1, <1>2 DEF Inv, DataTypes
<1> QED
  BY <1>1, <1>3, ReleaseInv

LEMMA KillInv == ASSUME Inv, NEW d \in Devices, Kill(d) PROVE Inv'
BY ReleaseInv DEF Kill, Inv, DataTypes

LEMMA PowerLossInv == ASSUME Inv, PowerLoss PROVE Inv'
<1>1. /\ opened' = {}
      /\ asked'  = [d \in Devices |-> {}]
      /\ offset' = [d \in Devices |-> 0]
      /\ dirty'  = [d \in Devices |-> {}]
      /\ maker'  = Nobody
      /\ author' = Nobody /\ quiet' = {} /\ got' = [d \in Devices |-> <<>>]
  BY DEF PowerLoss, Release, Inv, ObjectTypes, PathTypes
<1>2. ObjectTypes' /\ Lone'
  BY <1>1, Sizes, Empty DEF ObjectTypes, Lone
<1>3. CASE /\ exists' = TRUE /\ settled' = TRUE
           /\ content' \in {f \in SeqOf(Bytes, MaxSize) :
                \A i \in synced : i <= Len(f) /\ f[i] = content[i]}
           /\ UNCHANGED <<owner, mode, wanted, synced, safe>>
  <2>1. PICK m \in 0 .. MaxSize : content' \in [1 .. m -> Bytes]
    BY <1>3 DEF SeqOf
  <2>2. content' \in Seq(Bytes) /\ Len(content') = m /\ m <= MaxSize /\ m \in Nat
    BY <2>1, Sizes, SeqDef, LenProperties
  <2>3. synced \subseteq 1 .. Len(content')
    BY <1>3, <2>2, LenProperties DEF Inv, DataTypes
  <2>4. DataTypes'
    BY <1>1, <1>3, <2>2, <2>3 DEF Inv, DataTypes
  <2> QED
    BY <1>1, <1>2, <1>3, <2>4 DEF Inv, PathTypes, Fresh, Rights
<1>4. CASE /\ ~settled /\ exists' = FALSE /\ owner' = Nobody /\ mode' = {}
           /\ content' = <<>> /\ synced' = {} /\ safe' = {} /\ wanted' = {}
           /\ UNCHANGED settled
  <2>1. DataTypes'
    BY <1>1, <1>4, Sizes, Empty DEF DataTypes
  <2> QED
    BY <1>1, <1>2, <1>4, <2>1 DEF Inv, PathTypes, Fresh, Rights
<1> QED
  BY <1>3, <1>4 DEF PowerLoss

LEMMA SomeBytes ==
  ASSUME NEW bytes \in SeqOf(Bytes, MaxSize) PROVE bytes \in Seq(Bytes)
<1>1. PICK m \in 0 .. MaxSize : bytes \in [1 .. m -> Bytes]
  BY DEF SeqOf
<1> QED
  BY <1>1, Sizes, SeqDef

LEMMA StepInv == Inv /\ [Next]_vars => Inv'
<1> SUFFICES ASSUME Inv, [Next]_vars PROVE Inv'
  OBVIOUS
<1>1. CASE UNCHANGED vars
  <2>1. PathTypes' /\ ObjectTypes' /\ DataTypes'
    BY <1>1 DEF Inv, PathTypes, ObjectTypes, DataTypes, vars, fileVars, history
  <2>2. Fresh' /\ Rights' /\ Lone'
    BY <1>1 DEF Inv, Fresh, Rights, Lone, Permitted, Class, Status, vars, fileVars, history
  <2> QED
    BY <2>1, <2>2 DEF Inv
<1>2. ASSUME NEW d \in Devices, NEW bytes \in SeqOf(Bytes, MaxSize), Write(d, bytes)
      PROVE  Inv'
  BY <1>2, WriteInv, SomeBytes
<1> QED
  BY <1>1, <1>2, OpenInv, ReadInv, CloseInv, KillInv, PowerLossInv DEF Next

LEMMA Always == Spec => []Inv
BY InitInv, StepInv, PTL DEF Spec

-----------------------------------------------------------------------------
(* The properties. *)

(* The variables keep their types: no file outgrows the bound, and no byte  *)
(* counts as synced, dirty or promised that is not there.                   *)
THEOREM TypeCorrect == Spec => []TypeOK
<1>1. Inv => TypeOK
  <2> SUFFICES ASSUME Inv PROVE TypeOK
    OBVIOUS
  <2>1. {exists, settled} \subseteq BOOLEAN
    BY DEF Inv, PathTypes
  <2>2. safe \subseteq 1 .. Len(content)
    BY DEF Inv, DataTypes
  <2> QED
    BY <2>1, <2>2 DEF Inv, PathTypes, ObjectTypes, DataTypes, TypeOK
<1> QED
  BY <1>1, Always, PTL

(* open_mode() of every open device tells the mode that was asked for.      *)
THEOREM ModesRoundTrip == Spec => []ModeRoundTrip
<1>1. Inv => ModeRoundTrip
  <2> SUFFICES ASSUME Inv, NEW d \in opened
               PROVE  OpenMode(d) =
                        LET m == asked[d] \ {"truncate"}
                        IN IF m \cap {"read_only", "write_only"} = {}
                           THEN m \cup {"read_only"} ELSE m
    BY DEF ModeRoundTrip
  <2> DEFINE flags == asked[d]
  <2>1. flags \subseteq {"read_only", "write_only", "non_blocking", "truncate"}
    BY DEF Inv, ObjectTypes, Flags
  <2>2. /\ "read_only" \in OpenMode(d) <=> "read_only" \in flags \/ "write_only" \notin flags
        /\ "write_only" \in OpenMode(d) <=> "write_only" \in flags
        /\ "non_blocking" \in OpenMode(d) <=> "non_blocking" \in flags
    BY NativeMeans DEF OpenMode, Status
  <2>3. OpenMode(d) \subseteq {"read_only", "write_only", "non_blocking"}
    BY DEF OpenMode
  <2> HIDE DEF flags
  <2>4. CASE "read_only" \notin flags /\ "write_only" \notin flags
    <3>1. (flags \ {"truncate"}) \cap {"read_only", "write_only"} = {}
      BY <2>4
    <3>2. OpenMode(d) = (flags \ {"truncate"}) \cup {"read_only"}
      BY <2>1, <2>2, <2>3, <2>4
    <3> QED
      BY <3>1, <3>2 DEF flags
  <2>5. CASE "read_only" \in flags \/ "write_only" \in flags
    <3>1. (flags \ {"truncate"}) \cap {"read_only", "write_only"} # {}
      BY <2>5
    <3>2. OpenMode(d) = flags \ {"truncate"}
      BY <2>1, <2>2, <2>3, <2>5
    <3> QED
      BY <3>1, <3>2 DEF flags
  <2> QED
    BY <2>4, <2>5
<1> QED
  BY <1>1, Always, PTL

(* Once the creator has passed permissions, nobody else opens the file in a *)
(* way that they do not name.                                               *)
THEOREM RightsAreGranted == Spec => []Granted
<1>1. Inv => Granted
  <2> SUFFICES ASSUME Inv, wanted # {}, NEW d \in opened \ {maker},
                      NEW r \in OpenMode(d) \cap {"read_only", "write_only"}
               PROVE  <<Class(UserOf[d]), IF r = "read_only" THEN "read" ELSE "write">>
                        \in wanted
    BY DEF Granted
  <2> DEFINE right == IF r = "read_only" THEN "read" ELSE "write"
             class == Class(UserOf[d])
  <2>1. right \in Needed(Status(d))
    <3>1. /\ r = "read_only" => "O_WRONLY" \notin Status(d)
          /\ r = "write_only" => Status(d) \cap {"O_WRONLY", "O_RDWR"} # {}
      BY NativeMeans DEF OpenMode, Status
    <3> QED
      BY <3>1 DEF Needed
  <2>2. right \in {"read", "write"} /\ class \in {"owner", "group", "others"}
    BY DEF Class
  <2>3. <<Letter[right], Suffix[class]>> \in ToNative(wanted)
    <3>1. Permitted(UserOf[d], Status(d)) /\ mode \subseteq ToNative(wanted)
      BY DEF Inv, Rights
    <3>2. <<Letter[right], Suffix[class]>> \in mode
      BY <2>1, <3>1 DEF Permitted
    <3> QED
      BY <3>1, <3>2
  <2> HIDE DEF right, class
  <2>4. PICK p \in wanted : <<Letter[right], Suffix[class]>> = <<Letter[p[2]], Suffix[p[1]]>>
    BY <2>3 DEF ToNative
  <2>5. /\ p[1] \in {"owner", "group", "others"} /\ p[2] \in {"read", "write", "exec"}
        /\ p = <<p[1], p[2]>>
    BY DEF Inv, PathTypes, Permissions
  <2>6. Letter[right] = Letter[p[2]] /\ Suffix[class] = Suffix[p[1]]
    BY <2>4
  <2>7. right = p[2]
    BY <2>2, <2>5, <2>6 DEF Letter
  <2>8. class = p[1]
    BY <2>2, <2>5, <2>6 DEF Suffix
  <2> QED
    BY <2>5, <2>7, <2>8 DEF right, class
<1> QED
  BY <1>1, Always, PTL

(* A device that only reads gets what the file's lone writer has written,   *)
(* byte by byte, and all of it when it finds nothing pending, unless more   *)
(* is left than an int can count.                                           *)
THEOREM LoneWriterIsRead == Spec => []ReadBack
<1>1. Inv => ReadBack
  <2> SUFFICES ASSUME Inv, author # Nobody, NEW d \in quiet, "write_only" \notin asked[d]
               PROVE  /\ IsPrefix(got[d], text)
                      /\ (~HasPendingData(d) /\ Len(content) - offset[d] <= IntMax)
                           => got[d] = text
    BY DEF ReadBack
  <2>1. d # author /\ d \in opened /\ d \in Devices
    BY DEF Inv, Lone, ObjectTypes
  <2>2. /\ offset[d] <= Len(content) /\ got[d] = SubSeq(content, 1, offset[d])
        /\ content = text
    BY <2>1 DEF Inv, Lone
  <2>3. content \in Seq(Bytes) /\ Len(content) \in Nat /\ offset[d] \in Nat
    BY <2>1, Sizes, LenProperties DEF Inv, ObjectTypes, DataTypes
  <2>4. IsPrefix(got[d], text)
    BY <2>2, <2>3, FrontsAreNested
  <2>5. ASSUME ~HasPendingData(d), Len(content) - offset[d] <= IntMax
        PROVE  got[d] = text
    <3> DEFINE n == Len(content) - offset[d]
    <3>1. n \in 0 .. IntMax /\ IntMax \in Nat
      BY <2>2, <2>3, <2>5, Sizes
    <3>2. ~(AsInt(n) > 0)
      BY <2>1, <2>5 DEF HasPendingData
    <3> HIDE DEF n
    <3>3. (n + IntMax + 1) % (2 * (IntMax + 1)) = n + IntMax + 1
      BY <3>1
    <3>4. n = 0
      BY <3>1, <3>2, <3>3 DEF AsInt
    <3>5. offset[d] = Len(content)
      BY <2>3, <3>4 DEF n
    <3> QED
      BY <2>2, <2>3, <3>5, SubSeqFull
  <2> QED
    BY <2>4, <2>5
<1> QED
  BY <1>1, Always, PTL

LEMMA StepSurvives ==
  ASSUME Inv, Next, exists', NEW i \in safe \cap safe'
  PROVE  i <= Len(content') /\ content'[i] = content[i]
<1>1. /\ i \in 1 .. Len(content) /\ i \in synced /\ content \in Seq(Bytes)
      /\ Len(content) \in Nat /\ i \in Nat /\ i <= Len(content)
  BY LenProperties DEF Inv, DataTypes
<1>2. CASE UNCHANGED content
  BY <1>1, <1>2
<1>3. ASSUME NEW d \in Devices, NEW flags \in FlagSets, NEW perms \in PermSets,
             Open(d, flags, perms)
      PROVE  UNCHANGED content
  <2>1. ~Truncate
    BY DEF Truncate
  <2> QED
    BY <1>3, <2>1 DEF Open, Create
<1>4. ASSUME NEW d \in Devices, NEW bytes \in SeqOf(Bytes, MaxSize), Write(d, bytes)
      PROVE  i <= Len(content') /\ content'[i] = content[i]
  <2>1. /\ content' \in Seq(Bytes) /\ Len(content) <= Len(content')
        /\ \A j \in 1 .. Len(content) : j \notin Written(d, bytes) => content'[j] = content[j]
    BY <1>4, WriteKeeps, SomeBytes
  <2>2. i \notin Written(d, bytes)
    BY <1>4 DEF Write, Written
  <2>3. Len(content') \in Nat
    BY <2>1, LenProperties
  <2> QED
    BY <1>1, <2>1, <2>2, <2>3
<1>5. ASSUME PowerLoss PROVE i <= Len(content') /\ content'[i] = content[i]
  BY <1>1, <1>5 DEF PowerLoss
<1>6. ASSUME NEW d \in Devices,
             \/ \E n \in 1 .. MaxSize : Read(d, n)
             \/ \E fsyncFails, closeFails \in BOOLEAN : Close(d, fsyncFails, closeFails)
             \/ Kill(d)
      PROVE  UNCHANGED content
  BY <1>6 DEF Read, Close, Kill
<1> QED
  BY <1>2, <1>3, <1>4, <1>5, <1>6 DEF Next

(* The bytes that a close() without an error has promised stay as they are, *)
(* through a failure of the power too, until they are written again or the  *)
(* file is emptied or has lost its name.                                    *)
THEOREM PromisesSurvive == Spec => Survives
<1>1. Inv /\ [Next]_vars =>
        [exists' => \A i \in safe \cap safe' :
           i <= Len(content') /\ content'[i] = content[i]]_vars
  BY StepSurvives
<1> QED
  BY <1>1, Always, PTL DEF Spec, Survives
=============================================================================
