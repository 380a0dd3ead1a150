---------------------------- MODULE BufferProofs ----------------------------
(***************************************************************************)
(* A buffer is a byte stream while its owner leaves the bytes read in      *)
(* place, and returns no byte twice whatever the owner does.               *)
(***************************************************************************)
EXTENDS Buffer, SequenceFacts

(* What has been read is the part of the container before the position. *)
ReadSoFar ==
  /\ pos <= Len(content)
  /\ got = SubSeq(content, 1, pos)

BufferInv == TypeOK /\ ReadSoFar

(* The bytes put next are new ones. *)
LEMMA FreshBytes ==
  ASSUME TypeOK, NEW n \in Nat
  PROVE  /\ Fresh(n) \in Seq(Byte) /\ Len(Fresh(n)) = n
         /\ \A i \in 1 .. n : Fresh(n)[i] = put + i
<1>1. put \in Nat
  BY DEF TypeOK
<1>2. \A i \in 1 .. n : put + i \in Byte
  BY <1>1 DEF Byte
<1> QED
  BY <1>2 DEF Fresh

LEMMA BufferInit == Init => BufferInv
<1> SUFFICES ASSUME Init PROVE BufferInv
  OBVIOUS
<1>1. put \in Nat /\ put <= MaxSize /\ MaxSize \in Nat
  BY BufferAssumption DEF Init
<1>2. content \in Seq(Byte) /\ Len(content) = put
  BY <1>1 DEF Init, Byte
<1>3. TypeOK
  <2>1. got \in Seq(Byte) /\ Len(got) = 0
    BY EmptySeq DEF Init
  <2>2. 0 \in 0 .. MaxSize
    BY BufferAssumption
  <2> QED
    BY <1>1, <1>2, <2>1, <2>2 DEF Init, TypeOK
<1>4. ReadSoFar
  <2>1. SubSeq(content, 1, 0) = <<>>
    BY SubSeqEmpty
  <2> QED
    BY <1>1, <1>2, <2>1 DEF Init, ReadSoFar
<1> QED
  BY <1>3, <1>4 DEF BufferInv

-----------------------------------------------------------------------------
(* Type correctness.  It does not need the owner to leave the bytes read    *)
(* where they are: a position behind the container's end reads nothing.     *)

LEMMA TypeStep ==
  ASSUME TypeOK, [Next]_vars
  PROVE  TypeOK'
<1>0. /\ content \in Seq(Byte) /\ Len(content) \in Nat /\ Len(content) <= MaxSize
      /\ pos \in Nat /\ pos <= MaxSize /\ MaxSize \in Nat /\ MaxChunk \in Nat
      /\ got \in Seq(Byte) /\ Len(got) = pos
  BY LenProperties, BufferAssumption DEF TypeOK
<1>1. CASE UNCHANGED vars
  BY <1>1 DEF vars, TypeOK
<1>2. ASSUME NEW n \in 1 .. MaxChunk, Read(n) PROVE TypeOK'
  <2> DEFINE k == Available(n)
  <2>1. /\ k \in Nat /\ k >= 1 /\ pos + k <= Len(content)
        /\ pos' = pos + k /\ got' = got \o SubSeq(content, pos + 1, pos + k)
    BY <1>0, <1>2 DEF Read, Copy, Available, Smaller
  <2> HIDE DEF k
  <2>2. /\ SubSeq(content, pos + 1, pos + k) \in Seq(Byte)
        /\ Len(SubSeq(content, pos + 1, pos + k)) = k
    BY <1>0, <2>1, PartElements
  <2>3. got' \in Seq(Byte) /\ Len(got') = pos + k
    BY <1>0, <2>1, <2>2, ConcatProperties
  <2>4. pos' \in 0 .. MaxSize
    BY <1>0, <2>1
  <2> QED
    BY <1>2, <2>1, <2>3, <2>4 DEF Read, TypeOK
<1>3. ASSUME NEW n \in 1 .. MaxChunk, Write(n) PROVE TypeOK'
  <2>1. n \in Nat /\ Fresh(n) \in Seq(Byte) /\ Len(Fresh(n)) = n
    BY <1>0, FreshBytes
  <2>2. /\ content \o Fresh(n) \in Seq(Byte)
        /\ Len(content \o Fresh(n)) = Len(content) + n
    BY <1>0, <2>1, ConcatElements
  <2>3. content' \in Seq(Byte) /\ Len(content') <= MaxSize
    BY <1>0, <1>3, <2>2 DEF Write
  <2>4. put' \in Nat
    BY <1>3, <2>1 DEF Write, TypeOK
  <2> QED
    BY <1>3, <2>3, <2>4 DEF Write, TypeOK
<1>4. CASE Close
  BY <1>4 DEF Close, TypeOK, Modes
<1>5. ASSUME OwnerAppends PROVE TypeOK'
  <2>1. Fresh(1) \in Seq(Byte) /\ Len(Fresh(1)) = 1
    BY FreshBytes
  <2>2. /\ content \o Fresh(1) \in Seq(Byte)
        /\ Len(content \o Fresh(1)) = Len(content) + 1
    <3>1. /\ content \o Fresh(1) \in Seq(Byte)
          /\ Len(content \o Fresh(1)) = Len(content) + Len(Fresh(1))
      BY <1>0, <2>1, ConcatElements
    <3> QED
      BY <2>1, <3>1
  <2>3. content' \in Seq(Byte) /\ Len(content') <= MaxSize
    BY <1>0, <1>5, <2>2 DEF OwnerAppends
  <2>4. put' \in Nat
    BY <1>5 DEF OwnerAppends, TypeOK
  <2> QED
    BY <1>5, <2>3, <2>4 DEF OwnerAppends, TypeOK
<1>6. ASSUME NEW n \in 0 .. Len(content) - 1, OwnerErases(n) PROVE TypeOK'
  <2>1. n \in 0 .. Len(content) /\ n <= MaxSize
    BY <1>0
  <2>2. content' \in Seq(Byte) /\ Len(content') = n
    BY <1>0, <1>6, <2>1, FrontProperties DEF OwnerErases
  <2> QED
    BY <1>6, <2>1, <2>2 DEF OwnerErases, TypeOK
<1> QED
  BY <1>1, <1>2, <1>3, <1>4, <1>5, <1>6 DEF Next

(* The position never passes max_size(), so that the room write() computes  *)
(* does not wrap, and it counts the bytes that read() has returned, even if *)
(* the owner erases bytes behind its back.                                  *)
THEOREM TypeCorrect == Spec => []TypeOK
<1>1. Init => TypeOK
  BY BufferInit DEF BufferInv
<1> QED
  BY <1>1, TypeStep, PTL DEF Spec

-----------------------------------------------------------------------------
(* A read() extends what has been read, up to the end of the container. *)
LEMMA ReadExtends ==
  ASSUME BufferInv, NEW n \in 1 .. MaxChunk, Read(n)
  PROVE  BufferInv' /\ IsPrefix(got, got') /\ IsPrefix(got', content)
<1>1. /\ content \in Seq(Byte) /\ Len(content) \in Nat /\ pos \in Nat
      /\ pos < Len(content) /\ Len(content) <= MaxSize /\ MaxSize \in Nat
      /\ n \in Nat /\ n >= 1
  BY BufferAssumption DEF BufferInv, TypeOK, Read
<1>2. /\ Available(n) \in Nat /\ pos' = pos + Available(n)
      /\ pos' \in Nat /\ pos <= pos' /\ pos' <= Len(content)
  BY <1>1 DEF Read, Available, Smaller
<1>3. got' = SubSeq(content, 1, pos) \o SubSeq(content, pos + 1, pos')
  BY <1>2 DEF BufferInv, ReadSoFar, Read, Copy
<1>4. got' = SubSeq(content, 1, pos')
  <2>1. 1 \in 1 .. Len(content) + 1 /\ pos \in 0 .. Len(content)
        /\ pos' \in pos .. Len(content)
    BY <1>1, <1>2
  <2>2. 1 - 1 = 0
    OBVIOUS
  <2> QED
    BY <1>1, <1>3, <2>1, <2>2, ConcatAdjacentSubSeq
<1>5. got' \in Seq(Byte) /\ Len(got') = pos'
  BY <1>1, <1>2, <1>4, FrontProperties
<1>6. BufferInv'
  BY <1>1, <1>2, <1>4, <1>5 DEF BufferInv, ReadSoFar, TypeOK, Read
<1> QED
  BY <1>1, <1>2, <1>4, <1>6, FrontsAreNested DEF BufferInv, ReadSoFar

(* Bytes appended to the container leave what has been read alone. *)
LEMMA AppendKeeps ==
  ASSUME BufferInv, NEW bytes \in Seq(Byte), content' = content \o bytes, pos' = pos,
         got' = got
  PROVE  /\ content' \in Seq(Byte) /\ Len(content') = Len(content) + Len(bytes)
         /\ ReadSoFar' /\ IsPrefix(content, content')
<1>1. /\ content \in Seq(Byte) /\ Len(content) \in Nat /\ Len(bytes) \in Nat
      /\ pos \in Nat /\ pos <= Len(content)
  BY LenProperties, BufferAssumption DEF BufferInv, TypeOK, ReadSoFar
<1>2. /\ content' \in Seq(Byte) /\ Len(content') = Len(content) + Len(bytes)
      /\ \A i \in 1 .. Len(content) : content'[i] = content[i]
  BY <1>1, ConcatProperties
<1>3. \A n \in Nat : n <= Len(content) => SubSeq(content', 1, n) = SubSeq(content, 1, n)
  BY <1>1, <1>2, FrontEqual
<1> QED
  BY <1>1, <1>2, <1>3 DEF ReadSoFar, IsPrefix, BufferInv

LEMMA WriteAppends ==
  ASSUME BufferInv, NEW n \in 1 .. MaxChunk, Write(n)
  PROVE  BufferInv' /\ content' \in Seq(Byte) /\ IsPrefix(content, content')
<1>1. n \in Nat /\ Fresh(n) \in Seq(Byte) /\ Len(Fresh(n)) = n
  BY FreshBytes, BufferAssumption DEF BufferInv
<1>2. TypeOK'
  BY TypeStep DEF BufferInv, Next
<1>3. CASE content' = content \o Fresh(n)
  <2>1. pos' = pos /\ got' = got
    BY DEF Write
  <2> QED
    BY <1>1, <1>2, <1>3, <2>1, AppendKeeps DEF BufferInv
<1>4. CASE content' = content
  <2>1. content \in Seq(Byte) /\ IsPrefix(content, content)
    BY LenProperties DEF BufferInv, TypeOK, IsPrefix
  <2>2. ReadSoFar'
    BY <1>4 DEF Write, BufferInv, ReadSoFar
  <2> QED
    BY <1>2, <1>4, <2>1, <2>2 DEF BufferInv
<1> QED
  BY <1>3, <1>4 DEF Write

LEMMA OwnerExtends ==
  ASSUME BufferInv, OwnerAppends
  PROVE  BufferInv' /\ content' \in Seq(Byte) /\ IsPrefix(content, content')
<1>1. Fresh(1) \in Seq(Byte) /\ content' = content \o Fresh(1) /\ pos' = pos /\ got' = got
  BY FreshBytes DEF OwnerAppends, BufferInv
<1>2. TypeOK'
  BY TypeStep DEF BufferInv, Next
<1> QED
  BY <1>1, <1>2, AppendKeeps DEF BufferInv

LEMMA OwnerTakesBack ==
  ASSUME BufferInv, intact', NEW n \in 0 .. Len(content) - 1, OwnerErases(n)
  PROVE  BufferInv' /\ IsPrefix(content', content) /\ IsPrefix(got, content')
<1>1. /\ content \in Seq(Byte) /\ Len(content) \in Nat /\ n \in Nat /\ n < Len(content)
      /\ pos \in Nat /\ pos <= n /\ MaxSize \in Nat /\ Len(content) <= MaxSize
  BY LenProperties, BufferAssumption DEF BufferInv, TypeOK, OwnerErases
<1>2. /\ content' \in Seq(Byte) /\ Len(content') = n
      /\ \A i \in 1 .. n : content'[i] = content[i]
  BY <1>1, FrontProperties DEF OwnerErases
<1>3. got' = got /\ pos' = pos /\ got = SubSeq(content, 1, pos)
  BY DEF OwnerErases, BufferInv, ReadSoFar
<1>4. SubSeq(content', 1, pos) = SubSeq(content, 1, pos)
  <2>1. /\ content' \in Seq(Byte) /\ pos <= Len(content') /\ pos <= Len(content)
        /\ \A i \in 1 .. pos : content'[i] = content[i]
    BY <1>1, <1>2
  <2> QED
    BY <1>1, <2>1, FrontEqual
<1>5. BufferInv'
  BY <1>1, <1>2, <1>3, <1>4 DEF OwnerErases, BufferInv, TypeOK, ReadSoFar
<1> QED
  BY <1>1, <1>3, <1>5, FrontsAreNested DEF OwnerErases

(* One step of a buffer that leaves the bytes read in place: the invariant *)
(* is kept, and the step is one of the stream's or changes nothing of it.  *)
LEMMA BufferStep ==
  ASSUME BufferInv, intact', [Next]_vars
  PROVE  BufferInv' /\ [Stream!RevocableNext]_<<content, got>>
<1> USE DEF Stream!RevocableNext, Stream!Put, Stream!Get, Stream!TakeBack,
            Stream!IsPrefix, IsPrefix
<1>1. CASE UNCHANGED vars
  BY <1>1 DEF vars, BufferInv, TypeOK, ReadSoFar
<1>2. ASSUME NEW n \in 1 .. MaxChunk, Read(n) PROVE BufferInv' /\ Stream!Get
  BY <1>2, ReadExtends DEF Read
<1>3. ASSUME NEW n \in 1 .. MaxChunk, Write(n) PROVE BufferInv' /\ Stream!Put
  BY <1>3, WriteAppends DEF Write
<1>4. CASE Close
  BY <1>4 DEF Close, BufferInv, TypeOK, ReadSoFar, Modes
<1>5. ASSUME OwnerAppends PROVE BufferInv' /\ Stream!Put
  BY <1>5, OwnerExtends DEF OwnerAppends
<1>6. ASSUME NEW n \in 0 .. Len(content) - 1, OwnerErases(n)
      PROVE  BufferInv' /\ Stream!TakeBack
  BY <1>6, OwnerTakesBack DEF OwnerErases
<1> QED
  BY <1>1, <1>2, <1>3, <1>4, <1>5, <1>6 DEF Next

(* Once the owner has cut off bytes that were read, `intact' stays false. *)
LEMMA IntactBefore ==
  ASSUME TypeOK, intact', [Next]_vars
  PROVE  intact
<1> QED
  BY DEF TypeOK, Next, Read, Write, Close, OwnerAppends, OwnerErases, vars

(* A buffer implements a byte stream, whatever the sizes of the container   *)
(* and of the calls, for as long as the owner leaves the bytes read where   *)
(* they are.                                                                *)
THEOREM BufferIsByteStream == Spec => IsByteStream
<1> DEFINE Inv == TypeOK /\ (intact => ReadSoFar)
<1>1. Init => Inv /\ Stream!StreamInit
  BY BufferInit DEF BufferInv, TypeOK, Init, Stream!StreamInit
<1>2. Inv /\ [Next]_vars => Inv' /\ [intact' => Stream!RevocableNext]_<<content, got>>
  <2> SUFFICES ASSUME Inv, [Next]_vars
               PROVE  Inv' /\ [intact' => Stream!RevocableNext]_<<content, got>>
    OBVIOUS
  <2>1. TypeOK'
    BY TypeStep
  <2>2. CASE intact'
    <3>1. BufferInv
      BY <2>2, IntactBefore DEF BufferInv
    <3> QED
      BY <2>2, <3>1, BufferStep DEF BufferInv
  <2> QED
    BY <2>1, <2>2
<1> QED
  BY <1>1, <1>2, PTL DEF Spec, IsByteStream

-----------------------------------------------------------------------------
(* No byte comes twice, whatever the owner erases.  What is in the container *)
(* is in the order it was put, and what is behind the position was put after *)
(* all that has been read.                                                   *)
OrderInv ==
  /\ TypeOK
  /\ Increasing(content) /\ \A i \in 1 .. Len(content) : content[i] <= put
  /\ Increasing(got) /\ \A i \in 1 .. Len(got) : got[i] <= put
  /\ \A i \in 1 .. Len(got), j \in pos + 1 .. Len(content) : got[i] < content[j]

LEMMA OrderInit == Init => OrderInv
<1> SUFFICES ASSUME Init PROVE OrderInv
  OBVIOUS
<1>1. TypeOK
  BY BufferInit DEF BufferInv
<1>2. put \in Nat /\ Len(content) = put /\ \A i \in 1 .. put : content[i] = i
  BY BufferAssumption DEF Init
<1>3. Len(got) = 0
  BY EmptySeq DEF Init
<1> QED
  BY <1>1, <1>2, <1>3 DEF OrderInv, Increasing

(* A read() takes bytes that were put after all that has been read. *)
LEMMA ReadKeepsOrder ==
  ASSUME OrderInv, NEW n \in 1 .. MaxChunk, Read(n), TypeOK'
  PROVE  OrderInv'
<1> DEFINE k == Available(n)
           part == SubSeq(content, pos + 1, pos + k)
<1>1. /\ content \in Seq(Byte) /\ Len(content) \in Nat /\ pos \in Nat
      /\ got \in Seq(Byte) /\ Len(got) = pos /\ MaxSize \in Nat
  BY LenProperties, BufferAssumption DEF OrderInv, TypeOK
<1>2. /\ k \in Nat /\ pos + k <= Len(content) /\ pos' = pos + k /\ got' = got \o part
      /\ content' = content /\ put' = put
  BY <1>1, BufferAssumption DEF Read, Copy, Available, Smaller
<1> HIDE DEF k
<1>3. /\ part \in Seq(Byte) /\ Len(part) = k
      /\ \A i \in 1 .. k : part[i] = content[pos + i]
  BY <1>1, <1>2, PartElements
<1> HIDE DEF part
<1>4. /\ Len(got') = pos + k
      /\ \A i \in 1 .. pos : got'[i] = got[i]
      /\ \A i \in pos + 1 .. pos + k : got'[i] = content[i]
  <2>1. /\ Len(got \o part) = pos + k
        /\ \A i \in 1 .. pos : (got \o part)[i] = got[i]
        /\ \A i \in 1 .. k : (got \o part)[pos + i] = part[i]
    <3>1. /\ Len(got \o part) = Len(got) + Len(part)
          /\ \A i \in 1 .. Len(got) : (got \o part)[i] = got[i]
          /\ \A i \in 1 .. Len(part) : (got \o part)[Len(got) + i] = part[i]
      <4>1. got \in Seq(Byte) /\ part \in Seq(Byte)
        BY <1>1, <1>3
      <4> QED
        BY <4>1, ConcatElements
    <3> QED
      BY <1>1, <1>3, <3>1
  <2>2. ASSUME NEW i \in pos + 1 .. pos + k PROVE (got \o part)[i] = content[i]
    <3>1. i - pos \in 1 .. k /\ pos + (i - pos) = i
      BY <1>1, <1>2
    <3> QED
      BY <1>3, <2>1, <3>1
  <2> QED
    BY <1>2, <2>1, <2>2
<1>5. /\ \A i \in 1 .. pos : got[i] \in Nat
      /\ \A i \in 1 .. Len(content) : content[i] \in Nat
  BY <1>1, ElementOfSeq DEF Byte
<1>6. Increasing(got')
  <2> SUFFICES ASSUME NEW i \in 1 .. pos + k, NEW j \in 1 .. pos + k, i < j
               PROVE  got'[i] < got'[j]
    BY <1>4 DEF Increasing
  <2>1. CASE j <= pos
    <3>1. i \in 1 .. pos /\ j \in 1 .. pos
      BY <1>1, <2>1
    <3> QED
      BY <1>1, <1>4, <3>1 DEF OrderInv, Increasing
  <2>2. CASE i <= pos /\ j > pos
    <3>1. i \in 1 .. pos /\ j \in pos + 1 .. pos + k /\ j \in pos + 1 .. Len(content)
      BY <1>1, <1>2, <2>2
    <3> QED
      BY <1>1, <1>4, <3>1 DEF OrderInv
  <2>3. CASE i > pos
    <3>1. /\ i \in pos + 1 .. pos + k /\ j \in pos + 1 .. pos + k
          /\ i \in 1 .. Len(content) /\ j \in 1 .. Len(content)
      BY <1>1, <1>2, <2>3
    <3> QED
      BY <1>4, <3>1 DEF OrderInv, Increasing
  <2>4. i \in Nat /\ j \in Nat
    BY <1>1, <1>2
  <2> QED
    BY <1>1, <2>1, <2>2, <2>3, <2>4
<1>7. \A i \in 1 .. pos + k : got'[i] <= put
  <2> SUFFICES ASSUME NEW i \in 1 .. pos + k PROVE got'[i] <= put
    OBVIOUS
  <2>1. CASE i \in 1 .. pos
    BY <1>1, <1>4, <2>1 DEF OrderInv
  <2>2. CASE i \in pos + 1 .. pos + k
    <3>1. i \in 1 .. Len(content)
      BY <1>1, <1>2, <2>2
    <3> QED
      BY <1>4, <2>2, <3>1 DEF OrderInv
  <2>3. i \in 1 .. pos \/ i \in pos + 1 .. pos + k
    BY <1>1, <1>2
  <2> QED
    BY <2>1, <2>2, <2>3
<1>8. \A i \in 1 .. pos + k, j \in pos + k + 1 .. Len(content) : got'[i] < content[j]
  <2> SUFFICES ASSUME NEW i \in 1 .. pos + k, NEW j \in pos + k + 1 .. Len(content)
               PROVE  got'[i] < content[j]
    OBVIOUS
  <2>1. j \in pos + 1 .. Len(content) /\ j \in 1 .. Len(content)
    BY <1>1, <1>2
  <2>2. CASE i \in 1 .. pos
    BY <1>1, <1>4, <2>1, <2>2 DEF OrderInv
  <2>3. CASE i \in pos + 1 .. pos + k
    <3>1. i \in 1 .. Len(content) /\ i < j
      BY <1>1, <1>2, <2>3
    <3> QED
      BY <1>4, <2>1, <2>3, <3>1 DEF OrderInv, Increasing
  <2>4. i \in 1 .. pos \/ i \in pos + 1 .. pos + k
    BY <1>1, <1>2
  <2> QED
    BY <2>2, <2>3, <2>4
<1> QED
  BY <1>2, <1>4, <1>6, <1>7, <1>8 DEF OrderInv, Increasing

(* Bytes put into the container come after all that was put before. *)
LEMMA PutKeepsOrder ==
  ASSUME OrderInv, NEW n \in Nat, content' = content \o Fresh(n), put' = put + n,
         pos' = pos, got' = got, TypeOK'
  PROVE  OrderInv'
<1> DEFINE len == Len(content)
<1>1. /\ content \in Seq(Byte) /\ len \in Nat /\ pos \in Nat /\ put \in Nat
      /\ got \in Seq(Byte) /\ Len(got) = pos /\ MaxSize \in Nat
  BY LenProperties, BufferAssumption DEF OrderInv, TypeOK
<1>2. /\ Fresh(n) \in Seq(Byte) /\ Len(Fresh(n)) = n
      /\ \A i \in 1 .. n : Fresh(n)[i] = put + i
  BY FreshBytes DEF OrderInv
<1>3. /\ Len(content') = len + n
      /\ \A i \in 1 .. len : content'[i] = content[i]
      /\ \A i \in len + 1 .. len + n : content'[i] = put + (i - len)
  <2>1. /\ Len(content \o Fresh(n)) = len + n
        /\ \A i \in 1 .. len : (content \o Fresh(n))[i] = content[i]
        /\ \A i \in 1 .. n : (content \o Fresh(n))[len + i] = Fresh(n)[i]
    <3>1. /\ Len(content \o Fresh(n)) = Len(content) + Len(Fresh(n))
          /\ \A i \in 1 .. Len(content) : (content \o Fresh(n))[i] = content[i]
          /\ \A i \in 1 .. Len(Fresh(n)) :
               (content \o Fresh(n))[Len(content) + i] = Fresh(n)[i]
      <4>1. content \in Seq(Byte) /\ Fresh(n) \in Seq(Byte)
        BY <1>1, <1>2
      <4> QED
        BY <4>1, ConcatElements
    <3> QED
      BY <1>2, <3>1
  <2>2. ASSUME NEW i \in len + 1 .. len + n PROVE (content \o Fresh(n))[i] = put + (i - len)
    <3>1. i - len \in 1 .. n /\ len + (i - len) = i
      BY <1>1
    <3> QED
      BY <1>2, <2>1, <3>1
  <2> QED
    BY <2>1, <2>2
<1>4. /\ \A i \in 1 .. pos : got[i] \in Nat
      /\ \A i \in 1 .. len : content[i] \in Nat
  BY <1>1, ElementOfSeq DEF Byte
<1>5. /\ \A i \in 1 .. len : content[i] <= put
      /\ \A i, j \in 1 .. len : i < j => content[i] < content[j]
      /\ \A i \in 1 .. pos : got[i] <= put
      /\ \A i \in 1 .. pos, j \in pos + 1 .. len : got[i] < content[j]
  BY <1>1 DEF OrderInv, Increasing
<1> HIDE DEF len
<1>6. \A i \in 1 .. len + n : content'[i] <= put + n
  <2> SUFFICES ASSUME NEW i \in 1 .. len + n PROVE content'[i] <= put + n
    OBVIOUS
  <2>1. CASE i \in 1 .. len
    BY <1>1, <1>3, <1>4, <1>5, <2>1
  <2>2. CASE i \in len + 1 .. len + n
    BY <1>1, <1>3, <2>2
  <2>3. i \in 1 .. len \/ i \in len + 1 .. len + n
    BY <1>1
  <2> QED
    BY <2>1, <2>2, <2>3
<1>7. \A i, j \in 1 .. len + n : i < j => content'[i] < content'[j]
  <2> SUFFICES ASSUME NEW i \in 1 .. len + n, NEW j \in 1 .. len + n, i < j
               PROVE  content'[i] < content'[j]
    OBVIOUS
  <2>1. CASE j \in 1 .. len
    <3>1. i \in 1 .. len
      BY <1>1, <2>1
    <3> QED
      BY <1>3, <1>5, <2>1, <3>1
  <2>2. CASE i \in 1 .. len /\ j \in len + 1 .. len + n
    BY <1>1, <1>3, <1>4, <1>5, <2>2
  <2>3. CASE i \in len + 1 .. len + n
    <3>1. j \in len + 1 .. len + n
      BY <1>1, <2>3
    <3> QED
      BY <1>1, <1>3, <2>3, <3>1
  <2>4. \/ j \in 1 .. len
        \/ i \in 1 .. len /\ j \in len + 1 .. len + n
        \/ i \in len + 1 .. len + n
    BY <1>1
  <2> QED
    BY <2>1, <2>2, <2>3, <2>4
<1>8. \A i \in 1 .. pos, j \in pos + 1 .. len + n : got[i] < content'[j]
  <2> SUFFICES ASSUME NEW i \in 1 .. pos, NEW j \in pos + 1 .. len + n
               PROVE  got[i] < content'[j]
    OBVIOUS
  <2>1. CASE j \in 1 .. len
    <3>1. j \in pos + 1 .. len
      BY <1>1, <2>1
    <3> QED
      BY <1>3, <1>5, <2>1, <3>1
  <2>2. CASE j \in len + 1 .. len + n
    BY <1>1, <1>3, <1>4, <1>5, <2>2
  <2>3. j \in 1 .. len \/ j \in len + 1 .. len + n
    BY <1>1
  <2> QED
    BY <2>1, <2>2, <2>3
<1>9. \A i \in 1 .. pos : got[i] <= put + n
  BY <1>1, <1>4, <1>5
<1>10. Len(got') = pos
  BY <1>1
<1> QED
  BY <1>3, <1>6, <1>7, <1>8, <1>9, <1>10 DEF OrderInv, Increasing

(* Cutting the container changes none of the bytes it keeps. *)
LEMMA CutKeepsOrder ==
  ASSUME OrderInv, NEW n \in 0 .. Len(content) - 1, OwnerErases(n), TypeOK'
  PROVE  OrderInv'
<1>1. content \in Seq(Byte) /\ Len(content) \in Nat /\ pos \in Nat /\ n \in 0 .. Len(content)
  BY LenProperties, BufferAssumption DEF OrderInv, TypeOK
<1>2. Len(content') = n /\ \A i \in 1 .. n : content'[i] = content[i]
  BY <1>1, FrontProperties DEF OwnerErases
<1>3. UNCHANGED <<put, pos, got>>
  BY DEF OwnerErases
<1>4. Increasing(content')
  BY <1>1, <1>2 DEF OrderInv, Increasing
<1>5. \A i \in 1 .. Len(content') : content'[i] <= put'
  BY <1>1, <1>2, <1>3 DEF OrderInv
<1>6. \A i \in 1 .. Len(got'), j \in pos' + 1 .. Len(content') : got'[i] < content'[j]
  <2> SUFFICES ASSUME NEW i \in 1 .. Len(got), NEW j \in pos + 1 .. n
               PROVE  got[i] < content'[j]
    BY <1>2, <1>3
  <2>1. j \in 1 .. n /\ j \in pos + 1 .. Len(content)
    BY <1>1
  <2> QED
    BY <1>2, <2>1 DEF OrderInv
<1> QED
  BY <1>3, <1>4, <1>5, <1>6 DEF OrderInv, Increasing

LEMMA OrderStep ==
  ASSUME OrderInv, [Next]_vars
  PROVE  OrderInv'
<1>0. TypeOK'
  BY TypeStep DEF OrderInv
<1>1. CASE UNCHANGED <<content, put, pos, got>>
  BY <1>0, <1>1 DEF OrderInv, Increasing
<1>2. ASSUME NEW n \in 1 .. MaxChunk, Read(n) PROVE OrderInv'
  BY <1>0, <1>2, ReadKeepsOrder
<1>3. ASSUME NEW n \in 1 .. MaxChunk, Write(n) PROVE OrderInv'
  BY <1>0, <1>1, <1>3, PutKeepsOrder DEF Write
<1>4. ASSUME OwnerAppends PROVE OrderInv'
  BY <1>0, <1>4, PutKeepsOrder DEF OwnerAppends
<1>5. ASSUME NEW n \in 0 .. Len(content) - 1, OwnerErases(n) PROVE OrderInv'
  BY <1>0, <1>5, CutKeepsOrder
<1> QED
  BY <1>1, <1>2, <1>3, <1>4, <1>5 DEF Next, Close, vars

(* read() returns no byte twice and none before an earlier one, whatever    *)
(* the owner does to the container: nothing is assumed of it.               *)
THEOREM BytesComeOnce == Spec => []InOrder
<1>1. OrderInv => InOrder
  BY DEF OrderInv, InOrder
<1> QED
  BY OrderInit, OrderStep, <1>1, PTL DEF Spec
=============================================================================
