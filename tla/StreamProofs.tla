---------------------------- MODULE StreamProofs ----------------------------
(***************************************************************************)
(* A connected socket is a byte stream, whatever the kernel's capacity and *)
(* the sizes of the calls, loses nothing while the connection lives, and   *)
(* answers its callers truly.                                              *)
(***************************************************************************)
EXTENDS Stream, SequenceFacts

Sequences == /\ channel \in Seq(Byte) /\ sent \in Seq(Byte)
             /\ received \in Seq(Byte) /\ message \in Seq(Byte)

Counters == left \in Nat /\ total \in Int

(* What was sent starts with what was received and what is on its way, and  *)
(* is no more than that while the connection lives.                         *)
Connected == link = "up" /\ "receiver" \in open

Lost(rest) == /\ rest \in Seq(Byte)
              /\ sent = (received \o channel) \o rest
              /\ Connected => rest = <<>>

StreamInv == Sequences /\ Counters /\ \E rest : Lost(rest)

-----------------------------------------------------------------------------
LEMMA Regroup ==
  ASSUME NEW s \in Seq(Byte), NEW t \in Seq(Byte), NEW u \in Seq(Byte)
  PROVE  (s \o t) \o u = s \o (t \o u)
BY ConcatAssociative

LEMMA ChunksAreSequences ==
  ASSUME Sequences, Counters, NEW k \in Nat, NEW chunk \in Chunks(k)
  PROVE  chunk \in Seq(Byte)
<1>1. CASE total >= 0 /\ total + k <= Len(message)
  <2>1. chunk = SubSeq(message, total + 1, total + k)
    BY <1>1 DEF Chunks
  <2>2. /\ Len(message) \in Nat /\ total \in Nat
        /\ \A i \in total + 1 .. total + k : i \in 1 .. Len(message)
    BY <1>1, LenProperties DEF Sequences, Counters
  <2>3. \A i \in total + 1 .. total + k : message[i] \in Byte
    BY <2>2, ElementOfSeq DEF Sequences
  <2>4. total + 1 \in Int /\ total + k \in Int
    BY <2>2
  <2> QED
    BY <2>1, <2>3, <2>4, SubSeqProperties
<1>2. CASE ~(total >= 0 /\ total + k <= Len(message))
  <2>1. chunk \in [1 .. k -> Byte]
    BY <1>2 DEF Chunks
  <2> QED
    BY <2>1
<1> QED
  BY <1>1, <1>2

LEMMA ChunkLength ==
  ASSUME Sequences, Counters, NEW k \in Nat, NEW chunk \in Chunks(k)
  PROVE  Len(chunk) = k
<1>1. CASE total >= 0 /\ total + k <= Len(message)
  <2>1. chunk = SubSeq(message, total + 1, total + k)
    BY <1>1 DEF Chunks
  <2>2. Len(message) \in Nat /\ total \in Nat
    BY <1>1, LenProperties DEF Sequences, Counters
  <2>3. \A i \in total + 1 .. total + k : message[i] \in Byte
    BY <1>1, <2>2, ElementOfSeq DEF Sequences
  <2>4. Len(chunk) = IF total + 1 <= total + k THEN total + k - (total + 1) + 1 ELSE 0
    BY <2>1, <2>2, <2>3, SubSeqProperties
  <2> QED
    BY <2>2, <2>4
<1>2. CASE ~(total >= 0 /\ total + k <= Len(message))
  <2>1. chunk \in [1 .. k -> Byte]
    BY <1>2 DEF Chunks
  <2> QED
    BY <2>1
<1> QED
  BY <1>1, <1>2

LEMMA StreamInit == Init => StreamInv /\ Bytestream!StreamInit
<1> SUFFICES ASSUME Init PROVE StreamInv /\ Bytestream!StreamInit
  OBVIOUS
<1>1. /\ <<>> \in Seq(Byte) /\ <<>> \o <<>> = <<>>
  BY EmptySeq, ConcatEmptySeq
<1>2. /\ channel = <<>> /\ sent = <<>> /\ received = <<>> /\ message = <<>>
      /\ left = 0 /\ total = 0
  BY DEF Init
<1>3. Sequences /\ Counters
  BY <1>1, <1>2 DEF Sequences, Counters
<1>4. Lost(<<>>)
  <2>1. (<<>> \o <<>>) \o <<>> = <<>>
    BY <1>1
  <2> QED
    BY <1>1, <1>2, <2>1 DEF Lost
<1> QED
  BY <1>1, <1>2, <1>3, <1>4 DEF StreamInv, Bytestream!StreamInit

(* A step that moves no byte and restores no connection. *)
LEMMA NothingMoves ==
  ASSUME StreamInv, UNCHANGED <<channel, sent, received>>, Connected' => Connected,
         message' \in Seq(Byte), left' \in Nat, total' \in Int
  PROVE  StreamInv'
<1>1. PICK rest : Lost(rest)
  BY DEF StreamInv
<1>2. Lost(rest)'
  BY <1>1 DEF Lost
<1>3. Sequences' /\ Counters'
  BY DEF StreamInv, Sequences, Counters
<1> QED
  BY <1>2, <1>3 DEF StreamInv

(* send() *)
LEMMA SendExtends ==
  ASSUME StreamInv, NEW k \in 1 .. Capacity, Send(k)
  PROVE  StreamInv' /\ sent' \in Seq(Byte) /\ IsPrefix(sent, sent')
<1>0. k \in Nat /\ IntMax \in Nat \ {0}
  BY StreamAssumption
<1>1. PICK rest : Lost(rest)
  BY DEF StreamInv
<1>2. PICK chunk \in Chunks(k) :
        /\ sent' = sent \o chunk
        /\ \/ "receiver" \in open /\ channel' = channel \o chunk
           \/ "receiver" \notin open /\ UNCHANGED channel
  BY DEF Send
<1>3. chunk \in Seq(Byte)
  BY <1>0, ChunksAreSequences DEF StreamInv
<1>4. UNCHANGED <<open, link, received, message>> /\ link = "up"
  BY DEF Send, linkVars, readVars
<1>5. /\ channel \in Seq(Byte) /\ sent \in Seq(Byte) /\ received \in Seq(Byte)
      /\ message \in Seq(Byte) /\ rest \in Seq(Byte)
      /\ sent = (received \o channel) \o rest
  BY <1>1 DEF StreamInv, Sequences, Lost
<1>6. sent' \in Seq(Byte) /\ channel' \in Seq(Byte)
  BY <1>2, <1>3, <1>5, ConcatProperties
<1>7. IsPrefix(sent, sent')
  BY <1>2, <1>3, <1>5, ConcatExtends
<1>8. Counters'
  <2>1. left' = left - k /\ k <= left /\ total' = AsInt(total + k)
    BY DEF Send
  <2>2. left' \in Nat
    BY <1>0, <2>1 DEF StreamInv, Counters
  <2>3. total + k \in Int
    BY <1>0 DEF StreamInv, Counters
  <2>4. AsInt(total + k) \in Int
    BY <1>0, <2>3 DEF AsInt
  <2> QED
    BY <2>1, <2>2, <2>4 DEF Counters
<1>9. \E r : Lost(r)'
  <2>1. CASE "receiver" \in open
    <3>1. rest = <<>> /\ sent = received \o channel
      BY <1>1, <1>4, <1>5, <2>1, ConcatEmptySeq, ConcatProperties DEF Lost, Connected
    <3>2. sent' = received' \o channel'
      <4>1. sent' = (received \o channel) \o chunk
        BY <1>2, <3>1
      <4>2. (received \o channel) \o chunk = received \o (channel \o chunk)
        <5>1. received \in Seq(Byte) /\ channel \in Seq(Byte) /\ chunk \in Seq(Byte)
          BY <1>3, <1>5
        <5> QED
          BY <5>1, Regroup
      <4>3. received' = received /\ channel' = channel \o chunk
        BY <1>2, <1>4, <2>1
      <4> QED
        BY <4>1, <4>2, <4>3
    <3>3. sent' = (received' \o channel') \o <<>> /\ <<>> \in Seq(Byte)
      BY <1>6, <3>2, ConcatEmptySeq, EmptySeq
    <3> QED
      BY <3>3 DEF Lost
  <2>2. CASE "receiver" \notin open
    <3>1. channel' = channel /\ received' = received /\ ~Connected'
      BY <1>2, <1>4, <2>2 DEF Connected
    <3>2. received \o channel \in Seq(Byte)
      BY <1>5, ConcatProperties
    <3>3. sent' = (received' \o channel') \o (rest \o chunk)
      <4>1. received \o channel \in Seq(Byte) /\ rest \in Seq(Byte) /\ chunk \in Seq(Byte)
        BY <1>3, <1>5, <3>2
      <4>2. ((received \o channel) \o rest) \o chunk = (received \o channel) \o (rest \o chunk)
        BY <4>1, Regroup
      <4>3. sent' = ((received \o channel) \o rest) \o chunk
        BY <1>2, <1>5
      <4> QED
        BY <3>1, <4>2, <4>3
    <3>4. rest \o chunk \in Seq(Byte)
      BY <1>3, <1>5, ConcatProperties
    <3> QED
      BY <3>1, <3>3, <3>4 DEF Lost
  <2> QED
    BY <2>1, <2>2
<1>10. Sequences'
  BY <1>4, <1>5, <1>6 DEF Sequences
<1> QED
  BY <1>6, <1>7, <1>8, <1>9, <1>10 DEF StreamInv

(* recv() *)
LEMMA TakeMoves ==
  ASSUME StreamInv, NEW n \in Nat, TakeChannel(n), UNCHANGED <<linkVars, sent, writeVars>>
  PROVE  StreamInv' /\ IsPrefix(received, received') /\ IsPrefix(received', sent)
<1>1. PICK rest : Lost(rest)
  BY DEF StreamInv
<1> DEFINE k == Shorter(n, Len(channel))
           u == SubSeq(channel, 1, k)
           v == SubSeq(channel, k + 1, Len(channel))
<1>2. /\ channel \in Seq(Byte) /\ sent \in Seq(Byte) /\ received \in Seq(Byte)
      /\ message \in Seq(Byte) /\ rest \in Seq(Byte)
      /\ sent = (received \o channel) \o rest
  BY <1>1 DEF StreamInv, Sequences, Lost
<1>3. k \in 0 .. Len(channel)
  BY <1>2, LenProperties DEF Shorter
<1>4. u \in Seq(Byte) /\ v \in Seq(Byte) /\ channel = u \o v
  BY <1>2, <1>3, SplitAt
<1>5. received' = received \o u /\ channel' = v
  BY DEF TakeChannel
<1>6. UNCHANGED <<open, link, sent, message, left, total>>
  BY DEF linkVars, writeVars
<1> HIDE DEF k, u, v
<1>7. received' \in Seq(Byte) /\ channel' \in Seq(Byte)
  BY <1>2, <1>4, <1>5, ConcatProperties
<1>8. received' \o channel' = received \o channel
  <2>1. (received \o u) \o v = received \o (u \o v)
    <3>1. received \in Seq(Byte) /\ u \in Seq(Byte) /\ v \in Seq(Byte)
      BY <1>2, <1>4
    <3> QED
      BY <3>1, Regroup
  <2> QED
    BY <1>4, <1>5, <2>1
<1>9. Lost(rest)'
  BY <1>1, <1>2, <1>6, <1>8 DEF Lost, Connected
<1>10. StreamInv'
  BY <1>2, <1>6, <1>7, <1>9 DEF StreamInv, Sequences, Counters
<1>11. IsPrefix(received, received')
  BY <1>2, <1>4, <1>5, ConcatExtends
<1>12. IsPrefix(received', sent)
  <2>1. sent = received' \o (channel' \o rest)
    <3>1. sent = (received' \o channel') \o rest
      BY <1>2, <1>8
    <3>2. (received' \o channel') \o rest = received' \o (channel' \o rest)
      <4>1. received' \in Seq(Byte) /\ channel' \in Seq(Byte) /\ rest \in Seq(Byte)
        BY <1>2, <1>7
      <4> QED
        BY <4>1, Regroup
    <3> QED
      BY <3>1, <3>2
  <2>2. channel' \o rest \in Seq(Byte)
    BY <1>2, <1>7, ConcatProperties
  <2> QED
    BY <1>7, <2>1, <2>2, ConcatExtends
<1> QED
  BY <1>10, <1>11, <1>12

(* close() and a broken connection leave a front of what was on its way.    *)
LEMMA ChannelShrinks ==
  ASSUME StreamInv, NEW k \in 0 .. Len(channel), channel' = SubSeq(channel, 1, k),
         ~Connected', UNCHANGED <<sent, received, message, left, total>>
  PROVE  StreamInv'
<1>1. PICK rest : Lost(rest)
  BY DEF StreamInv
<1> DEFINE u == SubSeq(channel, 1, k)
           v == SubSeq(channel, k + 1, Len(channel))
<1>2. /\ channel \in Seq(Byte) /\ sent \in Seq(Byte) /\ received \in Seq(Byte)
      /\ message \in Seq(Byte) /\ rest \in Seq(Byte)
      /\ sent = (received \o channel) \o rest
  BY <1>1 DEF StreamInv, Sequences, Lost
<1>3. u \in Seq(Byte) /\ v \in Seq(Byte) /\ channel = u \o v /\ channel' = u
  BY <1>2, SplitAt
<1> HIDE DEF u, v
<1>4. received \o u \in Seq(Byte) /\ v \o rest \in Seq(Byte)
  BY <1>2, <1>3, ConcatProperties
<1>5. sent = (received \o u) \o (v \o rest)
  <2>0. received \in Seq(Byte) /\ u \in Seq(Byte) /\ v \in Seq(Byte)
    BY <1>2, <1>3
  <2>1. (received \o u) \o v = received \o (u \o v)
    BY <2>0, Regroup
  <2>2. sent = ((received \o u) \o v) \o rest
    BY <1>2, <1>3, <2>1
  <2>3. ((received \o u) \o v) \o rest = (received \o u) \o (v \o rest)
    <3>1. received \o u \in Seq(Byte) /\ v \in Seq(Byte) /\ rest \in Seq(Byte)
      BY <1>2, <1>3, <1>4
    <3> QED
      BY <3>1, Regroup
  <2> QED
    BY <2>2, <2>3
<1>6. \E r : Lost(r)'
  <2>1. sent' = (received' \o channel') \o (v \o rest)
    BY <1>3, <1>5
  <2> QED
    BY <1>4, <2>1 DEF Lost
<1> QED
  BY <1>2, <1>3, <1>6 DEF StreamInv, Sequences, Counters

-----------------------------------------------------------------------------
LEMMA ReadSteps ==
  ASSUME StreamInv, NEW n \in 1 .. MaxRead, Read(n)
  PROVE  StreamInv' /\ (Bytestream!Get \/ UNCHANGED <<sent, received>>)
<1>1. CASE TakeChannel(n) /\ UNCHANGED linkVars
  <2>1. n \in Nat /\ UNCHANGED <<sent, writeVars>>
    BY StreamAssumption DEF Read
  <2>2. StreamInv' /\ IsPrefix(received, received') /\ IsPrefix(received', sent)
    BY <1>1, <2>1, TakeMoves
  <2> QED
    BY <2>1, <2>2 DEF Bytestream!Get, Bytestream!IsPrefix, IsPrefix
<1>2. CASE UNCHANGED <<received, channel, nonblocking, open>> /\ (link' = link \/ link' = "reported")
  <2>1. /\ UNCHANGED <<channel, sent, received, message, left, total>>
        /\ Connected' => Connected
    BY <1>2 DEF Read, writeVars, Connected
  <2>2. message' \in Seq(Byte) /\ left' \in Nat /\ total' \in Int
    BY <2>1 DEF StreamInv, Sequences, Counters
  <2> QED
    BY <2>1, <2>2, NothingMoves
<1> QED
  BY <1>1, <1>2 DEF Read, linkVars

LEMMA CloseSteps ==
  ASSUME StreamInv, NEW end \in Ends, Close(end)
  PROVE  StreamInv' /\ UNCHANGED <<sent, received>>
<1>1. UNCHANGED <<sent, received, message, left, total, link>> /\ open' = open \ {end}
  BY DEF Close, writeVars, readVars
<1>2. CASE end = "receiver"
  <2>1. /\ channel \in Seq(Byte) /\ 0 \in 0 .. Len(channel)
    BY LenProperties DEF StreamInv, Sequences
  <2>2. channel' = SubSeq(channel, 1, 0) /\ ~Connected'
    BY <1>1, <1>2, SubSeqEmpty DEF Close, Connected
  <2> QED
    BY <1>1, <2>1, <2>2, ChannelShrinks
<1>3. CASE end # "receiver"
  <2>1. channel' = channel /\ (Connected' => Connected)
    BY <1>1, <1>3 DEF Close, Connected
  <2>2. message' \in Seq(Byte) /\ left' \in Nat /\ total' \in Int
    BY <1>1 DEF StreamInv, Sequences, Counters
  <2> QED
    BY <1>1, <2>1, <2>2, NothingMoves
<1> QED
  BY <1>2, <1>3

(* One step: the invariant is kept, and the step is one of the byte         *)
(* stream's or changes nothing of it.                                       *)
LEMMA StreamStep ==
  ASSUME StreamInv, [Next]_vars
  PROVE  /\ StreamInv'
         /\ [Bytestream!Put \/ Bytestream!Get]_<<sent, received>>
<1>1. CASE UNCHANGED vars
  <2>1. UNCHANGED <<channel, sent, received, message, left, total, link, open>>
    BY <1>1 DEF vars, linkVars, writeVars, readVars
  <2>2. message' \in Seq(Byte) /\ left' \in Nat /\ total' \in Int
    BY <2>1 DEF StreamInv, Sequences, Counters
  <2>3. Connected' => Connected
    BY <2>1 DEF Connected
  <2> QED
    BY <2>1, <2>2, <2>3, NothingMoves
<1>2. ASSUME NEW bytes \in Bytes(MaxMessage), BeginWrite(bytes)
      PROVE  StreamInv' /\ UNCHANGED <<sent, received>>
  <2>1. MaxMessage \in Nat
    BY StreamAssumption
  <2>2. bytes \in Seq(Byte) /\ Len(bytes) \in Nat
    BY <2>1, LenProperties DEF Bytes
  <2>3. /\ UNCHANGED <<channel, sent, received, link, open>>
        /\ message' = bytes /\ left' = Len(bytes) /\ total' = 0
    BY <1>2 DEF BeginWrite, linkVars, readVars
  <2>4. Connected' => Connected
    BY <2>3 DEF Connected
  <2> QED
    BY <2>2, <2>3, <2>4, NothingMoves
<1>3. ASSUME NEW k \in 1 .. Capacity, Send(k) PROVE StreamInv' /\ Bytestream!Put
  <2>1. StreamInv' /\ sent' \in Seq(Byte) /\ IsPrefix(sent, sent')
    BY <1>3, SendExtends
  <2>2. received' = received
    BY <1>3 DEF Send, readVars
  <2> QED
    BY <2>1, <2>2 DEF Bytestream!Put, Bytestream!IsPrefix, IsPrefix
<1>4. CASE Sent \/ SendFails
  <2>1. /\ UNCHANGED <<channel, sent, received, message, left, link, open>>
        /\ total' = total \/ total' = -1
    BY <1>4 DEF Sent, SendFails, linkVars, readVars
  <2>2. message' \in Seq(Byte) /\ left' \in Nat /\ total' \in Int
    BY <2>1 DEF StreamInv, Sequences, Counters
  <2>3. Connected' => Connected
    BY <2>1 DEF Connected
  <2> QED
    BY <2>1, <2>2, <2>3, NothingMoves
<1>5. CASE HasPendingData
  <2>1. /\ UNCHANGED <<channel, sent, received, message, left, total, open>>
        /\ link' = link \/ link' = "reported"
    BY <1>5 DEF HasPendingData, writeVars
  <2>2. message' \in Seq(Byte) /\ left' \in Nat /\ total' \in Int
    BY <2>1 DEF StreamInv, Sequences, Counters
  <2>3. Connected' => Connected
    BY <2>1 DEF Connected
  <2> QED
    BY <2>1, <2>2, <2>3, NothingMoves
<1>6. CASE Break
  <2>1. PICK k \in 0 .. Len(channel) : channel' = SubSeq(channel, 1, k)
    BY <1>6 DEF Break
  <2>2. UNCHANGED <<sent, received, message, left, total>> /\ ~Connected'
    BY <1>6 DEF Break, writeVars, readVars, Connected
  <2> QED
    BY <2>1, <2>2, ChannelShrinks
<1>7. ASSUME NEW end \in Ends, Close(end) PROVE StreamInv' /\ UNCHANGED <<sent, received>>
  BY <1>7, CloseSteps
<1>8. ASSUME NEW n \in 1 .. MaxRead, Read(n)
      PROVE  StreamInv' /\ (Bytestream!Get \/ UNCHANGED <<sent, received>>)
  BY <1>8, ReadSteps
<1> QED
  BY <1>1, <1>2, <1>3, <1>4, <1>5, <1>6, <1>7, <1>8 DEF Next, Writing, Reading

(* A connected socket implements a byte stream, whatever the kernel holds,  *)
(* the sizes of the calls, and the failures.                                *)
THEOREM SocketIsByteStream == Spec => IsByteStream
<1>1. Init => StreamInv /\ Bytestream!StreamInit
  BY StreamInit
<1>2. StreamInv /\ [Next]_vars =>
        StreamInv' /\ [Bytestream!Put \/ Bytestream!Get]_<<sent, received>>
  BY StreamStep
<1> QED
  BY <1>1, <1>2, PTL DEF Spec, IsByteStream, Bytestream!StreamSpec

LEMMA NothingLostHolds == StreamInv => NothingLost
<1> SUFFICES ASSUME StreamInv, Connected PROVE sent = received \o channel
  BY DEF NothingLost, Connected
<1>1. PICK rest : Lost(rest)
  BY DEF StreamInv
<1>2. received \o channel \in Seq(Byte)
  BY ConcatProperties DEF StreamInv, Sequences
<1> QED
  BY <1>1, <1>2, ConcatEmptySeq DEF Lost

(* While the connection lives everything sent has been received or is on    *)
(* its way.                                                                 *)
THEOREM NothingIsLost == Spec => []NothingLost
BY StreamInit, StreamStep, NothingLostHolds, PTL DEF Spec

-----------------------------------------------------------------------------
(* Types.  What StreamInv says of the sequences is used, not shown again.   *)
Types ==
  /\ nonblocking \subseteq Ends /\ open \subseteq Ends
  /\ link \in {"up", "reset", "reported"}
  /\ Len(channel) <= Capacity
  /\ left \in 0 .. MaxMessage
  /\ total \in -(IntMax + 1) .. IntMax
  /\ writing \in BOOLEAN /\ peeked \in BOOLEAN
  /\ start \in Nat /\ lastRead \in -2 .. MaxRead

LEMMA Bounds ==
  /\ Capacity \in Nat /\ Capacity >= 1 /\ MaxMessage \in Nat /\ MaxRead \in Nat
  /\ IntMax \in Nat /\ IntMax >= 1
BY StreamAssumption

(* A sum in int is an int. *)
LEMMA AsIntWraps ==
  ASSUME NEW x \in Int
  PROVE  AsInt(x) \in -(IntMax + 1) .. IntMax
<1> DEFINE m == 2 * (IntMax + 1)
           r == (x + IntMax + 1) % m
<1>1. m \in Nat /\ m > 0 /\ x + IntMax + 1 \in Int /\ m - 1 = 2 * IntMax + 1
  BY Bounds
<1> HIDE DEF m
<1>2. r \in 0 .. m - 1
  BY <1>1
<1>3. AsInt(x) = r - (IntMax + 1)
  BY DEF AsInt, m
<1> HIDE DEF r
<1> QED
  BY <1>1, <1>2, <1>3, Bounds

LEMMA TypesInit == Init => Types
<1> SUFFICES ASSUME Init PROVE Types
  OBVIOUS
<1>1. Len(channel) = 0 /\ 0 <= Capacity
  BY Bounds, EmptySeq DEF Init
<1>2. /\ 0 \in 0 .. MaxMessage /\ 0 \in -(IntMax + 1) .. IntMax
      /\ 0 \in Nat /\ NotYet \in -2 .. MaxRead
  BY Bounds DEF NotYet
<1> QED
  BY <1>1, <1>2 DEF Init, Types

LEMMA ReadTypes ==
  ASSUME StreamInv, Types, NEW n \in 1 .. MaxRead, Read(n)
  PROVE  Types'
<1>1. UNCHANGED <<nonblocking, open, left, total, writing, start>>
  BY DEF Read, linkVars, writeVars
<1>2. link' \in {"up", "reset", "reported"}
  BY DEF Read, linkVars, Types
<1>3. Len(channel') <= Capacity /\ peeked' = FALSE /\ lastRead' \in -2 .. MaxRead
  <2>1. CASE TakeChannel(n)
    <3> DEFINE k == Shorter(n, Len(channel))
    <3>1. channel \in Seq(Byte) /\ Len(channel) \in Nat
      BY LenProperties DEF StreamInv, Sequences
    <3>2. k \in 0 .. Len(channel) /\ k <= MaxRead
      BY <3>1, Bounds DEF Shorter
    <3>3. channel' = SubSeq(channel, k + 1, Len(channel)) /\ lastRead' = k /\ peeked' = FALSE
      BY <2>1 DEF TakeChannel, Returns
    <3> HIDE DEF k
    <3>4. Len(channel') = Len(channel) - k
      BY <3>1, <3>2, <3>3, SplitAt
    <3> QED
      BY <3>1, <3>2, <3>3, <3>4, Bounds DEF Types
  <2>2. CASE Returns(0) /\ UNCHANGED channel
    BY <2>2, Bounds DEF Returns, Types
  <2>3. CASE Returns(-1) /\ UNCHANGED channel
    BY <2>3, Bounds DEF Returns, Types
  <2> QED
    BY <2>1, <2>2, <2>3 DEF Read
<1> QED
  BY <1>1, <1>2, <1>3 DEF Types

LEMMA SendTypes ==
  ASSUME StreamInv, Types, NEW k \in 1 .. Capacity, Send(k)
  PROVE  Types'
<1>1. /\ UNCHANGED <<nonblocking, open, link, writing, start, lastRead, peeked>>
      /\ k <= left /\ left' = left - k /\ total' = AsInt(total + k)
  BY DEF Send, linkVars, readVars
<1>2. k \in Nat /\ total + k \in Int
  BY Bounds DEF Types
<1>3. total' \in -(IntMax + 1) .. IntMax /\ left' \in 0 .. MaxMessage
  BY <1>1, <1>2, AsIntWraps, Bounds DEF Types
<1>4. Len(channel') <= Capacity
  <2>1. PICK chunk \in Chunks(k) :
          \/ Len(channel) + k <= Capacity /\ channel' = channel \o chunk
          \/ UNCHANGED channel
    BY DEF Send
  <2>2. chunk \in Seq(Byte) /\ channel \in Seq(Byte)
    BY <1>2, ChunksAreSequences DEF StreamInv, Sequences
  <2>3. Len(chunk) = k
    BY <1>2, ChunkLength DEF StreamInv
  <2>4. Len(channel \o chunk) = Len(channel) + k
    BY <2>2, <2>3, ConcatProperties
  <2> QED
    BY <2>1, <2>4 DEF Types
<1> QED
  BY <1>1, <1>3, <1>4 DEF Types

LEMMA TypesStep ==
  ASSUME StreamInv, Types, [Next]_vars
  PROVE  Types'
<1>1. CASE UNCHANGED vars
  BY <1>1 DEF vars, linkVars, writeVars, readVars, Types
<1>2. ASSUME NEW bytes \in Bytes(MaxMessage), BeginWrite(bytes) PROVE Types'
  <2>1. Len(bytes) \in 0 .. MaxMessage /\ Len(sent) \in Nat
    BY Bounds, LenProperties DEF Bytes, StreamInv, Sequences
  <2> QED
    BY <1>2, <2>1, Bounds DEF BeginWrite, linkVars, readVars, Types
<1>3. ASSUME NEW k \in 1 .. Capacity, Send(k) PROVE Types'
  BY <1>3, SendTypes
<1>4. CASE Sent \/ SendFails
  <2>1. /\ UNCHANGED <<nonblocking, open, link, channel, left, start, lastRead, peeked>>
        /\ total' = total \/ total' = -1
        /\ writing' = FALSE
    BY <1>4 DEF Sent, SendFails, linkVars, readVars
  <2>2. -1 \in -(IntMax + 1) .. IntMax
    BY Bounds
  <2>3. total' \in -(IntMax + 1) .. IntMax
    BY <2>1, <2>2 DEF Types
  <2> QED
    BY <2>1, <2>3 DEF Types
<1>5. CASE HasPendingData
  BY <1>5 DEF HasPendingData, writeVars, Types
<1>6. CASE Break
  <2>1. PICK k \in 0 .. Len(channel) : channel' = SubSeq(channel, 1, k)
    BY <1>6 DEF Break
  <2>2. Len(channel') <= Len(channel) /\ Len(channel) \in Nat /\ Len(channel') \in Nat
    BY <2>1, SplitAt, LenProperties DEF StreamInv, Sequences
  <2>3. Len(channel') <= Capacity
    BY <2>2, Bounds DEF Types
  <2> QED
    BY <1>6, <2>3 DEF Break, writeVars, readVars, Types
<1>7. ASSUME NEW end \in Ends, Close(end) PROVE Types'
  <2>1. Len(channel') <= Capacity
    BY <1>7, Bounds, EmptySeq DEF Close, Types
  <2> QED
    BY <1>7, <2>1 DEF Close, writeVars, readVars, Types
<1>8. ASSUME NEW n \in 1 .. MaxRead, Read(n) PROVE Types'
  BY <1>8, ReadTypes
<1> QED
  BY <1>1, <1>2, <1>3, <1>4, <1>5, <1>6, <1>7, <1>8 DEF Next, Writing, Reading

(* The variables keep their types: no count leaves its range, and the       *)
(* kernel holds no more than it has room for.                               *)
THEOREM TypeCorrect == Spec => []TypeOK
<1>1. Init => StreamInv /\ Types
  BY StreamInit, TypesInit
<1>2. StreamInv /\ Types /\ [Next]_vars => StreamInv' /\ Types'
  BY StreamStep, TypesStep
<1>3. StreamInv /\ Types => TypeOK
  BY DEF StreamInv, Sequences, Types, TypeOK
<1> QED
  BY <1>1, <1>2, <1>3, PTL DEF Spec

-----------------------------------------------------------------------------
(* What the receiver may conclude from the answers of its calls. *)

(* Zero was the end: the sender has closed and nothing is on its way. *)
ZeroWasEnd ==
  lastRead = 0 /\ "receiver" \notin nonblocking /\ link = "up" =>
    "sender" \notin open /\ ("receiver" \in open => channel = <<>>)

Answers == /\ PendingMeansData /\ ZeroWasEnd
           /\ "sender" \notin open => ~writing

LEMMA AnswersInit == Init => Answers
BY DEF Init, Answers, PendingMeansData, ZeroWasEnd, NotYet, Ends

LEMMA SendAnswers ==
  ASSUME StreamInv, Answers, NEW k \in 1 .. Capacity, Send(k) PROVE Answers'
<1>1. /\ UNCHANGED <<nonblocking, open, link, writing, lastRead, peeked>>
      /\ writing /\ "sender" \in open
  BY DEF Send, Answers, linkVars, readVars
<1>2. ASSUME channel # <<>> PROVE channel' # <<>>
  <2>1. PICK chunk \in Chunks(k) : channel' = channel \o chunk \/ channel' = channel
    BY DEF Send
  <2>2. k \in Nat /\ channel \in Seq(Byte)
    BY Bounds DEF StreamInv, Sequences
  <2>3. chunk \in Seq(Byte)
    BY <2>2, ChunksAreSequences DEF StreamInv
  <2>4. Len(channel) \in Nat /\ Len(channel) # 0 /\ Len(chunk) \in Nat
    BY <1>2, <2>2, <2>3, LenProperties, EmptySeq
  <2>5. Len(channel \o chunk) = Len(channel) + Len(chunk)
    BY <2>2, <2>3, ConcatProperties
  <2>6. channel \o chunk # <<>>
    BY <2>4, <2>5, EmptySeq
  <2> QED
    BY <1>2, <2>1, <2>6
<1> QED
  BY <1>1, <1>2 DEF Answers, PendingMeansData, ZeroWasEnd

LEMMA ReadAnswers ==
  ASSUME StreamInv, Answers, NEW n \in 1 .. MaxRead, Read(n) PROVE Answers'
<1>1. UNCHANGED <<nonblocking, open, writing>> /\ peeked' = FALSE
  BY DEF Read, TakeChannel, Returns, linkVars, writeVars
<1>2. ASSUME lastRead' = 0, "receiver" \notin nonblocking, link' = "up"
      PROVE  "sender" \notin open /\ channel' = <<>>
  <2>1. CASE channel # <<>> /\ TakeChannel(n)
    <3>1. lastRead' = Shorter(n, Len(channel))
      BY <2>1 DEF TakeChannel, Returns
    <3>2. n \in Nat /\ n # 0 /\ Len(channel) \in Nat /\ Len(channel) # 0
      BY <2>1, Bounds, LenProperties, EmptySeq DEF StreamInv, Sequences
    <3>3. Shorter(n, Len(channel)) # 0
      BY <3>2 DEF Shorter
    <3> QED
      BY <1>2, <3>1, <3>3
  <2>2. CASE (AtEnd \/ Again) /\ UNCHANGED <<channel, linkVars>>
    BY <1>2, <2>2 DEF AtEnd, Again, linkVars
  <2>3. CASE Returns(-1)
    BY <1>2, <2>3 DEF Returns
  <2> QED
    BY <2>1, <2>2, <2>3 DEF Read
<1> QED
  BY <1>1, <1>2 DEF Answers, PendingMeansData, ZeroWasEnd

LEMMA AnswersStep == ASSUME StreamInv, Answers, [Next]_vars PROVE Answers'
<1>1. CASE UNCHANGED vars
  BY <1>1 DEF vars, linkVars, writeVars, readVars, Answers, PendingMeansData, ZeroWasEnd
<1>2. ASSUME NEW bytes \in Bytes(MaxMessage), BeginWrite(bytes) PROVE Answers'
  BY <1>2 DEF BeginWrite, linkVars, readVars, Answers, PendingMeansData, ZeroWasEnd
<1>3. CASE Sent \/ SendFails
  BY <1>3 DEF Sent, SendFails, linkVars, readVars, Answers, PendingMeansData, ZeroWasEnd
<1>4. CASE HasPendingData
  BY <1>4 DEF HasPendingData, PeekFinds, writeVars, Answers, PendingMeansData, ZeroWasEnd
<1>5. CASE Break
  BY <1>5 DEF Break, writeVars, readVars, Answers, PendingMeansData, ZeroWasEnd
<1>6. ASSUME NEW end \in Ends, Close(end) PROVE Answers'
  BY <1>6 DEF Close, Ends, writeVars, readVars, Answers, PendingMeansData, ZeroWasEnd
<1> QED
  BY <1>1, <1>2, <1>3, <1>4, <1>5, <1>6, SendAnswers, ReadAnswers DEF Next, Writing, Reading

(* After a true has_pending_data() the next read() finds a byte and does    *)
(* not wait, as long as the connection lives and the socket is open.        *)
THEOREM PendingIsThere == Spec => []PendingMeansData
<1>1. Answers => PendingMeansData
  BY DEF Answers
<1> QED
  BY <1>1, StreamInit, StreamStep, AnswersInit, AnswersStep, PTL DEF Spec

(* On a blocking socket 0 from read() means that the sender has closed and  *)
(* that everything it sent has been read.                                   *)
THEOREM ZeroMeansEnd == Spec => []ZeroIsEnd
<1>1. StreamInv /\ Answers => ZeroIsEnd
  <2> SUFFICES ASSUME StreamInv, Answers, link = "up", "receiver" \in open, channel = <<>>
               PROVE  received = sent
    BY DEF Answers, ZeroWasEnd, ZeroIsEnd
  <2>1. sent = received \o <<>> /\ received \in Seq(Byte)
    BY NothingLostHolds DEF NothingLost, StreamInv, Sequences
  <2> QED
    BY <2>1, ConcatEmptySeq
<1> QED
  BY <1>1, StreamInit, StreamStep, AnswersInit, AnswersStep, PTL DEF Spec

-----------------------------------------------------------------------------
(* What write() has sent and what it reports. *)

(* The part of a sequence behind a position. *)
LEMMA BehindProperties ==
  ASSUME NEW s \in Seq(Byte), NEW m \in 0 .. Len(s)
  PROVE  /\ SubSeq(s, m + 1, Len(s)) \in Seq(Byte)
         /\ Len(SubSeq(s, m + 1, Len(s))) = Len(s) - m
         /\ \A i \in 1 .. Len(s) - m : SubSeq(s, m + 1, Len(s))[i] = s[m + i]
<1>1. Len(s) \in Nat /\ m \in Nat /\ m <= Len(s)
  BY LenProperties
<1>2. \A i \in m + 1 .. Len(s) : s[i] \in Byte
  BY <1>1, ElementOfSeq
<1>3. m + 1 \in Int /\ Len(s) \in Int
  BY <1>1
<1>4. /\ SubSeq(s, m + 1, Len(s)) \in Seq(Byte)
      /\ Len(SubSeq(s, m + 1, Len(s))) = IF m + 1 <= Len(s) THEN Len(s) - (m + 1) + 1 ELSE 0
      /\ \A i \in 1 .. Len(s) - (m + 1) + 1 : SubSeq(s, m + 1, Len(s))[i] = s[m + 1 + i - 1]
  BY <1>2, <1>3, SubSeqProperties
<1> DEFINE v == SubSeq(s, m + 1, Len(s))
<1> HIDE DEF v
<1>5. v \in Seq(Byte) /\ Len(v) = Len(s) - m
  BY <1>1, <1>4 DEF v
<1>6. ASSUME NEW i \in 1 .. Len(s) - m PROVE v[i] = s[m + i]
  <2>1. i \in 1 .. Len(s) - (m + 1) + 1 /\ m + 1 + i - 1 = m + i
    BY <1>1
  <2>2. v[i] = s[m + 1 + i - 1]
    BY <1>4, <2>1 DEF v
  <2> QED
    BY <2>1, <2>2
<1> QED
  BY <1>5, <1>6 DEF v

(* What is appended to a sequence is appended to its part behind a position. *)
LEMMA BehindGrows ==
  ASSUME NEW s \in Seq(Byte), NEW t \in Seq(Byte), NEW m \in 0 .. Len(s)
  PROVE  SubSeq(s \o t, m + 1, Len(s \o t)) = SubSeq(s, m + 1, Len(s)) \o t
<1> DEFINE w == s \o t
           v == SubSeq(s, m + 1, Len(s))
<1>1. Len(s) \in Nat /\ Len(t) \in Nat /\ m \in Nat /\ m <= Len(s)
  BY LenProperties
<1>2. /\ w \in Seq(Byte) /\ Len(w) = Len(s) + Len(t)
      /\ \A i \in 1 .. Len(s) + Len(t) : w[i] = IF i <= Len(s) THEN s[i] ELSE t[i - Len(s)]
  BY ConcatProperties
<1>3. /\ v \in Seq(Byte) /\ Len(v) = Len(s) - m
      /\ \A i \in 1 .. Len(s) - m : v[i] = s[m + i]
  BY BehindProperties
<1> HIDE DEF w, v
<1> DEFINE x == SubSeq(w, m + 1, Len(w))
           y == v \o t
<1>4. m \in 0 .. Len(w)
  BY <1>1, <1>2
<1>5. /\ x \in Seq(Byte) /\ Len(x) = Len(w) - m
      /\ \A i \in 1 .. Len(w) - m : x[i] = w[m + i]
  BY <1>2, <1>4, BehindProperties
<1>6. /\ y \in Seq(Byte) /\ Len(y) = Len(v) + Len(t)
      /\ \A i \in 1 .. Len(v) + Len(t) : y[i] = IF i <= Len(v) THEN v[i] ELSE t[i - Len(v)]
  BY <1>3, ConcatProperties
<1> HIDE DEF x, y
<1>7. Len(x) = Len(y)
  BY <1>1, <1>2, <1>3, <1>5, <1>6
<1>8. ASSUME NEW i \in 1 .. Len(x) PROVE x[i] = y[i]
  <2>1. /\ i \in 1 .. Len(w) - m /\ i \in 1 .. Len(v) + Len(t)
        /\ m + i \in 1 .. Len(s) + Len(t)
    BY <1>1, <1>2, <1>3, <1>5
  <2>2. CASE i <= Len(v)
    <3>1. i \in 1 .. Len(s) - m /\ m + i <= Len(s)
      BY <1>1, <1>3, <2>1, <2>2
    <3>2. x[i] = w[m + i] /\ w[m + i] = s[m + i]
      BY <1>2, <1>5, <2>1, <3>1
    <3>3. y[i] = v[i] /\ v[i] = s[m + i]
      BY <1>3, <1>6, <2>1, <2>2, <3>1
    <3> QED
      BY <3>2, <3>3
  <2>3. CASE ~(i <= Len(v))
    <3>1. ~(m + i <= Len(s)) /\ m + i - Len(s) = i - Len(v)
      BY <1>1, <1>3, <2>1, <2>3
    <3>2. x[i] = w[m + i] /\ w[m + i] = t[m + i - Len(s)]
      BY <1>2, <1>5, <2>1, <3>1
    <3>3. y[i] = t[i - Len(v)]
      BY <1>6, <2>1, <2>3
    <3> QED
      BY <3>1, <3>2, <3>3
  <2> QED
    BY <2>2, <2>3
<1>9. x = y
  BY <1>5, <1>6, <1>7, <1>8, SeqEqual
<1> QED
  BY <1>9 DEF x, y, w, v

(* What the last write() has sent so far. *)
Out == SubSeq(sent, start + 1, Len(sent))

(* Inside write() that is the front of the message, as long as its counter  *)
(* says, and the rest is left.                                              *)
Progress ==
  /\ Len(message) <= MaxMessage /\ start \in 0 .. Len(sent)
  /\ writing => /\ total \in Nat /\ total + left = Len(message)
                /\ Out = SubSeq(message, 1, total)

WriteState == Progress /\ WriteCounts

LEMMA WriteStateInit == Init => WriteState
<1> SUFFICES ASSUME Init PROVE WriteState
  OBVIOUS
<1>1. <<>> \in Seq(Byte) /\ Len(<<>>) = 0
  BY EmptySeq
<1>2. /\ sent = <<>> /\ message = <<>> /\ start = 0 /\ total = 0 /\ writing = FALSE
  BY DEF Init
<1>3. SubSeq(sent, start + 1, Len(sent)) = message
  <2> DEFINE out == SubSeq(sent, start + 1, Len(sent))
  <2>1. sent \in Seq(Byte) /\ start \in 0 .. Len(sent)
    BY <1>1, <1>2
  <2>2. out \in Seq(Byte) /\ Len(out) = Len(sent) - start
    BY <2>1, BehindProperties
  <2> HIDE DEF out
  <2>3. Len(out) = 0
    BY <1>1, <1>2, <2>2
  <2>4. out = <<>>
    BY <2>2, <2>3, EmptySeq
  <2> QED
    BY <1>2, <2>4 DEF out
<1>4. WriteCounts
  BY <1>1, <1>2, <1>3 DEF WriteCounts
<1> QED
  BY <1>1, <1>2, <1>4, Bounds DEF WriteState, Progress

LEMMA BeginWriteState ==
  ASSUME StreamInv, NEW bytes \in Bytes(MaxMessage), BeginWrite(bytes)
  PROVE  WriteState'
<1>1. /\ sent' = sent /\ message' = bytes /\ left' = Len(bytes) /\ total' = 0
      /\ writing' = TRUE /\ start' = Len(sent)
  BY DEF BeginWrite
<1>2. bytes \in Seq(Byte) /\ Len(bytes) \in 0 .. MaxMessage /\ Len(sent) \in Nat
      /\ sent \in Seq(Byte)
  <2>1. PICK n \in 0 .. MaxMessage : bytes \in [1 .. n -> Byte]
    BY DEF Bytes
  <2> QED
    BY <2>1, Bounds, LenProperties DEF StreamInv, Sequences
<1> DEFINE u == SubSeq(sent, Len(sent) + 1, Len(sent))
           v == SubSeq(bytes, 1, 0)
<1>3. u = <<>> /\ v = <<>>
  <2>1. Len(sent) \in 0 .. Len(sent) /\ 0 \in 0 .. Len(bytes)
    BY <1>2
  <2>2. /\ u \in Seq(Byte) /\ Len(u) = Len(sent) - Len(sent)
        /\ v \in Seq(Byte) /\ Len(v) = 0
    BY <1>2, <2>1, BehindProperties, FrontProperties
  <2> HIDE DEF u, v
  <2>3. Len(u) = 0
    BY <1>2, <2>2
  <2> QED
    BY <2>2, <2>3, EmptySeq
<1>4. Out' = SubSeq(message', 1, total')
  BY <1>1, <1>3 DEF Out
<1>5. /\ Len(message') <= MaxMessage /\ start' \in 0 .. Len(sent')
      /\ total' \in Nat /\ total' + left' = Len(message')
  BY <1>1, <1>2, Bounds
<1>6. WriteCounts'
  BY <1>1 DEF WriteCounts
<1> QED
  BY <1>4, <1>5, <1>6 DEF WriteState, Progress

(* An int that holds every message holds what was sent of one. *)
LEMMA AsIntExact ==
  ASSUME NEW x \in 0 .. IntMax PROVE AsInt(x) = x
<1>1. x \in Nat /\ x <= IntMax /\ IntMax \in Nat
  BY Bounds
<1>2. (x + IntMax + 1) % (2 * (IntMax + 1)) = x + IntMax + 1
  BY <1>1
<1> QED
  BY <1>1, <1>2 DEF AsInt

LEMMA SendState ==
  ASSUME StreamInv, WriteState, MaxMessage <= IntMax, NEW k \in 1 .. Capacity, Send(k)
  PROVE  WriteState'
<1>1. PICK chunk \in Chunks(k) : sent' = sent \o chunk
  BY DEF Send
<1>2. /\ writing /\ k <= left /\ total' = AsInt(total + k) /\ left' = left - k
      /\ UNCHANGED <<message, writing, start>>
  BY DEF Send
<1>3. /\ k \in Nat /\ k >= 1 /\ sent \in Seq(Byte) /\ message \in Seq(Byte)
      /\ Len(message) \in Nat /\ Len(message) <= MaxMessage /\ left \in Nat
      /\ total \in Nat /\ total + left = Len(message) /\ start \in 0 .. Len(sent)
  BY <1>2, Bounds, LenProperties DEF StreamInv, Sequences, Counters, WriteState, Progress
<1>4. total + k <= Len(message) /\ total + k \in 0 .. IntMax
  BY <1>2, <1>3, Bounds
<1>5. chunk = SubSeq(message, total + 1, total + k) /\ chunk \in Seq(Byte)
  <2>1. chunk \in Seq(Byte)
    BY <1>3, ChunksAreSequences DEF StreamInv
  <2> QED
    BY <1>3, <1>4, <2>1 DEF Chunks
<1>6. total' = total + k
  BY <1>2, <1>4, AsIntExact
<1>7. Out = SubSeq(message, 1, total)
  BY <1>2 DEF WriteState, Progress
<1>8. SubSeq(sent \o chunk, start + 1, Len(sent \o chunk)) = Out \o chunk
  BY <1>3, <1>5, BehindGrows DEF Out
<1>9. Out' = SubSeq(message, 1, total) \o SubSeq(message, total + 1, total + k)
  BY <1>1, <1>2, <1>5, <1>7, <1>8 DEF Out
<1>10. SubSeq(message, 1, total) \o SubSeq(message, total + 1, total + k)
         = SubSeq(message, 1, total + k)
  <2>1. 1 \in 1 .. Len(message) + 1 /\ total \in 1 - 1 .. Len(message)
        /\ total + k \in total .. Len(message)
    BY <1>2, <1>3, <1>4
  <2> QED
    BY <1>3, <2>1, ConcatAdjacentSubSeq
<1>11. start' \in 0 .. Len(sent')
  <2>1. Len(sent \o chunk) = Len(sent) + Len(chunk)
    BY <1>3, <1>5, ConcatProperties
  <2>2. Len(sent) \in Nat /\ Len(chunk) \in Nat
    BY <1>3, <1>5, LenProperties
  <2> QED
    BY <1>1, <1>2, <1>3, <2>1, <2>2
<1>12. total' \in Nat /\ total' + left' = Len(message')
  BY <1>2, <1>3, <1>6
<1>13. Out' = SubSeq(message', 1, total')
  BY <1>2, <1>6, <1>9, <1>10
<1>14. WriteCounts'
  BY <1>2 DEF WriteCounts
<1> QED
  BY <1>2, <1>3, <1>11, <1>12, <1>13, <1>14 DEF WriteState, Progress

LEMMA ReturnState ==
  ASSUME StreamInv, WriteState, Sent \/ SendFails PROVE WriteState'
<1>1. /\ UNCHANGED <<sent, message, left, start>> /\ writing /\ writing' = FALSE
      /\ (left = 0 /\ total' = total) \/ (left > 0 /\ total' = -1)
  BY DEF Sent, SendFails
<1>2. /\ message \in Seq(Byte) /\ Len(message) \in Nat /\ left \in Nat
      /\ total \in Nat /\ total + left = Len(message) /\ Out = SubSeq(message, 1, total)
  BY <1>1, LenProperties DEF StreamInv, Sequences, Counters, WriteState, Progress
<1>3. Out' = Out
  BY <1>1 DEF Out
<1>4. CASE left = 0 /\ total' = total
  <2>1. total = Len(message)
    BY <1>2, <1>4
  <2>2. Out = message
    BY <1>2, <2>1, SubSeqFull
  <2>3. Out' = message' /\ total' = Len(message') /\ total' >= 0
    BY <1>1, <1>2, <1>3, <1>4, <2>1, <2>2
  <2>4. WriteCounts'
    BY <2>3 DEF WriteCounts, Out
  <2> QED
    BY <1>1, <2>4 DEF WriteState, Progress
<1>5. CASE left > 0 /\ total' = -1
  <2>1. total < Len(message) /\ total \in 0 .. Len(message)
    BY <1>2, <1>5
  <2>2. IsPrefix(Out, message)
    BY <1>2, <2>1, FrontsAreNested
  <2>3. Len(Out) = total
    BY <1>2, <2>1, FrontProperties
  <2>4. Out # message
    BY <1>2, <2>1, <2>3
  <2>5. IsStrictPrefix(Out', message') /\ ~(total' >= 0)
    BY <1>1, <1>3, <1>5, <2>2, <2>4 DEF IsStrictPrefix
  <2> QED
    BY <1>1, <2>5 DEF WriteState, Progress, WriteCounts, Out
<1> QED
  BY <1>1, <1>4, <1>5

LEMMA WriteStateStep ==
  ASSUME StreamInv, WriteState, MaxMessage <= IntMax, [Next]_vars PROVE WriteState'
<1>1. ASSUME UNCHANGED <<sent, writeVars>> PROVE WriteState'
  BY <1>1 DEF writeVars, WriteState, Progress, WriteCounts, Out
<1>2. CASE UNCHANGED vars
  BY <1>1, <1>2 DEF vars
<1>3. CASE Reading \/ HasPendingData \/ Break \/ \E end \in Ends : Close(end)
  BY <1>1, <1>3 DEF Reading, Read, HasPendingData, Break, Close
<1> QED
  BY <1>2, <1>3, BeginWriteState, SendState, ReturnState DEF Next, Writing

(* If an int holds the length of every message, a write() that returns      *)
(* without an error has sent its bytes and reports their number, and one    *)
(* that fails has sent bytes from their front, not all.                     *)
THEOREM WritesAreCounted ==
  ASSUME MaxMessage <= IntMax PROVE Spec => []WriteCounts
<1>1. StreamInv /\ WriteState /\ [Next]_vars => StreamInv' /\ WriteState'
  BY StreamStep, WriteStateStep
<1>2. WriteState => WriteCounts
  BY DEF WriteState
<1> QED
  BY <1>1, <1>2, StreamInit, WriteStateInit, PTL DEF Spec
=============================================================================
