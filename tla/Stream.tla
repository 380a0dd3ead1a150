------------------------------- MODULE Stream -------------------------------
(***************************************************************************)
(* A connected stream socket of pfs::io, one direction of it: a thread     *)
(* that write()s at one end, a thread that read()s at the other, and the   *)
(* kernel with what is on its way between them.                            *)
(***************************************************************************)
EXTENDS SequencesExt, Integers

CONSTANTS
  Byte,       \* what is sent
  Capacity,   \* the most bytes the kernel holds between the ends
  MaxMessage, \* the most bytes of one write() (a bound)
  MaxRead,    \* the most bytes of one read() (a bound)
  MaxSent,    \* the most bytes sent before the sender stops (a bound)
  IntMax,     \* INT_MAX
  Interrupts, \* whether signals interrupt blocked calls
  Breaks      \* whether the connection may break

ASSUME StreamAssumption ==
  /\ {Capacity, MaxMessage, MaxRead, MaxSent, IntMax} \subseteq Nat \ {0}
  /\ Interrupts \in BOOLEAN /\ Breaks \in BOOLEAN

VARIABLES
  nonblocking, \* the ends whose socket is non-blocking
  open,        \* the ends that are not closed
  link,        \* the connection: up, reset, or reset and the reader told so
  channel,     \* the bytes the kernel holds
  sent,        \* all bytes the kernel took from the sender
  received,    \* all bytes read() returned
  message,     \* the bytes of the last write()
  left,        \* n: how many of them are still to be sent
  total,       \* total_written, an int
  writing,     \* the last write() has not returned yet
  start,       \* what had been sent when it began
  lastRead,    \* what the last read() returned
  peeked       \* has_pending_data() returned true since that read()

linkVars  == <<nonblocking, open, link>>
writeVars == <<message, left, total, writing, start>>
readVars  == <<received, lastRead, peeked>>
vars == <<linkVars, channel, sent, writeVars, readVars>>

Ends == {"sender", "receiver"}
Bytes(k) == UNION {[1 .. n -> Byte] : n \in 0 .. k}
NotYet == -2  \* no read() so far

(* Either end's socket may be non-blocking. *)
Init ==
  /\ nonblocking \in SUBSET Ends
  /\ open = Ends /\ link = "up"
  /\ channel = <<>> /\ sent = <<>> /\ received = <<>>
  /\ message = <<>> /\ left = 0 /\ total = 0 /\ writing = FALSE /\ start = 0
  /\ lastRead = NotYet /\ peeked = FALSE

-----------------------------------------------------------------------------
(* write() *)

BeginWrite(bytes) ==
  /\ "sender" \in open /\ ~writing /\ Len(sent) + Len(bytes) <= MaxSent
  /\ message' = bytes /\ left' = Len(bytes) /\ total' = 0
  /\ writing' = TRUE /\ start' = Len(sent)
  /\ UNCHANGED <<linkVars, channel, sent, readVars>>

(* Mutant: the bytes are taken from the start of the message. *)
ChunksFromStart(k) == {SubSeq(message, 1, k)}

(* The k bytes at `bytes + total_written'; outside of the message, where a  *)
(* wrapped total points, they are whatever is there.                        *)
Chunks(k) ==
  IF total >= 0 /\ total + k <= Len(message)
  THEN {SubSeq(message, total + 1, total + k)}
  ELSE [1 .. k -> Byte]

(* A sum in int: it wraps. *)
AsInt(x) == ((x + IntMax + 1) % (2 * (IntMax + 1))) - (IntMax + 1)

(* Mutant: `n -= total_written'. *)
SendSubtractsTotal(k) ==
  /\ writing /\ k <= left /\ link = "up"
  /\ \E chunk \in Chunks(k) :
       /\ sent' = sent \o chunk
       /\ \/ /\ "receiver" \in open /\ Len(channel) + k <= Capacity
             /\ channel' = channel \o chunk
          \/ "receiver" \notin open /\ UNCHANGED channel
  /\ total' = AsInt(total + k) /\ left' = left - total'
  /\ UNCHANGED <<linkVars, message, writing, start, readVars>>

(* send() takes k bytes.  A blocking send() that takes its bytes one part   *)
(* after another is a sequence of these steps; a non-blocking one that      *)
(* finds no room is called again at once and changes nothing.  When the     *)
(* receiver has closed the kernel may take bytes that nobody will read.     *)
Send(k) ==
  /\ writing /\ k <= left /\ link = "up"
  /\ \E chunk \in Chunks(k) :
       /\ sent' = sent \o chunk
       /\ \/ /\ "receiver" \in open /\ Len(channel) + k <= Capacity
             /\ channel' = channel \o chunk
          \/ "receiver" \notin open /\ UNCHANGED channel
  /\ total' = AsInt(total + k) /\ left' = left - k
  /\ UNCHANGED <<linkVars, message, writing, start, readVars>>

(* The loop ends with all bytes sent. *)
Sent ==
  /\ writing /\ left = 0
  /\ writing' = FALSE
  /\ UNCHANGED <<linkVars, channel, sent, message, left, total, start, readVars>>

(* Mutant: only a signal ends the loop. *)
SendRetried ==
  /\ writing /\ left > 0
  /\ Interrupts /\ "sender" \notin nonblocking /\ Len(channel) = Capacity
  /\ total' = -1 /\ writing' = FALSE
  /\ UNCHANGED <<linkVars, channel, sent, message, left, start, readVars>>

(* send() fails and ends the loop: the peer has closed or is lost, or a     *)
(* signal interrupts a send() that waits for room.                          *)
SendFails ==
  /\ writing /\ left > 0
  /\ \/ "receiver" \notin open
     \/ link # "up"
     \/ /\ Interrupts /\ "sender" \notin nonblocking
        /\ Len(channel) = Capacity
  /\ total' = -1 /\ writing' = FALSE
  /\ UNCHANGED <<linkVars, channel, sent, message, left, start, readVars>>

-----------------------------------------------------------------------------
(* read() and has_pending_data() *)

(* A call of the receiver that returns r, with EAGAIN turned into 0. *)
Returns(r) == lastRead' = r /\ peeked' = FALSE

Shorter(m, n) == IF m < n THEN m ELSE n

(* Mutant: the bytes read stay in the kernel, as with MSG_PEEK. *)
PeekChannel(n) ==
  LET k == Shorter(n, Len(channel))
  IN /\ received' = received \o SubSeq(channel, 1, k)
     /\ channel' = channel
     /\ Returns(k)

(* Mutant: what does not fit in the caller's array is dropped. *)
TakeDatagram(n) ==
  LET k == Shorter(n, Len(channel))
  IN /\ received' = received \o SubSeq(channel, 1, k)
     /\ channel' = <<>>
     /\ Returns(k)

TakeChannel(n) ==
  LET k == Shorter(n, Len(channel))
  IN /\ received' = received \o SubSeq(channel, 1, k)
     /\ channel' = SubSeq(channel, k + 1, Len(channel))
     /\ Returns(k)

(* recv() has nothing more to wait for. *)
AtEnd == /\ channel = <<>>
         /\ link = "reported" \/ (link = "up" /\ "sender" \notin open)

Waits == channel = <<>> /\ link = "up" /\ "sender" \in open

(* Mutant: any recv() without data counts as EAGAIN, an interrupted one too. *)
AnyWait == Waits

(* EAGAIN *)
Again == Waits /\ "receiver" \in nonblocking

Read(n) ==
  /\ "receiver" \in open
  /\ \/ channel # <<>> /\ TakeChannel(n) /\ UNCHANGED linkVars
     \/ /\ AtEnd \/ Again
        /\ Returns(0) /\ UNCHANGED <<received, channel, linkVars>>
     \/ /\ channel = <<>> /\ link = "reset"
        /\ link' = "reported"
        /\ Returns(-1) /\ UNCHANGED <<received, channel, nonblocking, open>>
     \/ /\ Waits /\ Interrupts /\ "receiver" \notin nonblocking
        /\ Returns(-1) /\ UNCHANGED <<received, channel, linkVars>>
  /\ UNCHANGED <<sent, writeVars>>

(* Mutant: `n >= 0', the end of the stream counts as data. *)
PeekFindsEnd == channel # <<>> \/ AtEnd

(* recvfrom() of one byte with MSG_PEEK finds one. *)
PeekFinds == channel # <<>>

(* has_pending_data() returns true.  With false nothing changes but the     *)
(* error of a lost connection, which it swallows.                           *)
HasPendingData ==
  /\ "receiver" \in open
  /\ \/ PeekFinds /\ peeked' = TRUE /\ UNCHANGED link
     \/ /\ channel = <<>> /\ link = "reset"
        /\ link' = "reported" /\ UNCHANGED peeked
  /\ UNCHANGED <<nonblocking, open, channel, sent, writeVars, received, lastRead>>

-----------------------------------------------------------------------------
(* Mutant: what is on its way is dropped, as by SO_LINGER with 0. *)
CloseAborts(end) ==
  /\ end \in open /\ (end = "sender" => ~writing)
  /\ open' = open \ {end}
  /\ channel' = <<>>
  /\ UNCHANGED <<nonblocking, link, sent, writeVars, readVars>>

(* close() of a device shuts the connection down: the peer reads what is on *)
(* its way and then the end.  What the receiver has not read is lost.       *)
Close(end) ==
  /\ end \in open /\ (end = "sender" => ~writing)
  /\ open' = open \ {end}
  /\ channel' = IF end = "receiver" THEN <<>> ELSE channel
  /\ UNCHANGED <<nonblocking, link, sent, writeVars, readVars>>

(* The network or the peer's host fails: bytes on their way are lost. *)
Break ==
  /\ Breaks /\ link = "up"
  /\ link' = "reset"
  /\ \E k \in 0 .. Len(channel) : channel' = SubSeq(channel, 1, k)
  /\ UNCHANGED <<nonblocking, open, sent, writeVars, readVars>>

Writing == Sent \/ SendFails \/ \E k \in 1 .. Capacity : Send(k)
Reading == \E n \in 1 .. MaxRead : Read(n)

Next ==
  \/ \E bytes \in Bytes(MaxMessage) : BeginWrite(bytes)
  \/ Writing \/ Reading \/ HasPendingData
  \/ \E end \in Ends : Close(end)
  \/ Break

Spec == Init /\ [][Next]_vars

(* A thread inside write() runs on. *)
WriterSpec == Spec /\ WF_vars(Writing)

(* The receiver, too, goes on reading as long as its socket is open. *)
FairSpec == WriterSpec /\ WF_vars(Reading)

-----------------------------------------------------------------------------
(* The types of the variables. *)
TypeOK ==
  /\ nonblocking \subseteq Ends /\ open \subseteq Ends
  /\ link \in {"up", "reset", "reported"}
  /\ channel \in Seq(Byte) /\ Len(channel) <= Capacity
  /\ sent \in Seq(Byte) /\ received \in Seq(Byte) /\ message \in Seq(Byte)
  /\ left \in 0 .. MaxMessage
  /\ total \in -(IntMax + 1) .. IntMax
  /\ writing \in BOOLEAN /\ peeked \in BOOLEAN
  /\ start \in Nat /\ lastRead \in -2 .. MaxRead

(* A connected socket is a byte stream: whatever the pieces that send() and *)
(* recv() move, and whichever end closes or fails, read() returns the bytes *)
(* sent from the first on, in order, none twice and none left out.          *)
Bytestream == INSTANCE ByteStream
IsByteStream == Bytestream!StreamSpec

(* As long as the connection lives no byte is lost: what was sent has been  *)
(* received or is on its way.                                               *)
NothingLost ==
  link = "up" /\ "receiver" \in open => sent = received \o channel

(* A write() that returns without an error has sent its bytes, all of them  *)
(* and nothing else, and returns their number; one that fails has sent only *)
(* bytes from their front.                                                  *)
WriteCounts ==
  ~writing =>
    LET out == SubSeq(sent, start + 1, Len(sent))
    IN IF total >= 0 THEN out = message /\ total = Len(message)
                     ELSE IsStrictPrefix(out, message)

(* On a blocking socket 0 from read() means what its caller takes it for:   *)
(* the sender has closed and everything it sent has been read.              *)
ZeroIsEnd ==
  lastRead = 0 /\ "receiver" \notin nonblocking /\ link = "up" =>
    "sender" \notin open /\ ("receiver" \in open => received = sent)

(* When has_pending_data() has returned true the next read() finds a byte   *)
(* and does not wait, unless the receiver closes its socket first.          *)
PendingMeansData ==
  peeked /\ link = "up" /\ "receiver" \in open => channel # <<>>

(* Every write() returns while the receiver reads, closes or is lost. *)
WritesReturn == writing ~> ~writing

(* Everything sent before close() arrives, if the connection lives and the  *)
(* receiver keeps its socket open.                                          *)
AllArrives ==
  "sender" \notin open ~>
    received = sent \/ link # "up" \/ "receiver" \notin open

(* In non-blocking mode write() does not wait for the peer. *)
NonBlockingReturns == "sender" \in nonblocking /\ writing ~> ~writing
=============================================================================
