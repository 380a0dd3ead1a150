------------------------------ MODULE UdpProofs ------------------------------
(***************************************************************************)
(* UDP objects keep the address they write to, and a read() returns the    *)
(* front of one datagram, for any clients, strangers, sizes and losses.    *)
(***************************************************************************)
EXTENDS Udp, SequenceFacts, FiniteSetTheorems

ObjectTypes ==
  /\ nonblocking \in BOOLEAN
  /\ handle \in [Objects -> Objects \cup {NoSocket}]
  /\ addr \in [Objects -> Addresses \cup {NoAddress}]
  /\ home \in [Objects -> Addresses \cup {NoAddress}]
  /\ bound \subseteq Objects
  /\ loop \in {"out", "peek", "read"}

NetTypes ==
  /\ sent \subseteq Datagrams /\ IsFiniteSet(sent)
  /\ net \subseteq sent \X (1 .. MaxFlight) /\ IsFiniteSet(net)

QueueTypes ==
  /\ queue \in [Objects -> Seq(Datagrams)]
  /\ \A x \in Objects : Len(queue[x]) <= QueueCap

GotTypes ==
  /\ got \in [at : Objects \cup {NoSocket}, asked : 0 .. MaxRead, data : Seq(Bytes)]
  /\ Len(got.data) <= got.asked

(* No two objects have the same socket, and a client has a client's. *)
Own ==
  /\ \A o \in Clients : handle[o] \in Clients \cup {NoSocket}
  /\ handle[Server] \in {Server, NoSocket}
  /\ \A o, p \in Objects : handle[o] = handle[p] /\ handle[o] # NoSocket => o = p

(* A queue holds what was sent to its socket. *)
Routed ==
  \A x \in Objects : \A i \in 1 .. Len(queue[x]) :
    queue[x][i] \in sent /\ queue[x][i].to = x

Inv == /\ ObjectTypes /\ NetTypes /\ QueueTypes /\ GotTypes
       /\ Own /\ Routed /\ TargetsKept /\ Whole

LEMMA Sizes ==
  /\ MaxDatagram \in Nat /\ MaxRead \in Nat /\ QueueCap \in Nat /\ MaxWrite \in Nat
  /\ MaxSent \in Nat /\ MaxFlight \in Nat /\ Server \notin Clients
BY UdpAssumption

LEMMA InitInv == Init => Inv
<1> SUFFICES ASSUME Init PROVE Inv
  OBVIOUS
<1>1. /\ <<>> \in Seq(Datagrams) /\ <<>> \in Seq(Bytes) /\ Len(<<>>) = 0
      /\ \A x \in Objects : queue[x] = <<>>
  BY EmptySeq DEF Init
<1>2. ObjectTypes
  BY UdpAssumption DEF Init, ObjectTypes
<1>3. NetTypes
  BY FS_EmptySet DEF Init, NetTypes
<1>4. QueueTypes
  BY <1>1, Sizes DEF Init, QueueTypes
<1>5. GotTypes
  BY <1>1, Sizes DEF Init, GotTypes, NotYet
<1>6. Own /\ TargetsKept
  BY DEF Init, Own, TargetsKept, Objects
<1>7. Routed
  BY <1>1 DEF Routed
<1>8. Whole
  BY DEF Init, Whole, NotYet
<1> QED
  BY <1>2, <1>3, <1>4, <1>5, <1>6, <1>7, <1>8 DEF Inv

-----------------------------------------------------------------------------
(* Sending. *)

LEMMA PayloadIsSequence ==
  ASSUME NEW k \in 1 .. MaxSent, NEW n \in 0 .. MaxWrite
  PROVE  Payload(k, n) \in Seq(Bytes)
<1>1. n \in Nat /\ \A i \in 1 .. n : i \in 1 .. MaxWrite
  BY Sizes
<1>2. \A i \in 1 .. n : <<k, i>> \in Bytes
  BY <1>1 DEF Bytes
<1>3. Payload(k, n) \in [1 .. n -> Bytes]
  BY <1>2 DEF Payload
<1> QED
  BY <1>1, <1>3, SeqDef

LEMMA CopiesAreFinite ==
  ASSUME NEW g, NEW copies \in Nat
  PROVE  IsFiniteSet({<<g, c>> : c \in 1 .. copies})
<1> DEFINE S == 1 .. copies
           T == {<<g, c>> : c \in S}
           f == [c \in S |-> <<g, c>>]
<1>1. IsFiniteSet(S)
  BY FS_Interval
<1>2. f \in Surjection(S, T)
  BY DEF Surjection
<1> HIDE DEF S, T, f
<1>3. IsFiniteSet(T)
  BY <1>1, <1>2, FS_Surjection
<1> QED
  BY <1>3 DEF S, T

LEMMA EmitTypes ==
  ASSUME NetTypes, NEW from \in Addresses, NEW to \in Addresses, NEW n \in 0 .. MaxWrite,
         Emit(from, to, n)
  PROVE  NetTypes' /\ sent \subseteq sent'
<1> DEFINE k == Cardinality(sent) + 1
           g == [from |-> from, to |-> to, data |-> Payload(k, n)]
<1>1. /\ k <= MaxSent /\ sent' = sent \cup {g}
      /\ \E copies \in 0 .. MaxFlight - Cardinality(net) :
           net' = net \cup {<<g, c>> : c \in 1 .. copies}
  BY DEF Emit
<1>2. Cardinality(sent) \in Nat /\ Cardinality(net) \in Nat
  BY FS_CardinalityType DEF NetTypes
<1>3. k \in 1 .. MaxSent
  BY <1>1, <1>2, Sizes
<1>4. g \in Datagrams
  BY <1>3, PayloadIsSequence DEF Datagrams
<1> HIDE DEF g, k
<1>5. sent' \subseteq Datagrams /\ IsFiniteSet(sent')
  BY <1>1, <1>4, FS_AddElement DEF NetTypes
<1>6. PICK copies \in 0 .. MaxFlight - Cardinality(net) :
        net' = net \cup {<<g, c>> : c \in 1 .. copies}
  BY <1>1
<1>7. copies \in Nat /\ \A c \in 1 .. copies : c \in 1 .. MaxFlight
  BY <1>2, <1>6, Sizes
<1>8. net' \subseteq sent' \X (1 .. MaxFlight)
  BY <1>1, <1>6, <1>7 DEF NetTypes
<1>9. IsFiniteSet(net')
  BY <1>6, <1>7, CopiesAreFinite, FS_Union DEF NetTypes
<1> QED
  BY <1>1, <1>5, <1>8, <1>9 DEF NetTypes

(* A step that sends and touches no object or queue. *)
LEMMA SendInv ==
  ASSUME Inv, NetTypes', sent \subseteq sent', bound' \subseteq Objects,
         UNCHANGED <<nonblocking, objectVars, queue, got, loop>>
  PROVE  Inv'
<1>1. ObjectTypes' /\ QueueTypes' /\ GotTypes' /\ Own' /\ TargetsKept'
  BY DEF Inv, ObjectTypes, QueueTypes, GotTypes, Own, TargetsKept, objectVars
<1>2. Routed'
  BY DEF Inv, Routed
<1>3. Whole'
  BY DEF Inv, Whole
<1> QED
  BY <1>1, <1>2, <1>3 DEF Inv

LEMMA WriteToInv ==
  ASSUME Inv, NEW o \in Objects, NEW to \in Addresses \cup {NoAddress},
         NEW n \in 0 .. MaxWrite, WriteTo(o, to, n)
  PROVE  Inv'
<1>1. handle[o] \in Objects /\ to \in Addresses
  BY DEF Inv, ObjectTypes, WriteTo
<1>2. handle[o] \in Addresses
  BY <1>1 DEF Addresses
<1>3. NetTypes' /\ sent \subseteq sent'
  BY <1>1, <1>2, EmitTypes DEF Inv, WriteTo
<1>4. bound' \subseteq Objects
  BY <1>1 DEF WriteTo, Inv, ObjectTypes
<1> QED
  BY <1>3, <1>4, SendInv DEF WriteTo

LEMMA StrangerInv ==
  ASSUME Inv, NEW s \in Strangers, NEW x \in bound, NEW n \in 1 .. MaxWrite,
         StrangerSends(s, x, n)
  PROVE  Inv'
<1>1. s \in Addresses /\ x \in Addresses /\ n \in 0 .. MaxWrite
  BY Sizes DEF Inv, ObjectTypes, Addresses
<1>2. NetTypes' /\ sent \subseteq sent'
  BY <1>1, EmitTypes DEF Inv, StrangerSends
<1>3. bound' \subseteq Objects
  BY DEF Inv, ObjectTypes, StrangerSends
<1> QED
  BY <1>2, <1>3, SendInv DEF StrangerSends

-----------------------------------------------------------------------------
(* Delivering and receiving. *)

LEMMA DeliverInv ==
  ASSUME Inv, NEW m \in net, Deliver(m[1], m[2]) PROVE Inv'
<1> DEFINE g == m[1]
           x == g.to
<1>1. g \in sent /\ g \in Datagrams
  BY DEF Inv, NetTypes
<1> HIDE DEF g
<1>2. /\ net' = net \ {<<g, m[2]>>}
      /\ UNCHANGED <<nonblocking, objectVars, bound, sent, got, loop>>
      /\ UNCHANGED queue \/ (/\ x \in bound /\ Len(queue[x]) < QueueCap
                             /\ queue' = [queue EXCEPT ![x] = Append(@, g)])
  BY DEF Deliver, g
<1>3. ObjectTypes' /\ GotTypes' /\ Own' /\ TargetsKept' /\ Whole'
  BY <1>2 DEF Inv, ObjectTypes, GotTypes, Own, TargetsKept, Whole, objectVars
<1>4. NetTypes'
  <2>1. IsFiniteSet(net')
    BY <1>2, FS_Subset DEF Inv, NetTypes
  <2> QED
    BY <1>2, <2>1 DEF Inv, NetTypes
<1>5. QueueTypes' /\ Routed'
  <2>1. CASE UNCHANGED queue
    BY <1>2, <2>1 DEF Inv, QueueTypes, Routed
  <2>2. CASE /\ x \in bound /\ Len(queue[x]) < QueueCap
             /\ queue' = [queue EXCEPT ![x] = Append(@, g)]
    <3>1. x \in Objects /\ queue[x] \in Seq(Datagrams) /\ Len(queue[x]) \in Nat
      BY <2>2, LenProperties DEF Inv, ObjectTypes, QueueTypes
    <3>2. /\ Append(queue[x], g) \in Seq(Datagrams)
          /\ Len(Append(queue[x], g)) = Len(queue[x]) + 1
          /\ \A i \in 1 .. Len(queue[x]) : Append(queue[x], g)[i] = queue[x][i]
          /\ Append(queue[x], g)[Len(queue[x]) + 1] = g
      BY <1>1, <3>1, AppendProperties
    <3>3. /\ queue'[x] = Append(queue[x], g)
          /\ \A y \in Objects \ {x} : queue'[y] = queue[y]
      BY <2>2, <3>1 DEF Inv, QueueTypes
    <3>4. Len(queue'[x]) <= QueueCap
      BY <2>2, <3>1, <3>2, <3>3, Sizes
    <3>5. queue' \in [Objects -> Seq(Datagrams)]
      BY <2>2, <3>2 DEF Inv, QueueTypes
    <3>6. QueueTypes'
      BY <3>3, <3>4, <3>5 DEF Inv, QueueTypes
    <3>7. ASSUME NEW y \in Objects, NEW i \in 1 .. Len(queue'[y])
          PROVE  queue'[y][i] \in sent' /\ queue'[y][i].to = y
      <4>1. CASE y # x
        BY <1>2, <3>3, <4>1 DEF Inv, Routed
      <4>2. CASE y = x /\ i = Len(queue[x]) + 1
        BY <1>1, <1>2, <3>2, <3>3, <4>2
      <4>3. CASE y = x /\ i # Len(queue[x]) + 1
        <5>1. i \in 1 .. Len(queue[x])
          BY <3>1, <3>2, <3>3, <4>3
        <5>2. queue'[y][i] = queue[x][i] /\ sent' = sent
          BY <1>2, <3>2, <3>3, <4>3, <5>1
        <5>3. queue[x][i] \in sent /\ queue[x][i].to = x
          BY <3>1, <5>1 DEF Inv, Routed
        <5> QED
          BY <4>3, <5>2, <5>3
      <4> QED
        BY <4>1, <4>2, <4>3
    <3>8. Routed'
      BY <3>7 DEF Routed
    <3> QED
      BY <3>6, <3>8
  <2> QED
    BY <1>2, <2>1, <2>2
<1> QED
  BY <1>3, <1>4, <1>5 DEF Inv

LEMMA ReadInv ==
  ASSUME Inv, NEW o \in Objects, NEW n \in 1 .. MaxRead, Read(o, n),
         loop' \in {"out", "peek", "read"}
  PROVE  Inv'
<1> DEFINE x == handle[o]
           g == Head(queue[x])
           k == Shorter(n, Len(g.data))
<1>1. /\ x \in Objects /\ queue[x] \in Seq(Datagrams) /\ queue[x] # <<>>
      /\ Len(queue[x]) <= QueueCap
  BY DEF Inv, ObjectTypes, QueueTypes, Read
<1>2. /\ got' = [at |-> x, asked |-> n, data |-> SubSeq(g.data, 1, k)]
      /\ queue' = [queue EXCEPT ![x] = Tail(@)]
      /\ addr' = [addr EXCEPT ![o] = @]
      /\ UNCHANGED <<nonblocking, handle, home, bound, netVars>>
  BY DEF Read, Take, Stored
<1> HIDE DEF x
<1>3. /\ Len(queue[x]) \in Nat /\ Len(queue[x]) # 0
      /\ g = queue[x][1]
      /\ Tail(queue[x]) \in Seq(Datagrams)
      /\ Len(Tail(queue[x])) = Len(queue[x]) - 1
      /\ \A i \in 1 .. Len(queue[x]) - 1 : Tail(queue[x])[i] = queue[x][i + 1]
  BY <1>1, HeadTailProperties, LenProperties, EmptySeq
<1>4. g \in sent /\ g.to = x /\ g \in Datagrams
  BY <1>1, <1>3 DEF Inv, Routed, NetTypes
<1> HIDE DEF g
<1>5. g.data \in Seq(Bytes) /\ Len(g.data) \in Nat
  BY <1>4, LenProperties DEF Datagrams
<1>6. n \in Nat /\ k \in 0 .. Len(g.data) /\ k <= n /\ (k < n => k = Len(g.data))
  BY <1>5, Sizes DEF Shorter
<1>7. /\ SubSeq(g.data, 1, k) \in Seq(Bytes) /\ Len(SubSeq(g.data, 1, k)) = k
      /\ IsPrefix(SubSeq(g.data, 1, k), g.data)
      /\ SubSeq(g.data, 1, Len(g.data)) = g.data
  BY <1>5, <1>6, FrontProperties, FrontsAreNested, SubSeqFull
<1> HIDE DEF k
<1>8. ObjectTypes' /\ NetTypes' /\ Own' /\ TargetsKept'
  <2>1. addr' = addr
    BY <1>2 DEF Inv, ObjectTypes
  <2> QED
    BY <1>2, <2>1 DEF Inv, ObjectTypes, NetTypes, Own, TargetsKept, netVars
<1>9. GotTypes'
  BY <1>1, <1>2, <1>6, <1>7 DEF GotTypes
<1>10. Whole'
  BY <1>2, <1>4, <1>6, <1>7 DEF Whole, netVars
<1>11. /\ queue'[x] = Tail(queue[x])
       /\ \A y \in Objects \ {x} : queue'[y] = queue[y]
  BY <1>1, <1>2 DEF Inv, QueueTypes
<1>12. QueueTypes'
  <2>1. queue' \in [Objects -> Seq(Datagrams)]
    BY <1>2, <1>3 DEF Inv, QueueTypes
  <2>2. Len(queue'[x]) <= QueueCap
    BY <1>1, <1>3, <1>11, Sizes
  <2> QED
    BY <1>11, <2>1, <2>2 DEF Inv, QueueTypes
<1>13. Routed'
  <2> SUFFICES ASSUME NEW y \in Objects, NEW i \in 1 .. Len(queue'[y])
               PROVE  queue'[y][i] \in sent' /\ queue'[y][i].to = y
    BY DEF Routed
  <2>1. CASE y # x
    BY <1>2, <1>11, <2>1 DEF Inv, Routed, netVars
  <2>2. CASE y = x
    <3> DEFINE m == Len(queue[x])
    <3>0. m \in Nat /\ Len(queue'[y]) = m - 1
      BY <1>3, <1>11, <2>2
    <3> HIDE DEF m
    <3>1. i \in 1 .. m - 1 /\ i + 1 \in 1 .. m
      BY <3>0
    <3> USE DEF m
    <3>2. queue'[y][i] = queue[x][i + 1]
      BY <1>3, <1>11, <2>2, <3>1
    <3>3. queue[x][i + 1] \in sent /\ queue[x][i + 1].to = x
      BY <1>1, <3>1 DEF Inv, Routed
    <3> QED
      BY <1>2, <2>2, <3>2, <3>3 DEF netVars
  <2> QED
    BY <2>1, <2>2
<1> QED
  BY <1>8, <1>9, <1>10, <1>12, <1>13 DEF Inv

-----------------------------------------------------------------------------
(* The objects. *)

LEMMA OpenInv == ASSUME Inv, NEW o \in Clients, Open(o) PROVE Inv'
<1> DEFINE x == CHOOSE y \in Clients : Free(y)
<1>1. x \in Clients /\ Free(x)
  BY DEF Open
<1>2. PICK target \in Strangers \cup {Server} :
        /\ handle' = [handle EXCEPT ![o] = x]
        /\ addr' = [addr EXCEPT ![o] = target]
        /\ home' = [home EXCEPT ![x] = target]
  BY DEF Open
<1> HIDE DEF x
<1>3. UNCHANGED <<nonblocking, bound, netVars, queue, got, loop>>
  BY DEF Open
<1>4. o \in Objects /\ x \in Objects /\ target \in Addresses
  BY <1>1 DEF Objects, Addresses
<1>5. ObjectTypes'
  BY <1>2, <1>3, <1>4 DEF Inv, ObjectTypes
<1>6. /\ handle'[o] = x /\ addr'[o] = target /\ home'[x] = target
      /\ \A p \in Objects \ {o} : handle'[p] = handle[p] /\ addr'[p] = addr[p] /\ handle[p] # x
      /\ \A y \in Objects \ {x} : home'[y] = home[y]
  BY <1>1, <1>2, <1>4 DEF Inv, ObjectTypes, Free
<1>7. Own'
  BY <1>1, <1>6, Sizes DEF Inv, Own, Objects
<1>8. TargetsKept'
  BY <1>6 DEF Inv, Own, TargetsKept, Objects
<1>9. NetTypes' /\ QueueTypes' /\ GotTypes' /\ Routed' /\ Whole'
  BY <1>3 DEF Inv, NetTypes, QueueTypes, GotTypes, Routed, Whole, netVars
<1> QED
  BY <1>5, <1>7, <1>8, <1>9 DEF Inv

LEMMA OpenServerInv == ASSUME Inv, OpenServer PROVE Inv'
<1>1. /\ handle[Server] = NoSocket /\ handle' = [handle EXCEPT ![Server] = Server]
      /\ bound' = bound \cup {Server} /\ Server \in Objects
      /\ UNCHANGED <<nonblocking, addr, home, netVars, queue, got, loop>>
  BY DEF OpenServer, Objects
<1>2. ObjectTypes'
  BY <1>1 DEF Inv, ObjectTypes
<1>3. /\ handle'[Server] = Server
      /\ \A p \in Clients : handle'[p] = handle[p]
  BY <1>1, Sizes DEF Inv, ObjectTypes, Objects
<1>4. Own'
  BY <1>3, Sizes DEF Inv, Own, Objects
<1>5. TargetsKept'
  BY <1>1, <1>3 DEF Inv, TargetsKept
<1>6. NetTypes' /\ QueueTypes' /\ GotTypes' /\ Routed' /\ Whole'
  BY <1>1 DEF Inv, NetTypes, QueueTypes, GotTypes, Routed, Whole, netVars
<1> QED
  BY <1>2, <1>4, <1>5, <1>6 DEF Inv

LEMMA CloseInv == ASSUME Inv, NEW o \in Objects, Close(o) PROVE Inv'
<1> DEFINE x == handle[o]
<1>1. /\ x # NoSocket /\ x \in Objects
      /\ handle' = [handle EXCEPT ![o] = NoSocket]
      /\ addr' = [addr EXCEPT ![o] = NoAddress]
      /\ home' = [home EXCEPT ![x] = NoAddress]
      /\ bound' = bound \ {x}
      /\ queue' = [queue EXCEPT ![x] = <<>>]
      /\ got' = IF got.at = x THEN NotYet ELSE got
      /\ UNCHANGED <<nonblocking, netVars, loop>>
  BY DEF Close, Inv, ObjectTypes
<1>2. ObjectTypes'
  BY <1>1 DEF Inv, ObjectTypes
<1>3. /\ handle'[o] = NoSocket
      /\ \A p \in Objects \ {o} : handle'[p] = handle[p] /\ addr'[p] = addr[p]
      /\ \A p \in Objects \ {o} : handle[p] # x
      /\ \A y \in Objects \ {x} : home'[y] = home[y]
  BY <1>1 DEF Inv, ObjectTypes, Own
<1>4. Own'
  BY <1>3 DEF Inv, Own, Objects
<1>5. TargetsKept'
  BY <1>3 DEF Inv, Own, TargetsKept, Objects
<1>6. /\ <<>> \in Seq(Datagrams) /\ <<>> \in Seq(Bytes) /\ Len(<<>>) = 0
      /\ queue'[x] = <<>>
      /\ \A y \in Objects \ {x} : queue'[y] = queue[y]
  BY <1>1, EmptySeq DEF Inv, QueueTypes
<1> HIDE DEF x
<1>7. QueueTypes'
  BY <1>1, <1>6, Sizes DEF Inv, QueueTypes
<1>8. Routed'
  BY <1>1, <1>6 DEF Inv, Routed, netVars
<1>9. GotTypes'
  BY <1>1, <1>6, Sizes DEF Inv, GotTypes, NotYet
<1>10. Whole'
  BY <1>1 DEF Inv, Whole, NotYet, netVars
<1>11. NetTypes'
  BY <1>1 DEF Inv, NetTypes, netVars
<1> QED
  BY <1>2, <1>4, <1>5, <1>7, <1>8, <1>9, <1>10, <1>11 DEF Inv

LEMMA SwapInv == ASSUME Inv, NEW o \in Clients, NEW p \in Clients \ {o}, Swap(o, p) PROVE Inv'
<1>1. /\ handle' = [handle EXCEPT ![o] = handle[p], ![p] = handle[o]]
      /\ addr' = [addr EXCEPT ![o] = addr[p], ![p] = addr[o]]
      /\ o \in Objects /\ p \in Objects /\ o # p
      /\ UNCHANGED <<nonblocking, home, bound, netVars, queue, got, loop>>
  BY DEF Swap, Objects
<1>2. ObjectTypes'
  BY <1>1 DEF Inv, ObjectTypes
<1>3. /\ handle'[o] = handle[p] /\ handle'[p] = handle[o]
      /\ addr'[o] = addr[p] /\ addr'[p] = addr[o]
      /\ \A q \in Objects \ {o, p} : handle'[q] = handle[q] /\ addr'[q] = addr[q]
  BY <1>1 DEF Inv, ObjectTypes
<1>4. Own'
  <2>1. \A q \in Clients : handle'[q] \in Clients \cup {NoSocket}
    BY <1>3 DEF Inv, Own, Objects
  <2>2. handle'[Server] \in {Server, NoSocket}
    BY <1>3, Sizes DEF Inv, Own, Objects
  <2>3. \A q, r \in Objects : handle[q] = handle[r] /\ handle[q] # NoSocket => q = r
    BY DEF Inv, Own
  <2>4. ASSUME NEW q \in Objects, NEW r \in Objects,
               handle'[q] = handle'[r], handle'[q] # NoSocket
        PROVE  q = r
    <3> DEFINE mate(y) == IF y = o THEN p ELSE IF y = p THEN o ELSE y
    <3>1. ASSUME NEW y \in Objects
          PROVE  mate(y) \in Objects /\ handle'[y] = handle[mate(y)]
      <4>1. CASE y = o
        BY <1>1, <1>3, <4>1
      <4>2. CASE y = p
        BY <1>1, <1>3, <4>2
      <4>3. CASE y \in Objects \ {o, p}
        BY <1>3, <4>3
      <4> QED
        BY <4>1, <4>2, <4>3
    <3>2. mate(q) = mate(r) => q = r
      BY <1>1
    <3> HIDE DEF mate
    <3>3. handle[mate(q)] = handle[mate(r)] /\ handle[mate(q)] # NoSocket
      BY <2>4, <3>1
    <3>4. mate(q) \in Objects /\ mate(r) \in Objects
      BY <3>1
    <3> QED
      BY <2>3, <3>2, <3>3, <3>4
  <2> QED
    BY <2>1, <2>2, <2>4 DEF Own
<1>5. TargetsKept'
  <2>1. \A q \in Clients : handle[q] # NoSocket => addr[q] = home[handle[q]]
    BY DEF Inv, TargetsKept
  <2>2. ASSUME NEW q \in Clients, handle'[q] # NoSocket
        PROVE  addr'[q] = home[handle'[q]]
    <3>1. CASE q = o
      BY <1>3, <2>1, <2>2, <3>1
    <3>2. CASE q = p
      BY <1>3, <2>1, <2>2, <3>2
    <3>3. CASE q \in Objects \ {o, p}
      BY <1>3, <2>1, <2>2, <3>3
    <3> QED
      BY <3>1, <3>2, <3>3 DEF Objects
  <2> QED
    BY <1>1, <2>2 DEF TargetsKept
<1>6. NetTypes' /\ QueueTypes' /\ GotTypes' /\ Routed' /\ Whole'
  BY <1>1 DEF Inv, NetTypes, QueueTypes, GotTypes, Routed, Whole, netVars
<1> QED
  BY <1>2, <1>4, <1>5, <1>6 DEF Inv

LEMMA LoopInv ==
  ASSUME Inv, loop' \in {"out", "peek", "read"},
         UNCHANGED <<nonblocking, objectVars, bound, netVars, queue, got>>
  PROVE  Inv'
BY DEF Inv, ObjectTypes, NetTypes, QueueTypes, GotTypes, Own, Routed, TargetsKept, Whole,
       objectVars, netVars

LEMMA PollInv == ASSUME Inv, Poll PROVE Inv'
<1>1. CASE EnterLoop \/ Peek
  BY <1>1, LoopInv DEF EnterLoop, Peek, LoopGoes
<1>2. CASE LoopRead
  BY <1>2, ReadInv DEF LoopRead, Objects
<1> QED
  BY <1>1, <1>2 DEF Poll

LEMMA StepInv == Inv /\ [Next]_vars => Inv'
<1> SUFFICES ASSUME Inv, [Next]_vars PROVE Inv'
  OBVIOUS
<1>1. CASE UNCHANGED vars
  BY <1>1, LoopInv DEF vars, Inv, ObjectTypes
<1>2. ASSUME NEW o \in Clients, NEW n \in 1 .. MaxRead, ClientRead(o, n) PROVE Inv'
  BY <1>2, ReadInv DEF ClientRead, Objects, Inv, ObjectTypes
<1>3. ASSUME NEW o \in Objects, NEW n \in 0 .. MaxWrite, Write(o, n) PROVE Inv'
  BY <1>3, WriteToInv DEF Write, Inv, ObjectTypes
<1>4. ASSUME NEW to \in Clients, NEW n \in 0 .. MaxWrite, WriteTo(Server, to, n) PROVE Inv'
  BY <1>4, WriteToInv DEF Objects, Addresses
<1> QED
  BY <1>1, <1>2, <1>3, <1>4, OpenInv, OpenServerInv, CloseInv, SwapInv, StrangerInv,
     DeliverInv, PollInv DEF Next

LEMMA Always == Spec => []Inv
BY InitInv, StepInv, PTL DEF Spec

(* The variables keep their types: no queue grows beyond its capacity, and  *)
(* no read() returns more than it was asked for.                            *)
THEOREM TypeCorrect == Spec => []TypeOK
<1>1. Inv => TypeOK
  BY DEF Inv, ObjectTypes, NetTypes, QueueTypes, GotTypes, TypeOK
<1> QED
  BY <1>1, Always, PTL

(* An open client writes to the host it was made for, through every move,   *)
(* read, close and reopening, whoever sends to it.                          *)
THEOREM AddressesAreKept == Spec => []TargetsKept
<1>1. Inv => TargetsKept
  BY DEF Inv
<1> QED
  BY <1>1, Always, PTL

(* A read() returns the front of one datagram that was sent to its socket,  *)
(* the whole of it if the buffer has room.                                  *)
THEOREM DatagramsStayWhole == Spec => []Whole
<1>1. Inv => Whole
  BY DEF Inv
<1> QED
  BY <1>1, Always, PTL
=============================================================================
