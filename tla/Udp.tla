--------------------------------- MODULE Udp ---------------------------------
(***************************************************************************)
(* UDP sockets of pfs::io: clients with the address they were made for, a  *)
(* server that reads in a loop, the network between them and strangers     *)
(* that use no library.  A datagram sent may be lost, delivered more than  *)
(* once and overtaken by a later one.                                      *)
(***************************************************************************)
EXTENDS SequencesExt, FiniteSets, Integers

CONSTANTS
  Clients,     \* udp_socket objects, and the sockets they may open
  Server,      \* the udp_server object and its socket
  Strangers,   \* senders and receivers outside of the program
  MaxDatagram, \* the longest datagram that sendto() takes
  MaxWrite,    \* the most bytes of one write() (a bound)
  MaxRead,     \* the most bytes of one read() (a bound)
  MaxSent,     \* the most datagrams sent (a bound)
  MaxFlight,   \* the most copies of datagrams on their way (a bound)
  QueueCap,    \* the datagrams that a socket's receive queue holds
  Modes        \* whether the server may be non-blocking (TRUE), blocking

ASSUME UdpAssumption ==
  /\ {MaxDatagram, MaxRead, QueueCap} \subseteq Nat \ {0}
  /\ {MaxWrite, MaxSent, MaxFlight} \subseteq Nat
  /\ Modes \subseteq BOOLEAN
  /\ Server \notin Clients
  /\ Strangers \cap (Clients \cup {Server}) = {}

VARIABLES
  nonblocking, \* the server's socket
  handle,      \* _h of each object: its socket, or NoSocket
  addr,        \* _addr of each object: the address remembered, or NoAddress
  home,        \* what each socket was opened for
  bound,       \* the sockets that have a port: datagrams can reach them
  sent,        \* all datagrams sent
  net,         \* those on their way, as <<datagram, copy>>
  queue,       \* the receive queue of each socket
  got,         \* the last read(): the socket, the bytes asked for and returned
  loop         \* where the server is in its `while (has_pending_data())'

netVars == <<sent, net>>
objectVars == <<handle, addr, home>>
vars == <<nonblocking, objectVars, bound, netVars, queue, got, loop>>

NoSocket  == "no socket"
NoAddress == "no address"  \* host_address{}, all zero

NotYet    == [at |-> NoSocket, asked |-> 0, data |-> <<>>]  \* no read() so far

Objects   == Clients \cup {Server}
Addresses == Objects \cup Strangers

Init ==
  /\ nonblocking \in Modes
  /\ handle = [o \in Objects |-> NoSocket]
  /\ addr   = [o \in Objects |-> NoAddress]
  /\ home   = [x \in Objects |-> NoAddress]
  /\ bound  = {} /\ sent = {} /\ net = {}
  /\ queue  = [x \in Objects |-> <<>>]
  /\ got    = NotYet
  /\ loop   = "out"

-----------------------------------------------------------------------------
(* The objects. *)

Free(x) == \A o \in Objects : handle[o] # x

(* make_udp_socket(): the object remembers the address of the host that it *)
(* was asked for, a server or a stranger.                                  *)
Open(o) ==
  /\ o \in Clients /\ handle[o] = NoSocket /\ \E x \in Clients : Free(x)
  /\ \E target \in Strangers \cup {Server} :
       LET x == CHOOSE x \in Clients : Free(x)
       IN /\ handle' = [handle EXCEPT ![o] = x]
          /\ addr' = [addr EXCEPT ![o] = target]
          /\ home' = [home EXCEPT ![x] = target]
  /\ UNCHANGED <<nonblocking, bound, netVars, queue, got, loop>>

(* make_udp_server(): bound to its port, with no address to write to. *)
OpenServer ==
  /\ handle[Server] = NoSocket
  /\ handle' = [handle EXCEPT ![Server] = Server]
  /\ bound' = bound \cup {Server}
  /\ UNCHANGED <<nonblocking, addr, home, netVars, queue, got, loop>>

(* close() or ~udp_socket(): what its queue holds is lost with the socket. *)
(* Also an object that was only closed has no use for its address.         *)
Close(o) ==
  /\ handle[o] # NoSocket /\ (o = Server => loop = "out")
  /\ handle' = [handle EXCEPT ![o] = NoSocket]
  /\ addr' = [addr EXCEPT ![o] = NoAddress]
  /\ home' = [home EXCEPT ![handle[o]] = NoAddress]
  /\ bound' = bound \ {handle[o]}
  /\ queue' = [queue EXCEPT ![handle[o]] = <<>>]
  /\ got' = IF got.at = handle[o] THEN NotYet ELSE got
  /\ UNCHANGED <<nonblocking, netVars, loop>>

Swap(o, p) ==
  /\ handle' = [handle EXCEPT ![o] = handle[p], ![p] = handle[o]]
  /\ addr' = [addr EXCEPT ![o] = addr[p], ![p] = addr[o]]
  /\ UNCHANGED <<nonblocking, home, bound, netVars, queue, got, loop>>

-----------------------------------------------------------------------------
(* Sending. *)

Shorter(m, n) == IF m < n THEN m ELSE n

(* The n bytes of the k-th datagram. *)
Payload(k, n) == [i \in 1 .. n |-> <<k, i>>]

(* The network takes a datagram and will deliver some copies, or none. *)
Emit(from, to, n) ==
  LET k == Cardinality(sent) + 1
      g == [from |-> from, to |-> to, data |-> Payload(k, n)]
  IN /\ k <= MaxSent
     /\ sent' = sent \cup {g}
     /\ \E copies \in 0 .. MaxFlight - Cardinality(net) :
          net' = net \cup {<<g, c>> : c \in 1 .. copies}

(* Mutant: `do ... while (n)'. *)
AlwaysSends(n) == TRUE

(* `while (n)': a write() of nothing sends nothing. *)
Sends(n) == n > 0

(* write_to(): the kernel takes all n bytes in one datagram or fails, so   *)
(* that one round of the loop is enough.  To the zero address it fails.    *)
WriteTo(o, to, n) ==
  /\ handle[o] # NoSocket /\ to # NoAddress
  /\ Sends(n) /\ n <= MaxDatagram
  /\ Emit(handle[o], to, n)
  /\ bound' = bound \cup {handle[o]}
  /\ UNCHANGED <<nonblocking, objectVars, queue, got, loop>>

Write(o, n) == WriteTo(o, addr[o], n)

(* Somebody else sends to a socket that has a port. *)
StrangerSends(from, to, n) ==
  /\ Emit(from, to, n)
  /\ UNCHANGED <<nonblocking, objectVars, bound, queue, got, loop>>

(* A copy arrives: at a socket with room, or nowhere. *)
Deliver(g, c) ==
  /\ net' = net \ {<<g, c>>}
  /\ IF g.to \in bound /\ Len(queue[g.to]) < QueueCap
     THEN queue' = [queue EXCEPT ![g.to] = Append(@, g)]
     ELSE UNCHANGED queue
  /\ UNCHANGED <<nonblocking, objectVars, bound, sent, got, loop>>

-----------------------------------------------------------------------------
(* Receiving. *)

(* Mutant: recvfrom() is given the size of the address. *)
StoresSender(old, from) == from

(* `socklen_t addrlen = 0': the sender's address is not stored. *)
Stored(old, from) == old

(* Mutant: what did not fit comes with the next read, as from a stream. *)
TakeAsStream(x, n) ==
  LET g == Head(queue[x])
      k == Shorter(n, Len(g.data))
  IN /\ got' = [at |-> x, asked |-> n, data |-> SubSeq(g.data, 1, k)]
     /\ queue' = [queue EXCEPT ![x] =
                    IF k = Len(g.data) THEN Tail(@)
                    ELSE <<[g EXCEPT !.data = SubSeq(@, k + 1, Len(@))]>> \o Tail(@)]

(* Mutant: the length of the datagram is taken for that of the buffer. *)
TakeAll(x, n) ==
  /\ got' = [at |-> x, asked |-> n, data |-> Head(queue[x]).data]
  /\ queue' = [queue EXCEPT ![x] = Tail(@)]

(* recvfrom() of n bytes: what does not fit is dropped. *)
Take(x, n) ==
  LET g == Head(queue[x])
  IN /\ got' = [at |-> x, asked |-> n,
                data |-> SubSeq(g.data, 1, Shorter(n, Len(g.data)))]
     /\ queue' = [queue EXCEPT ![x] = Tail(@)]

(* read() of an object when a datagram is there; without one it waits, or  *)
(* returns 0 and changes nothing.                                          *)
Read(o, n) ==
  /\ handle[o] # NoSocket /\ queue[handle[o]] # <<>>
  /\ Take(handle[o], n)
  /\ addr' = [addr EXCEPT ![o] = Stored(@, Head(queue[handle[o]]).from)]
  /\ UNCHANGED <<nonblocking, handle, home, bound, netVars>>

ClientRead(o, n) == o \in Clients /\ Read(o, n) /\ UNCHANGED loop

-----------------------------------------------------------------------------
(* The server's loop: while (has_pending_data()) read(...).                *)

LoopGoes(from, to) ==
  /\ loop = from /\ loop' = to
  /\ UNCHANGED <<nonblocking, objectVars, bound, netVars, queue, got>>

EnterLoop == handle[Server] # NoSocket /\ LoopGoes("out", "peek")

(* Mutant: the socket was made without SOCK_NONBLOCK. *)
PeekBlocks == queue[Server] = <<>>

(* recvfrom() with MSG_PEEK has nothing to return yet. *)
PeekWaits == queue[Server] = <<>> /\ ~nonblocking

(* has_pending_data(): false, too, while an empty datagram is first. *)
Peek ==
  /\ ~PeekWaits
  /\ IF queue[Server] # <<>> /\ Len(Head(queue[Server]).data) > 0
     THEN LoopGoes("peek", "read") ELSE LoopGoes("peek", "out")

LoopRead == loop = "read" /\ loop' = "peek" /\ \E n \in 1 .. MaxRead : Read(Server, n)

Poll == EnterLoop \/ Peek \/ LoopRead

Next ==
  \/ \E o \in Clients :
       \/ Open(o)
       \/ \E n \in 1 .. MaxRead : ClientRead(o, n)
       \/ \E p \in Clients \ {o} : Swap(o, p)
  \/ \E o \in Objects : Close(o) \/ \E n \in 0 .. MaxWrite : Write(o, n)
  \/ \E to \in Clients, n \in 0 .. MaxWrite : WriteTo(Server, to, n)
  \/ \E s \in Strangers, x \in bound, n \in 1 .. MaxWrite : StrangerSends(s, x, n)
  \/ \E m \in net : Deliver(m[1], m[2])
  \/ OpenServer \/ Poll

Spec == Init /\ [][Next]_vars

(* The server's thread runs, and enters its loop again when it has left it. *)
FairSpec == Spec /\ WF_vars(Poll)

-----------------------------------------------------------------------------
(* Properties. *)

Bytes == {<<k, i>> : k \in 1 .. MaxSent, i \in 1 .. MaxWrite}
Datagrams == [from : Addresses, to : Addresses, data : Seq(Bytes)]

(* The types of the variables; no read() returns more than it was asked.   *)
TypeOK ==
  /\ nonblocking \in BOOLEAN
  /\ handle \in [Objects -> Objects \cup {NoSocket}]
  /\ addr \in [Objects -> Addresses \cup {NoAddress}]
  /\ home \in [Objects -> Addresses \cup {NoAddress}]
  /\ bound \subseteq Objects
  /\ sent \subseteq Datagrams
  /\ net \subseteq sent \X (1 .. MaxFlight)
  /\ queue \in [Objects -> Seq(Datagrams)]
  /\ \A x \in Objects : Len(queue[x]) <= QueueCap
  /\ got \in [at : Objects \cup {NoSocket}, asked : 0 .. MaxRead, data : Seq(Bytes)]
  /\ Len(got.data) <= got.asked
  /\ loop \in {"out", "peek", "read"}

(* A read() returns the front of one datagram that was sent to its socket, *)
(* all of it unless the buffer is full: never a part of one and a part of  *)
(* another, whatever was lost, doubled, overtaken or cut before.           *)
Whole ==
  got.data # <<>> =>
    \E g \in sent :
      /\ g.to = got.at /\ IsPrefix(got.data, g.data)
      /\ Len(got.data) < got.asked => got.data = g.data

(* A client writes to the host it was made for, whoever's datagrams it has *)
(* read meanwhile and wherever its object was moved.                       *)
TargetsKept ==
  \A o \in Clients : handle[o] # NoSocket => addr[o] = home[handle[o]]

(* While every sender uses the library or sends something, the server's    *)
(* loop reads all that arrives: no datagram hides those behind it.         *)
QueuedIsRead == queue[Server] # <<>> ~> queue[Server] = <<>>

(* On a non-blocking socket the loop ends when the senders have stopped. *)
PollEnds == nonblocking /\ loop # "out" ~> loop = "out"

(* The loop of the test ends when the senders have stopped. *)
LoopEnds == loop # "out" ~> loop = "out"
=============================================================================
