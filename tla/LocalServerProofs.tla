------------------------- MODULE LocalServerProofs -------------------------
(***************************************************************************)
(* For any servers and clients: who owns the path, who is turned away, and *)
(* that nobody who is connected is lost: the servers are a rendezvous.     *)
(***************************************************************************)
EXTENDS LocalServer, SequenceFacts

OwnerTypes ==
  /\ path \in Servers \cup {"none", "stale"}
  /\ state     \in [Servers -> Phases]
  /\ disturbed \in [Servers -> BOOLEAN]

OwnerInv == OwnerTypes /\ UndisturbedServes

LEMMA Names == "none" \notin Servers /\ "stale" \notin Servers /\ "closed" \notin Clients
BY LocalServerAssumption

LEMMA OwnerInit == Init => OwnerInv
BY DEF Init, OwnerInv, OwnerTypes, UndisturbedServes, Phases

(* A server that takes something at the path disturbs every other that runs. *)
LEMMA DisturbsTheOthers ==
  ASSUME OwnerTypes, NEW s \in Servers, Disturb(s)
  PROVE  /\ disturbed' \in [Servers -> BOOLEAN]
         /\ disturbed'[s] = disturbed[s]
         /\ \A d \in Servers : ~disturbed'[d] => ~disturbed[d]
         /\ \A d \in Servers \ {s} : ~disturbed'[d] => state[d] = "down"
BY DEF Disturb, OwnerTypes

LEMMA CreateSocketOwner ==
  ASSUME OwnerInv, NEW s \in Servers, CreateSocket(s) PROVE OwnerInv'
BY DEF CreateSocket, Goto, OwnerInv, OwnerTypes, UndisturbedServes, Phases

LEMMA UnlinkOwner ==
  ASSUME OwnerInv, "unlink" \notin Faults, NEW s \in Servers, Unlink(s) PROVE OwnerInv'
<1>1. path' = "none" /\ Disturb(s) /\ state' = [state EXCEPT ![s] = "unlinked"]
  BY DEF Unlink, Goto
<1>2. OwnerTypes'
  BY <1>1, DisturbsTheOthers DEF OwnerInv, OwnerTypes, Phases
<1>3. ASSUME NEW d \in Servers, ~disturbed'[d], d # s PROVE state'[d] = "down"
  BY <1>1, <1>3, DisturbsTheOthers DEF OwnerInv, OwnerTypes
<1>4. state'[s] = "unlinked"
  BY <1>1 DEF OwnerInv, OwnerTypes
<1>5. UndisturbedServes'
  BY <1>1, <1>3, <1>4 DEF UndisturbedServes
<1> QED
  BY <1>2, <1>5 DEF OwnerInv

LEMMA BindOwner ==
  ASSUME OwnerInv, NEW s \in Servers, Bind(s) PROVE OwnerInv'
<1>1. CASE path' = s /\ Disturb(s) /\ Goto(s, "bound")
  <2>1. OwnerTypes'
    BY <1>1, DisturbsTheOthers DEF OwnerInv, OwnerTypes, Phases, Goto
  <2>2. ASSUME NEW d \in Servers, ~disturbed'[d], d # s PROVE state'[d] = "down"
    BY <1>1, <2>2, DisturbsTheOthers DEF OwnerInv, OwnerTypes, Goto
  <2>3. state'[s] = "bound"
    BY <1>1 DEF OwnerInv, OwnerTypes, Goto
  <2>4. UndisturbedServes'
    BY <1>1, <2>2, <2>3 DEF UndisturbedServes
  <2> QED
    BY <2>1, <2>4 DEF OwnerInv
<1>2. CASE GiveUp(s) /\ UNCHANGED <<path, disturbed>>
  BY <1>2 DEF GiveUp, Goto, OwnerInv, OwnerTypes, UndisturbedServes, Phases
<1> QED
  BY <1>1, <1>2 DEF Bind

LEMMA ListenOwner ==
  ASSUME OwnerInv, NEW s \in Servers, Listen(s) PROVE OwnerInv'
<1>1. CASE Goto(s, "listening") /\ UNCHANGED path
  BY <1>1 DEF Listen, Goto, OwnerInv, OwnerTypes, UndisturbedServes, Phases
<1>2. CASE GiveUp(s) /\ path' = PathWithout(s)
  BY <1>2, Names DEF Listen, GiveUp, Goto, PathWithout, OwnerInv, OwnerTypes,
                     UndisturbedServes, Phases
<1> QED
  BY <1>1, <1>2 DEF Listen

LEMMA VanishOwner ==
  ASSUME OwnerInv, NEW s \in Servers, NEW lost, Vanish(s, lost),
         path' = PathWithout(s), UNCHANGED disturbed
  PROVE  OwnerInv'
BY Names DEF Vanish, Goto, PathWithout, OwnerInv, OwnerTypes, UndisturbedServes, Phases

LEMMA SameOwner ==
  ASSUME OwnerInv, UNCHANGED <<path, state, disturbed>> PROVE OwnerInv'
BY DEF OwnerInv, OwnerTypes, UndisturbedServes

LEMMA OwnerStep ==
  ASSUME OwnerInv, "unlink" \notin Faults, [Next]_vars PROVE OwnerInv'
<1>1. CASE UNCHANGED vars
  BY <1>1, SameOwner DEF vars
<1>2. ASSUME NEW c \in Clients, Connect(c) \/ Wake(c) \/ HangUp(c) PROVE OwnerInv'
  BY <1>2, SameOwner DEF Connect, Wake, Resolve, HangUp
<1>3. ASSUME NEW s \in Servers, Accept(s) \/ AcceptFails(s) PROVE OwnerInv'
  BY <1>3, SameOwner DEF Accept, AcceptFails
<1>4. ASSUME NEW s \in Servers, Close(s) \/ Crash(s) PROVE OwnerInv'
  BY <1>4, VanishOwner DEF Close, Crash
<1>5. ASSUME NEW s \in Servers, CreateSocket(s) \/ Unlink(s) \/ Bind(s) \/ Listen(s)
      PROVE OwnerInv'
  BY <1>5, CreateSocketOwner, UnlinkOwner, BindOwner, ListenOwner
<1> QED
  BY <1>1, <1>2, <1>3, <1>4, <1>5 DEF Next

LEMMA OwnerAlways == ASSUME "unlink" \notin Faults PROVE Spec => []OwnerInv
<1>1. OwnerInv /\ [Next]_vars => OwnerInv'
  BY OwnerStep
<1> QED
  BY <1>1, OwnerInit, PTL DEF Spec

(* While unlink() works, a server that starts alone finds the path free and  *)
(* keeps it until another takes it, however many servers there are, whatever *)
(* else fails and whoever crashes.                                           *)
THEOREM UndisturbedOwner ==
  ASSUME "unlink" \notin Faults PROVE Spec => []UndisturbedServes
<1>1. OwnerInv => UndisturbedServes
  BY DEF OwnerInv
<1> QED
  BY <1>1, OwnerAlways, PTL

-----------------------------------------------------------------------------
(* The types. *)

Queue == Seq(Clients \cup {"closed"})

LEMMA QueueLength == ASSUME NEW q \in Queue PROVE Len(q) \in Nat
BY LenProperties DEF Queue

LEMMA TypesInit == Init => TypeOK
<1> SUFFICES ASSUME Init PROVE TypeOK
  OBVIOUS
<1>1. <<>> \in Seq(Clients \cup {"closed"}) /\ Len(<<>>) = 0 /\ 0 <= Backlog + 1
  BY EmptySeq, LocalServerAssumption
<1>2. \A s \in Servers : pending[s] = <<>>
  BY DEF Init
<1> QED
  BY <1>1, <1>2 DEF Init, TypeOK, Phases, Fates, Nowhere

(* What a step may do to the backlogs. *)
LEMMA Emptied ==
  ASSUME TypeOK, NEW s \in Servers, pending' = [pending EXCEPT ![s] = <<>>]
  PROVE  /\ pending' \in [Servers -> Queue]
         /\ \A d \in Servers : Len(pending'[d]) <= Backlog + 1
<1>1. <<>> \in Queue /\ Len(<<>>) = 0 /\ 0 <= Backlog + 1
  BY EmptySeq, LocalServerAssumption DEF Queue
<1>2. \A d \in Servers : pending'[d] = IF d = s THEN <<>> ELSE pending[d]
  BY DEF TypeOK
<1> QED
  BY <1>1, <1>2 DEF TypeOK, Queue

LEMMA Shortened ==
  ASSUME TypeOK, NEW s \in Servers, pending[s] # <<>>,
         pending' = [pending EXCEPT ![s] = Tail(@)]
  PROVE  /\ pending' \in [Servers -> Queue]
         /\ \A d \in Servers : Len(pending'[d]) <= Backlog + 1
<1>1. pending[s] \in Queue /\ Len(pending[s]) <= Backlog + 1 /\ Backlog \in Nat
  BY LocalServerAssumption DEF TypeOK, Queue
<1>2. Tail(pending[s]) \in Queue /\ Len(Tail(pending[s])) = Len(pending[s]) - 1
  BY <1>1, HeadTailProperties DEF Queue
<1>3. Len(pending[s]) \in Nat
  BY <1>1, QueueLength
<1>4. Len(Tail(pending[s])) <= Backlog + 1
  BY <1>1, <1>2, <1>3
<1>5. \A d \in Servers : pending'[d] = IF d = s THEN Tail(pending[s]) ELSE pending[d]
  BY DEF TypeOK
<1> QED
  BY <1>2, <1>4, <1>5 DEF TypeOK, Queue

LEMMA Lengthened ==
  ASSUME TypeOK, NEW s \in Servers, NEW c \in Clients, ~Full(s),
         pending' = [pending EXCEPT ![s] = Append(@, c)]
  PROVE  /\ pending' \in [Servers -> Queue]
         /\ \A d \in Servers : Len(pending'[d]) <= Backlog + 1
<1>1. pending[s] \in Queue /\ Len(pending[s]) \in Nat /\ Backlog \in Nat
  BY LocalServerAssumption, QueueLength DEF TypeOK, Queue
<1>2. /\ Append(pending[s], c) \in Queue
      /\ Len(Append(pending[s], c)) = Len(pending[s]) + 1
  BY <1>1, AppendProperties DEF Queue
<1>3. Len(Append(pending[s], c)) <= Backlog + 1
  BY <1>1, <1>2 DEF Full
<1>4. \A d \in Servers : pending'[d] = IF d = s THEN Append(pending[s], c) ELSE pending[d]
  BY DEF TypeOK
<1> QED
  BY <1>2, <1>3, <1>4 DEF TypeOK, Queue

LEMMA Marked ==
  ASSUME TypeOK, NEW c \in Clients,
         pending' = [s \in Servers |->
                       [i \in DOMAIN pending[s] |->
                          IF pending[s][i] = c THEN "closed" ELSE pending[s][i]]]
  PROVE  /\ pending' \in [Servers -> Queue]
         /\ \A d \in Servers : Len(pending'[d]) <= Backlog + 1
<1> SUFFICES ASSUME NEW d \in Servers
             PROVE  pending'[d] \in Queue /\ Len(pending'[d]) <= Backlog + 1
  OBVIOUS
<1> DEFINE q == pending[d]
           r == [i \in DOMAIN q |-> IF q[i] = c THEN "closed" ELSE q[i]]
<1>1. q \in Queue /\ Len(q) <= Backlog + 1
  BY DEF TypeOK, Queue
<1>2. Len(q) \in Nat /\ DOMAIN q = 1 .. Len(q) /\ \A i \in 1 .. Len(q) : q[i] \in Clients \cup {"closed"}
  BY <1>1, LenProperties, ElementOfSeq DEF Queue
<1>3. pending'[d] = r
  OBVIOUS
<1> HIDE DEF q
<1>4. r \in [1 .. Len(q) -> Clients \cup {"closed"}]
  BY <1>2
<1> HIDE DEF r
<1>5. r \in Queue /\ Len(r) = Len(q)
  BY <1>2, <1>4, SeqDef, LenProperties DEF Queue
<1> QED
  BY <1>1, <1>3, <1>5

LEMMA ServerTypes ==
  ASSUME TypeOK, NEW s \in Servers,
         CreateSocket(s) \/ Unlink(s) \/ Bind(s) \/ Listen(s) \/ AcceptFails(s)
  PROVE  TypeOK'
<1>1. UNCHANGED <<pending, conn, on>>
  BY DEF CreateSocket, Unlink, Bind, Listen, AcceptFails
<1>2. /\ path' \in Servers \cup {"none", "stale"}
      /\ state' \in [Servers -> Phases]
      /\ disturbed' \in [Servers -> BOOLEAN]
  BY DEF CreateSocket, Unlink, Bind, Listen, AcceptFails, Goto, GiveUp, Disturb,
         PathWithout, TypeOK, Phases
<1>3. err' \in [Servers -> BOOLEAN]
  <2>1. OldError(s) \in BOOLEAN
    BY DEF OldError, TypeOK
  <2> QED
    BY <2>1 DEF CreateSocket, Unlink, Bind, Listen, AcceptFails, GiveUp, TypeOK
<1> QED
  BY <1>1, <1>2, <1>3 DEF TypeOK

LEMMA AcceptTypes == ASSUME TypeOK, NEW s \in Servers, Accept(s) PROVE TypeOK'
<1>1. OldError(s) \in BOOLEAN /\ PeerOf(s) \in Fates
  BY DEF OldError, PeerOf, TypeOK, Fates
<1>2. conn' \in [Clients -> Fates] /\ err' \in [Servers -> BOOLEAN]
  BY <1>1 DEF Accept, TypeOK
<1> QED
  BY <1>2, Shortened DEF Accept, TypeOK, Queue

LEMMA VanishTypes ==
  ASSUME TypeOK, NEW s \in Servers, NEW lost, Vanish(s, lost), path' = PathWithout(s),
         err' = err \/ err' = [err EXCEPT ![s] = FALSE], UNCHANGED <<on, disturbed>>
  PROVE  TypeOK'
<1>1. conn' \in [Clients -> Fates] /\ state' \in [Servers -> Phases]
  BY DEF Vanish, Goto, TypeOK, Fates, Phases
<1>2. path' \in Servers \cup {"none", "stale"} /\ err' \in [Servers -> BOOLEAN]
  BY DEF PathWithout, TypeOK
<1> QED
  BY <1>1, <1>2, Emptied DEF Vanish, TypeOK, Queue

LEMMA ResolveTypes == ASSUME TypeOK, NEW c \in Clients, Resolve(c) PROVE TypeOK'
<1>1. ASSUME NEW fate \in Fates, NEW s \in Servers \cup {Nowhere}, Settle(c, fate, s)
      PROVE  conn' \in [Clients -> Fates] /\ on' \in [Clients -> Servers \cup {Nowhere}]
  BY <1>1 DEF Settle, TypeOK
<1>2. conn' \in [Clients -> Fates] /\ on' \in [Clients -> Servers \cup {Nowhere}]
  BY <1>1 DEF Resolve, Fates
<1>3. CASE UNCHANGED pending
  BY <1>2, <1>3 DEF Resolve, TypeOK
<1>4. CASE \E s \in Servers : ~Full(s) /\ pending' = [pending EXCEPT ![s] = Append(@, c)]
  BY <1>2, <1>4, Lengthened DEF Resolve, TypeOK, Queue
<1> QED
  BY <1>3, <1>4 DEF Resolve

LEMMA HangUpTypes == ASSUME TypeOK, NEW c \in Clients, HangUp(c) PROVE TypeOK'
<1>1. conn' \in [Clients -> Fates] /\ on' \in [Clients -> Servers \cup {Nowhere}]
  BY DEF HangUp, Settle, TypeOK, Fates
<1> QED
  BY <1>1, Marked DEF HangUp, TypeOK, Queue

LEMMA TypesStep == TypeOK /\ [Next]_vars => TypeOK'
<1> SUFFICES ASSUME TypeOK, [Next]_vars PROVE TypeOK'
  OBVIOUS
<1>1. CASE UNCHANGED vars
  BY <1>1 DEF vars, TypeOK
<1>2. ASSUME NEW s \in Servers, Close(s) \/ Crash(s) PROVE TypeOK'
  BY <1>2, VanishTypes DEF Close, Crash
<1>3. ASSUME NEW c \in Clients, Connect(c) \/ Wake(c) PROVE TypeOK'
  BY <1>3, ResolveTypes DEF Connect, Wake
<1> QED
  BY <1>1, <1>2, <1>3, ServerTypes, AcceptTypes, HangUpTypes DEF Next

(* The variables keep their types: no backlog holds more than one client    *)
(* above what listen() was told.                                            *)
THEOREM TypeCorrect == Spec => []TypeOK
BY TypesInit, TypesStep, PTL DEF Spec

-----------------------------------------------------------------------------
(* Clients that are turned away. *)

Refused ==
  \A c \in Clients : conn'[c] = "refused" /\ conn[c] # "refused" =>
    \A s \in Servers : state[s] = "listening" /\ ~disturbed[s] =>
      c \in NonBlocking /\ Full(s)

LEMMA ResolveRefuses ==
  ASSUME TypeOK, UndisturbedServes, NEW c \in Clients, Resolve(c) PROVE Refused
<1> SUFFICES ASSUME NEW b \in Clients, conn'[b] = "refused", conn[b] # "refused",
                    NEW s \in Servers, state[s] = "listening", ~disturbed[s]
             PROVE  b \in NonBlocking /\ Full(s)
  BY DEF Refused
<1>1. Reachable(s)
  BY DEF Reachable, UndisturbedServes
<1>2. ASSUME NEW fate, NEW x, Settle(c, fate, x) PROVE b = c /\ fate = "refused"
  BY <1>2 DEF Settle, TypeOK
<1>3. PICK d \in Servers : Reachable(d) /\ Full(d) /\ c \in NonBlocking
  BY <1>1, <1>2 DEF Resolve
<1>4. d = s /\ b = c
  BY <1>1, <1>2, <1>3 DEF Reachable, Resolve
<1> QED
  BY <1>3, <1>4

LEMMA OthersRefuseNobody ==
  ASSUME TypeOK, [Next]_vars, ~\E c \in Clients : Resolve(c) PROVE Refused
<1> SUFFICES ASSUME NEW b \in Clients, conn'[b] # conn[b] PROVE conn'[b] # "refused"
  BY DEF Refused
<1>1. ASSUME NEW s \in Servers, Accept(s) PROVE conn'[b] # "refused"
  BY <1>1 DEF Accept, PeerOf
<1>2. ASSUME NEW s \in Servers, Close(s) \/ Crash(s) PROVE conn'[b] # "refused"
  BY <1>2 DEF Close, Crash, Vanish
<1>3. ASSUME NEW c \in Clients, HangUp(c) PROVE conn'[b] # "refused"
  BY <1>3 DEF HangUp, Settle, TypeOK
<1>4. ASSUME NEW s \in Servers,
             CreateSocket(s) \/ Unlink(s) \/ Bind(s) \/ Listen(s) \/ AcceptFails(s)
      PROVE  FALSE
  BY <1>4 DEF CreateSocket, Unlink, Bind, Listen, AcceptFails
<1> QED
  BY <1>1, <1>2, <1>3, <1>4 DEF Next, Connect, Wake, vars

(* While unlink() works, make_local_socket() refuses a client only if every *)
(* server is down, starting or robbed of the path, or if it does not wait   *)
(* and the backlog is full: for any servers, clients and backlog.           *)
THEOREM TurnedAwayForAReason ==
  ASSUME "unlink" \notin Faults PROVE Spec => TurnedAwayRightly
<1>1. TypeOK /\ OwnerInv /\ [Next]_vars => [Refused]_vars
  BY ResolveRefuses, OthersRefuseNobody DEF OwnerInv
<1>2. Spec => [][Refused]_vars
  BY <1>1, TypeCorrect, OwnerAlways, PTL DEF Spec
<1> QED
  BY <1>2 DEF Refused, TurnedAwayRightly

-----------------------------------------------------------------------------
(* The rendezvous. *)

(* Who is in a backlog is connected to its server, and there once; who is    *)
(* connected is connected to a server that listens.                          *)
Queued ==
  \A s \in Servers : \A i \in 1 .. Len(pending[s]) : pending[s][i] \in Clients =>
    /\ conn[pending[s][i]] = "connected" /\ on[pending[s][i]] = s
    /\ \A j \in 1 .. Len(pending[s]) : pending[s][j] = pending[s][i] => j = i

Placed ==
  \A c \in Clients :
    /\ conn[c] # "dropped"
    /\ conn[c] = "connected" => on[c] \in Servers /\ state[on[c]] = "listening"
    /\ conn[c] \in {"idle", "refused"} => on[c] = Nowhere

JoinInv == TypeOK /\ Queued /\ Placed

MapVars == <<Up, Request, Joined>>

LEMMA Requests ==
  /\ \A fate \in {"idle", "refused", "waiting"} : AsRequest(fate) = "out"
  /\ AsRequest("connected") = "joined" /\ AsRequest("served") = "served"
  /\ AsRequest("dropped") = "dropped" /\ AsRequest("reset") = "cut"
BY DEF AsRequest

LEMMA JoinInit == Init => JoinInv /\ Served!RendezvousInit
<1> SUFFICES ASSUME Init PROVE JoinInv /\ Served!RendezvousInit
  OBVIOUS
<1>1. TypeOK
  BY TypesInit
<1>2. Queued
  <2>1. \A s \in Servers : Len(pending[s]) = 0
    BY EmptySeq DEF Init
  <2> QED
    BY <2>1 DEF Queued
<1>3. Placed
  BY DEF Init, Placed
<1>4. Served!RendezvousInit
  BY Requests DEF Init, Served!RendezvousInit, Up, Request, Joined, Nowhere
<1> QED
  BY <1>1, <1>2, <1>3, <1>4 DEF JoinInv

-----------------------------------------------------------------------------
(* Starting, and failing to accept: the clients do not move. *)

LEMMA ServerJoins ==
  ASSUME JoinInv, NEW s \in Servers,
         CreateSocket(s) \/ Unlink(s) \/ Bind(s) \/ Listen(s) \/ AcceptFails(s)
  PROVE  JoinInv' /\ (Served!RendezvousNext \/ UNCHANGED MapVars)
<1>1. TypeOK'
  BY ServerTypes DEF JoinInv
<1>2. UNCHANGED <<pending, conn, on>>
  BY DEF CreateSocket, Unlink, Bind, Listen, AcceptFails
<1>3. Queued'
  BY <1>2 DEF JoinInv, Queued
<1>4. \A d \in Servers : state[d] = "listening" => state'[d] = "listening"
  BY DEF CreateSocket, Unlink, Bind, Listen, AcceptFails, Goto, GiveUp, JoinInv, TypeOK
<1>5. Placed'
  BY <1>2, <1>4 DEF JoinInv, Placed
<1>6. UNCHANGED <<Request, Joined>>
  BY <1>2 DEF Request, Joined
<1>7. Up' = Up \/ Up' = Up \cup {s}
  BY DEF CreateSocket, Unlink, Bind, Listen, AcceptFails, Goto, GiveUp, JoinInv, TypeOK, Up
<1>8. Served!RendezvousNext \/ UNCHANGED MapVars
  BY <1>6, <1>7 DEF MapVars, Served!RendezvousNext, Served!Start
<1> QED
  BY <1>1, <1>3, <1>5, <1>8 DEF JoinInv

-----------------------------------------------------------------------------
(* Accepting. *)

LEMMA QueueMember ==
  ASSUME TypeOK, NEW s \in Servers
  PROVE  /\ Len(pending[s]) \in Nat
         /\ \A i \in 1 .. Len(pending[s]) : pending[s][i] \in Clients \cup {"closed"}
BY LenProperties, ElementOfSeq DEF TypeOK

LEMMA AcceptJoins ==
  ASSUME JoinInv, CallerClears = TRUE, NEW s \in Servers, Accept(s)
  PROVE  JoinInv' /\ (Served!RendezvousNext \/ UNCHANGED MapVars)
<1> DEFINE c == Head(pending[s])
<1>1. TypeOK'
  BY AcceptTypes DEF JoinInv
<1>2. /\ pending[s] \in Seq(Clients \cup {"closed"}) /\ pending[s] # <<>>
      /\ pending' = [pending EXCEPT ![s] = Tail(@)]
      /\ state[s] = "listening" /\ UNCHANGED <<state, on>>
      /\ PeerOf(s) = "served"
      /\ conn' = [b \in Clients |-> IF b = c THEN PeerOf(s) ELSE conn[b]]
  BY DEF Accept, PeerOf, OldError, JoinInv, TypeOK
<1>3. c = pending[s][1] /\ 1 \in 1 .. Len(pending[s])
  <2>1. Len(pending[s]) \in Nat /\ Len(pending[s]) # 0
    BY <1>2, LenProperties, EmptySeq
  <2> QED
    BY <1>2, <2>1, HeadTailProperties
<1>4. /\ Len(Tail(pending[s])) = Len(pending[s]) - 1
      /\ \A i \in 1 .. Len(pending[s]) - 1 : Tail(pending[s])[i] = pending[s][i + 1]
      /\ Len(pending[s]) \in Nat
  BY <1>2, HeadTailProperties, LenProperties
<1>5. /\ pending'[s] = Tail(pending[s])
      /\ \A d \in Servers \ {s} : pending'[d] = pending[d]
  BY <1>2 DEF JoinInv, TypeOK
<1>6. c \in Clients => conn[c] = "connected" /\ on[c] = s
  BY <1>3 DEF JoinInv, Queued
<1> HIDE DEF c
<1>7. Queued'
  <2> SUFFICES ASSUME NEW d \in Servers, NEW i \in 1 .. Len(pending'[d]), pending'[d][i] \in Clients
               PROVE  /\ conn'[pending'[d][i]] = "connected" /\ on'[pending'[d][i]] = d
                      /\ \A j \in 1 .. Len(pending'[d]) : pending'[d][j] = pending'[d][i] => j = i
    BY DEF Queued
  <2>1. CASE d = s
    <3>1. Len(pending'[s]) = Len(pending[s]) - 1
      BY <1>4, <1>5
    <3>2. \A j \in 1 .. Len(pending[s]) - 1 : /\ pending'[s][j] = pending[s][j + 1]
                                              /\ j + 1 \in 1 .. Len(pending[s])
                                              /\ j \in Nat /\ j + 1 # 1
      BY <1>4, <1>5
    <3>3. i \in 1 .. Len(pending[s]) - 1 /\ pending'[s][i] \in Clients
      BY <2>1, <3>1
    <3>4. /\ conn[pending'[s][i]] = "connected" /\ on[pending'[s][i]] = s
          /\ pending'[s][i] # c
      BY <1>3, <3>2, <3>3 DEF JoinInv, Queued
    <3>5. ASSUME NEW j \in 1 .. Len(pending[s]) - 1, pending'[s][j] = pending'[s][i]
          PROVE  j = i
      <4>1. /\ pending[s][i + 1] \in Clients /\ pending[s][j + 1] = pending[s][i + 1]
            /\ i + 1 \in 1 .. Len(pending[s]) /\ j + 1 \in 1 .. Len(pending[s])
        BY <3>2, <3>3, <3>5
      <4>2. \A m, n \in 1 .. Len(pending[s]) :
              pending[s][n] \in Clients /\ pending[s][m] = pending[s][n] => m = n
        BY DEF JoinInv, Queued
      <4>3. j + 1 = i + 1
        BY <4>1, <4>2
      <4> QED
        BY <3>2, <3>3, <4>3
    <3>6. conn'[pending'[s][i]] = "connected" /\ on'[pending'[s][i]] = s
      BY <1>2, <3>3, <3>4
    <3> QED
      BY <2>1, <3>1, <3>5, <3>6
  <2>2. CASE d # s
    <3>1. /\ conn[pending'[d][i]] = "connected" /\ on[pending'[d][i]] = d
          /\ \A j \in 1 .. Len(pending'[d]) : pending'[d][j] = pending'[d][i] => j = i
      BY <1>5, <2>2 DEF JoinInv, Queued
    <3>2. pending'[d][i] # c
      BY <1>6, <2>2, <3>1
    <3> QED
      BY <1>2, <3>1, <3>2
  <2> QED
    BY <2>1, <2>2
<1>8. Placed'
  BY <1>2 DEF JoinInv, Placed
<1>9. Up' = Up /\ Joined' = Joined
  BY <1>2, <1>6 DEF Up, Joined
<1>10. CASE c \in Clients
  <2>1. Request[c] = "joined" /\ Joined[c] \in Up
    BY <1>2, <1>6, <1>10, Requests DEF Request, Joined, Up
  <2>2. Request' = [Request EXCEPT ![c] = "served"]
    BY <1>2, <1>10, Requests DEF Request
  <2>3. Served!Serve(c)
    BY <1>9, <2>1, <2>2 DEF Served!Serve
  <2> QED
    BY <1>1, <1>7, <1>8, <1>10, <2>3 DEF JoinInv, Served!RendezvousNext
<1>11. CASE c \notin Clients
  <2>1. Request' = Request
    BY <1>2, <1>11 DEF Request
  <2> QED
    BY <1>1, <1>7, <1>8, <1>9, <2>1 DEF JoinInv, MapVars
<1> QED
  BY <1>10, <1>11

-----------------------------------------------------------------------------
(* Stopping. *)

LEMMA VanishJoins ==
  ASSUME JoinInv, TypeOK', NEW s \in Servers, NEW lost, Vanish(s, lost), UNCHANGED on,
         lost = {"connected"} \/ lost = {"connected", "served", "dropped"}
  PROVE  JoinInv' /\ Served!RendezvousNext
<1>1. /\ pending' = [pending EXCEPT ![s] = <<>>]
      /\ conn' = [c \in Clients |-> IF on[c] = s /\ conn[c] \in lost
                                    THEN "reset" ELSE conn[c]]
      /\ state' = [state EXCEPT ![s] = "down"]
  BY DEF Vanish, Goto
<1>2. /\ Len(pending'[s]) = 0
      /\ \A d \in Servers \ {s} : pending'[d] = pending[d]
  BY <1>1, EmptySeq DEF JoinInv, TypeOK
<1>3. /\ state'[s] = "down"
      /\ \A d \in Servers \ {s} : state'[d] = state[d]
  BY <1>1 DEF JoinInv, TypeOK
<1>4. Queued'
  <2> SUFFICES ASSUME NEW d \in Servers, NEW i \in 1 .. Len(pending'[d]), pending'[d][i] \in Clients
               PROVE  /\ conn'[pending'[d][i]] = "connected" /\ on[pending'[d][i]] = d
                      /\ \A j \in 1 .. Len(pending'[d]) : pending'[d][j] = pending'[d][i] => j = i
    BY DEF Queued
  <2>1. d # s
    BY <1>2
  <2>2. /\ conn[pending'[d][i]] = "connected" /\ on[pending'[d][i]] = d
        /\ \A j \in 1 .. Len(pending'[d]) : pending'[d][j] = pending'[d][i] => j = i
    BY <1>2, <2>1 DEF JoinInv, Queued
  <2> QED
    BY <1>1, <2>1, <2>2
<1>5. Placed'
  BY <1>1, <1>3 DEF JoinInv, Placed
<1>6. Up' = Up \ {s}
  BY <1>3 DEF Up
<1>7. Joined' = Joined
  BY <1>1 DEF Joined
<1>8. PICK cut \in {{"joined"}, {"joined", "served"}} :
        \A fate \in Fates \ {"dropped"} : fate \in lost <=> AsRequest(fate) \in cut
  <2>1. CASE lost = {"connected"}
    BY <2>1, Requests DEF Fates
  <2>2. CASE lost = {"connected", "served", "dropped"}
    BY <2>2, Requests DEF Fates
  <2> QED
    BY <2>1, <2>2
<1>9. ASSUME NEW c \in Clients
      PROVE  Request'[c] = IF Joined[c] = s /\ Request[c] \in cut THEN "cut" ELSE Request[c]
  <2>1. conn[c] \in Fates \ {"dropped"}
    BY DEF JoinInv, Placed, TypeOK
  <2>2. Request[c] = AsRequest(conn[c]) /\ Request'[c] = AsRequest(conn'[c])
    BY DEF Request
  <2>3. conn[c] \in lost <=> Request[c] \in cut
    BY <1>8, <2>1, <2>2
  <2>4. conn[c] \in lost => Joined[c] = on[c]
    BY DEF Joined
  <2> QED
    BY <1>1, <2>2, <2>3, <2>4, Requests
<1>10. Request' = [c \in Clients |-> IF Joined[c] = s /\ Request[c] \in cut THEN "cut" ELSE Request[c]]
  BY <1>9 DEF Request
<1>11. Served!Stop(s)
  BY <1>6, <1>7, <1>8, <1>10 DEF Served!Stop
<1> QED
  BY <1>4, <1>5, <1>11 DEF JoinInv, Served!RendezvousNext

-----------------------------------------------------------------------------
(* Connecting and hanging up. *)

LEMMA ResolveJoins ==
  ASSUME JoinInv, NEW c \in Clients, conn[c] \in {"idle", "refused", "waiting"}, Resolve(c)
  PROVE  JoinInv' /\ (Served!RendezvousNext \/ UNCHANGED MapVars)
<1>1. TypeOK'
  BY ResolveTypes DEF JoinInv
<1>2. UNCHANGED state /\ Up' = Up
  BY DEF Resolve, Up
<1>3. Request[c] = "out" /\ Joined[c] = Nowhere
  BY Requests DEF JoinInv, Placed, Request, Joined
<1>4. ASSUME NEW s \in Servers, NEW i \in 1 .. Len(pending[s])
      PROVE  pending[s][i] # c
  BY DEF JoinInv, Queued
<1>5. ASSUME NEW fate \in {"refused", "waiting"}, NEW s \in Servers \cup {Nowhere},
             Settle(c, fate, s), fate = "refused" => s = Nowhere, UNCHANGED pending
      PROVE  JoinInv' /\ UNCHANGED MapVars
  <2>1. conn' = [conn EXCEPT ![c] = fate] /\ on' = [on EXCEPT ![c] = s]
    BY <1>5 DEF Settle
  <2>2. \A b \in Clients \ {c} : conn'[b] = conn[b] /\ on'[b] = on[b]
    BY <2>1 DEF JoinInv, TypeOK
  <2>3. conn'[c] = fate /\ on'[c] = s
    BY <2>1 DEF JoinInv, TypeOK
  <2>4. Queued'
    BY <1>4, <1>5, <2>2 DEF JoinInv, Queued
  <2>5. Placed'
    BY <1>2, <1>5, <2>2, <2>3 DEF JoinInv, Placed
  <2>6. \A b \in Clients : Request'[b] = Request[b] /\ Joined'[b] = Joined[b]
    BY <1>3, <1>5, <2>2, <2>3, Requests DEF Request, Joined
  <2>7. Request' = Request /\ Joined' = Joined
    BY <2>6 DEF Request, Joined
  <2> QED
    BY <1>1, <1>2, <2>4, <2>5, <2>7 DEF JoinInv, MapVars
<1>6. ASSUME NEW s \in Servers, Reachable(s), Settle(c, "connected", s),
             pending' = [pending EXCEPT ![s] = Append(@, c)]
      PROVE  JoinInv' /\ Served!RendezvousNext
  <2>1. conn' = [conn EXCEPT ![c] = "connected"] /\ on' = [on EXCEPT ![c] = s]
    BY <1>6 DEF Settle
  <2>2. \A b \in Clients \ {c} : conn'[b] = conn[b] /\ on'[b] = on[b]
    BY <2>1 DEF JoinInv, TypeOK
  <2>3. conn'[c] = "connected" /\ on'[c] = s /\ state[s] = "listening"
    BY <1>6, <2>1 DEF JoinInv, TypeOK, Reachable
  <2>4. pending[s] \in Seq(Clients \cup {"closed"}) /\ Len(pending[s]) \in Nat
    BY QueueMember DEF JoinInv, TypeOK
  <2>5. /\ Len(pending'[s]) = Len(pending[s]) + 1
        /\ pending'[s][Len(pending[s]) + 1] = c
        /\ \A i \in 1 .. Len(pending[s]) : pending'[s][i] = pending[s][i]
    BY <1>6, <2>4, AppendProperties DEF JoinInv, TypeOK
  <2>6. \A d \in Servers \ {s} : pending'[d] = pending[d]
    BY <1>6 DEF JoinInv, TypeOK
  <2>7. Queued'
    <3> SUFFICES ASSUME NEW d \in Servers, NEW i \in 1 .. Len(pending'[d]), pending'[d][i] \in Clients
                 PROVE  /\ conn'[pending'[d][i]] = "connected" /\ on'[pending'[d][i]] = d
                        /\ \A j \in 1 .. Len(pending'[d]) : pending'[d][j] = pending'[d][i] => j = i
      BY DEF Queued
    <3>1. CASE d # s
      <4>1. pending'[d][i] # c
        BY <1>4, <2>6, <3>1
      <4> QED
        BY <2>2, <2>6, <3>1, <4>1 DEF JoinInv, Queued
    <3>2. CASE d = s /\ i = Len(pending[s]) + 1
      <4>1. \A j \in 1 .. Len(pending'[s]) : j # i => j \in 1 .. Len(pending[s])
        BY <2>4, <2>5, <3>2
      <4> QED
        BY <1>4, <2>3, <2>5, <3>2, <4>1
    <3>3. CASE d = s /\ i # Len(pending[s]) + 1
      <4>1. /\ i \in 1 .. Len(pending[s])
            /\ \A j \in 1 .. Len(pending'[s]) :
                 j \in 1 .. Len(pending[s]) \/ j = Len(pending[s]) + 1
        BY <2>4, <2>5, <3>3
      <4>2. pending'[d][i] = pending[s][i] /\ pending[s][i] # c
        BY <1>4, <2>5, <3>3, <4>1
      <4>3. /\ conn[pending[s][i]] = "connected" /\ on[pending[s][i]] = s
            /\ \A j \in 1 .. Len(pending[s]) : pending[s][j] = pending[s][i] => j = i
        BY <4>1, <4>2 DEF JoinInv, Queued
      <4> QED
        BY <2>2, <2>5, <3>3, <4>1, <4>2, <4>3
    <3> QED
      BY <3>1, <3>2, <3>3
  <2>8. Placed'
    BY <1>2, <2>2, <2>3 DEF JoinInv, Placed
  <2>9. Request' = [Request EXCEPT ![c] = "joined"] /\ Joined' = [Joined EXCEPT ![c] = s]
    <3>1. \A b \in Clients : /\ Request'[b] = IF b = c THEN "joined" ELSE Request[b]
                            /\ Joined'[b] = IF b = c THEN s ELSE Joined[b]
      BY <2>2, <2>3, Requests DEF Request, Joined
    <3> QED
      BY <3>1 DEF Request, Joined
  <2>10. Served!Join(c, s)
    BY <1>2, <1>3, <2>3, <2>9 DEF Served!Join, Up
  <2> QED
    BY <1>1, <2>7, <2>8, <2>10 DEF JoinInv, Served!RendezvousNext
<1> QED
  BY <1>5, <1>6 DEF Resolve

LEMMA HangUpJoins ==
  ASSUME JoinInv, NEW c \in Clients, HangUp(c)
  PROVE  JoinInv' /\ Served!RendezvousNext
<1>1. TypeOK'
  BY HangUpTypes DEF JoinInv
<1>2. /\ \A b \in Clients \ {c} : conn'[b] = conn[b] /\ on'[b] = on[b]
      /\ conn'[c] = "idle" /\ on'[c] = Nowhere /\ UNCHANGED state
  BY DEF HangUp, Settle, JoinInv, TypeOK
<1>3. ASSUME NEW s \in Servers
      PROVE  /\ Len(pending'[s]) = Len(pending[s])
             /\ \A i \in 1 .. Len(pending[s]) :
                  pending'[s][i] = IF pending[s][i] = c THEN "closed" ELSE pending[s][i]
  <2>1. /\ pending[s] \in Seq(Clients \cup {"closed"})
        /\ pending'[s] \in Seq(Clients \cup {"closed"})
    BY <1>1 DEF JoinInv, TypeOK
  <2>2. /\ Len(pending[s]) \in Nat /\ DOMAIN pending[s] = 1 .. Len(pending[s])
        /\ Len(pending'[s]) \in Nat /\ DOMAIN pending'[s] = 1 .. Len(pending'[s])
    BY <2>1, LenProperties
  <2>3. pending'[s] = [i \in DOMAIN pending[s] |->
                         IF pending[s][i] = c THEN "closed" ELSE pending[s][i]]
    BY DEF HangUp
  <2>4. DOMAIN pending'[s] = DOMAIN pending[s]
    BY <2>3
  <2>5. Len(pending'[s]) = Len(pending[s])
    BY <2>2, <2>4
  <2> QED
    BY <2>2, <2>3, <2>5
<1>4. Queued'
  <2> SUFFICES ASSUME NEW d \in Servers, NEW i \in 1 .. Len(pending'[d]), pending'[d][i] \in Clients
               PROVE  /\ conn'[pending'[d][i]] = "connected" /\ on'[pending'[d][i]] = d
                      /\ \A j \in 1 .. Len(pending'[d]) : pending'[d][j] = pending'[d][i] => j = i
    BY DEF Queued
  <2>1. pending'[d][i] = pending[d][i] /\ pending[d][i] # c
    BY <1>3, Names
  <2>2. /\ conn[pending[d][i]] = "connected" /\ on[pending[d][i]] = d
        /\ \A j \in 1 .. Len(pending[d]) : pending[d][j] = pending[d][i] => j = i
    BY <1>3, <2>1 DEF JoinInv, Queued
  <2>3. \A j \in 1 .. Len(pending[d]) : pending'[d][j] = pending[d][j] \/ pending'[d][j] = "closed"
    BY <1>3
  <2> QED
    BY <1>2, <1>3, <2>1, <2>2, <2>3, Names
<1>5. Placed'
  BY <1>2 DEF JoinInv, Placed
<1>6. \A b \in Clients : /\ Request'[b] = IF b = c THEN "out" ELSE Request[b]
                        /\ Joined'[b] = IF b = c THEN Nowhere ELSE Joined[b]
  BY <1>2, Requests DEF Request, Joined
<1>7. Request' = [Request EXCEPT ![c] = "out"] /\ Joined' = [Joined EXCEPT ![c] = "none"]
  BY <1>6 DEF Request, Joined, Nowhere
<1>8. Served!Leave(c)
  BY <1>2, <1>7 DEF Served!Leave, Up
<1> QED
  BY <1>1, <1>4, <1>5, <1>8 DEF JoinInv, Served!RendezvousNext

LEMMA JoinStep ==
  ASSUME JoinInv, CallerClears = TRUE, [Next]_vars
  PROVE  JoinInv' /\ (Served!RendezvousNext \/ UNCHANGED MapVars)
<1>1. CASE UNCHANGED vars
  BY <1>1 DEF vars, JoinInv, TypeOK, Queued, Placed, MapVars, Up, Request, Joined
<1>2. ASSUME NEW s \in Servers, Close(s) \/ Crash(s)
      PROVE  JoinInv' /\ Served!RendezvousNext
  <2>1. TypeOK'
    BY <1>2, VanishTypes DEF Close, Crash, JoinInv
  <2> QED
    BY <1>2, <2>1, VanishJoins DEF Close, Crash
<1>3. ASSUME NEW c \in Clients, Connect(c) \/ Wake(c)
      PROVE  JoinInv' /\ (Served!RendezvousNext \/ UNCHANGED MapVars)
  BY <1>3, ResolveJoins DEF Connect, Wake
<1> QED
  BY <1>1, <1>2, <1>3, ServerJoins, AcceptJoins, HangUpJoins DEF Next

(* When servers clear their error_code before a call, they and their        *)
(* clients implement a rendezvous, however many there are and whatever       *)
(* fails: every connection is served by the server it was made with or cut   *)
(* off because that one stopped.                                             *)
THEOREM ServerIsRendezvous ==
  ASSUME CallerClears = TRUE PROVE Spec => IsRendezvous
<1>1. Init => JoinInv /\ Served!RendezvousInit
  BY JoinInit
<1>2. JoinInv /\ [Next]_vars => JoinInv' /\ [Served!RendezvousNext]_MapVars
  BY JoinStep
<1>3. Spec => Served!RendezvousInit /\ [][Served!RendezvousNext]_MapVars
  BY <1>1, <1>2, PTL DEF Spec
<1> QED
  BY <1>3 DEF IsRendezvous, Served!RendezvousSpec, MapVars
=============================================================================
