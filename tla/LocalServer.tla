---------------------------- MODULE LocalServer ----------------------------
(***************************************************************************)
(* Local (UNIX) servers that share one path, and their clients.            *)
(*                                                                         *)
(* local::open_server removes whatever is at the path, binds a new socket  *)
(* there and listens, in three system calls; nothing removes the path when *)
(* a server closes or crashes.  A client that connects finds what is at    *)
(* the path at that moment.  Servers and clients are threads of any        *)
(* processes, so the unit of interleaving is the system call.              *)
(***************************************************************************)
EXTENDS SequencesExt, Integers

CONSTANTS
  Servers,      \* those that start, stop and start again on the path
  Clients,      \* those that connect to it
  NonBlocking,  \* the clients that ask for a non-blocking socket
  Backlog,      \* max_pending_connections
  CallerClears, \* servers reset their error_code before every call
  Faults        \* the system calls that may fail for reasons of their own

ASSUME LocalServerAssumption ==
  /\ NonBlocking \subseteq Clients
  /\ Backlog \in Nat
  /\ CallerClears \in BOOLEAN
  /\ Faults \subseteq {"unlink", "bind", "listen", "accept"}
  /\ {"none", "stale"} \cap Servers = {} /\ "closed" \notin Clients

VARIABLES
  path,      \* the server whose socket the path leads to, "none" or "stale"
  state,     \* each server's socket, and so where it is in open_server
  pending,   \* its backlog: clients, "closed" for one that has gone
  err,       \* whether its error_code holds an error
  conn,      \* what has become of each client's make_local_socket()
  on,        \* the server it waits for or is connected to
  disturbed  \* whether another server took the path since s began its start

vars == <<path, state, pending, err, conn, on, disturbed>>

Phases  == {"down", "created", "unlinked", "bound", "listening"}
Fates   == {"idle", "refused", "waiting", "connected", "served", "dropped",
            "reset"}
Nowhere == "none"

Init ==
  /\ path = "none"
  /\ state     = [s \in Servers |-> "down"]
  /\ pending   = [s \in Servers |-> <<>>]
  /\ err       = [s \in Servers |-> FALSE]
  /\ conn      = [c \in Clients |-> "idle"]
  /\ on        = [c \in Clients |-> Nowhere]
  /\ disturbed = [s \in Servers |-> FALSE]

-----------------------------------------------------------------------------
(* make_local_server() *)

Goto(s, phase) == state' = [state EXCEPT ![s] = phase]

(* The error_code that a call starts with. *)
OldError(s) == ~CallerClears /\ err[s]

(* s takes something at the path away from the others. *)
Disturb(s) ==
  disturbed' = [d \in Servers |-> disturbed[d] \/ (d # s /\ state[d] # "down")]

CreateSocket(s) ==
  /\ state[s] = "down"
  /\ Goto(s, "created")
  /\ err' = [err EXCEPT ![s] = OldError(s)]
  /\ disturbed' = [disturbed EXCEPT ![s] = FALSE]
  /\ UNCHANGED <<path, pending, conn, on>>

(* Mutant: a path is removed only if it leads to a running server. *)
UnlinkLive(s) ==
  /\ state[s] = "created"
  /\ Goto(s, "unlinked")
  /\ IF path \in Servers THEN path' = "none" /\ Disturb(s)
                         ELSE UNCHANGED <<path, disturbed>>
  /\ UNCHANGED <<pending, err, conn, on>>

(* Whatever unlink() returns is ignored. *)
Unlink(s) ==
  /\ state[s] = "created"
  /\ Goto(s, "unlinked")
  /\ \/ path' = "none" /\ Disturb(s)
     \/ "unlink" \in Faults /\ UNCHANGED <<path, disturbed>>
  /\ UNCHANGED <<pending, err, conn, on>>

(* What the path leads to when the socket of s is closed: still to it. *)
PathWithout(s) == IF path = s THEN "stale" ELSE path

(* The exit of open_server with an error: the socket is closed. *)
GiveUp(s) ==
  /\ Goto(s, "down")
  /\ err' = [err EXCEPT ![s] = TRUE]

Bind(s) ==
  /\ state[s] = "unlinked"
  /\ \/ /\ path = "none"
        /\ path' = s /\ Goto(s, "bound") /\ Disturb(s)
        /\ UNCHANGED err
     \/ /\ path # "none" \/ "bind" \in Faults
        /\ GiveUp(s)
        /\ UNCHANGED <<path, disturbed>>
  /\ UNCHANGED <<pending, conn, on>>

(* An old error, too, makes open_server close the socket and fail. *)
Listen(s) ==
  /\ state[s] = "bound"
  /\ \/ /\ ~err[s]
        /\ Goto(s, "listening")
        /\ UNCHANGED <<path, err>>
     \/ /\ err[s] \/ "listen" \in Faults
        /\ GiveUp(s)
        /\ path' = PathWithout(s)
  /\ UNCHANGED <<pending, conn, on, disturbed>>

-----------------------------------------------------------------------------
(* The server's other calls. *)

(* Mutant: callers reuse an error_code that an earlier call has set. *)
PeerOfUncleared(s) == IF err[s] THEN "dropped" ELSE "served"

(* `ec ? device{} : device{new local_peer}': with an old error the handle  *)
(* of the new connection is dropped as it is.                              *)
PeerOf(s) == IF OldError(s) THEN "dropped" ELSE "served"

Accept(s) ==
  /\ state[s] = "listening" /\ pending[s] # <<>>
  /\ pending' = [pending EXCEPT ![s] = Tail(@)]
  /\ conn' = [c \in Clients |->
                IF c = Head(pending[s]) THEN PeerOf(s) ELSE conn[c]]
  /\ err' = [err EXCEPT ![s] = OldError(s)]
  /\ UNCHANGED <<path, state, on, disturbed>>

(* accept() fails: nothing is pending on a non-blocking server, or no      *)
(* descriptor is left.                                                     *)
AcceptFails(s) ==
  /\ state[s] = "listening" /\ "accept" \in Faults
  /\ err' = [err EXCEPT ![s] = TRUE]
  /\ UNCHANGED <<path, state, pending, conn, on, disturbed>>

(* The socket of s is gone: those in its backlog are cut off, with `lost'  *)
(* also its peers.                                                         *)
Vanish(s, lost) ==
  /\ pending' = [pending EXCEPT ![s] = <<>>]
  /\ conn' = [c \in Clients |-> IF on[c] = s /\ conn[c] \in lost
                                THEN "reset" ELSE conn[c]]
  /\ Goto(s, "down")

(* Mutant: close() removes the path, whoever's it is now. *)
CloseUnlinks(s) ==
  /\ state[s] = "listening"
  /\ Vanish(s, {"connected"})
  /\ path' = "none"
  /\ UNCHANGED <<err, on, disturbed>>

(* Mutant: the handle is reset without ::close(): the socket lives on.     *)
CloseForgets(s) ==
  /\ state[s] = "listening"
  /\ Goto(s, "down")
  /\ UNCHANGED <<path, pending, err, conn, on, disturbed>>

(* close() or the destructor.  The path stays. *)
Close(s) ==
  /\ state[s] = "listening"
  /\ Vanish(s, {"connected"})
  /\ path' = PathWithout(s)
  /\ UNCHANGED <<err, on, disturbed>>

(* The process ends at any point. *)
Crash(s) ==
  /\ state[s] # "down"
  /\ Vanish(s, {"connected", "served", "dropped"})
  /\ path' = PathWithout(s)
  /\ err' = [err EXCEPT ![s] = FALSE]
  /\ UNCHANGED <<on, disturbed>>

-----------------------------------------------------------------------------
(* make_local_socket() *)

(* Mutant: the default is used whatever the caller asks for. *)
FullByDefault(s) == Len(pending[s]) > 30

(* The kernel lets one more wait than the backlog says. *)
Full(s) == Len(pending[s]) > Backlog

Settle(c, fate, s) ==
  conn' = [conn EXCEPT ![c] = fate] /\ on' = [on EXCEPT ![c] = s]

(* Where the path leads, if that is a server that listens. *)
Reachable(s) == path = s /\ state[s] = "listening"

(* connect() takes what is at the path now: nothing, a dead socket, one    *)
(* that does not listen yet, or a server with or without room.             *)
Resolve(c) ==
  /\ \/ /\ \A s \in Servers : ~Reachable(s)
        /\ Settle(c, "refused", Nowhere) /\ UNCHANGED pending
     \/ \E s \in Servers :
          /\ Reachable(s) /\ ~Full(s)
          /\ Settle(c, "connected", s)
          /\ pending' = [pending EXCEPT ![s] = Append(@, c)]
     \/ \E s \in Servers :
          /\ Reachable(s) /\ Full(s) /\ UNCHANGED pending
          /\ IF c \in NonBlocking THEN Settle(c, "refused", Nowhere)
                                  ELSE Settle(c, "waiting", s)
  /\ UNCHANGED <<path, state, err, disturbed>>

Connect(c) == conn[c] \in {"idle", "refused"} /\ Resolve(c)

(* A blocked connect() wakes up when there is room, or nobody to wait for, *)
(* and starts over with the path.                                          *)
Wake(c) ==
  /\ conn[c] = "waiting"
  /\ state[on[c]] # "listening" \/ ~Full(on[c])
  /\ Resolve(c)

(* The client closes its device.  The server will still accept it. *)
HangUp(c) ==
  /\ conn[c] \in {"connected", "served", "dropped", "reset"}
  /\ Settle(c, "idle", Nowhere)
  /\ pending' = [s \in Servers |->
                   [i \in DOMAIN pending[s] |->
                      IF pending[s][i] = c THEN "closed" ELSE pending[s][i]]]
  /\ UNCHANGED <<path, state, err, disturbed>>

-----------------------------------------------------------------------------
Next ==
  \/ \E s \in Servers :
       \/ CreateSocket(s) \/ Unlink(s) \/ Bind(s) \/ Listen(s)
       \/ Accept(s) \/ AcceptFails(s) \/ Close(s) \/ Crash(s)
  \/ \E c \in Clients : Connect(c) \/ Wake(c) \/ HangUp(c)

Spec == Init /\ [][Next]_vars

(* A server goes on accepting, as those of the tests do, and does not fail *)
(* to for ever.                                                            *)
FairSpec == Spec /\ \A s \in Servers : WF_vars(Accept(s))

-----------------------------------------------------------------------------
(* Properties. *)

(* The types of the variables. *)
TypeOK ==
  /\ path \in Servers \cup {"none", "stale"}
  /\ state     \in [Servers -> Phases]
  /\ pending   \in [Servers -> Seq(Clients \cup {"closed"})]
  /\ \A s \in Servers : Len(pending[s]) <= Backlog + 1
  /\ err       \in [Servers -> BOOLEAN]
  /\ conn      \in [Clients -> Fates]
  /\ on        \in [Clients -> Servers \cup {Nowhere}]
  /\ disturbed \in [Servers -> BOOLEAN]

(* A server that starts while no other does so finds the path free when it *)
(* binds, whatever earlier servers left there by closing, failing or       *)
(* crashing; and from then on the path leads to it until another server    *)
(* begins to take it over.                                                 *)
UndisturbedServes ==
  \A s \in Servers : ~disturbed[s] =>
    /\ state[s] = "unlinked" => path = "none"
    /\ state[s] \in {"bound", "listening"} => path = s

(* The error of make_local_socket() tells the truth: a client is turned    *)
(* away only if every server is down, still starting or robbed of the path *)
(* by another, or if it does not want to wait and the backlog is full.     *)
TurnedAwayRightly ==
  [][\A c \in Clients : conn'[c] = "refused" /\ conn[c] # "refused" =>
       \A s \in Servers : state[s] = "listening" /\ ~disturbed[s] =>
         c \in NonBlocking /\ Full(s)]_vars

(* Connections survive takeovers, clients that close early and failing     *)
(* accept()s: each is served by the server it was made with, unless that   *)
(* one stops, and none is accepted without a peer device.                  *)
Up == {s \in Servers : state[s] = "listening"}
AsRequest(fate) ==
  CASE fate \in {"idle", "refused", "waiting"} -> "out"
    [] fate = "connected" -> "joined"
    [] fate = "reset" -> "cut"
    [] OTHER -> fate
Request == [c \in Clients |-> AsRequest(conn[c])]
Joined == [c \in Clients |-> IF conn[c] = "waiting" THEN Nowhere ELSE on[c]]

Served == INSTANCE Rendezvous WITH up <- Up, client <- Request, joined <- Joined
IsRendezvous == Served!RendezvousSpec

(* Nobody stays in a backlog for ever: a connection is accepted, cut off   *)
(* or given up, even after the path was taken over.                        *)
ServedOrTold ==
  \A c \in Clients : conn[c] = "connected" ~> conn[c] # "connected"
=============================================================================
