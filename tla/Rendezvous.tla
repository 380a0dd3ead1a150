----------------------------- MODULE Rendezvous -----------------------------
(***************************************************************************)
(* What a listening server promises its clients: a request is turned away, *)
(* or joined to one server that is up; a joined client is served by that   *)
(* server, or is cut off because that server has stopped.                  *)
(***************************************************************************)

CONSTANTS Servers, Clients

VARIABLES
  up,     \* the servers that are up
  client, \* what has become of each client's request
  joined  \* the server it was joined to, or "none"

Requests == {"out", "joined", "served", "cut"}

RendezvousInit ==
  /\ up = {}
  /\ client = [c \in Clients |-> "out"]
  /\ joined = [c \in Clients |-> "none"]

Start(s) == up' = up \cup {s} /\ UNCHANGED <<client, joined>>

(* Every client that waits is cut off, and it may be that also those served *)
(* are.                                                                     *)
Stop(s) ==
  /\ up' = up \ {s} /\ UNCHANGED joined
  /\ \E lost \in {{"joined"}, {"joined", "served"}} :
       client' = [c \in Clients |-> IF joined[c] = s /\ client[c] \in lost
                                    THEN "cut" ELSE client[c]]

Join(c, s) ==
  /\ client[c] = "out" /\ s \in up
  /\ client' = [client EXCEPT ![c] = "joined"]
  /\ joined' = [joined EXCEPT ![c] = s]
  /\ UNCHANGED up

Serve(c) ==
  /\ client[c] = "joined" /\ joined[c] \in up
  /\ client' = [client EXCEPT ![c] = "served"]
  /\ UNCHANGED <<up, joined>>

Leave(c) ==
  /\ client' = [client EXCEPT ![c] = "out"]
  /\ joined' = [joined EXCEPT ![c] = "none"]
  /\ UNCHANGED up

RendezvousNext ==
  \/ \E s \in Servers : Start(s) \/ Stop(s) \/ \E c \in Clients : Join(c, s)
  \/ \E c \in Clients : Serve(c) \/ Leave(c)

RendezvousSpec ==
  RendezvousInit /\ [][RendezvousNext]_<<up, client, joined>>
=============================================================================
