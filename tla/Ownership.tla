----------------------------- MODULE Ownership -----------------------------
(***************************************************************************)
(* What a handle class with moves and without copies promises: a resource  *)
(* comes into one hand, is handed on whole, and is closed when its hand    *)
(* gives it up or takes another.                                           *)
(***************************************************************************)

CONSTANTS
  Owners,    \* whoever may own a resource
  Resources, \* what may be owned
  Nothing    \* what an owner of no resource owns

VARIABLES
  open, \* the resources that are open
  owns  \* what each owner owns

OwnershipInit ==
  /\ open = {}
  /\ owns = [x \in Owners |-> Nothing]

(* Only a free hand obtains a resource: no other is dropped for it. *)
Obtain(x) ==
  /\ owns[x] = Nothing
  /\ \E r \in Resources \ open : /\ open' = open \cup {r}
                                 /\ owns' = [owns EXCEPT ![x] = r]

Release(x) ==
  /\ open' = open \ {owns[x]}
  /\ owns' = [owns EXCEPT ![x] = Nothing]

Hand(x, y) ==
  /\ open' = open \ {owns[y]}
  /\ owns' = [owns EXCEPT ![y] = owns[x], ![x] = Nothing]

Exchange(x, y) ==
  /\ owns' = [owns EXCEPT ![y] = owns[x], ![x] = owns[y]]
  /\ UNCHANGED open

OwnershipNext ==
  \/ \E x \in Owners : Obtain(x) \/ Release(x)
  \/ \E x \in Owners : \E y \in Owners \ {x} : Hand(x, y) \/ Exchange(x, y)

OwnershipSpec == OwnershipInit /\ [][OwnershipNext]_<<open, owns>>
=============================================================================
