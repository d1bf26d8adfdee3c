------------------------------- MODULE Mutex --------------------------------
(***************************************************************************)
(* What sync.h's locks promise their users: each lock has at most one      *)
(* owner, it is taken only when free and given up only by its owner.       *)
(***************************************************************************)
CONSTANTS Client, Resource, Nobody

VARIABLE owner

Init == owner = [r \in Resource |-> Nobody]

Take(c, r) ==
  /\ owner[r] = Nobody
  /\ owner' = [owner EXCEPT ![r] = c]

Give(c, r) ==
  /\ owner[r] = c
  /\ owner' = [owner EXCEPT ![r] = Nobody]

Next == \E c \in Client, r \in Resource : Take(c, r) \/ Give(c, r)

Spec == Init /\ [][Next]_owner
=============================================================================
