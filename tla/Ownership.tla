----------------------------- MODULE Ownership -----------------------------
(***************************************************************************)
(* What the resource-owning classes of 02-modern-cpp promise, with no      *)
(* representation left: a resource (a descriptor, a heap block) is either  *)
(* free or has exactly one owner, it is acquired from the free state,      *)
(* handed from its owner to another one, and disposed of by its owner.     *)
(* One step concerns one resource: nothing is closed or freed as a side    *)
(* effect of acquiring or moving something else.                           *)
(***************************************************************************)

CONSTANTS
  Resources, \* descriptors, heap blocks
  Owners,    \* everything that may be responsible for one
  Nobody     \* the owner of a free resource

VARIABLE owner

Init == owner = [r \in Resources |-> Nobody]

Acquire(r, o) ==
  /\ owner[r] = Nobody
  /\ owner' = [owner EXCEPT ![r] = o]

Transfer(r, o) ==
  /\ owner[r] \in Owners
  /\ owner' = [owner EXCEPT ![r] = o]

Dispose(r) ==
  /\ owner[r] \in Owners
  /\ owner' = [owner EXCEPT ![r] = Nobody]

Next ==
  \E r \in Resources :
    \/ Dispose(r)
    \/ \E o \in Owners : Acquire(r, o) \/ Transfer(r, o)

Spec == Init /\ [][Next]_owner
============================================================================
