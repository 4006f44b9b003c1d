------------------------- MODULE ResourceOwnership -------------------------
(***************************************************************************)
(* Exclusive ownership: everything belongs to at most one owner at a time, *)
(* and changes hands only by being given up first.  The lock table of the  *)
(* register promises that of resources and object sets (LockTable.tla),    *)
(* and the claims of operators of HelmReleases (ReleaseController.tla).    *)
(***************************************************************************)
CONSTANTS SetKey,     \* keys that name object sets
          Resource,   \* resources of the cluster
          NoKey       \* the owner of a resource that is not locked

VARIABLE owner

OwnerTypeOK == owner \in [Resource -> SetKey \cup {NoKey}]

Init == owner = [res \in Resource |-> NoKey]

\* key ends up owning exactly the resources in taken, none of which another key owns.
Take(key, taken) ==
  /\ \A res \in taken : owner[res] \in {key, NoKey}
  /\ owner' = [res \in Resource |->
                 IF res \in taken THEN key
                 ELSE IF owner[res] = key THEN NoKey ELSE owner[res]]

Next == \E key \in SetKey, taken \in SUBSET Resource : Take(key, taken)

Spec == Init /\ [][Next]_owner
=============================================================================
