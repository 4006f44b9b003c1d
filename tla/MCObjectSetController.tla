----------------------- MODULE MCObjectSetController -----------------------
(***************************************************************************)
(* Small clusters for the object set controller: one release with two      *)
(* manifests, or two releases, some of whose manifests share a resource.   *)
(***************************************************************************)
EXTENDS ObjectSetController, TLC

CONSTANTS k1, k2, a, b, c, configmaps, secrets, r1, r2, t1, t2

MCObjects ==
  [os \in ObjectSet |->
     CASE os = a -> {<<configmaps, r1>>}
       [] os = b -> {<<configmaps, r1>>, <<secrets, r2>>}
       [] os = c -> {<<configmaps, r2>>}]

OneRelease == [key \in SetKey |-> {a, b}]
OneManifest == [key \in SetKey |-> {a}]
TwoReleases == [key \in SetKey |-> IF key = k1 THEN {a} ELSE {b, c}]

\* The goroutines are interchangeable (for the runs that check no liveness).
ThreadSymmetry == Permutations(Thread)
=============================================================================
