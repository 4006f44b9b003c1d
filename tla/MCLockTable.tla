---------------------------- MODULE MCLockTable ----------------------------
(***************************************************************************)
(* A small lock table: three sets that compete for resources, four          *)
(* manifests over two kinds, one of which may fail to be watched.          *)
(***************************************************************************)
EXTENDS LockTable

CONSTANTS k1, k2, k3, a, b, c, d, configmaps, secrets, r1, r2

MCObjects ==
  [os \in ObjectSet |->
     CASE os = a -> {<<configmaps, r1>>, <<configmaps, r2>>, <<secrets, r1>>}
       [] os = b -> {<<configmaps, r2>>, <<secrets, r2>>}
       [] os = c -> {<<secrets, r1>>, <<secrets, r2>>}
       [] os = d -> {<<configmaps, r1>>}]
=============================================================================
