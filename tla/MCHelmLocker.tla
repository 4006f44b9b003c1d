---------------------------- MODULE MCHelmLocker ----------------------------
(***************************************************************************)
(* One operator and one HelmRelease, for a Helm release with two versions  *)
(* that change one resource and drop two, one of which is the last of its  *)
(* kind, while one thing goes wrong.                                       *)
(***************************************************************************)
EXTENDS HelmLocker

CONSTANTS o1, h1, k1, a, b, x1, x2, y1, z1, x, y, z, configmaps, services

MCDocuments == [m \in Manifest |-> IF m = a THEN <<x1, Empty, y1, z1>> ELSE <<x2>>]

MCNameOf == [obj \in Object |-> CASE obj \in {x1, x2} -> x [] obj = y1 -> y [] obj = z1 -> z]

MCKindOf == [name \in Name |-> IF name = z THEN services ELSE configmaps]

MCRelease == {[status |-> "deployed", manifest |-> a],
              [status |-> "deployed", manifest |-> b],
              [status |-> "pending-upgrade", manifest |-> b]}

MCHistory == [key \in ReleaseKey |-> MCRelease]
=============================================================================
