------------------------- MODULE MCReleaseController -------------------------
(***************************************************************************)
(* Two operators and one HelmRelease, for a Helm release that comes, goes  *)
(* and is upgraded, and for a name that no release has.  The manifest is   *)
(* cut short by a document that does not decode.                           *)
(***************************************************************************)
EXTENDS ReleaseController, TLC

CONSTANTS o1, o2, h1, k1, k2, a, x, y

MCDocuments == [m \in Manifest |-> <<x, Empty, Broken, y>>]

MCRelease == {[status |-> "deployed", manifest |-> a],
              [status |-> "pending-upgrade", manifest |-> a]}

MCHistory == [key \in ReleaseKey |-> IF key = k1 THEN MCRelease ELSE {}]

\* The operators are interchangeable (the run checks no liveness).
OperatorSymmetry == Permutations(Operator)
=============================================================================
