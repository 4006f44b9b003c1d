----------------------------- MODULE ObjectSets -----------------------------
(***************************************************************************)
(* The names that the parts of pkg/objectset share.                        *)
(***************************************************************************)
CONSTANTS
  SetKey,     \* relatedresource.Keys that name object sets (namespace/name of a Helm release)
  ObjectSet,  \* object sets parsed from manifests
  NoKey       \* no object set: what a resource that nobody has locked is resolved to

ASSUME NamesAssumption == NoKey \notin SetKey
=============================================================================
