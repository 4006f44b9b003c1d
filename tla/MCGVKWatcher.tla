---------------------------- MODULE MCGVKWatcher ----------------------------
(***************************************************************************)
(* Two goroutines watch three kinds: one that starts, perhaps at the second *)
(* attempt, one whose cache may never fill, and one that may be unknown.   *)
(***************************************************************************)
EXTENDS GVKWatcher
=============================================================================
