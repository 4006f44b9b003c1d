------------------------ MODULE MCObjectSetRegister ------------------------
(***************************************************************************)
(* Goroutines that call the register on a channel that is full after one   *)
(* event.                                                                  *)
(***************************************************************************)
EXTENDS ObjectSetRegister
=============================================================================
