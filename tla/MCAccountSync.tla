---------------------------- MODULE MCAccountSync ----------------------------
(* Instances of AccountSync. *)
EXTENDS AccountSync
=============================================================================
