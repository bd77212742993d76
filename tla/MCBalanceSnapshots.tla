-------------------------- MODULE MCBalanceSnapshots --------------------------
(* Instances of BalanceSnapshots. *)
EXTENDS BalanceSnapshots
=============================================================================
