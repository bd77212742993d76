-------------------------- MODULE MCLinkCompletion --------------------------
(* Instances of LinkCompletion: session t1 connects two banks, t2 one. *)
EXTENDS LinkCompletion

CONSTANTS t1, t2, i1, i2, i3

MCItemsOf == [t \in Tokens |-> IF t = t1 THEN {i1, i2} ELSE {i3}]
=============================================================================
