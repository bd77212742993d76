---------------------------- MODULE LinkSession ----------------------------
(***************************************************************************)
(* What linking a bank promises, with no webhooks, handlers, crashes or    *)
(* separate writes: a link session is opened once, its items become usable *)
(* all together and once, and its record ends once, as COMPLETED only if   *)
(* every item of the session is usable.                                    *)
(*                                                                         *)
(* LinkCompletion, the handler as written, implements this specification   *)
(* when webhook requests for a session never overlap.                      *)
(***************************************************************************)
CONSTANTS
    Tokens,     \* link sessions, named by their link_token (= webhookId)
    Items,      \* bank connections (Plaid items)
    ItemsOf     \* the items a session connects

VARIABLES
    status,     \* status of the session's webhook event
    linked      \* items that have their accounts in the database

vars == <<status, linked>>

Statuses == {"none", "PENDING", "COMPLETED", "FAILED"}

TypeOK ==
    /\ status \in [Tokens -> Statuses]
    /\ linked \subseteq Items

Init ==
    /\ status = [t \in Tokens |-> "none"]
    /\ linked = {}

Open(t) ==
    /\ status[t] = "none"
    /\ status' = [status EXCEPT ![t] = "PENDING"]
    /\ UNCHANGED linked

Link(t) ==
    /\ status[t] = "PENDING"
    /\ ItemsOf[t] \cap linked = {}
    /\ linked' = linked \cup ItemsOf[t]
    /\ UNCHANGED status

Complete(t) ==
    /\ status[t] = "PENDING"
    /\ ItemsOf[t] \subseteq linked
    /\ status' = [status EXCEPT ![t] = "COMPLETED"]
    /\ UNCHANGED linked

Fail(t) ==
    /\ status[t] = "PENDING"
    /\ status' = [status EXCEPT ![t] = "FAILED"]
    /\ UNCHANGED linked

Next == \E t \in Tokens : Open(t) \/ Link(t) \/ Complete(t) \/ Fail(t)

Spec == Init /\ [][Next]_vars
=============================================================================
