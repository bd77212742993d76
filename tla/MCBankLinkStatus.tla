-------------------------- MODULE MCBankLinkStatus --------------------------
(* Instances of BankLinkStatus. *)
EXTENDS BankLinkStatus
=============================================================================
