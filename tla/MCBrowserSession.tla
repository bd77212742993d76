-------------------------- MODULE MCBrowserSession --------------------------
(* Instances of BrowserSession. *)
EXTENDS BrowserSession
=============================================================================
