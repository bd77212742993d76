--------------------------- MODULE LinkCompletion ---------------------------
(***************************************************************************)
(* Linking a bank through a hosted Plaid session                           *)
(* (bank-link.service.ts, webhook-event.service.ts, plaid.provider.ts).    *)
(*                                                                         *)
(* initiateLinking stores a PENDING webhook event for the link token and   *)
(* hands the user a link URL.  When the user finishes, Plaid calls the     *)
(* SESSION_FINISHED webhook, again and again until it gets a 2xx, and      *)
(* sometimes twice at a time.  Each request runs                           *)
(* handleLinkCompletionWebhook, whose awaits are the steps below: find the *)
(* pending event, exchange the public tokens, fetch the accounts, save the *)
(* bank links, save the accounts, find the pending event again, save it.   *)
(* No transaction spans two of these steps.                                *)
(***************************************************************************)
EXTENDS Naturals, FiniteSets

CONSTANTS
    Tokens,     \* link tokens, one per link session
    NoToken,    \* what an idle handler works for
    Items,      \* Plaid items (bank connections)
    ItemsOf,    \* the items a session connects: its payload's public_tokens
    Handlers,   \* webhook requests the server can have in progress
    OneUse,     \* does Plaid refuse a public token it has exchanged before?
    MaxFaults   \* bound on crashes and on failed database or provider calls

ASSUME LinkAssumption ==
    /\ NoToken \notin Tokens
    /\ ItemsOf \in [Tokens -> SUBSET Items]
    /\ \A s, t \in Tokens : s # t => ItemsOf[s] \cap ItemsOf[t] = {}
    /\ OneUse \in BOOLEAN
    /\ MaxFaults \in Nat

VARIABLES
    session,      \* how far the link session of a token is
    expired,      \* tokens past their expiresAt
    event,        \* status column of the token's webhook_event row
    spent,        \* items whose public token Plaid has exchanged
    linkRows,     \* number of bank_link rows of an item
    accountRows,  \* number of times the accounts of an item were inserted
    pc,           \* the await a handler is at
    tok,          \* the token whose webhook a handler processes
    got,          \* items whose access token a handler holds in memory
    acked,        \* tokens whose webhook was answered with a 2xx
    faults        \* crashes and failed calls so far

dbVars == <<event, linkRows, accountRows>>
envVars == <<session, expired, spent>>
handlerVars == <<pc, tok, got>>
vars == <<session, expired, event, spent, linkRows, accountRows,
          pc, tok, got, acked, faults>>

SessionStates == {"none", "issued", "lost", "offered", "finished"}

WebhookEventStatus == {"PENDING", "COMPLETED", "FAILED", "EXPIRED"}

Steps == {"idle", "find", "exchange", "saveLinks", "saveAccounts",
          "completeFind", "completeSave", "failFind", "failSave"}

TypeOK ==
    /\ session \in [Tokens -> SessionStates]
    /\ expired \subseteq Tokens
    /\ event \in [Tokens -> WebhookEventStatus \cup {"none"}]
    /\ spent \subseteq Items
    /\ linkRows \in [Items -> Nat]
    /\ accountRows \in [Items -> Nat]
    /\ pc \in [Handlers -> Steps]
    /\ tok \in [Handlers -> Tokens \cup {NoToken}]
    /\ \A h \in Handlers : pc[h] # "idle" => tok[h] \in Tokens
    /\ got \in [Handlers -> SUBSET Items]
    /\ acked \subseteq Tokens
    /\ faults \in 0..MaxFaults

Init ==
    /\ session = [t \in Tokens |-> "none"]
    /\ expired = {}
    /\ event = [t \in Tokens |-> "none"]
    /\ spent = {}
    /\ linkRows = [i \in Items |-> 0]
    /\ accountRows = [i \in Items |-> 0]
    /\ pc = [h \in Handlers |-> "idle"]
    /\ tok = [h \in Handlers |-> NoToken]
    /\ got = [h \in Handlers |-> {}]
    /\ acked = {}
    /\ faults = 0

-----------------------------------------------------------------------------
(* Initiation.                                                             *)

Fault ==
    /\ faults < MaxFaults
    /\ faults' = faults + 1

(* provider.initiateLinking returned a link token *)
IssueToken(t) ==
    /\ session[t] = "none"
    /\ session' = [session EXCEPT ![t] = "issued"]
    /\ UNCHANGED <<expired, spent, dbVars, handlerVars, acked, faults>>

(* createPending, after which the link URL is returned to the user *)
CreatePending(t) ==
    /\ session[t] = "issued"
    /\ event' = [event EXCEPT ![t] = "PENDING"]
    /\ session' = [session EXCEPT ![t] = "offered"]
    /\ UNCHANGED <<expired, spent, linkRows, accountRows, handlerVars, acked,
                   faults>>

(* updateProviderDetails or createPending throws: no URL is returned *)
InitiationFails(t) ==
    /\ session[t] = "issued"
    /\ Fault
    /\ session' = [session EXCEPT ![t] = "lost"]
    /\ UNCHANGED <<expired, spent, dbVars, handlerVars, acked>>

(* The user connects the banks: Plaid has a SESSION_FINISHED to deliver *)
FinishSession(t) ==
    /\ session[t] = "offered"
    /\ t \notin expired
    /\ session' = [session EXCEPT ![t] = "finished"]
    /\ UNCHANGED <<expired, spent, dbVars, handlerVars, acked, faults>>

Expire(t) ==
    /\ session[t] \in {"offered", "finished"}
    /\ expired' = expired \cup {t}
    /\ UNCHANGED <<session, spent, dbVars, handlerVars, acked, faults>>

-----------------------------------------------------------------------------
(* The webhook handler.                                                    *)

Goto(h, step) == pc' = [pc EXCEPT ![h] = step]

(* The request ends: what it held in memory is gone *)
Return(h) ==
    /\ Goto(h, "idle")
    /\ tok' = [tok EXCEPT ![h] = NoToken]
    /\ got' = [got EXCEPT ![h] = {}]

Respond200(h) ==
    /\ Return(h)
    /\ acked' = acked \cup {tok[h]}

(* Plaid sends SESSION_FINISHED.  It may send it again at any time, while  *)
(* an earlier request for it is in progress or after it was answered.      *)
Deliver(h, t) ==
    /\ session[t] = "finished"
    /\ pc[h] = "idle"
    /\ Goto(h, "find")
    /\ tok' = [tok EXCEPT ![h] = t]
    /\ UNCHANGED <<envVars, dbVars, got, acked, faults>>

(* findPendingByWebhookId: no pending event, nothing to do *)
FindPending(h) ==
    /\ pc[h] = "find"
    /\ \/ /\ event[tok[h]] = "PENDING"
          /\ Goto(h, "exchange")
          /\ UNCHANGED <<tok, got, acked>>
       \/ /\ event[tok[h]] # "PENDING"
          /\ Respond200(h)
    /\ UNCHANGED <<envVars, dbVars, faults>>

(* exchangeToken for one public token of the payload *)
ExchangeToken(h, i) ==
    /\ pc[h] = "exchange"
    /\ i \in ItemsOf[tok[h]] \ got[h]
    /\ OneUse => i \notin spent
    /\ spent' = spent \cup {i}
    /\ got' = [got EXCEPT ![h] = @ \cup {i}]
    /\ UNCHANGED <<session, expired, dbVars, pc, tok, acked, faults>>

(* Plaid refuses a public token: Promise.all throws, but the exchanges it  *)
(* had started for the other tokens still go through.                      *)
ExchangeRefused(h) ==
    /\ pc[h] = "exchange"
    /\ \/ /\ OneUse
          /\ (ItemsOf[tok[h]] \ got[h]) \cap spent # {}
          /\ UNCHANGED faults
       \/ Fault
    /\ \E started \in SUBSET (ItemsOf[tok[h]] \ got[h]) :
          spent' = spent \cup started
    /\ Goto(h, "failFind")
    /\ UNCHANGED <<session, expired, dbVars, tok, got, acked>>

(* Mutant: the event is completed without what the session linked *)
GetAccountsCompletes(h) ==
    /\ pc[h] = "exchange"
    /\ got[h] = ItemsOf[tok[h]]
    /\ Goto(h, "completeFind")
    /\ UNCHANGED <<envVars, dbVars, tok, got, acked, faults>>

(* Every token is exchanged and getAccounts answered for every item *)
GetAccounts(h) ==
    /\ pc[h] = "exchange"
    /\ got[h] = ItemsOf[tok[h]]
    /\ Goto(h, "saveLinks")
    /\ UNCHANGED <<envVars, dbVars, tok, got, acked, faults>>

AddRow(rows, S) == [i \in Items |-> IF i \in S THEN rows[i] + 1 ELSE rows[i]]

(* Mutant: returns once the bank links are saved *)
SaveBankLinksOnly(h) ==
    /\ pc[h] = "saveLinks"
    /\ linkRows' = AddRow(linkRows, got[h])
    /\ Goto(h, "completeFind")
    /\ UNCHANGED <<envVars, event, accountRows, tok, got, acked, faults>>

(* repository.save(bankLinks): one transaction for the array *)
SaveBankLinks(h) ==
    /\ pc[h] = "saveLinks"
    /\ linkRows' = AddRow(linkRows, got[h])
    /\ Goto(h, "saveAccounts")
    /\ UNCHANGED <<envVars, event, accountRows, tok, got, acked, faults>>

(* Mutant: the accounts are saved one item at a time *)
SaveAccountsOneByOne(h) ==
    /\ pc[h] = "saveAccounts"
    /\ \E i \in got[h] :
          /\ accountRows[i] = 0
          /\ accountRows' = AddRow(accountRows, {i})
          /\ IF \A j \in got[h] \ {i} : accountRows[j] > 0
                THEN Goto(h, "completeFind")
                ELSE pc' = pc
    /\ UNCHANGED <<envVars, event, linkRows, tok, got, acked, faults>>

(* accountRepository.save(accounts): a transaction of its own *)
SaveAccounts(h) ==
    /\ pc[h] = "saveAccounts"
    /\ accountRows' = AddRow(accountRows, got[h])
    /\ Goto(h, "completeFind")
    /\ UNCHANGED <<envVars, event, linkRows, tok, got, acked, faults>>

(* markCompleted reads the event again and gives up if it is not pending *)
FindForCompletion(h) ==
    /\ pc[h] = "completeFind"
    /\ \/ /\ event[tok[h]] = "PENDING"
          /\ Goto(h, "completeSave")
          /\ UNCHANGED <<tok, got, acked>>
       \/ /\ event[tok[h]] # "PENDING"
          /\ Respond200(h)
    /\ UNCHANGED <<envVars, dbVars, faults>>

(* markCompleted saves the row it read, whatever its status is by now *)
SaveCompleted(h) ==
    /\ pc[h] = "completeSave"
    /\ event' = [event EXCEPT ![tok[h]] = "COMPLETED"]
    /\ Respond200(h)
    /\ UNCHANGED <<envVars, linkRows, accountRows, faults>>

(* Mutant: a failed save is tried again from the bank links on *)
CallRetried(h) ==
    /\ pc[h] \in {"saveLinks", "saveAccounts", "completeFind", "completeSave"}
    /\ Fault
    /\ Goto(h, "saveLinks")
    /\ UNCHANGED <<envVars, dbVars, tok, got, acked>>

(* A call inside the try block throws: the catch block calls markFailed *)
CallThrows(h) ==
    /\ pc[h] \in {"saveLinks", "saveAccounts", "completeFind", "completeSave"}
    /\ Fault
    /\ Goto(h, "failFind")
    /\ UNCHANGED <<envVars, dbVars, tok, got, acked>>

(* markFailed reads the event; the error is rethrown either way, so the    *)
(* response is a 500 and Plaid will call again.                            *)
FindForFailure(h) ==
    /\ pc[h] = "failFind"
    /\ \/ /\ event[tok[h]] = "PENDING"
          /\ Goto(h, "failSave")
          /\ UNCHANGED <<tok, got>>
       \/ /\ event[tok[h]] # "PENDING"
          /\ Return(h)
    /\ UNCHANGED <<envVars, dbVars, acked, faults>>

SaveFailed(h) ==
    /\ pc[h] = "failSave"
    /\ event' = [event EXCEPT ![tok[h]] = "FAILED"]
    /\ Return(h)
    /\ UNCHANGED <<envVars, linkRows, accountRows, acked, faults>>

(* Mutant: the error is swallowed and the request answers 200 *)
RequestSwallows(h) ==
    /\ pc[h] \in {"find", "failFind", "failSave"}
    /\ Fault
    /\ Respond200(h)
    /\ UNCHANGED <<envVars, dbVars>>

(* A call outside the try block throws: a 500 and nothing else *)
RequestThrows(h) ==
    /\ pc[h] \in {"find", "failFind", "failSave"}
    /\ Fault
    /\ Return(h)
    /\ UNCHANGED <<envVars, dbVars, acked>>

(* The process dies and restarts: requests in progress are gone, and so    *)
(* are link tokens whose event was not stored yet.                         *)
Crash ==
    /\ Fault
    /\ pc' = [h \in Handlers |-> "idle"]
    /\ tok' = [h \in Handlers |-> NoToken]
    /\ got' = [h \in Handlers |-> {}]
    /\ session' = [t \in Tokens |->
                      IF session[t] = "issued" THEN "lost" ELSE session[t]]
    /\ UNCHANGED <<expired, spent, dbVars, acked>>

HandlerStep(h) ==
    \/ FindPending(h)
    \/ \E i \in Items : ExchangeToken(h, i)
    \/ ExchangeRefused(h)
    \/ GetAccounts(h)
    \/ SaveBankLinks(h)
    \/ SaveAccounts(h)
    \/ FindForCompletion(h)
    \/ SaveCompleted(h)
    \/ CallThrows(h)
    \/ FindForFailure(h)
    \/ SaveFailed(h)
    \/ RequestThrows(h)

Next ==
    \/ \E t \in Tokens :
          \/ IssueToken(t)
          \/ CreatePending(t)
          \/ InitiationFails(t)
          \/ FinishSession(t)
          \/ Expire(t)
          \/ \E h \in Handlers : Deliver(h, t)
    \/ \E h \in Handlers : HandlerStep(h)
    \/ Crash

Spec == Init /\ [][Next]_vars

(* Plaid keeps calling until it is answered with a 2xx; a request that was *)
(* accepted runs on.  A handler is one of a small pool only in the model,  *)
(* so delivery is strongly fair: the pool may be busy in between.  Nobody  *)
(* owes the user's steps, and faults are never owed.                       *)
Redeliver(t) == t \notin acked /\ \E h \in Handlers : Deliver(h, t)

Fairness ==
    /\ \A t \in Tokens : SF_vars(Redeliver(t))
    /\ \A h \in Handlers : WF_vars(HandlerStep(h))

FairSpec == Spec /\ Fairness

-----------------------------------------------------------------------------
(* Properties.                                                             *)

(* An item is usable once its bank link and its accounts are stored. *)
Usable(i) == linkRows[i] > 0 /\ accountRows[i] > 0

(* However many times and however concurrently SESSION_FINISHED arrives,   *)
(* and wherever the process dies, no bank connection is stored twice: a    *)
(* user never sees the same account doubled.                               *)
AtMostOnce == \A i \in Items : linkRows[i] <= 1 /\ accountRows[i] <= 1

(* An event is COMPLETED only when everything the session connected is     *)
(* stored: nobody loses a bank behind a green status.                      *)
CompletedMeansUsable ==
    \A t \in Tokens :
        event[t] = "COMPLETED" => \A i \in ItemsOf[t] : Usable(i)

(* Every inserted set of accounts has a bank link row of its own item to   *)
(* point at, although the two saves are not one transaction.               *)
AccountsHaveLinks == \A i \in Items : accountRows[i] <= linkRows[i]

(* A request never answers 2xx while the event is still pending, so Plaid  *)
(* never stops calling too early.                                          *)
AckedIsSettled == \A t \in acked : event[t] # "PENDING"

(* Once the event is COMPLETED or FAILED the session is over: its status   *)
(* stays and no row is added for it.  Overlapping requests break this.     *)
SettledIsFinal ==
    [][\A t \in Tokens :
          event[t] \in {"COMPLETED", "FAILED"} =>
              /\ event'[t] = event[t]
              /\ \A i \in ItemsOf[t] : /\ linkRows'[i] = linkRows[i]
                                       /\ accountRows'[i] = accountRows[i]]_vars

(* Every session the user finishes is eventually settled, through crashes, *)
(* failed calls and retries.                                               *)
FinishedIsSettled ==
    \A t \in Tokens :
        session[t] = "finished" ~> event[t] \in {"COMPLETED", "FAILED"}

(* If nothing fails, every bank of a finished session becomes usable.      *)
FinishedIsUsable ==
    \A t \in Tokens :
        session[t] = "finished" ~>
            (faults > 0 \/ \A i \in ItemsOf[t] : Usable(i))

(* The abstract promise, read off the database. *)
Promise == INSTANCE LinkSession WITH
    status <- event,
    linked <- {i \in Items : accountRows[i] > 0}

ImplementsLinkSession == Promise!Spec
=============================================================================
