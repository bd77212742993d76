--------------------------- MODULE BankLinkStatus ---------------------------
(***************************************************************************)
(* One bank_link row and its three writers                                 *)
(* (bank-link.service.ts handleStatusWebhook, syncAccounts,                *)
(* backfillPlaidItemIds).                                                  *)
(*                                                                         *)
(* Each writer reads the whole row, awaits the provider or another table,  *)
(* sets its own columns on the entity it read, and saves that entity.      *)
(* TypeORM's save writes every column that differs from the database, so   *)
(* what the writer saves is the row as it was when it read it, plus its    *)
(* own columns.                                                            *)
(***************************************************************************)
EXTENDS Naturals, FiniteSets

CONSTANTS
    Handlers,    \* status webhook requests the server can have in progress
    Syncs,       \* syncAccounts calls: sync-all requests, update webhooks
    Backfills,   \* backfill-item-ids requests
    HasItemId,   \* does the row start with its Plaid item id?
    Window,      \* dedupe window of status webhooks
    MaxNow,      \* bound on the clock
    MaxWebhooks, \* bound on the status webhooks Plaid sends
    MaxInst,     \* bound on the changes of its institution info
    MaxFaults    \* bound on the failed queries outside syncAccounts

ASSUME StatusAssumption ==
    /\ Handlers \cap Syncs = {}
    /\ Handlers \cap Backfills = {}
    /\ Syncs \cap Backfills = {}
    /\ HasItemId \in BOOLEAN
    /\ Window \in Nat \ {0}
    /\ MaxNow \in Nat
    /\ MaxWebhooks \in Nat
    /\ MaxInst \in Nat
    /\ MaxFaults \in Nat

VARIABLES
    now,      \* the clock
    inst,     \* the item's institution info at Plaid
    hooks,    \* status webhooks sent, in order of their number
    acked,    \* those answered with a 2xx
    rows,     \* webhook_event rows of status webhooks
    row,      \* the bank_link row
    pc,       \* the await a writer is at
    hook,     \* the webhook a handler handles
    stamp,    \* the Date.now() it last took: for windowStart, then its row
    entity,   \* the entity a writer holds
    faults

vars == <<now, inst, hooks, acked, rows, row, pc, hook, stamp, entity,
          faults>>
plaidVars == <<inst, hooks>>
writerVars == <<pc, hook, stamp, entity>>

Writers == Handlers \cup Syncs \cup Backfills

Codes == {"ERROR", "LOGIN_REPAIRED", "PENDING_DISCONNECT", "PENDING_EXPIRATION"}

Statuses == {"OK", "ERROR", "PENDING_REAUTH"}

(* parseStatusWebhook *)
StatusOf(code) ==
    CASE code = "ERROR" -> "ERROR"
      [] code = "LOGIN_REPAIRED" -> "OK"
      [] OTHER -> "PENDING_REAUTH"

ShouldSync(code) == code = "LOGIN_REPAIRED"

BankLink == [status : Statuses, inst : 0..MaxInst, itemId : BOOLEAN]

Webhook == [code : Codes, n : 1..MaxWebhooks]

NoHook == [n |-> 0]

Steps == {"idle", "find", "insert", "saveStatus",
          "read", "getAccounts", "saveInst", "getItemId", "saveItemId"}

TypeOK ==
    /\ now \in 0..MaxNow
    /\ inst \in 0..MaxInst
    /\ hooks \subseteq Webhook /\ IsFiniteSet(hooks)
    /\ acked \subseteq hooks
    /\ rows \subseteq [code : Codes, completedAt : 0..MaxNow]
    /\ row \in BankLink
    /\ pc \in [Writers -> Steps]
    /\ hook \in [Handlers -> Webhook \cup {NoHook}]
    /\ \A h \in Handlers : pc[h] # "idle" => hook[h] \in hooks
    /\ stamp \in [Handlers -> 0..MaxNow]
    /\ entity \in [Writers -> BankLink]
    /\ faults \in 0..MaxFaults

InitRow == [status |-> "OK", inst |-> 0, itemId |-> HasItemId]

Init ==
    /\ now = 0
    /\ inst = 0
    /\ hooks = {}
    /\ acked = {}
    /\ rows = {}
    /\ row = InitRow
    /\ pc = [p \in Writers |-> "idle"]
    /\ hook = [h \in Handlers |-> NoHook]
    /\ stamp = [h \in Handlers |-> 0]
    /\ entity = [p \in Writers |-> InitRow]
    /\ faults = 0

-----------------------------------------------------------------------------
(* The item at Plaid.                                                      *)

HandlersIdle == \A h \in Handlers : pc[h] = "idle"

Tick ==
    /\ now < MaxNow
    /\ now' = now + 1
    /\ UNCHANGED <<plaidVars, acked, rows, row, writerVars, faults>>

(* Plaid tells that the item broke, was repaired or is about to break *)
Announce(code) ==
    /\ Cardinality(hooks) < MaxWebhooks
    /\ hooks' = hooks \cup {[code |-> code, n |-> Cardinality(hooks) + 1]}
    /\ UNCHANGED <<now, inst, acked, rows, row, writerVars, faults>>

ChangeInstitution ==
    /\ inst < MaxInst
    /\ inst' = inst + 1
    /\ UNCHANGED <<now, hooks, acked, rows, row, writerVars, faults>>

-----------------------------------------------------------------------------
(* The writers.                                                            *)

Goto(p, step) == pc' = [pc EXCEPT ![p] = step]

(* A writer forgets its entity when it is done with it. *)
Forget(p) == entity' = [entity EXCEPT ![p] = InitRow]

Read(p) == entity' = [entity EXCEPT ![p] = row]

Return(h) ==
    /\ Goto(h, "idle")
    /\ Forget(h)
    /\ hook' = [hook EXCEPT ![h] = NoHook]
    /\ stamp' = [stamp EXCEPT ![h] = 0]

Respond200(h) ==
    /\ Return(h)
    /\ acked' = acked \cup {hook[h]}

(* Mutant: finds the link though it has no item id *)
DeliverAnyLink(h, w) ==
    /\ w \in hooks
    /\ pc[h] = "idle"
    /\ Goto(h, "find")
    /\ Read(h)
    /\ hook' = [hook EXCEPT ![h] = w]
    /\ stamp' = [stamp EXCEPT ![h] = now]
    /\ UNCHANGED <<now, plaidVars, acked, rows, row, faults>>

(* handleStatusWebhook: findByPlaidItemId returns nothing, or the entity   *)
(* that will be saved three awaits later.                                  *)
Deliver(h, w) ==
    /\ w \in hooks
    /\ pc[h] = "idle"
    /\ IF row.itemId
         THEN /\ Goto(h, "find")
              /\ Read(h)
              /\ hook' = [hook EXCEPT ![h] = w]
              /\ stamp' = [stamp EXCEPT ![h] = now]
              /\ UNCHANGED acked
         ELSE acked' = acked \cup {w} /\ UNCHANGED writerVars
    /\ UNCHANGED <<now, plaidVars, rows, row, faults>>

Recent(h) ==
    \E r \in rows : r.code = hook[h].code /\ r.completedAt + Window > stamp[h]

FindRecent(h) ==
    /\ pc[h] = "find"
    /\ IF Recent(h)
         THEN Respond200(h)
         ELSE /\ Goto(h, "insert")
              /\ stamp' = [stamp EXCEPT ![h] = now]
              /\ UNCHANGED <<hook, entity, acked>>
    /\ UNCHANGED <<now, plaidVars, rows, row, faults>>

NewRow(h) == [code |-> hook[h].code, completedAt |-> stamp[h]]

InsertRow(h) ==
    /\ pc[h] = "insert"
    /\ IF NewRow(h) \in rows
         THEN Return(h) /\ UNCHANGED rows
         ELSE /\ rows' = rows \cup {NewRow(h)}
              /\ Goto(h, "saveStatus")
              /\ UNCHANGED <<hook, stamp, entity>>
    /\ UNCHANGED <<now, plaidVars, acked, row, faults>>

SaveStatus(h) ==
    /\ pc[h] = "saveStatus"
    /\ row' = [entity[h] EXCEPT !.status = StatusOf(hook[h].code)]
    /\ IF ShouldSync(hook[h].code)
         THEN Goto(h, "read") /\ UNCHANGED <<hook, stamp, entity, acked>>
         ELSE Respond200(h)
    /\ UNCHANGED <<now, plaidVars, rows, faults>>

(* A sync starts: sync-all, or an update webhook that was acquired *)
StartSync(s) ==
    /\ pc[s] = "idle"
    /\ Goto(s, "read")
    /\ UNCHANGED <<now, plaidVars, acked, rows, row, hook, stamp, entity, faults>>

(* syncAccounts returns or throws; a handler's request ends with it *)
SyncReturns(p) ==
    IF p \in Handlers
      THEN Respond200(p)
      ELSE Goto(p, "idle") /\ Forget(p) /\ UNCHANGED <<hook, stamp, acked>>

SyncThrows(p) ==
    /\ pc[p] \in {"read", "getAccounts", "saveInst"}
    /\ IF p \in Handlers
         THEN Return(p)
         ELSE Goto(p, "idle") /\ Forget(p) /\ UNCHANGED <<hook, stamp>>
    /\ UNCHANGED <<now, plaidVars, acked, rows, row, faults>>

(* A query of a status webhook throws: a 500, and an inserted row stays.   *)
(* A backfill logs a failed save.                                          *)
CallThrows(p) ==
    /\ \/ p \in Handlers /\ pc[p] \in {"find", "insert", "saveStatus"} /\ Return(p)
       \/ /\ p \in Backfills /\ pc[p] = "saveItemId"
          /\ Goto(p, "idle") /\ Forget(p) /\ UNCHANGED <<hook, stamp>>
    /\ faults < MaxFaults
    /\ faults' = faults + 1
    /\ UNCHANGED <<now, plaidVars, acked, rows, row>>

ReadLink(p) ==
    /\ pc[p] = "read"
    /\ Read(p)
    /\ Goto(p, "getAccounts")
    /\ UNCHANGED <<now, plaidVars, acked, rows, row, hook, stamp, faults>>

(* Mutant: the institution info is saved whether it changed or not *)
GetAccountsAlwaysSaves(p) ==
    /\ pc[p] = "getAccounts"
    /\ Goto(p, "saveInst")
    /\ entity' = [entity EXCEPT ![p].inst = inst]
    /\ UNCHANGED <<now, plaidVars, acked, rows, row, hook, stamp, faults>>

(* provider.getAccounts, and the test for changed institution info; the    *)
(* accounts themselves are AccountSync's.                                  *)
GetAccounts(p) ==
    /\ pc[p] = "getAccounts"
    /\ IF inst # entity[p].inst
         THEN /\ Goto(p, "saveInst")
              /\ entity' = [entity EXCEPT ![p].inst = inst]
              /\ UNCHANGED <<hook, stamp, acked>>
         ELSE SyncReturns(p)
    /\ UNCHANGED <<now, plaidVars, rows, row, faults>>

SaveInstitution(p) ==
    /\ pc[p] = "saveInst"
    /\ row' = entity[p]
    /\ SyncReturns(p)
    /\ UNCHANGED <<now, plaidVars, rows, faults>>

(* Mutant: takes every link *)
StartBackfillOfAll(b) ==
    /\ pc[b] = "idle"
    /\ Read(b)
    /\ Goto(b, "getItemId")
    /\ UNCHANGED <<now, plaidVars, acked, rows, row, hook, stamp, faults>>

(* backfillPlaidItemIds takes the links that have no item id yet *)
StartBackfill(b) ==
    /\ pc[b] = "idle"
    /\ ~row.itemId
    /\ Read(b)
    /\ Goto(b, "getItemId")
    /\ UNCHANGED <<now, plaidVars, acked, rows, row, hook, stamp, faults>>

GetItemId(b) ==
    /\ pc[b] = "getItemId"
    /\ \/ Goto(b, "saveItemId") /\ entity' = [entity EXCEPT ![b].itemId = TRUE]
       \/ Goto(b, "idle") /\ Forget(b)
    /\ UNCHANGED <<now, plaidVars, acked, rows, row, hook, stamp, faults>>

SaveItemId(b) ==
    /\ pc[b] = "saveItemId"
    /\ row' = entity[b]
    /\ Goto(b, "idle")
    /\ Forget(b)
    /\ UNCHANGED <<now, plaidVars, acked, rows, hook, stamp, faults>>

Next ==
    \/ Tick
    \/ ChangeInstitution
    \/ \E code \in Codes : Announce(code)
    \/ \E h \in Handlers :
          \/ \E w \in hooks : Deliver(h, w)
          \/ FindRecent(h)
          \/ InsertRow(h)
          \/ SaveStatus(h)
    \/ \E s \in Syncs : StartSync(s)
    \/ \E p \in Handlers \cup Syncs :
          ReadLink(p) \/ GetAccounts(p) \/ SaveInstitution(p) \/ SyncThrows(p)
    \/ \E b \in Backfills : StartBackfill(b) \/ GetItemId(b) \/ SaveItemId(b)
    \/ \E p \in Handlers \cup Backfills : CallThrows(p)

Spec == Init /\ [][Next]_vars

-----------------------------------------------------------------------------
(* Properties.                                                             *)

Latest(r) == \A q \in rows : q.completedAt <= r.completedAt

(* Between two status webhooks the row shows the status of the one that    *)
(* acquired its key last, whatever syncs and backfills have run meanwhile: *)
(* an acquired webhook is never left without effect.  Holds when status    *)
(* webhooks do not overlap, no save of one failed and the institution info *)
(* is stable.                                                              *)
LastAcquiredShows ==
    HandlersIdle /\ inst = 0 /\ faults = 0 =>
        IF rows = {}
          THEN row.status = "OK"
          ELSE \E r \in rows : Latest(r) /\ row.status = StatusOf(r.code)

(* The status changes only when a status webhook is processed, never as a  *)
(* side effect of a sync or a backfill.  Holds while the institution info  *)
(* has not changed and when backfills do not overlap.                      *)
StatusIsWebhooks ==
    [][inst = 0 /\ row'.status # row.status =>
          \E h \in Handlers : SaveStatus(h)]_vars

(* A stored item id, without which no webhook finds the link, is lost only *)
(* to a sync that read the row before the backfill and saves new           *)
(* institution info after it; status webhooks and backfills never lose it. *)
OnlySyncsLoseItemId ==
    [][row.itemId /\ ~row'.itemId =>
          \E p \in Handlers \cup Syncs : SaveInstitution(p)]_vars
=============================================================================
