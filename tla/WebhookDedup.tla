---------------------------- MODULE WebhookDedup ----------------------------
(***************************************************************************)
(* Update webhooks and their time-based deduplication                      *)
(* (bank-link.service.ts handleUpdateWebhook, webhook-event.service.ts     *)
(* tryAcquireWebhook).                                                     *)
(*                                                                         *)
(* When the data of an item changes, Plaid sends a DEFAULT_UPDATE webhook  *)
(* for the item and a type (TRANSACTIONS, HOLDINGS) and repeats it until   *)
(* it is answered with a 2xx.  A request looks for a webhook_event row of  *)
(* the same key younger than the window, inserts one if there is none, and *)
(* only then syncs the item's accounts.  The clock counts milliseconds in  *)
(* the program; here it counts units in which the window is a few.         *)
(***************************************************************************)
EXTENDS Naturals, FiniteSets

CONSTANTS
    Items,       \* Plaid items that have a bank link
    Unknown,     \* items that have none
    Types,       \* webhook types that announce an update
    Handlers,    \* webhook requests the server can have in progress
    Window,      \* dedupeWindowMs
    MaxNow,      \* bound on the clock
    MaxChanges,  \* bound on the versions of an item's data
    MaxFaults    \* bound on failed syncs and crashes

ASSUME DedupAssumption ==
    /\ Items \cap Unknown = {}
    /\ Window \in Nat \ {0}
    /\ MaxNow \in Nat
    /\ MaxChanges \in Nat
    /\ MaxFaults \in Nat

VARIABLES
    now,        \* Date.now()
    avail,      \* version of an item's data at Plaid
    synced,     \* version the accounts table holds
    hooks,      \* webhooks Plaid has sent
    acked,      \* those it has a 2xx for
    rows,       \* webhook_event rows made by tryAcquireWebhook
    pc,         \* the await a handler is at
    hook,       \* the webhook it handles
    stamp,      \* the Date.now() it last took: for windowStart, then its row
    fetched,    \* the version its sync got from the provider
    faults

plaidVars == <<avail, hooks>>
handlerVars == <<pc, hook, stamp, fetched>>
vars == <<now, avail, synced, hooks, acked, rows, pc, hook, stamp,
          fetched, faults>>

Webhook == [item : Items \cup Unknown, type : Types, ver : Nat, at : Nat]

NoHook == [item |-> "none"]

(* webhookId is the key and the timestamp; completedAt is that timestamp,  *)
(* createdAt the time of the insert.                                       *)
Row == [item : Items, type : Types, completedAt : Nat, createdAt : Nat]

SameKey(row, w) == row.item = w.item /\ row.type = w.type

TypeOK ==
    /\ now \in 0..MaxNow
    /\ avail \in [Items \cup Unknown -> 0..MaxChanges]
    /\ synced \in [Items -> 0..MaxChanges]
    /\ hooks \subseteq Webhook
    /\ acked \subseteq hooks
    /\ rows \subseteq Row
    /\ pc \in [Handlers -> {"idle", "find", "insert", "fetch", "save"}]
    /\ hook \in [Handlers -> Webhook \cup {NoHook}]
    /\ \A h \in Handlers : pc[h] # "idle" => hook[h] \in hooks
    /\ \A h \in Handlers : pc[h] \notin {"idle", "find"} =>
          hook[h].item \in Items
    /\ stamp \in [Handlers -> 0..MaxNow]
    /\ fetched \in [Handlers -> 0..MaxChanges]
    /\ faults \in 0..MaxFaults

Init ==
    /\ now = 0
    /\ avail = [i \in Items \cup Unknown |-> 0]
    /\ synced = [i \in Items |-> 0]
    /\ hooks = {}
    /\ acked = {}
    /\ rows = {}
    /\ pc = [h \in Handlers |-> "idle"]
    /\ hook = [h \in Handlers |-> NoHook]
    /\ stamp = [h \in Handlers |-> 0]
    /\ fetched = [h \in Handlers |-> 0]
    /\ faults = 0

Tick ==
    /\ now < MaxNow
    /\ now' = now + 1
    /\ UNCHANGED <<plaidVars, synced, acked, rows, handlerVars, faults>>

(* The data of an item changes at the provider, which sends a webhook *)
Change(i, ty) ==
    /\ avail[i] < MaxChanges
    /\ avail' = [avail EXCEPT ![i] = @ + 1]
    /\ hooks' = hooks \cup
          {[item |-> i, type |-> ty, ver |-> avail[i] + 1, at |-> now]}
    /\ UNCHANGED <<now, synced, acked, rows, handlerVars, faults>>

Goto(h, step) == pc' = [pc EXCEPT ![h] = step]

Return(h) ==
    /\ Goto(h, "idle")
    /\ hook' = [hook EXCEPT ![h] = NoHook]
    /\ stamp' = [stamp EXCEPT ![h] = 0]
    /\ fetched' = [fetched EXCEPT ![h] = 0]

Respond200(h) ==
    /\ Return(h)
    /\ acked' = acked \cup {hook[h]}

Fault ==
    /\ faults < MaxFaults
    /\ faults' = faults + 1

(* handleUpdateWebhook up to the lookup: findByPlaidItemId, and the start  *)
(* of tryAcquireWebhook, which fixes windowStart before its first await.   *)
Deliver(h, w) ==
    /\ w \in hooks
    /\ pc[h] = "idle"
    /\ Goto(h, "find")
    /\ hook' = [hook EXCEPT ![h] = w]
    /\ stamp' = [stamp EXCEPT ![h] = now]
    /\ UNCHANGED <<now, plaidVars, synced, acked, rows, fetched, faults>>

(* Mutants: the window includes its first instant; it is compared the      *)
(* wrong way round.                                                        *)
RecentOrEqual(row, h) == row.completedAt + Window >= stamp[h]
OlderThanWindow(row, h) == row.completedAt + Window <= stamp[h]

(* completedAt > windowStart *)
Recent(row, h) == row.completedAt + Window > stamp[h]

(* No recent row: the row's timestamp is taken, and the insert begins. *)
Acquire(h) ==
    /\ Goto(h, "insert")
    /\ stamp' = [stamp EXCEPT ![h] = now]
    /\ UNCHANGED <<hook, fetched, acked>>

(* No bank link for the item, or a row in the window: nothing to do *)
FindRecent(h) ==
    /\ pc[h] = "find"
    /\ IF \/ hook[h].item \in Unknown
          \/ \E row \in rows : SameKey(row, hook[h]) /\ Recent(row, h)
         THEN Respond200(h)
         ELSE Acquire(h)
    /\ UNCHANGED <<now, plaidVars, synced, rows, faults>>

NewRow(h) == [item |-> hook[h].item, type |-> hook[h].type,
              completedAt |-> stamp[h], createdAt |-> now]

(* Inserts the row, already COMPLETED.  webhookId is unique: an insert of  *)
(* the same key and timestamp throws, and the request fails.               *)
InsertRow(h) ==
    /\ pc[h] = "insert"
    /\ IF \E row \in rows :
             SameKey(row, hook[h]) /\ row.completedAt = stamp[h]
         THEN Return(h) /\ UNCHANGED rows
         ELSE /\ rows' = rows \cup {NewRow(h)}
              /\ Goto(h, "fetch")
              /\ UNCHANGED <<hook, stamp, fetched>>
    /\ UNCHANGED <<now, plaidVars, synced, acked, faults>>

(* syncAccounts: fetch from the provider, then store *)
FetchAccounts(h) ==
    /\ pc[h] = "fetch"
    /\ fetched' = [fetched EXCEPT ![h] = avail[hook[h].item]]
    /\ Goto(h, "save")
    /\ UNCHANGED <<now, plaidVars, synced, acked, rows, hook, stamp, faults>>

SaveAccounts(h) ==
    /\ pc[h] = "save"
    /\ synced' = [synced EXCEPT ![hook[h].item] = fetched[h]]
    /\ Respond200(h)
    /\ UNCHANGED <<now, plaidVars, rows, faults>>

(* Any call throws: a 500.  The row, if inserted, stays. *)
RequestThrows(h) ==
    /\ pc[h] # "idle"
    /\ Fault
    /\ Return(h)
    /\ UNCHANGED <<now, plaidVars, synced, acked, rows>>

HandlerStep(h) ==
    \/ FindRecent(h)
    \/ InsertRow(h)
    \/ FetchAccounts(h)
    \/ SaveAccounts(h)
    \/ RequestThrows(h)

Next ==
    \/ Tick
    \/ \E i \in Items \cup Unknown, ty \in Types : Change(i, ty)
    \/ \E h \in Handlers : HandlerStep(h) \/ \E w \in hooks : Deliver(h, w)

Spec == Init /\ [][Next]_vars

-----------------------------------------------------------------------------
(* Properties.                                                             *)

Close(r, s) ==
    /\ r.completedAt <= s.completedAt
    /\ s.completedAt < r.completedAt + Window

(* The check and the insert are two awaits, so overlapping requests can    *)
(* all pass the check.  But a request about to insert its row for a key    *)
(* that has another row in its window was overtaken: the other row was     *)
(* inserted after its lookup.  No other duplicate gets through.            *)
OnlyOverlapsDuplicate ==
    \A h \in Handlers : pc[h] = "insert" =>
        \A r \in rows :
            SameKey(r, hook[h]) /\ r.completedAt + Window > stamp[h]
                => r.createdAt >= stamp[h]

(* tryAcquireWebhook is said to acquire a "processing lock": no two        *)
(* acquisitions of a key in one window.                                    *)
Spaced ==
    \A r, s \in rows : r # s /\ SameKey(r, s) => ~Close(r, s)

Quiet == hooks = acked /\ \A h \in Handlers : pc[h] = "idle"

DroppedBy(w, r) ==
    /\ SameKey(r, w)
    /\ r.completedAt <= w.at
    /\ w.at < r.completedAt + Window

(* The row was there before the sync, and the sync failed: what Plaid      *)
(* sends again is taken for a duplicate.                                   *)
FailedAfterRow(w, r) == faults > 0 /\ SameKey(r, w) /\ r.completedAt >= w.at

(* When every webhook is answered and nothing runs, the accounts are the   *)
(* provider's latest; or the latest change came within a window after a    *)
(* row of its key; or a call failed after the row of that change.  No      *)
(* other change is lost, not even one exactly a window after a row, one    *)
(* that was handled late, or one whose request failed before its row was   *)
(* inserted.  Holds when requests do not overlap.                          *)
OnlyCloseChangesDropped ==
    Quiet =>
        \A i \in Items :
            \/ synced[i] = avail[i]
            \/ \E w \in hooks, r \in rows :
                  /\ w.item = i /\ w.ver = avail[i]
                  /\ DroppedBy(w, r) \/ FailedAfterRow(w, r)
=============================================================================
