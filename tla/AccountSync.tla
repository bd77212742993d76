----------------------------- MODULE AccountSync -----------------------------
(***************************************************************************)
(* Bank links and the accounts stored for them                             *)
(* (bank-link.service.ts createAccountsFromLinkCompletion, syncAccounts,   *)
(* upsertAccountsFromAPI; account.service.ts remove).                      *)
(*                                                                         *)
(* Linking saves a bank_link row and then inserts its accounts.  A sync of *)
(* a link (the hourly job, the sync-all request, an acquired webhook)      *)
(* fetches the accounts, looks their external ids up, updates the rows it  *)
(* found and inserts the others.  Every query is an await, there is no     *)
(* lock and no unique constraint on externalAccountId.                     *)
(***************************************************************************)
EXTENDS Naturals, FiniteSets

CONSTANTS
    Links,       \* bank links of a user that give access to the same accounts
    NoLink,      \* not a bank link
    Syncs,       \* syncAccounts calls the server can have in progress
    Ext,         \* external account ids
    Overlap,     \* may a call start while another is in progress?
    MaxVersion,  \* bound on the versions of an account's balance
    MaxFaults,   \* bound on the calls that throw
    MaxDeletes   \* bound on the accounts the user deletes

ASSUME AccountAssumption ==
    /\ Links \cap Syncs = {}
    /\ NoLink \notin Links
    /\ IsFiniteSet(Links) /\ IsFiniteSet(Syncs)
    /\ Overlap \in BOOLEAN
    /\ MaxVersion \in Nat
    /\ MaxFaults \in Nat
    /\ MaxDeletes \in Nat

VARIABLES
    balance,   \* the balance at the provider, by version; 0: no account yet
    links,     \* bank_link rows
    accounts,  \* account rows
    serial,    \* ids given to the rows of an external account so far
    pc,        \* the await a call is at
    target,    \* the link a sync is for
    got,       \* the balances a call fetched
    held,      \* the id of the row a sync found, 0: none
    emitted,   \* LinkedAccountEvents emitted by the last step of a call
    faults,
    deletes

callVars == <<pc, target, got, held>>
tableVars == <<links, accounts, serial, emitted>>
vars == <<balance, tableVars, callVars, faults, deletes>>

Calls == Links \cup Syncs

None == [e \in Ext |-> 0]

(* id: the uuid, numbered in the order they are made for an ext *)
Account == [ext : Ext, id : Nat \ {0}, link : Links, balance : 1..MaxVersion]

Event == [ext : Ext, id : Nat \ {0}, balance : 1..MaxVersion, new : BOOLEAN]

SameRow(a, b) == a.ext = b.ext /\ a.id = b.id

Rows(e) == {a \in accounts : a.ext = e}

TypeOK ==
    /\ balance \in [Ext -> 0..MaxVersion]
    /\ links \subseteq Links
    /\ accounts \subseteq Account
    /\ serial \in [Ext -> Nat]
    /\ pc \in [Calls -> {"idle", "fetch", "saveLink", "saveNew", "find", "save",
                         "done"}]
    /\ target \in [Syncs -> Links \cup {NoLink}]
    /\ \A s \in Syncs : pc[s] # "idle" => target[s] \in links
    /\ got \in [Calls -> [Ext -> 0..MaxVersion]]
    /\ held \in [Syncs -> [Ext -> Nat]]
    /\ emitted \subseteq Event
    /\ faults \in 0..MaxFaults
    /\ deletes \in 0..MaxDeletes

Init ==
    /\ balance = None
    /\ links = {}
    /\ accounts = {}
    /\ serial = None
    /\ pc = [c \in Calls |-> "idle"]
    /\ target = [s \in Syncs |-> NoLink]
    /\ got = [c \in Calls |-> None]
    /\ held = [s \in Syncs |-> None]
    /\ emitted = {}
    /\ faults = 0
    /\ deletes = 0

(* An account opens, or its balance changes, at the provider *)
Change(e) ==
    /\ balance[e] < MaxVersion
    /\ balance' = [balance EXCEPT ![e] = @ + 1]
    /\ UNCHANGED <<tableVars, callVars, faults, deletes>>

MayStart(c) ==
    /\ pc[c] = "idle"
    /\ Overlap \/ \A d \in Calls : pc[d] \in {"idle", "done"}

Goto(c, step) == pc' = [pc EXCEPT ![c] = step]

Finish(c, step) ==
    /\ Goto(c, step)
    /\ got' = [got EXCEPT ![c] = None]
    /\ IF c \in Syncs
         THEN /\ held' = [held EXCEPT ![c] = None]
              /\ target' = [target EXCEPT ![c] = NoLink]
         ELSE UNCHANGED <<held, target>>

Open == {e \in Ext : balance[e] > 0}

Fetched(c) == {e \in Ext : got[c][e] > 0}

-----------------------------------------------------------------------------
(* Linking: the fetch is part of the provider's initiateLinking or         *)
(* processLinkCompletion.                                                  *)

StartLink(l) ==
    /\ MayStart(l)
    /\ Open # {}
    /\ got' = [got EXCEPT ![l] = balance]
    /\ Goto(l, "saveLink")
    /\ UNCHANGED <<balance, tableVars, target, held, faults, deletes>>

SaveLink(l) ==
    /\ pc[l] = "saveLink"
    /\ links' = links \cup {l}
    /\ emitted' = {}
    /\ Goto(l, "saveNew")
    /\ UNCHANGED <<balance, accounts, serial, target, got, held, faults, deletes>>

(* A new row for every fetched account, looked up or not *)
NewAccount(c, l, e) ==
    [ext |-> e, id |-> serial[e] + 1, link |-> l, balance |-> got[c][e]]

EventOf(a, isNew) ==
    [ext |-> a.ext, id |-> a.id, balance |-> a.balance, new |-> isNew]

Insert(new) ==
    serial' = [e \in Ext |-> IF \E a \in new : a.ext = e THEN serial[e] + 1
                                                        ELSE serial[e]]

SaveNewAccounts(l) ==
    LET new == {NewAccount(l, l, e) : e \in Fetched(l)}
    IN  /\ pc[l] = "saveNew"
        /\ accounts' = accounts \cup new
        /\ Insert(new)
        /\ emitted' = {EventOf(a, TRUE) : a \in new}
        /\ Finish(l, "done")
        /\ UNCHANGED <<balance, links, faults, deletes>>

-----------------------------------------------------------------------------
(* Syncing.                                                                *)

StartSync(s, l) ==
    /\ l \in links
    /\ MayStart(s)
    /\ target' = [target EXCEPT ![s] = l]
    /\ Goto(s, "fetch")
    /\ UNCHANGED <<balance, tableVars, got, held, faults, deletes>>

(* Mutant: the balances of the first fetch, kept in a cache *)
FetchCached(s) ==
    /\ pc[s] = "fetch"
    /\ got' = [got EXCEPT ![s] = [e \in Ext |-> IF balance[e] > 0 THEN 1 ELSE 0]]
    /\ Goto(s, "find")
    /\ UNCHANGED <<balance, tableVars, target, held, faults, deletes>>

(* provider.getAccounts.  No account: nothing to do. *)
FetchAccounts(s) ==
    /\ pc[s] = "fetch"
    /\ IF Open = {}
         THEN Finish(s, "idle")
         ELSE /\ Goto(s, "find")
              /\ got' = [got EXCEPT ![s] = balance]
              /\ UNCHANGED <<target, held>>
    /\ UNCHANGED <<balance, tableVars, faults, deletes>>

(* The accounts with the fetched external ids, whatever their link.  Of    *)
(* several with the same id the map keeps the last the query returned,     *)
(* which has no order.                                                     *)
FindExisting(s) ==
    /\ pc[s] = "find"
    /\ \E h \in [Ext -> {0} \cup {a.id : a \in accounts}] :
          /\ \A e \in Ext :
                IF e \in Fetched(s) /\ Rows(e) # {}
                  THEN \E a \in Rows(e) : h[e] = a.id
                  ELSE h[e] = 0
          /\ held' = [held EXCEPT ![s] = h]
    /\ Goto(s, "save")
    /\ UNCHANGED <<balance, tableVars, target, got, faults, deletes>>

(* The row a sync found, with the fetched columns and the sync's link *)
Updated(s, e) ==
    [ext |-> e, id |-> held[s][e], link |-> target[s], balance |-> got[s][e]]

(* Mutant: updates the rows it found and inserts none *)
SaveExisting(s) ==
    LET upd == {Updated(s, e) : e \in {x \in Fetched(s) : held[s][x] # 0}}
    IN  /\ pc[s] = "save"
        /\ accounts' = upd \cup
              {a \in accounts : \A u \in upd : ~SameRow(a, u)}
        /\ emitted' = {EventOf(a, FALSE) : a \in upd}
        /\ Finish(s, "idle")
        /\ UNCHANGED <<balance, links, serial, faults, deletes>>

(* Mutant: inserts a row for every fetched account *)
SaveAllNew(s) ==
    LET new == {NewAccount(s, target[s], e) : e \in Fetched(s)}
    IN  /\ pc[s] = "save"
        /\ accounts' = accounts \cup new
        /\ Insert(new)
        /\ emitted' = {EventOf(a, TRUE) : a \in new}
        /\ Finish(s, "idle")
        /\ UNCHANGED <<balance, links, faults, deletes>>

(* One transaction.  An entity whose row is gone is inserted again. *)
SaveAccounts(s) ==
    LET found == {e \in Fetched(s) : held[s][e] # 0}
        upd == {Updated(s, e) : e \in found}
        new == {NewAccount(s, target[s], e) : e \in Fetched(s) \ found}
    IN  /\ pc[s] = "save"
        /\ accounts' = upd \cup new \cup
              {a \in accounts : \A u \in upd : ~SameRow(a, u)}
        /\ Insert(new)
        /\ emitted' = {EventOf(a, TRUE) : a \in new} \cup
                      {EventOf(a, FALSE) : a \in upd}
        /\ Finish(s, "idle")
        /\ UNCHANGED <<balance, links, faults, deletes>>

-----------------------------------------------------------------------------
(* Any await throws, or the process stops in it.  A linking call that      *)
(* fails is not resumed; what it saved stays.                              *)
Throws(c) ==
    /\ pc[c] \notin {"idle", "done"}
    /\ faults < MaxFaults
    /\ faults' = faults + 1
    /\ Finish(c, IF c \in Links THEN "done" ELSE "idle")
    /\ UNCHANGED <<balance, tableVars, deletes>>

(* DELETE /account/:id *)
DeleteAccount(a) ==
    /\ deletes < MaxDeletes
    /\ deletes' = deletes + 1
    /\ accounts' = accounts \ {a}
    /\ emitted' = {}
    /\ UNCHANGED <<balance, links, serial, callVars, faults>>

SyncStep(s) == FetchAccounts(s) \/ FindExisting(s) \/ SaveAccounts(s)

Next ==
    \/ \E e \in Ext : Change(e)
    \/ \E l \in Links : StartLink(l) \/ SaveLink(l) \/ SaveNewAccounts(l)
    \/ \E s \in Syncs : SyncStep(s) \/ \E l \in Links : StartSync(s, l)
    \/ \E c \in Calls : Throws(c)
    \/ \E a \in accounts : DeleteAccount(a)

Spec == Init /\ [][Next]_vars

(* The jobs of bank-link.scheduled.ts start a sync of every link again and *)
(* again, and a call that is in progress goes on.                          *)
FairSpec ==
    /\ Spec
    /\ \A s \in Syncs : WF_vars(SyncStep(s))
    /\ \A l \in Links :
          /\ SF_vars(\E s \in Syncs : StartSync(s, l))
          /\ WF_vars(SaveLink(l) \/ SaveNewAccounts(l))

-----------------------------------------------------------------------------
(* Properties.                                                             *)

(* Upserting "updates existing accounts or creates new ones"               *)
(* (bank-link.service.ts:600): an external account has one row.            *)
UniqueAccounts == \A e \in Ext : Cardinality(Rows(e)) <= 1

(* However calls and deletions overlap, the duplicates are bounded: each   *)
(* linking call and each sync in progress can add one, and syncs that come *)
(* later find a row.                                                       *)
CopiesBounded == \A e \in Ext : Cardinality(Rows(e)) <= Cardinality(Calls)

(* With calls that do not overlap, no row goes back to an older balance. *)
NoRollback ==
    [][\A a \in accounts, b \in accounts' :
          SameRow(a, b) => a.balance <= b.balance]_vars

(* Once a link is saved, even when the linking call failed before it       *)
(* stored the accounts or a sync overlapped it, every account the provider *)
(* has gets a row with its balance.                                        *)
BalancesCatchUp ==
    links # {} ~>
        \A e \in Open : \E a \in Rows(e) : a.balance = balance[e]
=============================================================================
