--------------------------- MODULE BalanceSnapshots ---------------------------
(***************************************************************************)
(* AccountSync composed with the listener that records balances            *)
(* (balance-snapshot.listener.ts, balance-snapshot.service.ts upsert).     *)
(*                                                                         *)
(* Every account a call saves is an event.  Emitting it starts a listener  *)
(* in the same step and does not wait for it: the listener reads the       *)
(* user's timezone, looks up the account's snapshot of the day and updates *)
(* it or inserts one.  (accountId, snapshotDate) is unique and accountId   *)
(* is a foreign key; the listener swallows every error.                    *)
(***************************************************************************)
EXTENDS AccountSync

CONSTANTS
    Listeners,   \* bound on the listeners in progress
    MaxDay,      \* bound on the days
    MaxLosses,   \* bound on the listeners that fail
    Drained      \* do calls start only when no listener is in progress?

ASSUME SnapshotAssumption ==
    /\ IsFiniteSet(Listeners)
    /\ MaxDay \in Nat
    /\ MaxLosses \in Nat
    /\ Drained \in BOOLEAN

VARIABLES
    today,      \* the date in the user's timezone
    snapshots,  \* balance_snapshot rows
    step,       \* the await a listener is at
    event,      \* the event it handles
    date,       \* its snapshotDate
    existing,   \* the snapshots it found: none or one
    losses

listenerVars == <<step, event, date, existing>>
snapshotVars == <<today, snapshots, listenerVars, losses>>
allVars == <<vars, snapshotVars>>

NoEvent == [ext |-> "none"]

Snapshot == [ext : Ext, id : Nat \ {0}, day : 0..MaxDay, balance : 1..MaxVersion]

SnapshotTypeOK ==
    /\ TypeOK
    /\ today \in 0..MaxDay
    /\ snapshots \subseteq Snapshot
    /\ \A p, q \in snapshots : SameRow(p, q) /\ p.day = q.day => p = q
    /\ step \in [Listeners -> {"idle", "timezone", "find", "save"}]
    /\ event \in [Listeners -> Event \cup {NoEvent}]
    /\ \A n \in Listeners : step[n] # "idle" => event[n] \in Event
    /\ date \in [Listeners -> 0..MaxDay]
    /\ existing \in [Listeners -> SUBSET Snapshot]
    /\ losses \in 0..MaxLosses

SnapshotInit ==
    /\ Init
    /\ today = 0
    /\ snapshots = {}
    /\ step = [n \in Listeners |-> "idle"]
    /\ event = [n \in Listeners |-> NoEvent]
    /\ date = [n \in Listeners |-> 0]
    /\ existing = [n \in Listeners |-> {}]
    /\ losses = 0

Free == {n \in Listeners : step[n] = "idle"}

ListenersIdle == Free = Listeners

(* eventEmitter.emit for every saved account: the listeners run up to      *)
(* their first await.                                                      *)
Emit ==
    \E f \in [emitted' -> Free] :
        /\ \A x, y \in emitted' : f[x] = f[y] => x = y
        /\ step' = [n \in Listeners |->
              IF \E x \in emitted' : f[x] = n THEN "timezone" ELSE step[n]]
        /\ event' = [n \in Listeners |->
              IF \E x \in emitted' : f[x] = n
                THEN CHOOSE x \in emitted' : f[x] = n ELSE event[n]]
        /\ UNCHANGED <<today, snapshots, date, existing, losses>>

(* A step of AccountSync, with the listeners it starts *)
Save ==
    /\ \/ \E l \in Links : SaveNewAccounts(l)
       \/ \E s \in Syncs : SaveAccounts(s)
    /\ Emit

Start ==
    /\ \/ \E l \in Links : StartLink(l)
       \/ \E s \in Syncs, l \in Links : StartSync(s, l)
    /\ Drained => ListenersIdle
    /\ UNCHANGED snapshotVars

Other ==
    /\ \/ \E e \in Ext : Change(e)
       \/ \E l \in Links : SaveLink(l)
       \/ \E s \in Syncs : FetchAccounts(s) \/ FindExisting(s)
       \/ \E c \in Calls : Throws(c)
    /\ UNCHANGED snapshotVars

(* The foreign key refuses to delete an account that has a snapshot. *)
Delete ==
    /\ \E a \in accounts :
          /\ \A p \in snapshots : ~SameRow(p, a)
          /\ DeleteAccount(a)
    /\ UNCHANGED snapshotVars

Midnight ==
    /\ today < MaxDay
    /\ today' = today + 1
    /\ UNCHANGED <<vars, snapshots, listenerVars, losses>>

-----------------------------------------------------------------------------
(* The listener.                                                           *)

Continue(n, next) == step' = [step EXCEPT ![n] = next]

Stop(n) ==
    /\ Continue(n, "idle")
    /\ event' = [event EXCEPT ![n] = NoEvent]
    /\ date' = [date EXCEPT ![n] = 0]
    /\ existing' = [existing EXCEPT ![n] = {}]

(* getSnapshotDate: the date when the user's timezone has been read *)
GetSnapshotDate(n) ==
    /\ step[n] = "timezone"
    /\ date' = [date EXCEPT ![n] = today]
    /\ Continue(n, "find")
    /\ UNCHANGED <<vars, today, snapshots, event, existing, losses>>

(* Mutant: finds the latest snapshot of the account, of whatever day *)
FindLatest(n) ==
    /\ step[n] = "find"
    /\ existing' = [existing EXCEPT ![n] =
          {p \in snapshots : SameRow(p, event[n]) /\
             \A q \in snapshots : SameRow(p, q) => q.day <= p.day}]
    /\ Continue(n, "save")
    /\ UNCHANGED <<vars, today, snapshots, event, date, losses>>

FindSnapshot(n) ==
    /\ step[n] = "find"
    /\ existing' = [existing EXCEPT ![n] =
          {p \in snapshots : SameRow(p, event[n]) /\ p.day = date[n]}]
    /\ Continue(n, "save")
    /\ UNCHANGED <<vars, today, snapshots, event, date, losses>>

SnapshotOf(n) ==
    [ext |-> event[n].ext, id |-> event[n].id, day |-> date[n],
     balance |-> event[n].balance]

(* Neither the unique constraint nor the foreign key refuses the insert. *)
Insertable(p) ==
    /\ \A q \in snapshots : ~(SameRow(p, q) /\ p.day = q.day)
    /\ \E a \in accounts : SameRow(a, p)

(* Mutant: leaves a snapshot it found as it is *)
SaveIfNew(n) ==
    /\ step[n] = "save"
    /\ snapshots' = snapshots \cup
          {p \in {SnapshotOf(n)} : existing[n] = {} /\ Insertable(p)}
    /\ Stop(n)
    /\ UNCHANGED <<vars, today, losses>>

(* Mutant: inserts one whether it found one or not, in a table without the *)
(* unique constraint                                                       *)
SaveAnother(n) ==
    /\ step[n] = "save"
    /\ snapshots' = snapshots \cup {SnapshotOf(n)}
    /\ Stop(n)
    /\ UNCHANGED <<vars, today, losses>>

(* Updates the balance of the snapshot it found, or inserts one *)
SaveSnapshot(n) ==
    /\ step[n] = "save"
    /\ \/ \E p \in existing[n] :
             snapshots' = {[p EXCEPT !.balance = event[n].balance]} \cup
                {q \in snapshots : ~(SameRow(p, q) /\ p.day = q.day)}
       \/ /\ existing[n] = {}
          /\ snapshots' = snapshots \cup {p \in {SnapshotOf(n)} : Insertable(p)}
    /\ Stop(n)
    /\ UNCHANGED <<vars, today, losses>>

(* A query of the listener fails, or the process stops: the event is lost. *)
Lose(n) ==
    /\ step[n] # "idle"
    /\ losses < MaxLosses
    /\ losses' = losses + 1
    /\ Stop(n)
    /\ UNCHANGED <<vars, today, snapshots>>

ListenerStep(n) == GetSnapshotDate(n) \/ FindSnapshot(n) \/ SaveSnapshot(n)

SnapshotNext ==
    \/ Save
    \/ Start
    \/ Other
    \/ Delete
    \/ Midnight
    \/ \E n \in Listeners : ListenerStep(n) \/ Lose(n)

SnapshotSpec == SnapshotInit /\ [][SnapshotNext]_allVars

-----------------------------------------------------------------------------
(* Properties.                                                             *)

Newest(p) ==
    \A q \in snapshots : SameRow(p, q) => q.day <= p.day

(* When calls start only after the listeners of earlier ones, the newest   *)
(* snapshot of an account has the account's balance once the listeners are *)
(* done and none has failed: no event is dropped, or applied out of order, *)
(* or to another day.                                                      *)
NewestIsCurrent ==
    ListenersIdle /\ losses = 0 =>
        \A a \in accounts : \E p \in snapshots :
            SameRow(p, a) /\ Newest(p) /\ p.balance = a.balance

(* The history is fixed: the snapshot of a past day changes only through a *)
(* listener that took its date before midnight.                            *)
PastStays ==
    [][\A p \in snapshots :
          /\ p.day < today
          /\ \A n \in Listeners :
                step[n] # "timezone" /\ step[n] # "idle" => date[n] # p.day
          => p \in snapshots']_allVars
=============================================================================
