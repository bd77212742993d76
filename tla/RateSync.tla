------------------------------ MODULE RateSync ------------------------------
(***************************************************************************)
(* How exchange rates get into the database                                *)
(* (currency-exchange/currency-backfill.service.ts with the listener, the  *)
(* cron jobs and CurrencyExchangeService.upsertRate).                      *)
(*                                                                         *)
(* Four kinds of task run concurrently: the rate of a new snapshot is      *)
(* ensured, a user's rates are backfilled when the currency setting        *)
(* starts, and two cron jobs fetch today's fiat and crypto rates.  Each   *)
(* of their awaits is a step: users, accounts or snapshots are read, then  *)
(* the keys of the stored rates, then a provider is asked, and every       *)
(* answered rate is looked up and saved.  Days are those of one timezone.  *)
(***************************************************************************)
EXTENDS CurrencyPairs, FiniteSets

CONSTANTS
    Users,
    Tasks,       \* bound on the tasks in progress
    MaxDay,      \* bound on the days
    MaxStarts,   \* bound on the tasks started
    MaxFaults    \* bound on failures, and on answers that leave days out

ASSUME RateAssumption ==
    /\ MaxDay \in Nat
    /\ MaxStarts \in Nat
    /\ MaxFaults \in Nat

VARIABLES
    today,
    currency,   \* users' settings.currency
    snapshots,  \* balance_snapshot rows; their accounts are Held
    rates,      \* exchange_rate rows
    task,       \* the tasks
    starts,
    faults,
    missed      \* history: row keys a task failed to get or to store

vars == <<today, currency, snapshots, rates, task, starts, faults, missed>>

Days == 0..MaxDay

Price == Currency \X Currency

Snapshot == [user : Users, currency : Currency, day : Days]

(* (baseCurrency, targetCurrency, rateDate) is unique.                     *)
RowKey == [pair : Price, day : Days]
Row == [pair : Price, day : Days, price : Price]

KeyOf(row) == [pair |-> row.pair, day |-> row.day]
Stored == {KeyOf(row) : row \in rates}

(* One request for rates: from a day on, of one base in several targets    *)
Job == [base : Currency, targets : SUBSET Currency, from : Days]

(* A rate as the provider answers it, not yet normalised                   *)
Quote == [base : Currency, target : Currency, day : Days]
QuoteKey(q) == [pair |-> Canonical(q.base, q.target), day |-> q.day]

Kinds == {"ensure", "backfill", "fiat", "crypto"}
Points == {"idle", "user", "owned", "keys", "fetch", "find", "save"}

Task == [
    kind  : Kinds,
    pc    : Points,
    who   : SUBSET Users,         \* the users it works for
    pref  : [Users -> Currency],  \* their currencies, as it read them
    cur   : Currency,             \* ensure: the snapshot's currency
    day   : Days,                 \* ensure: its date; otherwise today
    jobs  : SUBSET Job,           \* jobs whose keys are still to be read
    ready : SUBSET Job,           \* jobs whose rates are still to be fetched
    keys  : SUBSET (Currency \X Days),  \* existingKeys: targetCurrency:date
    asked : SUBSET Price,         \* history: the pairs a cron job found
    got   : SUBSET Quote,         \* answered rates still to be stored
    item  : SUBSET Quote,         \* the one upsertRate has looked up
    found : BOOLEAN]              \* did upsertRate find the row?

(* A task has something to do at the await it is at.                       *)
HasWork(k) ==
    /\ k.pc = "keys" => k.jobs # {}
    /\ k.pc = "fetch" => k.ready # {}
    /\ k.pc \in {"find", "save"} => k.got # {}
    /\ k.pc = "save" => k.item # {} /\ k.item \subseteq k.got

TypeOK ==
    /\ today \in Days
    /\ currency \in [Users -> Currency]
    /\ snapshots \subseteq Snapshot
    /\ rates \subseteq Row
    /\ \A r, s \in rates : KeyOf(r) = KeyOf(s) => r = s
    /\ task \in [Tasks -> Task]
    /\ \A t \in Tasks : HasWork(task[t])
    /\ starts \in 0..MaxStarts
    /\ faults \in 0..MaxFaults
    /\ missed \subseteq RowKey

Idle == [kind |-> "ensure", pc |-> "idle", who |-> {},
         pref |-> [u \in Users |-> USD], cur |-> USD, day |-> 0, jobs |-> {},
         ready |-> {}, keys |-> {}, asked |-> {}, got |-> {}, item |-> {},
         found |-> FALSE]

Init ==
    /\ today = 0
    /\ currency \in [Users -> Currency]
    /\ snapshots = {}
    /\ rates = {}
    /\ task = [t \in Tasks |-> Idle]
    /\ starts = 0
    /\ faults = 0
    /\ missed = {}

(* The rate a snapshot needs for its user                                  *)
Need(s) == [pair |-> Canonical(s.currency, currency[s.user]), day |-> s.day]

Foreign == {s \in snapshots : s.currency # currency[s.user]}

(* The currencies of a user's accounts: an account has a snapshot.         *)
Held(u) == {s.currency : s \in {x \in snapshots : x.user = u}}

-----------------------------------------------------------------------------
(* Starting a task: the callers do not wait for it.                        *)

Begin(t, kind, who, cur, day) ==
    /\ task[t].pc = "idle"
    /\ starts < MaxStarts
    /\ starts' = starts + 1
    /\ task' = [task EXCEPT ![t] =
          [Idle EXCEPT !.kind = kind, !.pc = "user", !.who = who,
                       !.cur = cur, !.day = day]]

(* A snapshot of the day is created or updated: handleBalanceSnapshotChanged *)
TakeSnapshot(u, c) ==
    /\ snapshots' = snapshots \cup {[user |-> u, currency |-> c, day |-> today]}
    /\ \E t \in Tasks : Begin(t, "ensure", {u}, c, today)
    /\ UNCHANGED <<today, currency, rates, faults, missed>>

(* Mutant: the listener of the settings does not backfill.                 *)
ChangeUnnoticed(u, c) ==
    /\ c # currency[u]
    /\ currency' = [currency EXCEPT ![u] = c]
    /\ UNCHANGED <<today, snapshots, rates, task, starts, faults, missed>>

(* settings.currency is saved, and handleUserSettingsUpdated backfills.    *)
ChangeCurrency(u, c) ==
    /\ c # currency[u]
    /\ currency' = [currency EXCEPT ![u] = c]
    /\ \E t \in Tasks : Begin(t, "backfill", {u}, USD, 0)
    /\ UNCHANGED <<today, snapshots, rates, faults, missed>>

Cron ==
    /\ \E t \in Tasks, kind \in {"fiat", "crypto"} :
          Begin(t, kind, Users, USD, today)
    /\ UNCHANGED <<today, currency, snapshots, rates, faults, missed>>

Midnight ==
    /\ today < MaxDay
    /\ today' = today + 1
    /\ UNCHANGED <<currency, snapshots, rates, task, starts, faults, missed>>

-----------------------------------------------------------------------------
(* The steps of a task.                                                    *)

Become(t, record) == task' = [task EXCEPT ![t] = record]

(* Goes on with the jobs left, or ends                                     *)
Onward(k) ==
    IF k.ready # {} THEN [k EXCEPT !.pc = "fetch"]
    ELSE IF k.jobs # {} THEN [k EXCEPT !.pc = "keys"]
    ELSE Idle

(* Every kind of task first reads the users' settings.                     *)
Read(k) ==
    [k EXCEPT !.pref = [u \in Users |->
        IF u \in k.who THEN currency[u] ELSE k.pref[u]]]

ReadUser(t) ==
    LET k == task[t] IN
    /\ k.pc = "user" /\ k.kind # "ensure"
    /\ Become(t, [Read(k) EXCEPT !.pc = "owned"])
    /\ UNCHANGED <<today, currency, snapshots, rates, starts, faults, missed>>

(* ensureRateForSnapshot: of a snapshot in the user's currency no rate     *)
EnsureRate(t) ==
    LET k == task[t] IN
    /\ k.pc = "user" /\ k.kind = "ensure"
    /\ \E u \in k.who :
          LET job == [base |-> k.cur, targets |-> {currency[u]}, from |-> k.day]
          IN  Become(t, Onward([Read(k) EXCEPT !.jobs =
                 IF currency[u] # k.cur THEN {job} ELSE {}]))
    /\ UNCHANGED <<today, currency, snapshots, rates, starts, faults, missed>>

(* The pairs to track, grouped by base: one job for each                   *)
Grouped(pairs, from) ==
    {[base |-> b, targets |-> {p[2] : p \in {x \in pairs : x[1] = b}},
      from |-> from[b]] : b \in {p[1] : p \in pairs}}

Earliest(days) == CHOOSE d \in days : \A x \in days : d <= x

(* getUniqueCurrencyPairsFromSnapshots, grouped by base, up to today       *)
ReadSnapshots(t) ==
    LET k == task[t]
        seen == {s \in snapshots : s.user \in k.who /\ s.currency # k.pref[s.user]}
        pairOf(s) == Canonical(s.currency, k.pref[s.user])
        from == [b \in Currency |->
                    Earliest({s.day : s \in {x \in seen : pairOf(x)[1] = b}})]
    IN  /\ k.kind = "backfill"
        /\ k.pc = "owned"
        /\ Become(t, Onward([k EXCEPT
              !.jobs = Grouped({pairOf(s) : s \in seen}, from),
              !.day = today]))
        /\ UNCHANGED <<today, currency, snapshots, rates, starts, faults, missed>>

(* getRequiredCurrencyPairs; a job of the crypto sync is a single pair.    *)
ReadAccounts(t) ==
    LET k == task[t]
        pairs == {Canonical(c[2], k.pref[c[1]]) :
                    c \in {x \in Users \X Currency :
                             x[2] \in Held(x[1]) /\ x[2] # k.pref[x[1]]}}
        fiat == {p \in pairs : ~IsCrypto(p[1])}
        from == [b \in Currency |-> k.day]
    IN  /\ k.pc = "owned"
        /\ \/ /\ k.kind = "fiat"
              /\ Become(t, Onward([k EXCEPT
                    !.jobs = Grouped(fiat, from), !.asked = fiat]))
           \/ /\ k.kind = "crypto"
              /\ Become(t, Onward([k EXCEPT
                    !.ready = {[base |-> p[1], targets |-> {p[2]}, from |-> k.day] :
                                 p \in pairs \ fiat},
                    !.asked = pairs \ fiat]))
        /\ UNCHANGED <<today, currency, snapshots, rates, starts, faults, missed>>

(* getExistingRateKeys: targetCurrency:date, of one base                   *)
ExistingKeys(j, day) ==
    {q \in j.targets \X (j.from..day) :
        [pair |-> Canonical(j.base, q[1]), day |-> q[2]] \in Stored}

Required(j, day) == j.targets \X (j.from..day)

(* Fiat: the targets without a key, once the keys of every base are read   *)
ToSync(k) ==
    {x \in {[j EXCEPT !.targets = {c \in @ : <<c, k.day>> \notin k.keys}] :
              j \in k.ready} : x.targets # {}}

ReadKeys(t) ==
    LET k == task[t] IN
    /\ k.pc = "keys"
    /\ \E j \in k.jobs :
          LET existing == ExistingKeys(j, k.day)
              rest == [k EXCEPT !.jobs = @ \ {j}]
              read == [rest EXCEPT !.ready = @ \cup {j},
                                   !.keys = existing \cup
                                      IF k.kind = "fiat" THEN @ ELSE {}]
          IN  \/ /\ k.kind # "fiat"
                 /\ Become(t, Onward(IF existing = Required(j, k.day)
                                       THEN rest ELSE read))
              \/ /\ k.kind = "fiat"
                 /\ Become(t, IF rest.jobs # {} THEN read
                                ELSE Onward([read EXCEPT !.ready = ToSync(read)]))
    /\ UNCHANGED <<today, currency, snapshots, rates, starts, faults, missed>>

(* The rates a request asks for, but those that are not going to be saved  *)
Wanted(k, j) ==
    {q \in [base : {j.base}, target : j.targets, day : j.from..k.day] :
        k.kind = "backfill" => <<q.target, q.day>> \notin k.keys}

(* One request to a provider.  An answer may fail or leave rates out:      *)
(* weekends and holidays, and today before the rates are published.        *)
Fetch(t) ==
    LET k == task[t] IN
    /\ k.pc = "fetch"
    /\ \E j \in k.ready :
          \E got \in SUBSET {q \in Wanted(k, j) : Quotes(q.base, q.target)} :
             LET rest == [k EXCEPT !.ready = @ \ {j}, !.got = got]
                 gaps == Wanted(k, j) \ got
             IN  /\ \/ /\ \A q \in gaps : ~Quotes(q.base, q.target)
                       /\ UNCHANGED faults
                    \/ /\ \E q \in gaps : Quotes(q.base, q.target)
                       /\ faults < MaxFaults
                       /\ faults' = faults + 1
                 /\ Become(t, IF got = {} THEN Onward(rest)
                                ELSE [rest EXCEPT !.pc = "find"])
                 /\ missed' = missed \cup {QuoteKey(q) : q \in gaps}
    /\ UNCHANGED <<today, currency, snapshots, rates, starts>>

(* upsertRate: findOne                                                     *)
FindRate(t) ==
    LET k == task[t] IN
    /\ k.pc = "find"
    /\ \E q \in k.got : Become(t, [k EXCEPT
          !.pc = "save", !.item = {q}, !.found = QuoteKey(q) \in Stored])
    /\ UNCHANGED <<today, currency, snapshots, rates, starts, faults, missed>>

(* Mutant: stores the rate as it was answered                              *)
RowAsAnswered(q) ==
    [pair |-> Canonical(q.base, q.target), day |-> q.day,
     price |-> <<q.base, q.target>>]

RowOf(q) ==
    [pair |-> Canonical(q.base, q.target), day |-> q.day,
     price |-> IF Inverted(q.base, q.target) THEN InversePrice(<<q.base, q.target>>)
                 ELSE <<q.base, q.target>>]

(* Mutant: does not see that a request's rates are all stored              *)
SaveNextFind(k) ==
    [k EXCEPT !.got = @ \ k.item, !.item = {}, !.found = FALSE, !.pc = "find"]

SaveNext(k) ==
    LET rest == [k EXCEPT !.got = @ \ k.item, !.item = {}, !.found = FALSE]
    IN  IF rest.got = {} THEN Onward(rest) ELSE [rest EXCEPT !.pc = "find"]

(* Mutant: a throw leaves the loop over the requests.                      *)
GiveUpAll(k) == Idle

(* The rest of a request is given up: its catch goes on with the next one. *)
GiveUp(k) ==
    Onward([k EXCEPT !.got = {}, !.item = {}, !.found = FALSE])

(* upsertRate: save of the row it found, or of a new one.  An insert is    *)
(* refused when the row has been inserted since.                           *)
SaveRate(t) ==
    LET k == task[t] IN
    /\ k.pc = "save"
    /\ \E q \in k.item :
          \/ /\ k.found \/ QuoteKey(q) \notin Stored
             /\ rates' = {RowOf(q)} \cup {r \in rates : KeyOf(r) # QuoteKey(q)}
             /\ Become(t, SaveNext(k))
             /\ UNCHANGED missed
          \/ /\ ~k.found /\ QuoteKey(q) \in Stored
             /\ Become(t, GiveUp(k))
             /\ missed' = missed \cup {QuoteKey(x) : x \in k.got \ {q}}
             /\ UNCHANGED rates
    /\ UNCHANGED <<today, currency, snapshots, starts, faults>>

(* What the tasks in S may leave behind when they stop                     *)
Lost(S) ==
    {Need(s) : s \in Foreign} \cup
    UNION {{[pair |-> p, day |-> task[t].day] : p \in task[t].asked} : t \in S}

(* A query throws: the users, the accounts and the keys of the fiat sync   *)
(* are read outside the try of a request.                                  *)
QueryThrows(t) ==
    LET k == task[t] IN
    /\ faults < MaxFaults
    /\ faults' = faults + 1
    /\ \/ /\ k.pc \in {"user", "owned"} \/ (k.pc = "keys" /\ k.kind = "fiat")
          /\ Become(t, Idle)
          /\ missed' = missed \cup Lost({t})
       \/ /\ k.pc = "keys" /\ k.kind # "fiat"
          /\ \E j \in k.jobs : Become(t, Onward([k EXCEPT !.jobs = @ \ {j}]))
          /\ missed' = missed \cup Lost({t})
       \/ /\ k.pc \in {"find", "save"}
          /\ Become(t, GiveUp(k))
          /\ missed' = missed \cup {QuoteKey(q) : q \in k.got}
    /\ UNCHANGED <<today, currency, snapshots, rates, starts>>

(* The process stops: no task is resumed.                                  *)
Crash ==
    /\ faults < MaxFaults
    /\ faults' = faults + 1
    /\ \E t \in Tasks : task[t].pc # "idle"
    /\ task' = [t \in Tasks |-> Idle]
    /\ missed' = missed \cup Lost(Tasks)
    /\ UNCHANGED <<today, currency, snapshots, rates, starts>>

TaskStep(t) ==
    \/ ReadUser(t)
    \/ EnsureRate(t)
    \/ ReadSnapshots(t)
    \/ ReadAccounts(t)
    \/ ReadKeys(t)
    \/ Fetch(t)
    \/ FindRate(t)
    \/ SaveRate(t)

Next ==
    \/ \E u \in Users, c \in Currency : TakeSnapshot(u, c) \/ ChangeCurrency(u, c)
    \/ Cron
    \/ Midnight
    \/ \E t \in Tasks : TaskStep(t) \/ QueryThrows(t)
    \/ Crash

Spec == Init /\ [][Next]_vars

-----------------------------------------------------------------------------
(* Properties.                                                             *)

(* Whoever asked for it in whatever direction, a row has the price of its  *)
(* base in its target, and each pair has rows in one direction only:       *)
(* upsertRate and every reader invert alike.                               *)
RowsForward ==
    \A r \in rates : r.price = r.pair /\ r.pair = Canonical(r.pair[1], r.pair[2])

(* When no task is in progress, every snapshot in another currency than    *)
(* its user's has a rate of its day, unless a task asked for that rate and *)
(* did not get or could not store it.  A change of the currency and a      *)
(* snapshot that pass each other do not forget the pair: one of the two    *)
(* tasks sees both (handleUserSettingsUpdated, handleBalanceSnapshotChanged). *)
NothingForgotten ==
    (\A t \in Tasks : task[t].pc = "idle") =>
        \A s \in Foreign : Need(s) \in Stored \cup missed

Ends(t, kind) ==
    /\ task[t].kind = kind
    /\ task[t].pc # "idle"
    /\ task'[t].pc = "idle"

Covered(t) ==
    \A p \in task[t].asked :
        [pair |-> p, day |-> task[t].day] \in (Stored \cup missed)'

(* The hourly sync has a rate of the day for every crypto pair it found    *)
(* required, but those it could not get: one failing pair does not stop    *)
(* the others.                                                             *)
CryptoCovered == [][\A t \in Tasks : Ends(t, "crypto") => Covered(t)]_vars

(* "Sync all required FIAT exchange rates for today", "Skipping pairs that *)
(* already have rates for today" (currency-backfill.service.ts:52, 56):    *)
(* what the daily sync skips has a rate.                                   *)
FiatCovered == [][\A t \in Tasks : Ends(t, "fiat") => Covered(t)]_vars
=============================================================================
