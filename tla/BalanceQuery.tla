---------------------------- MODULE BalanceQuery ----------------------------
(***************************************************************************)
(* Balances of accounts over a range of days                               *)
(* (balance-query.service.ts, balance-query.controller.ts).                *)
(*                                                                         *)
(* A request reads the accounts, the user's currency, the snapshots and    *)
(* the rates in queries one after the other, while syncs, listeners and    *)
(* the rate tasks write the same tables; then it fills the days without a  *)
(* snapshot or a rate.  The n-th report of an account by its provider is   *)
(* version n of its balances; a row of a rate is its day.                  *)
(***************************************************************************)
EXTENDS Money, RateRange, FiniteSets, Sequences

CONSTANTS
    Accounts,  \* accounts of the user's bank links
    Manual,    \* the user's accounts without a bank link
    TypeOf,    \* accounts' types
    Reports,   \* accounts' reported balances, first to last
    Price,     \* rates of a pair, of days there is one for, as fractions n / d
    Preferred, \* currencies users choose
    MaxDay,    \* bound on the days
    MaxOverlap, \* bound on the writes while a request is in progress
    Requests,  \* <<ids, range>> that are asked for, ids of whatever accounts
    Ranges     \* ranges that are asked for of all accounts

(* An answer of a provider, and a rate                                     *)
Answers == [iso : SUBSET Currency, unofficial : SUBSET Currency,
            available : SUBSET Int, current : SUBSET Int]
Fractions == [n : Nat \ {0}, d : Nat \ {0}]

ASSUME QueryAssumption ==
    /\ IsFiniteSet(Accounts)
    /\ Preferred \subseteq Currency
    /\ MaxDay \in Nat
    /\ MaxOverlap \in Nat
    /\ Reports \in [Accounts -> Seq(Answers)]
    /\ \A p \in DOMAIN Price : \A d \in DOMAIN Price[p] : Price[p][d] \in Fractions
    /\ \A r \in Ranges \cup {x[2] : x \in Requests} : r \in Nat \X Nat /\ r[1] <= r[2]

Days == 0..MaxDay
Versions(a) == 1..Len(Reports[a])
Pairs == DOMAIN Price

VARIABLES
    today,
    preferred,  \* settings.currency
    stored,     \* version of the account's row, 0 when there is none
    snapshots,  \* version of the snapshot of a day, 0 when there is none
    reported,   \* number of reports so far
    rated,      \* exchange_rate rows
    query,      \* the request in progress, or answered
    overlap     \* writes since it began

vars == <<today, preferred, stored, snapshots, reported, rated, query, overlap>>

(* pc is the query whose answer the request waits for; a snapshot is       *)
(* <<account, day, version>>, a rate <<pair, day>>.                        *)
Idle == [pc |-> "idle", ids |-> {}, start |-> 0, end |-> 0, target |-> USD,
         accounts |-> {}, snaps |-> {}, rates |-> {}, failed |-> FALSE,
         askedSnaps |-> {}, askedRates |-> {}]

Points == {"idle", "user", "accounts", "inRange", "prior", "ratesInRange",
           "priorRates", "futureRates", "done", "refused"}

Snaps ==
    {<<x[1], x[2], snapshots[x[1]][x[2]]>> :
       x \in {y \in Accounts \X Days : snapshots[y[1]][y[2]] # 0}}

(* The rows of the reports; an account's currency is its current balance's *)
ReportRows == [a \in Accounts |-> [v \in Versions(a) |-> Balances(Reports[a][v])]]
Row(a, v) == ReportRows[a][v]
CurrencyOf(a, v) == Row(a, v).current.currency

TypeOK ==
    /\ today \in Days
    /\ preferred \in Preferred
    /\ \A a \in Accounts :
          /\ reported[a] \in 0..Len(Reports[a])
          /\ stored[a] \in 0..reported[a]
          /\ \A d \in Days :
                /\ snapshots[a][d] \in 0..stored[a]
                /\ snapshots[a][d] # 0 => d <= today /\ Fits(Row(a, snapshots[a][d]))
    /\ rated \subseteq Pairs \X Days
    /\ query.pc \in Points
    /\ overlap \in 0..MaxOverlap
    /\ query.start <= query.end
    /\ \A x \in query.accounts : x[1] \in query.ids /\ x[2] \in Versions(x[1])
    /\ \A x, y \in query.snaps : x[1] = y[1] /\ x[2] = y[2] => x = y
    /\ query.rates \subseteq rated

Init ==
    /\ today = 0
    /\ preferred \in Preferred
    /\ stored = [a \in Accounts |-> 0]
    /\ snapshots = [a \in Accounts |-> [d \in Days |-> 0]]
    /\ reported = [a \in Accounts |-> 0]
    /\ rated = {}
    /\ query = Idle
    /\ overlap = 0

-----------------------------------------------------------------------------
(* What goes on meanwhile.                                                 *)

(* A write, of whichever kind, while a request is in progress or not       *)
Meanwhile ==
    /\ query.pc \notin {"done", "refused"}
    /\ query.pc # "idle" => overlap < MaxOverlap
    /\ overlap' = IF query.pc = "idle" THEN 0 ELSE overlap + 1

(* Mutant: the column has no bound                                         *)
SyncAny(a) ==
    /\ Meanwhile
    /\ reported[a] < Len(Reports[a])
    /\ reported' = [reported EXCEPT ![a] = @ + 1]
    /\ stored' = [stored EXCEPT ![a] = reported[a] + 1]
    /\ UNCHANGED <<today, preferred, snapshots, rated, query>>

(* The account is synced.  A balance too large for its column fails the    *)
(* save.                                                                   *)
Sync(a) ==
    /\ Meanwhile
    /\ reported[a] < Len(Reports[a])
    /\ reported' = [reported EXCEPT ![a] = @ + 1]
    /\ stored' = [stored EXCEPT ![a] =
          IF Fits(Row(a, reported[a] + 1)) THEN reported[a] + 1 ELSE @]
    /\ UNCHANGED <<today, preferred, snapshots, rated, query>>

(* The listener records the balance it is handed, if nothing fails.        *)
Record(a) ==
    /\ Meanwhile
    /\ stored[a] # 0
    /\ snapshots[a][today] # stored[a]
    /\ snapshots' = [snapshots EXCEPT ![a][today] = stored[a]]
    /\ UNCHANGED <<today, preferred, stored, reported, rated, query>>

StoreRate(p, d) ==
    /\ Meanwhile
    /\ d <= today /\ d \in DOMAIN Price[p]
    /\ <<p, d>> \notin rated
    /\ rated' = rated \cup {<<p, d>>}
    /\ UNCHANGED <<today, preferred, stored, snapshots, reported, query>>

Midnight ==
    /\ Meanwhile
    /\ today < MaxDay
    /\ today' = today + 1
    /\ UNCHANGED <<preferred, stored, snapshots, reported, rated, query>>

ChangeCurrency(c) ==
    /\ Meanwhile
    /\ preferred # c
    /\ preferred' = c
    /\ UNCHANGED <<today, stored, snapshots, reported, rated, query>>

-----------------------------------------------------------------------------
(* The request.                                                            *)

Go(record) ==
    /\ query' = record
    /\ overlap' = IF record.pc \in {"idle", "done", "refused"} THEN 0 ELSE overlap
    /\ UNCHANGED <<today, preferred, stored, snapshots, reported, rated>>

Asked(ids, range, pc) ==
    [Idle EXCEPT !.pc = pc, !.ids = ids, !.start = range[1], !.end = range[2],
                 !.askedSnaps = Snaps, !.askedRates = rated]

(* getBalancesForDateRange: a manual account among them is a bad request.  *)
Ask(ids, range) ==
    /\ query.pc = "idle"
    /\ Go(Asked(ids \cap Accounts, range,
                IF ids \cap Manual = {} THEN "user" ELSE "refused"))

(* getAllBalancesForDateRange: the linked accounts, if there is one        *)
AskAll(range) ==
    /\ query.pc = "idle"
    /\ LET linked == {a \in Accounts : stored[a] # 0}
       IN  Go(Asked(linked, range, IF linked = {} THEN "done" ELSE "user"))

ReadUser ==
    /\ query.pc = "user"
    /\ Go([query EXCEPT !.pc = "accounts", !.target = preferred])

(* Ids that are not found are left out.                                    *)
ReadAccounts ==
    /\ query.pc = "accounts"
    /\ LET found == {<<a, stored[a]>> : a \in {x \in query.ids : stored[x] # 0}}
       IN  Go([query EXCEPT !.accounts = found,
                            !.pc = IF found = {} THEN "done" ELSE "inRange"])

Of(q) == {x[1] : x \in q.accounts}

ReadSnapshots ==
    /\ query.pc = "inRange"
    /\ Go([query EXCEPT !.pc = "prior", !.snaps =
          {x \in Snaps : x[1] \in Of(query) /\ query.start <= x[2] /\ x[2] <= query.end}])

(* Mutant: the earliest snapshot before the range                          *)
Earliest(a, start) ==
    {x \in Snaps : x[1] = a /\ x[2] < start /\
       \A y \in Snaps : y[1] = a /\ y[2] < start => x[2] <= y[2]}

(* The most recent snapshot before the range                               *)
Latest(a, start) ==
    {x \in Snaps : x[1] = a /\ x[2] < start /\
       \A y \in Snaps : y[1] = a /\ y[2] < start => y[2] <= x[2]}

(* fetchExchangeRates: the pairs of the accounts' currencies               *)
Needed(q) ==
    {<<CurrencyOf(x[1], x[2]), q.target>> : x \in q.accounts}
        \ {<<q.target, q.target>>}

ReadPrior ==
    /\ query.pc = "prior"
    /\ Go([query EXCEPT
          !.snaps = @ \cup UNION {Latest(a, query.start) : a \in Of(query)},
          !.pc = IF Needed(query) = {} THEN "done" ELSE "ratesInRange"])

DaysOf(rows, p) == {x[2] : x \in {y \in rows : y[1] = p}}

Sought(q) == {Canonical(p[1], p[2]) : p \in Needed(q)}

(* One of the three queries for rates: the days found of each pair         *)
ReadRates(found, next) ==
    Go([query EXCEPT !.pc = next, !.rates = @ \cup UNION {{p} \X found[p] : p \in DOMAIN found}])

ReadRatesInRange ==
    /\ query.pc = "ratesInRange"
    /\ ReadRates([p \in Sought(query) |-> InRange(DaysOf(rated, p), query.start, query.end)],
                 "priorRates")

ReadPriorRates ==
    /\ query.pc = "priorRates"
    /\ ReadRates([p \in Sought(query) |-> PriorRate(DaysOf(rated, p), query.start)],
                 "futureRates")

ReadFutureRates ==
    /\ query.pc = "futureRates"
    /\ ReadRates([p \in Sought(query) |-> FutureRate(DaysOf(rated, p), query.end)], "done")

(* A query fails: without rates there is an answer, of unconverted         *)
(* balances.                                                               *)
QueryFails ==
    \/ /\ query.pc \in {"ratesInRange", "priorRates", "futureRates"}
       /\ Go([query EXCEPT !.pc = "done", !.rates = {}, !.failed = TRUE])
    \/ /\ query.pc \in {"user", "accounts", "inRange", "prior"}
       /\ Go([query EXCEPT !.pc = "refused"])

Respond ==
    /\ query.pc \in {"done", "refused"}
    /\ Go(Idle)

RequestStep ==
    \/ \E x \in Requests : Ask(x[1], x[2])
    \/ \E range \in Ranges : AskAll(range)
    \/ ReadUser
    \/ ReadAccounts
    \/ ReadSnapshots
    \/ ReadPrior
    \/ ReadRatesInRange
    \/ ReadPriorRates
    \/ ReadFutureRates
    \/ QueryFails
    \/ Respond

Next ==
    \/ \E a \in Accounts : Sync(a) \/ Record(a)
    \/ \E p \in Pairs, d \in Days : StoreRate(p, d)
    \/ Midnight
    \/ \E c \in Preferred : ChangeCurrency(c)
    \/ RequestStep

Spec == Init /\ [][Next]_vars

-----------------------------------------------------------------------------
(* The answer, computed from what has been read.                           *)

(* findSnapshotForDate: that of the day, or the most recent before it      *)
SnapshotFor(q, a, d) ==
    {x \in q.snaps : x[1] = a /\ x[2] <= d /\
       \A y \in q.snaps : y[1] = a /\ y[2] <= d => y[2] <= x[2]}

(* getRatesForDateRange throws for all pairs if one has no rate at all.    *)
Converts(q) == ~q.failed /\ \A p \in Sought(q) : DaysOf(q.rates, p) # {}

RateDay(q, c, d) == Closest(DaysOf(q.rates, Canonical(c, q.target)), d)

(* The rate of the currency c on a day, inverted if it is stored so        *)
RateFor(q, c, d) ==
    {IF Inverted(c, q.target) THEN [n |-> r.d, d |-> r.n] ELSE r :
       r \in {Price[Canonical(c, q.target)][u] :
                u \in IF Converts(q) /\ <<c, q.target>> \in Needed(q)
                        THEN RateDay(q, c, d) ELSE {}}}

(* buildBalanceWithConversion                                              *)
WithConversion(q, m, d) ==
    [balance |-> m,
     converted |-> {Convert(m, q.target, r) : r \in RateFor(q, m.currency, d)}]

(* calculateEffectiveBalance                                               *)
Effective(type, available, current) ==
    IF type \in {"investment", "brokerage"}
      THEN LET total == Signed(available) + Signed(current)
           IN  [amount |-> Abs(total), currency |-> available.currency,
                sign |-> SignOf(total)]
      ELSE current

(* The balances of the snapshot, of the version it is of, or zeros of the  *)
(* currencies of the account in the version it was read in                 *)
Recorded(q, account, d) ==
    LET zeros == [available |-> Zero(Row(account[1], account[2]).available.currency),
                  current |-> Zero(CurrencyOf(account[1], account[2]))]
    IN  Or({Row(account[1], x[3]) : x \in SnapshotFor(q, account[1], d)}, zeros)

EffectiveOn(q, account, d) ==
    LET r == Recorded(q, account, d)
    IN  WithConversion(q, Effective(TypeOf[account[1]], r.available, r.current), d)

(* buildAccountBalanceResult; syncedAt is the version of the snapshot if   *)
(* it is of this day.                                                      *)
SyncedAt(q, a, d) == {x[3] : x \in {y \in SnapshotFor(q, a, d) : y[2] = d}}

Result(q, account, d) ==
    [available |-> WithConversion(q, Recorded(q, account, d).available, d),
     current |-> WithConversion(q, Recorded(q, account, d).current, d),
     effective |-> EffectiveOn(q, account, d),
     syncedAt |-> SyncedAt(q, account[1], d)]

Answered == query.pc = "done"

DaysAsked(q) == q.start..q.end

-----------------------------------------------------------------------------
(* Properties.                                                             *)

(* The version a day shows, were the tables read all at once               *)
Shows(snaps, a, d) ==
    LET upTo == {x \in snaps : x[1] = a /\ x[2] <= d}
    IN  IF upTo = {} THEN 0
        ELSE (CHOOSE x \in upTo : \A y \in upTo : y[2] <= x[2])[3]

(* A day shows the newest snapshot up to it, as it was at some time while  *)
(* the request was in progress: two queries and a concurrent listener lose *)
(* none and mix none up; and syncedAt is there exactly when the day has a  *)
(* snapshot of its own (findSnapshotForDate, isForwardFilled).             *)
HistoryFaithful ==
    Answered => \A x \in query.accounts, d \in DaysAsked(query) :
        LET a == x[1]
            snapshot == SnapshotFor(query, a, d)
            used == IF snapshot = {} THEN 0
                    ELSE (CHOOSE s \in snapshot : TRUE)[3]
        IN  /\ Cardinality(snapshot) <= 1
            /\ Shows(query.askedSnaps, a, d) <= used
            /\ used <= Shows(Snaps, a, d)
            /\ SyncedAt(query, a, d) = {} => \A s \in query.askedSnaps : s[1] # a \/ s[2] # d

(* No balance is converted with a rate older than, or beyond, the closest  *)
(* one that was stored when the request began.                             *)
RateNotStale ==
    Answered /\ Converts(query) =>
        \A p \in Needed(query), d \in DaysAsked(query) :
            LET before == DaysOf(query.askedRates, Canonical(p[1], p[2]))
            IN  \E u \in RateDay(query, p[1], d) : \A x \in before :
                   /\ x <= d => x <= u /\ u <= d
                   /\ x > d /\ u > d => u <= x
=============================================================================
