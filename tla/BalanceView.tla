----------------------------- MODULE BalanceView -----------------------------
(***************************************************************************)
(* What the web pages make of the balances                                 *)
(* (frontend/src/lib/balance-utils.ts, format.ts, components).  Floats are *)
(* counted in parts of the major unit, Scale of them.                      *)
(***************************************************************************)
EXTENDS BalanceQuery, FiniteSetsExt

CONSTANT Scale

ASSUME ScaleAssumption ==
    /\ Scale \in Nat \ {0}
    /\ \A c \in Currency : PerMajor[c] * (Scale \div PerMajor[c]) = Scale

IsLiability(type) == type \in {"credit", "loan"}

(* getSignedAmount                                                         *)
Major(m) == Signed(m) * (Scale \div PerMajor[m.currency])

(* Mutant: the balance as the account has it                               *)
Unconverted(b) == b.balance

(* resolveEffectiveBalance                                                 *)
Resolve(b) == Or(b.converted, b.balance)

(* resolveBalance of the account cards                                     *)
ResolveBalance(b) ==
    [primary |-> Resolve(b), original |-> IF b.converted = {} THEN {} ELSE {b.balance}]

AmountOn(q, x, d) == Major(Resolve(EffectiveOn(q, x, d)))

Contribution(q, x, d) ==
    IF IsLiability(TypeOf[x[1]]) THEN -Abs(AmountOn(q, x, d)) ELSE AmountOn(q, x, d)

(* calculateNetWorthForDate                                                *)
NetWorth(q, d) ==
    MapThenSumSet(LAMBDA x : Contribution(q, x, d), q.accounts)

(* calculateChangePercent: undefined from zero, else by numerator          *)
Change(current, previous) ==
    IF previous = 0 THEN {} ELSE {[n |-> (current - previous) * 100, d |-> Abs(previous)]}

(* createMoneyWithSign                                                     *)
MoneyOf(n, c) ==
    [amount |-> Round(Abs(n) * PerMajor[c], Scale), currency |-> c,
     sign |-> IF n < 0 THEN "negative" ELSE "positive"]

(* transformToDashboardData: the first and the last day are compared; the  *)
(* currency is that of the first account, x.                               *)
Dashboard(q, x) ==
    [netWorth |-> MoneyOf(NetWorth(q, q.end), Resolve(EffectiveOn(q, x, q.end)).currency),
     change |-> Change(NetWorth(q, q.end), NetWorth(q, q.start)),
     chart |-> [d \in DaysAsked(q) |-> NetWorth(q, d)]]

(* Mutant: the first day with a time                                       *)
FirstSyncedAt(q, x) ==
    LET all == UNION {SyncedAt(q, x[1], d) : d \in DaysAsked(q)}
    IN  {v \in all : \A w \in all : v <= w}

(* getLatestSyncedAt: of the days of the range                             *)
LatestSyncedAt(q, x) ==
    LET all == UNION {SyncedAt(q, x[1], d) : d \in DaysAsked(q)}
    IN  {v \in all : \A w \in all : w <= v}

(* formatPercent hides no change; getChangeColorMantine                    *)
Shown(change) == \E c \in change : c.n # 0

(* Mutant: the same colours for assets and liabilities                     *)
ColourOfAll(liability, change) ==
    IF \E c \in change : c.n > 0 THEN "teal" ELSE "red"

Colour(liability, change) ==
    IF (\E c \in change : c.n > 0) # liability THEN "teal" ELSE "red"

(* The summary of an account, in transformToDashboardData                  *)
Summary(q, y) ==
    [id |-> y[1], type |-> TypeOf[y[1]], effective |-> EffectiveOn(q, y, q.end),
     change |-> Change(AmountOn(q, y, q.end), AmountOn(q, y, q.start))]

(* AccountCard                                                             *)
Card(summary, liability) ==
    [id |-> summary.id,
     balance |-> ResolveBalance(summary.effective),
     colour |-> IF Shown(summary.change) THEN {Colour(liability, summary.change)} ELSE {}]

(* The assets or the liabilities, and their section of the page            *)
Section(q, liability) ==
    {Card(s, liability) :
       s \in {t \in {Summary(q, y) : y \in q.accounts} : IsLiability(t.type) = liability}}

(* NetWorthCard                                                            *)
NetWorthCard(q, x) ==
    LET board == Dashboard(q, x)
    IN  [shown |-> board.netWorth,
         chart |-> board.chart,
         colour |-> IF Shown(board.change) THEN {Colour(FALSE, board.change)} ELSE {}]

(* transformToAccountChartData                                             *)
AccountChart(q, x) == [d \in DaysAsked(q) |-> AmountOn(q, x, d)]

(* useAccountBalanceHistory: the same range is asked for again, for one    *)
(* account; its latest balance is that of the last day.                    *)
History(q, x) ==
    [chart |-> AccountChart(q, x),
     latest |-> EffectiveOn(q, x, q.end),
     lastSynced |-> LatestSyncedAt(q, x)]

(* AccountModal                                                            *)
Modal(q, x) ==
    LET h == History(q, x)
    IN  [primary |-> Resolve(h.latest),
         original |-> {m \in {h.latest.balance} :
                          \E c \in h.latest.converted : c.currency # m.currency},
         chart |-> h.chart,
         lastSynced |-> h.lastSynced]

(* HomePage                                                                *)
Home(q, x) ==
    [netWorth |-> NetWorthCard(q, x), assets |-> Section(q, FALSE),
     liabilities |-> Section(q, TRUE)]

(* The account of the address, if it is among the page's cards, and its    *)
(* modal                                                                   *)
Opened(q, cards, id) ==
    {[card |-> c, modal |-> Modal(q, CHOOSE y \in q.accounts : y[1] = id)] :
       c \in {s \in cards : s.id = id}}

-----------------------------------------------------------------------------
(* Properties.                                                             *)

(* How much the reports of an account come to, in parts                    *)
ReportedTotal(a, v) ==
    LET r == Reports[a][v] IN
    Or(r.current, 0) +
      IF TypeOf[a] \in {"investment", "brokerage"} THEN Or(r.available, 0) ELSE 0

(* Roundings to the account's unit on the way                              *)
Roundings(a) == IF TypeOf[a] \in {"investment", "brokerage"} THEN 2 ELSE 1

(* From the provider's answer over the account's row, the snapshot, the    *)
(* query and the conversion to the page: an unconverted balance is the     *)
(* reported one, sign included, and a converted one the reported one at    *)
(* the rate of the day, but for a rounding to the smallest unit at each    *)
(* step.                                                                   *)
ShownIsReported ==
    Answered => \A x \in query.accounts, d \in DaysAsked(query) :
        \A s \in SnapshotFor(query, x[1], d) :
            LET total == ReportedTotal(x[1], s[3])
                from == PerMajor[CurrencyOf(x[1], s[3])]
                to == PerMajor[query.target]
                shown == EffectiveOn(query, x, d)
            IN  /\ 2 * Abs(Signed(shown.balance) * Parts - total * from)
                     <= Roundings(x[1]) * Parts
                /\ \A m \in shown.converted, r \in RateFor(query, shown.balance.currency, d) :
                      2 * Abs(Signed(m) * r.d * Parts - total * r.n * to) * from
                        <= Parts * (r.d * from + Roundings(x[1]) * r.n * to)

(* What the cards of a section come to                                     *)
Total(section) == MapThenSumSet(LAMBDA c : Major(c.balance.primary), section)
Owed(section) == MapThenSumSet(LAMBDA c : Abs(Major(c.balance.primary)), section)

(* Once every currency of the accounts has a rate at all, of whatever day, *)
(* and no account has changed its currency, every balance of every day is  *)
(* in the user's currency; then the page adds amounts of one currency,     *)
(* whichever account comes first ("assume all converted to same currency", *)
(* balance-utils.ts:179), the net worth is what the assets' cards come to  *)
(* less the liabilities', it is the last point of the chart, and is stated *)
(* to the smallest unit.                                                   *)
DashboardAddsUp ==
    Answered /\ ~query.failed
    /\ (\A p \in Sought(query) : DaysOf(query.askedRates, p) # {}) =>
        /\ \A x \in query.accounts, d \in DaysAsked(query) :
              LET result == Result(query, x, d) IN
              \A b \in {result.available, result.current, result.effective} :
                  b.balance.currency = CurrencyOf(x[1], x[2]) =>
                      Resolve(b).currency = query.target
        /\ \A home \in {Home(query, x) : x \in query.accounts} :
              LET worth == Total(home.assets) - Owed(home.liabilities)
              IN  /\ home.netWorth.shown.currency = query.target
                  /\ home.netWorth.chart[query.end] = worth
                  /\ Abs(Major(home.netWorth.shown) - worth) * 2
                       <= Scale \div PerMajor[query.target]

(* A change is green exactly when the net worth goes up by it, on the      *)
(* account's card as long as no liability is overpaid, and on that of the  *)
(* net worth (getChangeColorMantine; each section passes its isLiability). *)
GreenIsGood ==
    Answered /\ query.accounts # {} =>
        /\ \A colour \in NetWorthCard(query, CHOOSE x \in query.accounts : TRUE).colour :
              colour = "teal" <=> NetWorth(query, query.end) > NetWorth(query, query.start)
        /\ \A liability \in BOOLEAN : \A card \in Section(query, liability) :
              \A colour \in card.colour, x \in {y \in query.accounts : y[1] = card.id} :
                 (liability => AmountOn(query, x, query.start) >= 0
                               /\ AmountOn(query, x, query.end) >= 0) =>
                    (colour = "teal" <=>
                       Contribution(query, x, query.end) > Contribution(query, x, query.start))

(* What opens from an account's card agrees with the card and itself: the  *)
(* balance, the original one, the last point of the chart, and "Last       *)
(* synced", which is said of the balance that is shown: the time is that   *)
(* of the snapshot shown for the last day, if it is of a day of the range. *)
LastSynced ==
    Answered =>
        LET cards == Section(query, FALSE) \cup Section(query, TRUE) IN
        \A x \in query.accounts : \E opened \in Opened(query, cards, x[1]) :
        LET modal == opened.modal
            shown == {y \in SnapshotFor(query, x[1], query.end) : query.start <= y[2]}
        IN  /\ modal.primary = opened.card.balance.primary
            /\ modal.original = opened.card.balance.original
            /\ Major(modal.primary) = modal.chart[query.end]
            /\ modal.lastSynced = {s[3] : s \in shown}
=============================================================================
