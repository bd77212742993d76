---------------------------- MODULE BalanceProofs ----------------------------
(***************************************************************************)
(* What holds of the balances that are shown, for any accounts, reports,   *)
(* rates, days and requests: the tables that a request reads one after the *)
(* other show no day older than it was when the request began, no rate     *)
(* staler, and every balance is the reported one but for its roundings.    *)
(***************************************************************************)
EXTENDS BalanceView, FiniteSetTheorems, WellFoundedInduction, TLAPS

-----------------------------------------------------------------------------
(* The inductive invariant.                                                *)

Before == {"idle", "user", "accounts", "inRange"}
AfterRange == {"prior", "ratesInRange", "priorRates", "futureRates", "done"}
AfterPrior == AfterRange \ {"prior"}

RequestRecord ==
    [pc : Points, ids : SUBSET Accounts, start : Nat, end : Nat, target : Currency,
     accounts : SUBSET (Accounts \X (Nat \ {0})),
     snaps : SUBSET (Accounts \X Days \X (Nat \ {0})),
     rates : SUBSET (Pairs \X Days), failed : BOOLEAN,
     askedSnaps : SUBSET (Accounts \X Days \X (Nat \ {0})),
     askedRates : SUBSET (Pairs \X Days)]

(* The tables: a snapshot is of a version that was stored, fits, and is    *)
(* not older than that of an earlier day; a rate is of a day that has one. *)
TablesOK ==
    /\ today \in Days
    /\ preferred \in Preferred
    /\ reported \in [Accounts -> Nat]
    /\ stored \in [Accounts -> Nat]
    /\ snapshots \in [Accounts -> [Days -> Nat]]
    /\ \A a \in Accounts :
          /\ reported[a] <= Len(Reports[a])
          /\ stored[a] <= reported[a]
          /\ stored[a] # 0 => Fits(Row(a, stored[a]))
          /\ \A d \in Days :
                /\ snapshots[a][d] <= stored[a]
                /\ snapshots[a][d] # 0 => d <= today /\ Fits(Row(a, snapshots[a][d]))
          /\ \A d, e \in Days :
                d <= e /\ snapshots[a][e] # 0 => snapshots[a][d] <= snapshots[a][e]
    /\ rated \subseteq Pairs \X Days
    /\ \A x \in rated : x[2] \in DOMAIN Price[x[1]]

AccountsRead(q) ==
    /\ \A x \in q.accounts : x[1] \in q.ids /\ x[2] \in Versions(x[1])
    /\ \A x, y \in q.accounts : x[1] = y[1] => x = y

(* The snapshots that a request has read, next to those of the time it     *)
(* began, t, and to the present ones: no row is lost or older.             *)
SnapsRead(q) ==
    /\ q.pc \in Before => q.snaps = {}
    /\ q.pc = "prior" => \A u \in q.snaps : q.start <= u[2]
    /\ \A u, v \in q.snaps : u[1] = v[1] /\ u[2] = v[2] => u = v
    /\ \A u, v \in q.snaps :
          u[1] = v[1] /\ q.start <= u[2] /\ u[2] <= v[2] => u[3] <= v[3]
    /\ \A u \in q.snaps : u[1] \in Of(q) /\ u[2] <= q.end
    /\ \A t \in q.askedSnaps, u \in q.snaps : t[1] = u[1] /\ t[2] <= u[2] => t[3] <= u[3]
    /\ q.pc \in AfterRange => \A t \in q.askedSnaps :
          t[1] \in Of(q) /\ q.start <= t[2] /\ t[2] <= q.end =>
             \E u \in q.snaps : u[1] = t[1] /\ u[2] = t[2]
    /\ q.pc \in AfterPrior => \A t \in q.askedSnaps :
          t[1] \in Of(q) /\ t[2] < q.start =>
             \E u \in q.snaps : u[1] = t[1] /\ t[2] <= u[2] /\ u[2] < q.start

SnapsPast(q, now) == \A u \in q.snaps \cup q.askedSnaps : u[3] <= now[u[1]][u[2]]

(* So with its rates: q.askedRates is a part of what there is to read.     *)
RatesRead(q) ==
    /\ q.pc \in (Before \cup {"prior", "ratesInRange", "refused"}) => q.rates = {}
    /\ (q.pc \in {"priorRates", "futureRates"} \/ (q.pc = "done" /\ ~q.failed)) =>
          \A p \in Sought(q) : \A x \in DaysOf(q.askedRates, p) :
             q.start <= x /\ x <= q.end => x \in DaysOf(q.rates, p)
    /\ (q.pc = "futureRates" \/ (q.pc = "done" /\ ~q.failed)) =>
          \A p \in Sought(q) : \A x \in DaysOf(q.askedRates, p) :
             x < q.start => \E u \in DaysOf(q.rates, p) : x <= u /\ u < q.start
    /\ q.pc = "done" /\ ~q.failed =>
          \A p \in Sought(q) : \A x \in DaysOf(q.askedRates, p) :
             x > q.end => \E u \in DaysOf(q.rates, p) : q.end < u /\ u <= x

QueryOK(q) ==
    /\ q \in RequestRecord
    /\ q.start <= q.end
    /\ AccountsRead(q)
    /\ SnapsRead(q)
    /\ RatesRead(q)

(* What the request has read is a part of what there is.                   *)
NowOK(q) == SnapsPast(q, snapshots) /\ q.rates \subseteq rated /\ q.askedRates \subseteq rated

BalanceInv ==
    /\ TablesOK
    /\ QueryOK(query)
    /\ NowOK(query)
    /\ overlap \in 0..MaxOverlap

-----------------------------------------------------------------------------
(* Days.                                                                   *)

LEMMA Smallest ==
    ASSUME NEW T, T \subseteq Nat, T # {}
    PROVE  \E x \in T : \A y \in T : x <= y
<1>1. PICK x \in T : \A y \in T : ~ (<<y, x>> \in OpToRel(<, Nat))
  <2>1. IsWellFoundedOn(OpToRel(<, Nat), Nat)
    BY NatLessThanWellFounded
  <2>2. QED
    BY <2>1, WFMin
<1>2. ASSUME NEW y \in T
      PROVE  x <= y
  <2>1. x \in Nat /\ y \in Nat
    OBVIOUS
  <2>2. ~(y < x)
    BY <1>1, <2>1 DEF OpToRel
  <2>3. QED
    BY <2>1, <2>2
<1>3. QED
  BY <1>2

LEMMA Largest ==
    ASSUME NEW T, T \subseteq Nat, T # {}, NEW b \in Nat, \A x \in T : x <= b
    PROVE  \E x \in T : \A y \in T : y <= x
<1> DEFINE U == {b - x : x \in T}
<1>1. ASSUME NEW x \in T
      PROVE  b - x \in Nat
  <2>1. x \in Nat /\ x <= b
    OBVIOUS
  <2>2. QED
    BY <2>1
<1>2. U \subseteq Nat /\ U # {}
  BY <1>1
<1>3. PICK v \in U : \A w \in U : v <= w
  BY <1>2, Smallest
<1>4. PICK x \in T : v = b - x
  OBVIOUS
<1>5. ASSUME NEW y \in T
      PROVE  y <= x
  <2>1. b - y \in U
    OBVIOUS
  <2>2. b - x <= b - y
    BY <1>3, <1>4, <2>1
  <2>3. x \in Nat /\ y \in Nat
    OBVIOUS
  <2>4. QED
    BY <2>2, <2>3
<1>6. QED
  BY <1>5

(* Of any days there is a closest to a day.                                *)
LEMMA ClosestIs ==
    ASSUME NEW D, D \subseteq Nat, D # {}, NEW d \in Nat
    PROVE  /\ \E u \in D : u \in Closest(D, d)
           /\ \A u \in Closest(D, d) :
                 /\ u \in D
                 /\ \A x \in D : x <= d => x <= u /\ u <= d
                 /\ \A x \in D : u > d => u <= x
<1>1. CASE \E x \in D : x <= d
  <2> DEFINE T == {x \in D : x <= d}
  <2>1. T \subseteq Nat /\ T # {} /\ \A x \in T : x <= d
    BY <1>1
  <2>2. PICK m \in T : \A y \in T : y <= m
    BY <2>1, Largest
  <2>3. m \in Closest(D, d)
    BY <1>1, <2>2 DEF Closest
  <2>4. \A u \in Closest(D, d) : u \in D /\ u <= d /\ \A x \in D : x <= d => x <= u
    BY <1>1 DEF Closest
  <2>5. ASSUME NEW u \in Closest(D, d), u > d
        PROVE  FALSE
    <3>1. u \in Nat /\ u <= d
      BY <2>4
    <3>2. QED
      BY <2>5, <3>1
  <2>6. QED
    BY <2>2, <2>3, <2>4, <2>5
<1>2. CASE ~\E x \in D : x <= d
  <2>1. PICK m \in D : \A y \in D : m <= y
    BY Smallest
  <2>2. m \in Closest(D, d)
    BY <1>2, <2>1 DEF Closest
  <2>3. QED
    BY <1>2, <2>1, <2>2 DEF Closest
<1>3. QED
  BY <1>1, <1>2

-----------------------------------------------------------------------------
(* The rows of snapshots.                                                  *)

Rows == Accounts \X Days \X (Nat \ {0})

LEMMA SnapsAre ==
    ASSUME TablesOK
    PROVE  /\ Snaps \subseteq Rows
           /\ \A u \in Snaps : u[3] = snapshots[u[1]][u[2]]
           /\ \A a \in Accounts, d \in Days :
                 snapshots[a][d] # 0 => <<a, d, snapshots[a][d]>> \in Snaps
<1>1. ASSUME NEW u \in Snaps
      PROVE  u \in Rows /\ u[3] = snapshots[u[1]][u[2]]
  <2>1. PICK y \in Accounts \X Days :
           snapshots[y[1]][y[2]] # 0 /\ u = <<y[1], y[2], snapshots[y[1]][y[2]]>>
    BY DEF Snaps
  <2>2. snapshots[y[1]][y[2]] \in Nat
    BY DEF TablesOK
  <2>3. QED
    BY <2>1, <2>2 DEF Rows
<1>2. ASSUME NEW a \in Accounts, NEW d \in Days, snapshots[a][d] # 0
      PROVE  <<a, d, snapshots[a][d]>> \in Snaps
  <2>1. <<a, d>> \in {y \in Accounts \X Days : snapshots[y[1]][y[2]] # 0}
    BY <1>2
  <2>2. QED
    BY <2>1 DEF Snaps
<1>3. QED
  BY <1>1, <1>2

(* No two of a day, and none older than one of an earlier day              *)
LEMMA SnapsOrdered ==
    ASSUME TablesOK
    PROVE  /\ \A u, v \in Snaps : u[1] = v[1] /\ u[2] = v[2] => u = v
           /\ \A u, v \in Snaps : u[1] = v[1] /\ u[2] <= v[2] => u[3] <= v[3]
<1> SUFFICES ASSUME NEW u \in Snaps, NEW v \in Snaps, u[1] = v[1]
             PROVE  /\ u[2] = v[2] => u = v
                    /\ u[2] <= v[2] => u[3] <= v[3]
  OBVIOUS
<1>1. /\ u \in Rows /\ u[3] = snapshots[u[1]][u[2]]
      /\ v \in Rows /\ v[3] = snapshots[v[1]][v[2]]
  BY SnapsAre
<1>2. u = <<u[1], u[2], u[3]>> /\ v = <<v[1], v[2], v[3]>>
  BY <1>1 DEF Rows
<1>3. u[1] \in Accounts /\ u[2] \in Days /\ v[2] \in Days /\ v[3] # 0
  BY <1>1 DEF Rows
<1>4. u[2] <= v[2] => u[3] <= v[3]
  BY <1>1, <1>3 DEF TablesOK
<1>5. QED
  BY <1>1, <1>2, <1>4

LEMMA LatestIs ==
    ASSUME TablesOK, NEW a \in Accounts, NEW start \in Nat
    PROVE  /\ Latest(a, start) \subseteq Snaps
           /\ \A u \in Latest(a, start) : u[1] = a /\ u[2] < start
           /\ \A u, v \in Latest(a, start) : u = v
           /\ \A d \in Days : snapshots[a][d] # 0 /\ d < start =>
                 \E u \in Latest(a, start) : d <= u[2]
<1>1. /\ Latest(a, start) \subseteq Snaps
      /\ \A u \in Latest(a, start) : u[1] = a /\ u[2] < start
  BY DEF Latest
<1>2. ASSUME NEW u \in Latest(a, start), NEW v \in Latest(a, start)
      PROVE  u = v
  <2>1. u[2] <= v[2] /\ v[2] <= u[2] /\ u[1] = v[1]
    BY DEF Latest
  <2>2. u[2] \in Nat /\ v[2] \in Nat
    BY <1>1, SnapsAre DEF Rows, Days
  <2>3. u[2] = v[2]
    BY <2>1, <2>2
  <2>4. QED
    BY <1>1, <2>1, <2>3, SnapsOrdered
<1>3. ASSUME NEW d \in Days, snapshots[a][d] # 0, d < start
      PROVE  \E u \in Latest(a, start) : d <= u[2]
  <2> DEFINE T == {e \in Days : snapshots[a][e] # 0 /\ e < start}
  <2>1. T \subseteq Nat /\ T # {} /\ \A e \in T : e <= start
    BY <1>3 DEF Days
  <2>2. PICK m \in T : \A e \in T : e <= m
    BY <2>1, Largest
  <2>3. d <= m
    BY <1>3, <2>2
  <2> DEFINE u == <<a, m, snapshots[a][m]>>
  <2>4. u \in Snaps
    BY SnapsAre
  <2>5. ASSUME NEW y \in Snaps, y[1] = a, y[2] < start
        PROVE  y[2] <= u[2]
    <3>1. y[2] \in Days /\ snapshots[a][y[2]] # 0
      BY <2>5, SnapsAre DEF Rows
    <3>2. QED
      BY <2>2, <2>5, <3>1
  <2>6. u \in Latest(a, start)
    BY <2>4, <2>5 DEF Latest
  <2>7. QED
    BY <2>3, <2>6
<1>4. QED
  BY <1>1, <1>2, <1>3

-----------------------------------------------------------------------------
(* The writes keep the tables, and lose no row.                            *)

Grows ==
    /\ \A a \in Accounts, d \in Days : snapshots[a][d] <= snapshots'[a][d]
    /\ rated \subseteq rated'

LEMMA Stays ==
    ASSUME TablesOK, UNCHANGED <<snapshots, rated>>
    PROVE  Grows
<1>1. \A a \in Accounts, d \in Days : snapshots[a][d] \in Nat
  BY DEF TablesOK
<1>2. QED
  BY <1>1 DEF Grows

LEMMA Syncs ==
    ASSUME TablesOK, NEW a \in Accounts, Sync(a)
    PROVE  TablesOK' /\ Grows
<1> DEFINE v == IF Fits(Row(a, reported[a] + 1)) THEN reported[a] + 1 ELSE stored[a]
<1>1. /\ reported' = [reported EXCEPT ![a] = reported[a] + 1]
      /\ stored' = [stored EXCEPT ![a] = v]
      /\ reported[a] < Len(Reports[a])
      /\ UNCHANGED <<today, preferred, snapshots, rated>>
  BY DEF Sync
<1>2. Len(Reports[a]) \in Nat /\ reported[a] \in Nat /\ stored[a] \in Nat
  <2>1. Reports[a] \in Seq(Answers)
    BY QueryAssumption
  <2>2. QED
    BY <2>1 DEF TablesOK
<1>3. v \in Nat /\ v <= reported[a] + 1 /\ stored[a] <= v
  BY <1>2 DEF TablesOK
<1>4. v # 0 => Fits(Row(a, v))
  BY DEF TablesOK
<1> HIDE DEF v
<1>5. reported' \in [Accounts -> Nat] /\ stored' \in [Accounts -> Nat]
  BY <1>1, <1>2, <1>3 DEF TablesOK
<1>6. ASSUME NEW b \in Accounts
      PROVE  /\ reported'[b] <= Len(Reports[b])
             /\ stored'[b] <= reported'[b]
             /\ stored'[b] # 0 => Fits(Row(b, stored'[b]))
             /\ stored[b] <= stored'[b]
  <2>1. CASE b = a
    <3>1. reported'[b] = reported[a] + 1 /\ stored'[b] = v
      BY <1>1, <2>1 DEF TablesOK
    <3>2. QED
      BY <1>1, <1>2, <1>3, <1>4, <2>1, <3>1
  <2>2. CASE b # a
    <3>1. reported'[b] = reported[b] /\ stored'[b] = stored[b] /\ stored[b] \in Nat
      BY <1>1, <2>2 DEF TablesOK
    <3>2. QED
      BY <3>1 DEF TablesOK
  <2>3. QED
    BY <2>1, <2>2
<1>7. ASSUME NEW b \in Accounts, NEW d \in Days
      PROVE  snapshots'[b][d] <= stored'[b]
  <2>1. snapshots[b][d] \in Nat /\ stored[b] \in Nat /\ stored'[b] \in Nat
    BY <1>5 DEF TablesOK
  <2>2. QED
    BY <1>1, <1>6, <2>1 DEF TablesOK
<1>8. Grows
  BY <1>1, Stays
<1>9. QED
  BY <1>1, <1>5, <1>6, <1>7, <1>8 DEF TablesOK

LEMMA Records ==
    ASSUME TablesOK, NEW a \in Accounts, Record(a)
    PROVE  TablesOK' /\ Grows
<1>1. /\ stored[a] # 0 /\ today \in Days /\ stored[a] \in Nat
      /\ snapshots' = [snapshots EXCEPT ![a] = [snapshots[a] EXCEPT ![today] = stored[a]]]
      /\ snapshots \in [Accounts -> [Days -> Nat]]
      /\ UNCHANGED <<today, preferred, stored, reported, rated>>
  BY DEF Record, TablesOK
<1>2. [snapshots[a] EXCEPT ![today] = stored[a]] \in [Days -> Nat]
  BY <1>1
<1>3. snapshots' \in [Accounts -> [Days -> Nat]]
  BY <1>1, <1>2
<1>4. ASSUME NEW b \in Accounts, NEW d \in Days
      PROVE  snapshots'[b][d] = IF b = a /\ d = today THEN stored[a] ELSE snapshots[b][d]
  BY <1>1
<1>5. ASSUME NEW b \in Accounts, NEW d \in Days
      PROVE  /\ snapshots'[b][d] <= stored[b]
             /\ snapshots'[b][d] # 0 => d <= today /\ Fits(Row(b, snapshots'[b][d]))
             /\ snapshots[b][d] <= snapshots'[b][d]
  <2>1. snapshots[b][d] \in Nat /\ stored[b] \in Nat
    BY DEF TablesOK
  <2>0. today \in Nat
    BY <1>1 DEF Days
  <2>2. CASE b = a /\ d = today
    <3>1. snapshots'[b][d] = stored[b]
      BY <1>4, <2>2
    <3>2. today <= today
      BY <2>0
    <3>3. QED
      BY <1>1, <2>1, <2>2, <3>1, <3>2 DEF TablesOK
  <2>3. CASE ~(b = a /\ d = today)
    <3>1. snapshots'[b][d] = snapshots[b][d]
      BY <1>4, <2>3
    <3>2. QED
      BY <2>1, <3>1 DEF TablesOK
  <2>4. QED
    BY <2>2, <2>3
<1>6. ASSUME NEW b \in Accounts, NEW d \in Days, NEW e \in Days,
             d <= e, snapshots'[b][e] # 0
      PROVE  snapshots'[b][d] <= snapshots'[b][e]
  <2>1. d \in Nat /\ e \in Nat /\ today \in Nat
    BY <1>1 DEF Days
  <2>2. CASE b = a /\ e = today
    <3>1. snapshots'[b][e] = stored[b]
      BY <1>4, <2>2
    <3>2. QED
      BY <1>5, <3>1
  <2>3. CASE ~(b = a /\ e = today)
    <3>1. snapshots'[b][e] = snapshots[b][e]
      BY <1>4, <2>3
    <3>2. snapshots'[b][d] = snapshots[b][d]
      <4>1. e <= today
        BY <1>6, <3>1 DEF TablesOK
      <4>2. ~(b = a /\ d = today)
        BY <1>6, <2>1, <2>3, <4>1
      <4>3. QED
        BY <1>4, <4>2
    <3>3. QED
      BY <1>6, <3>1, <3>2 DEF TablesOK
  <2>4. QED
    BY <2>2, <2>3
<1>7. Grows
  BY <1>1, <1>5 DEF Grows
<1>8. QED
  BY <1>1, <1>3, <1>5, <1>6, <1>7 DEF TablesOK

LEMMA OtherWrites ==
    ASSUME TablesOK,
           \/ \E p \in Pairs, d \in Days : StoreRate(p, d)
           \/ Midnight
           \/ \E c \in Preferred : ChangeCurrency(c)
    PROVE  TablesOK' /\ Grows
<1>1. CASE \E p \in Pairs, d \in Days : StoreRate(p, d)
  <2>1. PICK p \in Pairs, d \in Days : StoreRate(p, d)
    BY <1>1
  <2>2. /\ d \in DOMAIN Price[p] /\ rated' = rated \cup {<<p, d>>}
        /\ UNCHANGED <<today, preferred, stored, snapshots, reported>>
    BY <2>1 DEF StoreRate
  <2>3. /\ rated' \subseteq Pairs \X Days
        /\ \A x \in rated' : x[2] \in DOMAIN Price[x[1]]
    BY <2>2 DEF TablesOK
  <2>4. Grows
    <3>1. \A a \in Accounts, e \in Days : snapshots[a][e] \in Nat
      BY DEF TablesOK
    <3>2. QED
      BY <2>2, <3>1 DEF Grows
  <2>5. QED
    BY <2>2, <2>3, <2>4 DEF TablesOK
<1>2. CASE Midnight
  <2>1. /\ today < MaxDay /\ today' = today + 1
        /\ UNCHANGED <<preferred, stored, snapshots, reported, rated>>
    BY <1>2 DEF Midnight
  <2>2. today' \in Days /\ \A d \in Days : d <= today => d <= today'
    BY <2>1, QueryAssumption DEF TablesOK, Days
  <2>3. Grows
    BY <2>1, Stays
  <2>4. QED
    BY <2>1, <2>2, <2>3 DEF TablesOK
<1>3. CASE \E c \in Preferred : ChangeCurrency(c)
  <2>1. preferred' \in Preferred /\ UNCHANGED <<today, stored, snapshots, reported, rated>>
    BY <1>3 DEF ChangeCurrency
  <2>2. Grows
    BY <2>1, Stays
  <2>3. QED
    BY <2>1, <2>2 DEF TablesOK
<1>4. QED
  BY <1>1, <1>2, <1>3

LEMMA WritesKeep ==
    ASSUME BalanceInv,
           \/ \E a \in Accounts : Sync(a) \/ Record(a)
           \/ \E p \in Pairs, d \in Days : StoreRate(p, d)
           \/ Midnight
           \/ \E c \in Preferred : ChangeCurrency(c)
    PROVE  BalanceInv'
<1>1. TablesOK /\ QueryOK(query) /\ NowOK(query)
  BY DEF BalanceInv
<1>2. TablesOK' /\ Grows
  BY <1>1, Syncs, Records, OtherWrites
<1>3. Meanwhile /\ query' = query
  BY DEF Sync, Record, StoreRate, Midnight, ChangeCurrency
<1>4. overlap' \in 0..MaxOverlap
  BY <1>3, QueryAssumption DEF Meanwhile, BalanceInv
<1>5. SnapsPast(query, snapshots')
  <2>1. SUFFICES ASSUME NEW u \in query.snaps \cup query.askedSnaps
                 PROVE  u[3] <= snapshots'[u[1]][u[2]]
    BY DEF SnapsPast
  <2>2. u[1] \in Accounts /\ u[2] \in Days /\ u[3] \in Nat
    BY <1>1 DEF QueryOK, RequestRecord
  <2>3. u[3] <= snapshots[u[1]][u[2]]
    BY <1>1 DEF NowOK, SnapsPast
  <2>4. snapshots[u[1]][u[2]] \in Nat /\ snapshots'[u[1]][u[2]] \in Nat
    BY <1>1, <1>2, <2>2 DEF TablesOK
  <2>5. QED
    BY <1>2, <2>2, <2>3, <2>4 DEF Grows
<1>6. query.rates \subseteq rated' /\ query.askedRates \subseteq rated'
  BY <1>1, <1>2 DEF NowOK, Grows
<1>7. QED
  BY <1>1, <1>2, <1>3, <1>4, <1>5, <1>6 DEF BalanceInv, NowOK

-----------------------------------------------------------------------------
(* The steps of a request.                                                 *)

LEMMA GoKeeps ==
    ASSUME BalanceInv, NEW q, Go(q), QueryOK(q), NowOK(q)
    PROVE  BalanceInv'
<1>1. query' = q /\ UNCHANGED <<today, preferred, stored, snapshots, reported, rated>>
  BY DEF Go
<1>2. overlap' \in 0..MaxOverlap
  BY QueryAssumption DEF Go, BalanceInv
<1>3. TablesOK'
  BY <1>1 DEF BalanceInv, TablesOK
<1>4. QueryOK(query') /\ NowOK(query)'
  BY <1>1 DEF NowOK, SnapsPast
<1>5. QED
  BY <1>2, <1>3, <1>4 DEF BalanceInv

(* A request that has read nothing                                         *)
LEMMA FreshOK ==
    ASSUME TablesOK, NEW q \in RequestRecord, q.start <= q.end,
           q.accounts = {}, q.snaps = {}, q.rates = {},
           q.askedSnaps \in SUBSET Snaps, q.askedRates \in SUBSET rated
    PROVE  QueryOK(q) /\ NowOK(q)
<1>1. Of(q) = {} /\ Sought(q) = {}
  BY DEF Of, Sought, Needed
<1>2. AccountsRead(q) /\ SnapsRead(q) /\ RatesRead(q)
  BY <1>1 DEF AccountsRead, SnapsRead, RatesRead
<1>3. SnapsPast(q, snapshots)
  <2>1. ASSUME NEW u \in q.snaps \cup q.askedSnaps
        PROVE  u[3] <= snapshots[u[1]][u[2]]
    <3>1. u \in Rows /\ u[3] = snapshots[u[1]][u[2]]
      BY SnapsAre
    <3>2. QED
      BY <3>1 DEF Rows
  <2>2. QED
    BY <2>1 DEF SnapsPast
<1>4. QED
  BY <1>2, <1>3 DEF QueryOK, NowOK

LEMMA IdleOK == TablesOK => QueryOK(Idle) /\ NowOK(Idle)
<1> SUFFICES ASSUME TablesOK PROVE QueryOK(Idle) /\ NowOK(Idle)
  OBVIOUS
<1>1. Idle \in RequestRecord
  BY CurrencyAssumption DEF Idle, RequestRecord, Points
<1>2. /\ Idle.start <= Idle.end /\ Idle.accounts = {} /\ Idle.snaps = {} /\ Idle.rates = {}
      /\ Idle.askedSnaps = {} /\ Idle.askedRates = {}
  BY DEF Idle
<1>3. QED
  BY <1>1, <1>2, FreshOK

LEMMA AskedOK ==
    ASSUME TablesOK, NEW ids \in SUBSET Accounts, NEW range, NEW pc \in Points,
           range \in Nat \X Nat, range[1] <= range[2]
    PROVE  QueryOK(Asked(ids, range, pc)) /\ NowOK(Asked(ids, range, pc))
<1>1. PICK q : q = Asked(ids, range, pc)
  OBVIOUS
<1>2. q = [pc |-> pc, ids |-> ids, start |-> range[1], end |-> range[2], target |-> USD,
           accounts |-> {}, snaps |-> {}, rates |-> {}, failed |-> FALSE,
           askedSnaps |-> Snaps, askedRates |-> rated]
  BY <1>1 DEF Asked, Idle
<1>3. Snaps \subseteq Accounts \X Days \X (Nat \ {0}) /\ rated \subseteq Pairs \X Days
  BY SnapsAre DEF Rows, TablesOK
<1>4. q \in RequestRecord
  BY <1>2, <1>3, CurrencyAssumption DEF RequestRecord
<1>5. QueryOK(q) /\ NowOK(q)
  BY <1>2, <1>4, FreshOK
<1>6. QED
  BY <1>1, <1>5

LEMMA AsksKeep ==
    ASSUME BalanceInv,
           \/ \E x \in Requests : Ask(x[1], x[2])
           \/ \E range \in Ranges : AskAll(range)
    PROVE  BalanceInv'
<1>1. TablesOK
  BY DEF BalanceInv
<1>2. CASE \E x \in Requests : Ask(x[1], x[2])
  <2>1. PICK x \in Requests : Ask(x[1], x[2])
    BY <1>2
  <2>2. x[2] \in Nat \X Nat /\ x[2][1] <= x[2][2]
    BY QueryAssumption
  <2>3. PICK pc \in Points : Go(Asked(x[1] \cap Accounts, x[2], pc))
    BY <2>1 DEF Ask, Points
  <2>4. QED
    BY <1>1, <2>2, <2>3, AskedOK, GoKeeps
<1>3. CASE \E range \in Ranges : AskAll(range)
  <2>1. PICK range \in Ranges : AskAll(range)
    BY <1>3
  <2>2. range \in Nat \X Nat /\ range[1] <= range[2]
    BY QueryAssumption
  <2>3. PICK pc \in Points : Go(Asked({a \in Accounts : stored[a] # 0}, range, pc))
    BY <2>1 DEF AskAll, Points
  <2>4. QED
    BY <1>1, <2>2, <2>3, AskedOK, GoKeeps
<1>4. QED
  BY <1>2, <1>3

(* From the user's row to the accounts                                     *)
LEMMA ReadUserKeeps ==
    ASSUME BalanceInv, ReadUser
    PROVE  BalanceInv'
<1>1. PICK q : q = [query EXCEPT !.pc = "accounts", !.target = preferred]
  OBVIOUS
<1>2. /\ query.pc = "user" /\ Go(q) /\ TablesOK /\ QueryOK(query) /\ NowOK(query)
  BY <1>1 DEF ReadUser, BalanceInv
<1>3. query \in RequestRecord /\ preferred \in Currency
  BY <1>2, QueryAssumption DEF QueryOK, TablesOK
<1>4. /\ q \in RequestRecord /\ q.pc = "accounts"
      /\ q.ids = query.ids /\ q.start = query.start /\ q.end = query.end
      /\ q.accounts = query.accounts /\ q.snaps = query.snaps /\ q.rates = query.rates
      /\ q.askedSnaps = query.askedSnaps /\ q.askedRates = query.askedRates
  BY <1>1, <1>3 DEF RequestRecord, Points
<1>5. q.snaps = {} /\ q.rates = {}
  BY <1>2, <1>4 DEF QueryOK, SnapsRead, RatesRead, Before
<1>6. AccountsRead(q)
  BY <1>2, <1>4 DEF QueryOK, AccountsRead
<1>7. SnapsRead(q) /\ RatesRead(q)
  BY <1>4, <1>5 DEF SnapsRead, RatesRead, Before, AfterRange, AfterPrior
<1>8. QueryOK(q) /\ NowOK(q)
  BY <1>2, <1>4, <1>6, <1>7 DEF QueryOK, NowOK, SnapsPast
<1>9. QED
  BY <1>2, <1>8, GoKeeps

LEMMA ReadAccountsKeeps ==
    ASSUME BalanceInv, ReadAccounts
    PROVE  BalanceInv'
<1> DEFINE found == {<<a, stored[a]>> : a \in {x \in query.ids : stored[x] # 0}}
<1>1. PICK q : q = [query EXCEPT !.accounts = found,
                                 !.pc = IF found = {} THEN "done" ELSE "inRange"]
  OBVIOUS
<1>2. query.pc = "accounts" /\ Go(q) /\ TablesOK /\ QueryOK(query) /\ NowOK(query)
  BY <1>1 DEF ReadAccounts, BalanceInv
<1>3. query \in RequestRecord
  BY <1>2 DEF QueryOK
<1>4. ASSUME NEW x \in found
      PROVE  /\ x \in Accounts \X (Nat \ {0})
             /\ x[1] \in query.ids /\ x[2] \in Versions(x[1]) /\ x[2] = stored[x[1]]
  <2>1. PICK a \in query.ids : x = <<a, stored[a]>> /\ stored[a] # 0
    OBVIOUS
  <2>2. a \in Accounts
    BY <1>3 DEF RequestRecord
  <2>3. Reports[a] \in Seq(Answers)
    BY <2>2, QueryAssumption
  <2>4. stored[a] \in Nat /\ reported[a] \in Nat /\ Len(Reports[a]) \in Nat
    BY <1>2, <2>2, <2>3 DEF TablesOK
  <2>5. stored[a] <= reported[a] /\ reported[a] <= Len(Reports[a])
    BY <1>2, <2>2 DEF TablesOK
  <2>6. QED
    BY <2>1, <2>2, <2>4, <2>5 DEF Versions
<1>5. ASSUME NEW x \in found, NEW y \in found, x[1] = y[1]
      PROVE  x = y
  BY <1>4, <1>5
<1>6. found \in SUBSET (Accounts \X (Nat \ {0}))
  BY <1>4
<1> HIDE DEF found
<1>7. /\ q \in RequestRecord /\ q.accounts = found
      /\ q.pc = "inRange" \/ (q.pc = "done" /\ found = {})
      /\ q.ids = query.ids /\ q.start = query.start /\ q.end = query.end
      /\ q.snaps = query.snaps /\ q.rates = query.rates
      /\ q.askedSnaps = query.askedSnaps /\ q.askedRates = query.askedRates
  BY <1>1, <1>3, <1>6 DEF RequestRecord, Points
<1>8. q.snaps = {} /\ q.rates = {}
  BY <1>2, <1>7 DEF QueryOK, SnapsRead, RatesRead, Before
<1>9. AccountsRead(q)
  BY <1>4, <1>5, <1>7 DEF AccountsRead
<1>10. q.pc = "done" => Of(q) = {} /\ Sought(q) = {}
  BY <1>7 DEF Of, Sought, Needed
<1>11. SnapsRead(q) /\ RatesRead(q)
  BY <1>7, <1>8, <1>10 DEF SnapsRead, RatesRead, Before, AfterRange, AfterPrior
<1>12. QueryOK(q) /\ NowOK(q)
  BY <1>2, <1>7, <1>9, <1>11 DEF QueryOK, NowOK, SnapsPast
<1>13. QED
  BY <1>2, <1>12, GoKeeps

(* The snapshots of the range: each that was there is, and none is older.  *)
LEMMA ReadSnapshotsKeeps ==
    ASSUME BalanceInv, ReadSnapshots
    PROVE  BalanceInv'
<1> DEFINE rows == {x \in Snaps : x[1] \in Of(query) /\ query.start <= x[2] /\ x[2] <= query.end}
<1>1. PICK q : q = [query EXCEPT !.pc = "prior", !.snaps = rows]
  OBVIOUS
<1>2. query.pc = "inRange" /\ Go(q) /\ TablesOK /\ QueryOK(query) /\ NowOK(query)
  BY <1>1 DEF ReadSnapshots, BalanceInv
<1>3. query \in RequestRecord
  BY <1>2 DEF QueryOK
<1>4. rows \in SUBSET (Accounts \X Days \X (Nat \ {0}))
  BY <1>2, SnapsAre DEF Rows
<1>5. \A u \in rows : u \in Snaps /\ u[1] \in Of(query) /\ query.start <= u[2] /\ u[2] <= query.end
  OBVIOUS
<1>6. ASSUME NEW a \in Of(query), NEW d \in Days, a \in Accounts,
             snapshots[a][d] # 0, query.start <= d, d <= query.end
      PROVE  <<a, d, snapshots[a][d]>> \in rows
  BY <1>2, <1>6, SnapsAre
<1> HIDE DEF rows
<1>7. /\ q \in RequestRecord /\ q.pc = "prior" /\ q.snaps = rows
      /\ q.ids = query.ids /\ q.start = query.start /\ q.end = query.end
      /\ q.accounts = query.accounts /\ q.rates = query.rates /\ q.target = query.target
      /\ q.askedSnaps = query.askedSnaps /\ q.askedRates = query.askedRates
  BY <1>1, <1>3, <1>4 DEF RequestRecord, Points
<1>8. AccountsRead(q) /\ Of(q) = Of(query) /\ q.rates = {}
  BY <1>2, <1>7 DEF QueryOK, AccountsRead, Of, RatesRead, Before
<1>9. ASSUME NEW t \in q.askedSnaps
      PROVE  /\ t[1] \in Accounts /\ t[2] \in Days /\ t[3] \in Nat /\ t[3] # 0
             /\ snapshots[t[1]][t[2]] \in Nat /\ t[3] <= snapshots[t[1]][t[2]]
  <2>1. t[1] \in Accounts /\ t[2] \in Days /\ t[3] \in Nat /\ t[3] # 0
    BY <1>7 DEF RequestRecord
  <2>2. t[3] <= snapshots[t[1]][t[2]]
    BY <1>2, <1>7 DEF NowOK, SnapsPast
  <2>3. QED
    BY <1>2, <2>1, <2>2 DEF TablesOK
<1>10. \A u, v \in rows :
          /\ u[1] = v[1] /\ u[2] = v[2] => u = v
          /\ u[1] = v[1] /\ q.start <= u[2] /\ u[2] <= v[2] => u[3] <= v[3]
  BY <1>2, <1>5, SnapsOrdered
<1>11. ASSUME NEW t \in q.askedSnaps, NEW u \in rows, t[1] = u[1], t[2] <= u[2]
       PROVE  t[3] <= u[3]
  <2>1. u \in Rows /\ u[3] = snapshots[u[1]][u[2]] /\ u \in Snaps
    BY <1>2, <1>5, SnapsAre
  <2>2. u[2] \in Days /\ u[3] \in Nat /\ u[3] # 0
    BY <2>1 DEF Rows
  <2>3. snapshots[t[1]][t[2]] <= u[3]
    BY <1>2, <1>9, <1>11, <2>1, <2>2 DEF TablesOK
  <2>4. QED
    BY <1>9, <2>2, <2>3
<1>12. ASSUME NEW t \in q.askedSnaps, t[1] \in Of(q), q.start <= t[2], t[2] <= q.end
       PROVE  \E u \in rows : u[1] = t[1] /\ u[2] = t[2]
  <2>1. snapshots[t[1]][t[2]] # 0
    BY <1>9
  <2>2. <<t[1], t[2], snapshots[t[1]][t[2]]>> \in rows
    BY <1>6, <1>7, <1>8, <1>9, <1>12, <2>1
  <2>3. QED
    BY <2>2
<1>13. \A u \in rows : u[1] \in Of(q) /\ q.start <= u[2] /\ u[2] <= q.end
  BY <1>5, <1>7, <1>8
<1>14. SnapsRead(q)
  BY <1>7, <1>10, <1>11, <1>12, <1>13 DEF SnapsRead, Before, AfterPrior
<1>15. RatesRead(q)
  BY <1>7, <1>8 DEF RatesRead
<1>16. NowOK(q)
  <2>1. ASSUME NEW u \in rows
        PROVE  u[3] <= snapshots[u[1]][u[2]]
    <3>1. u \in Rows /\ u[3] = snapshots[u[1]][u[2]]
      BY <1>2, <1>5, SnapsAre
    <3>2. QED
      BY <3>1 DEF Rows
  <2>2. QED
    BY <1>2, <1>7, <2>1 DEF NowOK, SnapsPast
<1>17. QED
  BY <1>2, <1>7, <1>8, <1>14, <1>15, <1>16, GoKeeps DEF QueryOK

(* Then the most recent before it                                          *)
LEMMA ReadPriorKeeps ==
    ASSUME BalanceInv, ReadPrior
    PROVE  BalanceInv'
<1> DEFINE more == UNION {Latest(a, query.start) : a \in Of(query)}
<1>1. PICK q : q = [query EXCEPT !.snaps = query.snaps \cup more,
                                 !.pc = IF Needed(query) = {} THEN "done" ELSE "ratesInRange"]
  OBVIOUS
<1>2. query.pc = "prior" /\ Go(q) /\ TablesOK /\ QueryOK(query) /\ NowOK(query)
  BY <1>1 DEF ReadPrior, BalanceInv
<1>3. query \in RequestRecord /\ query.start \in Nat /\ query.end \in Nat /\ query.start <= query.end
  BY <1>2 DEF QueryOK, RequestRecord
<1>4. Of(query) \subseteq Accounts
  BY <1>3 DEF Of, RequestRecord
<1>5. ASSUME NEW u \in more
      PROVE  /\ u \in Snaps /\ u \in Rows /\ u[3] = snapshots[u[1]][u[2]]
             /\ u[1] \in Of(query) /\ u[2] < query.start /\ u \in Latest(u[1], query.start)
  <2>1. PICK a \in Of(query) : u \in Latest(a, query.start)
    OBVIOUS
  <2>2. u \in Snaps /\ u[1] = a /\ u[2] < query.start
    BY <1>2, <1>3, <1>4, <2>1, LatestIs
  <2>3. QED
    BY <1>2, <2>1, <2>2, SnapsAre
<1>6. ASSUME NEW u \in more, NEW v \in more, u[1] = v[1]
      PROVE  u = v
  BY <1>2, <1>3, <1>4, <1>5, <1>6, LatestIs
<1>7. ASSUME NEW a \in Of(query), NEW d \in Days, snapshots[a][d] # 0, d < query.start
      PROVE  \E u \in more : u[1] = a /\ d <= u[2] /\ u[2] < query.start
  <2>1. PICK u \in Latest(a, query.start) : d <= u[2]
    BY <1>2, <1>3, <1>4, <1>7, LatestIs
  <2>2. u[1] = a /\ u[2] < query.start
    BY <1>2, <1>3, <1>4, LatestIs
  <2>3. QED
    BY <2>1, <2>2
<1> HIDE DEF more
<1>8. query.snaps \cup more \in SUBSET (Accounts \X Days \X (Nat \ {0}))
  BY <1>3, <1>5 DEF RequestRecord, Rows
<1>9. /\ q \in RequestRecord /\ q.snaps = query.snaps \cup more
      /\ (q.pc = "done" /\ Needed(query) = {}) \/ q.pc = "ratesInRange"
      /\ q.ids = query.ids /\ q.start = query.start /\ q.end = query.end
      /\ q.accounts = query.accounts /\ q.rates = query.rates /\ q.target = query.target
      /\ q.askedSnaps = query.askedSnaps /\ q.askedRates = query.askedRates
  BY <1>1, <1>3, <1>8 DEF RequestRecord, Points
<1>10. /\ AccountsRead(q) /\ Of(q) = Of(query) /\ Needed(q) = Needed(query) /\ q.rates = {}
  BY <1>2, <1>9 DEF QueryOK, AccountsRead, Of, Needed, RatesRead
<1>11. ASSUME NEW u \in q.snaps
       PROVE  u[2] \in Nat /\ u[3] \in Nat /\ (u \in query.snaps <=> q.start <= u[2])
  <2>1. u[2] \in Nat /\ u[3] \in Nat
    BY <1>9 DEF RequestRecord, Days
  <2>2. u \in query.snaps => q.start <= u[2]
    BY <1>2, <1>9 DEF QueryOK, SnapsRead
  <2>3. u \notin query.snaps => u[2] < q.start
    BY <1>5, <1>9
  <2>4. QED
    BY <1>3, <1>9, <2>1, <2>2, <2>3
<1>12. ASSUME NEW t \in q.askedSnaps
       PROVE  /\ t[1] \in Accounts /\ t[2] \in Days /\ t[3] \in Nat /\ t[3] # 0
              /\ snapshots[t[1]][t[2]] \in Nat /\ t[3] <= snapshots[t[1]][t[2]]
  <2>1. t[1] \in Accounts /\ t[2] \in Days /\ t[3] \in Nat /\ t[3] # 0
    BY <1>9 DEF RequestRecord
  <2>2. t[3] <= snapshots[t[1]][t[2]]
    BY <1>2, <1>9 DEF NowOK, SnapsPast
  <2>3. QED
    BY <1>2, <2>1, <2>2 DEF TablesOK
<1>13. \A u, v \in q.snaps : u[1] = v[1] /\ u[2] = v[2] => u = v
  <2>1. SUFFICES ASSUME NEW u \in q.snaps, NEW v \in q.snaps, u[1] = v[1], u[2] = v[2]
                 PROVE  u = v
    OBVIOUS
  <2>2. CASE u \in query.snaps
    <3>1. v \in query.snaps
      BY <1>11, <2>1, <2>2
    <3>2. QED
      BY <1>2, <2>1, <2>2, <3>1 DEF QueryOK, SnapsRead
  <2>3. CASE u \notin query.snaps
    <3>1. u \in more /\ v \in more
      BY <1>9, <1>11, <2>1, <2>3
    <3>2. QED
      BY <1>6, <2>1, <3>1
  <2>4. QED
    BY <2>2, <2>3
<1>14. \A u, v \in q.snaps :
          u[1] = v[1] /\ q.start <= u[2] /\ u[2] <= v[2] => u[3] <= v[3]
  <2>1. SUFFICES ASSUME NEW u \in q.snaps, NEW v \in q.snaps,
                        u[1] = v[1], q.start <= u[2], u[2] <= v[2]
                 PROVE  u[3] <= v[3]
    OBVIOUS
  <2>2. q.start <= v[2]
    BY <1>3, <1>9, <1>11, <2>1
  <2>3. u \in query.snaps /\ v \in query.snaps
    BY <1>11, <2>1, <2>2
  <2>4. QED
    BY <1>2, <1>9, <2>1, <2>3 DEF QueryOK, SnapsRead
<1>15. \A u \in q.snaps : u[1] \in Of(q) /\ u[2] <= q.end
  <2>1. SUFFICES ASSUME NEW u \in q.snaps
                 PROVE  u[1] \in Of(q) /\ u[2] <= q.end
    OBVIOUS
  <2>2. CASE u \in query.snaps
    BY <1>2, <1>9, <1>10, <2>2 DEF QueryOK, SnapsRead
  <2>3. CASE u \in more
    BY <1>3, <1>5, <1>9, <1>10, <1>11, <2>3
  <2>4. QED
    BY <1>9, <2>2, <2>3
<1>16. \A t \in q.askedSnaps, u \in q.snaps : t[1] = u[1] /\ t[2] <= u[2] => t[3] <= u[3]
  <2>1. SUFFICES ASSUME NEW t \in q.askedSnaps, NEW u \in q.snaps, t[1] = u[1], t[2] <= u[2]
                 PROVE  t[3] <= u[3]
    OBVIOUS
  <2>2. CASE u \in query.snaps
    BY <1>2, <1>9, <2>1, <2>2 DEF QueryOK, SnapsRead
  <2>3. CASE u \in more
    <3>1. u[2] \in Days /\ u[3] \in Nat /\ u[3] # 0 /\ u[3] = snapshots[u[1]][u[2]]
      BY <1>5, <2>3 DEF Rows
    <3>2. snapshots[t[1]][t[2]] <= u[3]
      BY <1>2, <1>12, <2>1, <3>1 DEF TablesOK
    <3>3. QED
      BY <1>12, <3>1, <3>2
  <2>4. QED
    BY <1>9, <2>2, <2>3
<1>17. \A t \in q.askedSnaps :
          t[1] \in Of(q) /\ q.start <= t[2] /\ t[2] <= q.end =>
             \E u \in q.snaps : u[1] = t[1] /\ u[2] = t[2]
  BY <1>2, <1>9, <1>10 DEF QueryOK, SnapsRead, AfterRange
<1>18. \A t \in q.askedSnaps :
          t[1] \in Of(q) /\ t[2] < q.start =>
             \E u \in q.snaps : u[1] = t[1] /\ t[2] <= u[2] /\ u[2] < q.start
  BY <1>7, <1>9, <1>10, <1>12
<1>19. SnapsRead(q)
  BY <1>9, <1>13, <1>14, <1>15, <1>16, <1>17, <1>18 DEF SnapsRead, Before
<1>20. RatesRead(q)
  BY <1>9, <1>10 DEF RatesRead, Sought
<1>21. NowOK(q)
  <2>1. ASSUME NEW u \in more
        PROVE  u[3] <= snapshots[u[1]][u[2]]
    BY <1>5 DEF Rows
  <2>2. QED
    BY <1>2, <1>9, <2>1 DEF NowOK, SnapsPast
<1>22. QED
  BY <1>2, <1>9, <1>10, <1>19, <1>20, <1>21, GoKeeps DEF QueryOK

-----------------------------------------------------------------------------
(* The queries for rates.                                                  *)

LEMMA DaysOfIs ==
    ASSUME NEW rows, rows \subseteq Pairs \X Days, NEW p
    PROVE  /\ DaysOf(rows, p) \subseteq Days
           /\ \A u : u \in DaysOf(rows, p) <=> <<p, u>> \in rows
<1>1. ASSUME NEW u \in DaysOf(rows, p)
      PROVE  u \in Days /\ <<p, u>> \in rows
  <2>1. PICK y \in rows : y[1] = p /\ u = y[2]
    BY DEF DaysOf
  <2>2. y = <<y[1], y[2]>> /\ y[2] \in Days
    OBVIOUS
  <2>3. QED
    BY <2>1, <2>2
<1>2. ASSUME NEW u, <<p, u>> \in rows
      PROVE  u \in DaysOf(rows, p)
  <2>1. <<p, u>> \in {y \in rows : y[1] = p} /\ <<p, u>>[2] = u
    BY <1>2
  <2>2. QED
    BY <2>1 DEF DaysOf
<1>3. QED
  BY <1>1, <1>2

ReadingRates == {"ratesInRange", "priorRates", "futureRates"}

(* What a query for rates leaves alone                                     *)
OnlyRates(k, q) ==
    /\ q \in RequestRecord
    /\ q.ids = k.ids /\ q.start = k.start /\ q.end = k.end
    /\ q.target = k.target /\ q.accounts = k.accounts /\ q.snaps = k.snaps
    /\ q.askedSnaps = k.askedSnaps /\ q.askedRates = k.askedRates

LEMMA OnlyRatesKeeps ==
    ASSUME QueryOK(query), NowOK(query), NEW q, OnlyRates(query, q),
           query.pc \in ReadingRates, q.pc \in ReadingRates \cup {"done"},
           q.rates \subseteq rated, RatesRead(q)
    PROVE  QueryOK(q) /\ NowOK(q)
<1>1. AccountsRead(q) /\ Of(q) = Of(query)
  BY DEF QueryOK, OnlyRates, AccountsRead, Of
<1>2. SnapsRead(query)
  BY DEF QueryOK
<1>3. SnapsRead(q)
  BY <1>1, <1>2 DEF SnapsRead, OnlyRates, ReadingRates, Before, AfterRange, AfterPrior
<1>4. QED
  BY <1>1, <1>3 DEF QueryOK, NowOK, SnapsPast, OnlyRates

LEMMA ReadRatesWell ==
    ASSUME BalanceInv, query.pc \in ReadingRates, NEW found,
           NEW next \in ReadingRates \cup {"done"},
           DOMAIN found = Sought(query),
           \A p \in Sought(query) : found[p] \subseteq DaysOf(rated, p),
           ReadRates(found, next)
    PROVE  \E q : /\ Go(q) /\ OnlyRates(query, q)
                  /\ q.pc = next /\ q.failed = query.failed /\ q.rates \subseteq rated
                  /\ Sought(q) = Sought(query)
                  /\ \A p \in Sought(query) :
                        DaysOf(q.rates, p) = DaysOf(query.rates, p) \cup found[p]
<1> DEFINE more == UNION {{p} \X found[p] : p \in DOMAIN found}
<1>1. PICK q : q = [query EXCEPT !.pc = next, !.rates = query.rates \cup more]
  OBVIOUS
<1>2. Go(q)
  BY <1>1 DEF ReadRates
<1>3. query \in RequestRecord /\ rated \subseteq Pairs \X Days /\ query.rates \subseteq rated
  BY DEF BalanceInv, QueryOK, TablesOK, NowOK
<1>4. ASSUME NEW u \in more
      PROVE  \E p \in Sought(query) : \E d \in found[p] : u = <<p, d>>
  OBVIOUS
<1>5. ASSUME NEW p \in Sought(query), NEW d \in found[p]
      PROVE  <<p, d>> \in more
  OBVIOUS
<1>6. more \subseteq rated
  <2>1. SUFFICES ASSUME NEW u \in more
                 PROVE  u \in rated
    OBVIOUS
  <2>2. PICK p \in Sought(query) : \E d \in found[p] : u = <<p, d>>
    BY <1>4
  <2>3. PICK d \in found[p] : u = <<p, d>>
    BY <2>2
  <2>4. d \in DaysOf(rated, p)
    OBVIOUS
  <2>5. QED
    BY <1>3, <2>3, <2>4, DaysOfIs
<1> HIDE DEF more
<1>7. query.rates \cup more \in SUBSET (Pairs \X Days)
  BY <1>3, <1>6
<1>8. OnlyRates(query, q) /\ q.pc = next /\ q.failed = query.failed /\ q.rates = query.rates \cup more
  BY <1>1, <1>3, <1>7 DEF OnlyRates, RequestRecord, Points, ReadingRates
<1>9. Sought(q) = Sought(query)
  BY <1>8 DEF OnlyRates, Sought, Needed
<1>10. ASSUME NEW p \in Sought(query)
       PROVE  DaysOf(q.rates, p) = DaysOf(query.rates, p) \cup found[p]
  <2>1. /\ \A u : u \in DaysOf(q.rates, p) <=> <<p, u>> \in q.rates
        /\ \A u : u \in DaysOf(query.rates, p) <=> <<p, u>> \in query.rates
    BY <1>3, <1>7, <1>8, DaysOfIs
  <2>2. ASSUME NEW u
        PROVE  <<p, u>> \in more <=> u \in found[p]
    BY <1>4, <1>5
  <2>3. QED
    BY <1>8, <2>1, <2>2
<1>11. QED
  BY <1>2, <1>3, <1>6, <1>8, <1>9, <1>10

LEMMA AskedAreStored ==
    ASSUME BalanceInv, NEW p
    PROVE  /\ DaysOf(query.askedRates, p) \subseteq DaysOf(rated, p)
           /\ DaysOf(rated, p) \subseteq Nat
<1>1. /\ query.askedRates \subseteq rated /\ query.askedRates \subseteq Pairs \X Days
      /\ rated \subseteq Pairs \X Days
  BY DEF BalanceInv, NowOK, QueryOK, RequestRecord, TablesOK
<1>2. /\ \A u : u \in DaysOf(query.askedRates, p) <=> <<p, u>> \in query.askedRates
      /\ \A u : u \in DaysOf(rated, p) <=> <<p, u>> \in rated
      /\ DaysOf(rated, p) \subseteq Days
  BY <1>1, DaysOfIs
<1>3. DaysOf(query.askedRates, p) \subseteq DaysOf(rated, p)
  BY <1>1, <1>2
<1>4. Days \subseteq Nat
  BY DEF Days
<1>5. QED
  BY <1>2, <1>3, <1>4

LEMMA ReadRatesKeeps ==
    ASSUME BalanceInv, ReadRatesInRange \/ ReadPriorRates \/ ReadFutureRates
    PROVE  BalanceInv'
<1>1. QueryOK(query) /\ NowOK(query) /\ query.start \in Nat /\ query.end \in Nat
  BY DEF BalanceInv, QueryOK, RequestRecord
<1>2. CASE ReadRatesInRange
  <2>1. PICK found : found = [p \in Sought(query) |-> InRange(DaysOf(rated, p), query.start, query.end)]
    OBVIOUS
  <2>2. query.pc = "ratesInRange" /\ ReadRates(found, "priorRates")
    BY <1>2, <2>1 DEF ReadRatesInRange
  <2>3. \A p \in Sought(query) :
           found[p] = {x \in DaysOf(rated, p) : query.start <= x /\ x <= query.end}
    BY <2>1 DEF InRange
  <2>4. /\ DOMAIN found = Sought(query) /\ query.pc \in ReadingRates
        /\ \A p \in Sought(query) : found[p] \subseteq DaysOf(rated, p)
        /\ "priorRates" \in ReadingRates \cup {"done"}
    BY <2>1, <2>2, <2>3 DEF ReadingRates
  <2>5. PICK q : /\ Go(q) /\ OnlyRates(query, q)
                 /\ q.pc = "priorRates" /\ q.rates \subseteq rated
                 /\ Sought(q) = Sought(query)
                 /\ \A p \in Sought(query) :
                       DaysOf(q.rates, p) = DaysOf(query.rates, p) \cup found[p]
    BY <2>2, <2>4, ReadRatesWell
  <2>6. RatesRead(q)
    <3>1. ASSUME NEW p \in Sought(q), NEW x \in DaysOf(q.askedRates, p),
                 q.start <= x, x <= q.end
          PROVE  x \in DaysOf(q.rates, p)
      BY <2>3, <2>5, <3>1, AskedAreStored DEF OnlyRates
    <3>2. QED
      BY <2>5, <3>1 DEF RatesRead, Before
  <2>7. QED
    BY <1>1, <2>4, <2>5, <2>6, OnlyRatesKeeps, GoKeeps DEF ReadingRates
<1>3. CASE ReadPriorRates
  <2>1. PICK found : found = [p \in Sought(query) |-> PriorRate(DaysOf(rated, p), query.start)]
    OBVIOUS
  <2>2. query.pc = "priorRates" /\ ReadRates(found, "futureRates")
    BY <1>3, <2>1 DEF ReadPriorRates
  <2>3. \A p \in Sought(query) : found[p] = PriorRate(DaysOf(rated, p), query.start)
    BY <2>1
  <2>4. /\ DOMAIN found = Sought(query) /\ query.pc \in ReadingRates
        /\ \A p \in Sought(query) : found[p] \subseteq DaysOf(rated, p)
        /\ "futureRates" \in ReadingRates \cup {"done"}
    BY <2>1, <2>2, <2>3 DEF ReadingRates, PriorRate
  <2>5. PICK q : /\ Go(q) /\ OnlyRates(query, q)
                 /\ q.pc = "futureRates" /\ q.rates \subseteq rated
                 /\ Sought(q) = Sought(query)
                 /\ \A p \in Sought(query) :
                       DaysOf(q.rates, p) = DaysOf(query.rates, p) \cup found[p]
    BY <2>2, <2>4, ReadRatesWell
  <2>6. ASSUME NEW p \in Sought(q), NEW x \in DaysOf(q.askedRates, p), x < q.start
        PROVE  \E u \in DaysOf(q.rates, p) : x <= u /\ u < q.start
    <3> DEFINE T == {y \in DaysOf(rated, p) : y < query.start}
    <3>1. x \in T /\ T \subseteq Nat /\ \A y \in T : y <= query.start
      BY <1>1, <2>5, <2>6, AskedAreStored DEF OnlyRates
    <3>2. PICK u \in T : \A y \in T : y <= u
      BY <1>1, <3>1, Largest
    <3>3. u \in found[p]
      BY <2>3, <2>5, <3>2 DEF PriorRate
    <3>4. QED
      BY <2>5, <3>1, <3>2, <3>3 DEF OnlyRates
  <2>7. ASSUME NEW p \in Sought(q), NEW x \in DaysOf(q.askedRates, p),
               q.start <= x, x <= q.end
        PROVE  x \in DaysOf(q.rates, p)
    <3>1. x \in DaysOf(query.rates, p)
      BY <1>1, <2>2, <2>5, <2>7 DEF QueryOK, RatesRead, OnlyRates
    <3>2. QED
      BY <2>5, <3>1
  <2>8. RatesRead(q)
    BY <2>5, <2>6, <2>7 DEF RatesRead, Before
  <2>9. QED
    BY <1>1, <2>4, <2>5, <2>8, OnlyRatesKeeps, GoKeeps DEF ReadingRates
<1>4. CASE ReadFutureRates
  <2>1. PICK found : found = [p \in Sought(query) |-> FutureRate(DaysOf(rated, p), query.end)]
    OBVIOUS
  <2>2. query.pc = "futureRates" /\ ReadRates(found, "done")
    BY <1>4, <2>1 DEF ReadFutureRates
  <2>3. \A p \in Sought(query) : found[p] = FutureRate(DaysOf(rated, p), query.end)
    BY <2>1
  <2>4. /\ DOMAIN found = Sought(query) /\ query.pc \in ReadingRates
        /\ \A p \in Sought(query) : found[p] \subseteq DaysOf(rated, p)
        /\ "done" \in ReadingRates \cup {"done"}
    BY <2>1, <2>2, <2>3 DEF ReadingRates, FutureRate
  <2>5. PICK q : /\ Go(q) /\ OnlyRates(query, q)
                 /\ q.pc = "done" /\ q.rates \subseteq rated
                 /\ Sought(q) = Sought(query)
                 /\ \A p \in Sought(query) :
                       DaysOf(q.rates, p) = DaysOf(query.rates, p) \cup found[p]
    BY <2>2, <2>4, ReadRatesWell
  <2>6. ASSUME NEW p \in Sought(q), NEW x \in DaysOf(q.askedRates, p), x > q.end
        PROVE  \E u \in DaysOf(q.rates, p) : q.end < u /\ u <= x
    <3> DEFINE T == {y \in DaysOf(rated, p) : y > query.end}
    <3>1. x \in T /\ T \subseteq Nat
      BY <1>1, <2>5, <2>6, AskedAreStored DEF OnlyRates
    <3>2. PICK u \in T : \A y \in T : u <= y
      BY <3>1, Smallest
    <3>3. u \in found[p]
      BY <2>3, <2>5, <3>2 DEF FutureRate
    <3>4. u \in Nat /\ query.end < u /\ u <= x
      BY <1>1, <3>1, <3>2
    <3>5. QED
      BY <2>5, <3>3, <3>4 DEF OnlyRates
  <2>7. ASSUME NEW p \in Sought(q), NEW x \in DaysOf(q.askedRates, p)
        PROVE  /\ q.start <= x /\ x <= q.end => x \in DaysOf(q.rates, p)
               /\ x < q.start => \E u \in DaysOf(q.rates, p) : x <= u /\ u < q.start
    <3>1. /\ q.start <= x /\ x <= q.end => x \in DaysOf(query.rates, p)
          /\ x < q.start => \E u \in DaysOf(query.rates, p) : x <= u /\ u < q.start
      BY <1>1, <2>2, <2>5 DEF QueryOK, RatesRead, OnlyRates
    <3>2. QED
      BY <2>5, <3>1
  <2>8. RatesRead(q)
    BY <2>5, <2>6, <2>7 DEF RatesRead, Before
  <2>9. QED
    BY <1>1, <2>4, <2>5, <2>8, OnlyRatesKeeps, GoKeeps DEF ReadingRates
<1>5. QED
  BY <1>2, <1>3, <1>4

LEMMA FailsKeeps ==
    ASSUME BalanceInv, QueryFails
    PROVE  BalanceInv'
<1>1. QueryOK(query) /\ NowOK(query) /\ query \in RequestRecord
  BY DEF BalanceInv, QueryOK
<1>2. CASE query.pc \in ReadingRates
  <2>1. PICK q : q = [query EXCEPT !.pc = "done", !.rates = {}, !.failed = TRUE]
    OBVIOUS
  <2>2. Go(q)
    BY <1>2, <2>1 DEF QueryFails, ReadingRates
  <2>3. OnlyRates(query, q) /\ q.pc = "done" /\ q.failed /\ q.rates = {}
    BY <1>1, <2>1 DEF OnlyRates, RequestRecord, Points
  <2>4. RatesRead(q)
    BY <2>3 DEF RatesRead, Before
  <2>5. QED
    BY <1>1, <1>2, <2>2, <2>3, <2>4, OnlyRatesKeeps, GoKeeps
<1>3. CASE query.pc \notin ReadingRates
  <2>1. PICK q : q = [query EXCEPT !.pc = "refused"]
    OBVIOUS
  <2>2. Go(q) /\ query.pc \in {"user", "accounts", "inRange", "prior"}
    BY <1>3, <2>1 DEF QueryFails, ReadingRates
  <2>3. /\ q \in RequestRecord /\ q.pc = "refused"
        /\ q.ids = query.ids /\ q.start = query.start /\ q.end = query.end
        /\ q.accounts = query.accounts /\ q.snaps = query.snaps /\ q.rates = query.rates
        /\ q.askedSnaps = query.askedSnaps /\ q.askedRates = query.askedRates
    BY <1>1, <2>1 DEF RequestRecord, Points
  <2>4. AccountsRead(q) /\ Of(q) = Of(query)
    BY <1>1, <2>3 DEF QueryOK, AccountsRead, Of
  <2>5. SnapsRead(query) /\ query.rates = {}
    BY <1>1, <2>2 DEF QueryOK, RatesRead, Before
  <2>6. SnapsRead(q)
    BY <2>3, <2>4, <2>5 DEF SnapsRead, Before, AfterRange, AfterPrior
  <2>7. RatesRead(q)
    BY <2>3, <2>5 DEF RatesRead
  <2>8. QueryOK(q) /\ NowOK(q)
    BY <1>1, <2>3, <2>4, <2>6, <2>7 DEF QueryOK, NowOK, SnapsPast
  <2>9. QED
    BY <2>2, <2>8, GoKeeps
<1>4. QED
  BY <1>2, <1>3

LEMMA InvStarts == Init => BalanceInv
<1> SUFFICES ASSUME Init PROVE BalanceInv
  OBVIOUS
<1>1. 0 \in Days /\ 0 \in 0..MaxOverlap
  BY QueryAssumption DEF Days
<1>2. \A a \in Accounts : Len(Reports[a]) \in Nat
  <2>1. \A a \in Accounts : Reports[a] \in Seq(Answers)
    BY QueryAssumption
  <2>2. QED
    BY <2>1
<1>3. /\ snapshots \in [Accounts -> [Days -> Nat]]
      /\ \A a \in Accounts, d \in Days : snapshots[a][d] = 0
  BY DEF Init
<1>4. TablesOK
  BY <1>1, <1>2, <1>3 DEF Init, TablesOK
<1>5. QED
  BY <1>1, <1>4, IdleOK DEF Init, BalanceInv

LEMMA InvStays == BalanceInv /\ [Next]_vars => BalanceInv'
<1> SUFFICES ASSUME BalanceInv, [Next]_vars PROVE BalanceInv'
  OBVIOUS
<1>1. CASE \/ \E a \in Accounts : Sync(a) \/ Record(a)
           \/ \E p \in Pairs, d \in Days : StoreRate(p, d)
           \/ Midnight
           \/ \E c \in Preferred : ChangeCurrency(c)
  BY <1>1, WritesKeep
<1>2. CASE \/ \E x \in Requests : Ask(x[1], x[2])
           \/ \E range \in Ranges : AskAll(range)
  BY <1>2, AsksKeep
<1>3. CASE ReadUser
  BY <1>3, ReadUserKeeps
<1>4. CASE ReadAccounts
  BY <1>4, ReadAccountsKeeps
<1>5. CASE ReadSnapshots
  BY <1>5, ReadSnapshotsKeeps
<1>6. CASE ReadPrior
  BY <1>6, ReadPriorKeeps
<1>7. CASE ReadRatesInRange \/ ReadPriorRates \/ ReadFutureRates
  BY <1>7, ReadRatesKeeps
<1>8. CASE QueryFails
  BY <1>8, FailsKeeps
<1>9. CASE Respond
  <2>1. Go(Idle) /\ TablesOK
    BY <1>9 DEF Respond, BalanceInv
  <2>2. QED
    BY <2>1, IdleOK, GoKeeps
<1>10. CASE UNCHANGED vars
  BY <1>10 DEF vars, BalanceInv, TablesOK, NowOK, SnapsPast
<1>11. QED
  BY <1>1, <1>2, <1>3, <1>4, <1>5, <1>6, <1>7, <1>8, <1>9, <1>10 DEF Next, RequestStep

LEMMA Invariant == Spec => []BalanceInv
<1>1. QED
  BY InvStarts, InvStays, PTL DEF Spec

-----------------------------------------------------------------------------
(* The tables and the request have their types: in particular no snapshot  *)
(* is of a version that was never stored, of a day to come, or too large   *)
(* for its columns, and a request mixes up no two rows.                    *)
THEOREM QueryTypeCorrect == Spec => []TypeOK
<1>1. BalanceInv => TypeOK
  <2> SUFFICES ASSUME BalanceInv PROVE TypeOK
    OBVIOUS
  <2>1. TablesOK /\ QueryOK(query) /\ NowOK(query)
    BY DEF BalanceInv
  <2>2. ASSUME NEW a \in Accounts
        PROVE  /\ reported[a] \in 0..Len(Reports[a])
               /\ stored[a] \in 0..reported[a]
               /\ \A d \in Days :
                     /\ snapshots[a][d] \in 0..stored[a]
                     /\ snapshots[a][d] # 0 => d <= today /\ Fits(Row(a, snapshots[a][d]))
    <3>1. Reports[a] \in Seq(Answers)
      BY QueryAssumption
    <3>2. Len(Reports[a]) \in Nat /\ reported[a] \in Nat /\ stored[a] \in Nat
      BY <2>1, <3>1 DEF TablesOK
    <3>3. \A d \in Days : snapshots[a][d] \in Nat
      BY <2>1 DEF TablesOK
    <3>4. QED
      BY <2>1, <3>2, <3>3 DEF TablesOK
  <2>3. query.pc \in Points /\ query.start <= query.end
    BY <2>1 DEF QueryOK, RequestRecord
  <2>4. \A x \in query.accounts : x[1] \in query.ids /\ x[2] \in Versions(x[1])
    BY <2>1 DEF QueryOK, AccountsRead
  <2>5. \A x, y \in query.snaps : x[1] = y[1] /\ x[2] = y[2] => x = y
    BY <2>1 DEF QueryOK, SnapsRead
  <2>6. QED
    BY <2>1, <2>2, <2>3, <2>4, <2>5 DEF TypeOK, TablesOK, NowOK, BalanceInv
<1>2. QED
  BY <1>1, Invariant, PTL

-----------------------------------------------------------------------------
(* The snapshot that a day shows.                                          *)

(* The last of some rows up to a day, if there is one                      *)
LEMMA LastRow ==
    ASSUME NEW rows, rows \subseteq Rows, NEW a, NEW d \in Nat,
           NEW s \in rows, s[1] = a, s[2] <= d
    PROVE  \E u \in rows : /\ u[1] = a /\ u[2] <= d /\ s[2] <= u[2]
                           /\ \A y \in rows : y[1] = a /\ y[2] <= d => y[2] <= u[2]
<1> DEFINE T == {x[2] : x \in {y \in rows : y[1] = a /\ y[2] <= d}}
<1>1. \A x \in rows : x[2] \in Nat
  BY DEF Rows, Days
<1>2. s[2] \in T /\ T \subseteq Nat /\ \A x \in T : x <= d
  BY <1>1
<1>3. PICK m \in T : \A x \in T : x <= m
  BY <1>2, Largest
<1>4. PICK u \in rows : u[1] = a /\ u[2] <= d /\ u[2] = m
  BY <1>3
<1>5. \A y \in rows : y[1] = a /\ y[2] <= d => y[2] \in T
  OBVIOUS
<1>6. QED
  BY <1>2, <1>3, <1>4, <1>5

LEMMA SnapshotForIs ==
    ASSUME NEW q, QueryOK(q), NEW a, NEW d \in Nat
    PROVE  /\ \A s \in SnapshotFor(q, a, d) : s \in q.snaps /\ s[1] = a /\ s[2] <= d
           /\ \A s, u \in SnapshotFor(q, a, d) : s = u
           /\ \A s \in q.snaps : s[1] = a /\ s[2] <= d =>
                 \E u \in SnapshotFor(q, a, d) : s[2] <= u[2]
           /\ q.snaps \subseteq Rows
<1>1. q.snaps \subseteq Rows
  BY DEF QueryOK, RequestRecord, Rows
<1>2. \A s \in SnapshotFor(q, a, d) : s \in q.snaps /\ s[1] = a /\ s[2] <= d
  BY DEF SnapshotFor
<1>3. ASSUME NEW s \in SnapshotFor(q, a, d), NEW u \in SnapshotFor(q, a, d)
      PROVE  s = u
  <2>1. s[2] <= u[2] /\ u[2] <= s[2] /\ s[1] = u[1]
    BY DEF SnapshotFor
  <2>2. s \in q.snaps /\ u \in q.snaps /\ s[2] \in Nat /\ u[2] \in Nat
    BY <1>1, <1>2 DEF Rows, Days
  <2>3. s[2] = u[2]
    BY <2>1, <2>2
  <2>4. QED
    BY <2>1, <2>2, <2>3 DEF QueryOK, SnapsRead
<1>4. ASSUME NEW s \in q.snaps, s[1] = a, s[2] <= d
      PROVE  \E u \in SnapshotFor(q, a, d) : s[2] <= u[2]
  <2>1. PICK rows : rows = q.snaps
    OBVIOUS
  <2>2. rows \subseteq Rows /\ s \in rows
    BY <1>1, <2>1
  <2>3. PICK u \in rows : /\ u[1] = a /\ u[2] <= d /\ s[2] <= u[2]
                          /\ \A y \in rows : y[1] = a /\ y[2] <= d => y[2] <= u[2]
    BY <1>4, <2>2, LastRow
  <2>4. QED
    BY <2>1, <2>3 DEF SnapshotFor
<1>5. QED
  BY <1>1, <1>2, <1>3, <1>4

LEMMA ShowsIs ==
    ASSUME NEW rows, rows \subseteq Rows, NEW a, NEW d \in Nat
    PROVE  \/ /\ Shows(rows, a, d) = 0
              /\ ~\E x \in rows : x[1] = a /\ x[2] <= d
           \/ \E u \in rows : /\ u[1] = a /\ u[2] <= d /\ Shows(rows, a, d) = u[3]
                              /\ \A y \in rows : y[1] = a /\ y[2] <= d => y[2] <= u[2]
<1> DEFINE upTo == {x \in rows : x[1] = a /\ x[2] <= d}
<1>1. CASE upTo = {}
  BY <1>1 DEF Shows
<1>2. CASE upTo # {}
  <2>1. PICK s \in rows : s[1] = a /\ s[2] <= d
    BY <1>2
  <2>2. PICK u \in rows : /\ u[1] = a /\ u[2] <= d
                          /\ \A y \in rows : y[1] = a /\ y[2] <= d => y[2] <= u[2]
    BY <2>1, LastRow
  <2>3. u \in upTo /\ \A y \in upTo : y[2] <= u[2]
    BY <2>2
  <2>4. PICK c : c = CHOOSE x \in upTo : \A y \in upTo : y[2] <= x[2]
    OBVIOUS
  <2>5. c \in upTo /\ \A y \in upTo : y[2] <= c[2]
    BY <2>3, <2>4
  <2>6. Shows(rows, a, d) = c[3]
    BY <1>2, <2>4 DEF Shows
  <2>7. QED
    BY <2>5, <2>6
<1>3. QED
  BY <1>1, <1>2

(* A day shows no older a snapshot than it would have when the request     *)
(* began, and no newer one than now, although the rows are read in two     *)
(* queries while listeners write; and a day with a snapshot of its own is  *)
(* not taken for one without.                                              *)
THEOREM HistoryIsFaithful == Spec => []HistoryFaithful
<1>1. BalanceInv => HistoryFaithful
  <2> SUFFICES ASSUME BalanceInv, Answered,
                      NEW x \in query.accounts, NEW d \in DaysAsked(query)
               PROVE  LET a == x[1]
                          snapshot == SnapshotFor(query, a, d)
                          used == IF snapshot = {} THEN 0
                                  ELSE (CHOOSE s \in snapshot : TRUE)[3]
                      IN  /\ Cardinality(snapshot) <= 1
                          /\ Shows(query.askedSnaps, a, d) <= used
                          /\ used <= Shows(Snaps, a, d)
                          /\ SyncedAt(query, a, d) = {} =>
                                \A s \in query.askedSnaps : s[1] # a \/ s[2] # d
    BY DEF HistoryFaithful
  <2>1. TablesOK /\ QueryOK(query) /\ NowOK(query) /\ query.pc = "done"
    BY DEF BalanceInv, Answered
  <2>2. /\ query.start \in Nat /\ query.end \in Nat /\ d \in Nat
        /\ query.start <= d /\ d <= query.end
    BY <2>1 DEF QueryOK, RequestRecord, DaysAsked
  <2> DEFINE a == x[1]
             snapshot == SnapshotFor(query, a, d)
             used == IF snapshot = {} THEN 0 ELSE (CHOOSE s \in snapshot : TRUE)[3]
  <2>3. a \in Accounts /\ a \in Of(query)
    BY <2>1 DEF QueryOK, RequestRecord, Of
  <2>4. /\ \A s \in snapshot : s \in query.snaps /\ s[1] = a /\ s[2] <= d
        /\ \A s, u \in snapshot : s = u
        /\ \A s \in query.snaps : s[1] = a /\ s[2] <= d => \E u \in snapshot : s[2] <= u[2]
        /\ query.snaps \subseteq Rows
    BY <2>1, <2>2, SnapshotForIs
  <2>5. query.askedSnaps \subseteq Rows /\ Snaps \subseteq Rows
    BY <2>1, SnapsAre DEF QueryOK, RequestRecord, Rows
  <2> HIDE DEF snapshot, a
  <2>6. \A u \in snapshot : used = u[3]
    BY <2>4
  <2>7. used \in Nat
    BY <2>4, <2>6 DEF Rows
  <2>8. Cardinality(snapshot) <= 1
    <3>1. CASE snapshot = {}
      <4>1. Cardinality(snapshot) = 0
        BY <3>1, FS_EmptySet
      <4>2. QED
        BY <4>1
    <3>2. CASE snapshot # {}
      <4>1. PICK u : snapshot = {u}
        BY <2>4, <3>2
      <4>2. Cardinality(snapshot) = 1
        BY <4>1, FS_Singleton
      <4>3. QED
        BY <4>2
    <3>3. QED
      BY <3>1, <3>2
  <2>9. Shows(query.askedSnaps, a, d) <= used
    <3>1. CASE Shows(query.askedSnaps, a, d) = 0
      BY <2>7, <3>1
    <3>2. CASE \E t \in query.askedSnaps : t[1] = a /\ t[2] <= d /\ Shows(query.askedSnaps, a, d) = t[3]
      <4>1. PICK t \in query.askedSnaps :
               t[1] = a /\ t[2] <= d /\ Shows(query.askedSnaps, a, d) = t[3]
        BY <3>2
      <4>2. t[2] \in Nat
        BY <2>5 DEF Rows, Days
      <4>3. PICK s \in query.snaps : s[1] = a /\ t[2] <= s[2] /\ s[2] <= d
        <5>1. CASE query.start <= t[2]
          <6>1. t[2] <= query.end
            BY <2>2, <4>1, <4>2
          <6>2. \E s \in query.snaps : s[1] = t[1] /\ s[2] = t[2]
            BY <2>1, <2>3, <4>1, <5>1, <6>1 DEF QueryOK, SnapsRead, AfterRange
          <6>3. QED
            BY <4>1, <4>2, <6>2
        <5>2. CASE ~(query.start <= t[2])
          <6>1. t[2] < query.start
            BY <2>2, <4>2, <5>2
          <6>2. PICK s \in query.snaps : s[1] = t[1] /\ t[2] <= s[2] /\ s[2] < query.start
            BY <2>1, <2>3, <4>1, <6>1 DEF QueryOK, SnapsRead, AfterRange, AfterPrior
          <6>3. s[2] \in Nat
            BY <2>4 DEF Rows, Days
          <6>4. s[2] <= d
            BY <2>2, <6>2, <6>3
          <6>5. QED
            BY <4>1, <6>2, <6>4
        <5>3. QED
          BY <5>1, <5>2
      <4>4. PICK u \in snapshot : s[2] <= u[2]
        BY <2>4, <4>3
      <4>5. u \in query.snaps /\ u[1] = a /\ u[2] \in Nat /\ s[2] \in Nat
        BY <2>4 DEF Rows, Days
      <4>6. t[2] <= u[2]
        BY <4>2, <4>3, <4>4, <4>5
      <4>7. t[3] <= u[3]
        BY <2>1, <4>1, <4>5, <4>6 DEF QueryOK, SnapsRead
      <4>8. QED
        BY <2>6, <4>1, <4>7
    <3>3. QED
      BY <2>2, <2>5, <3>1, <3>2, ShowsIs
  <2>10. used <= Shows(Snaps, a, d)
    <3>1. CASE snapshot = {}
      <4>1. Shows(Snaps, a, d) \in Nat
        <5>1. \A u \in Snaps : u[3] \in Nat
          BY <2>5 DEF Rows
        <5>2. QED
          BY <2>2, <2>5, <5>1, ShowsIs
      <4>2. QED
        BY <3>1, <4>1
    <3>2. CASE snapshot # {}
      <4>1. PICK u \in snapshot : TRUE
        BY <3>2
      <4>2. /\ u \in query.snaps /\ u[1] = a /\ u[2] <= d /\ used = u[3]
            /\ u[2] \in Days /\ u[3] \in Nat /\ u[3] # 0
        BY <2>4, <2>6, <4>1 DEF Rows
      <4>3. u[3] <= snapshots[a][u[2]]
        BY <2>1, <4>2 DEF NowOK, SnapsPast
      <4> DEFINE s == <<a, u[2], snapshots[a][u[2]]>>
      <4>4. snapshots[a][u[2]] \in Nat
        BY <2>1, <2>3, <4>2 DEF TablesOK
      <4>5. s \in Snaps
        <5>1. snapshots[a][u[2]] # 0
          BY <4>2, <4>3, <4>4
        <5>2. QED
          BY <2>1, <2>3, <4>2, <5>1, SnapsAre
      <4>6. PICK v \in Snaps : /\ v[1] = a /\ v[2] <= d /\ Shows(Snaps, a, d) = v[3]
                               /\ \A y \in Snaps : y[1] = a /\ y[2] <= d => y[2] <= v[2]
        BY <2>2, <2>5, <4>2, <4>5, ShowsIs
      <4>7. s[2] <= v[2]
        BY <4>2, <4>5, <4>6
      <4>8. s[3] <= v[3]
        BY <2>1, <4>5, <4>6, <4>7, SnapsOrdered
      <4>9. v[3] \in Nat
        BY <2>5 DEF Rows
      <4>10. QED
        BY <4>2, <4>3, <4>4, <4>6, <4>8, <4>9
    <3>3. QED
      BY <3>1, <3>2
  <2>11. ASSUME SyncedAt(query, a, d) = {}, NEW s \in query.askedSnaps, s[1] = a, s[2] = d
         PROVE  FALSE
    <3>1. PICK u \in query.snaps : u[1] = a /\ u[2] = d
      BY <2>1, <2>2, <2>3, <2>11 DEF QueryOK, SnapsRead, AfterRange
    <3>2. PICK v \in snapshot : d <= v[2]
      BY <2>2, <2>4, <3>1
    <3>3. v[2] <= d /\ v[2] \in Nat
      BY <2>4, <3>2 DEF Rows, Days
    <3>4. v[2] = d
      BY <2>2, <3>2, <3>3
    <3>5. v[3] \in SyncedAt(query, a, d)
      BY <3>2, <3>4 DEF SyncedAt, snapshot
    <3>6. QED
      BY <2>11, <3>5
  <2>12. QED
    BY <2>8, <2>9, <2>10, <2>11 DEF snapshot, a
<1>2. QED
  BY <1>1, Invariant, PTL

-----------------------------------------------------------------------------
(* The rate of a day.                                                      *)

(* The rates that are found for a pair are days there is a price of.       *)
LEMMA RatesAre ==
    ASSUME BalanceInv, NEW p
    PROVE  /\ DaysOf(query.rates, p) \subseteq Nat
           /\ \A u \in DaysOf(query.rates, p) :
                 p \in Pairs /\ u \in DOMAIN Price[p] /\ Price[p][u] \in Fractions
<1>1. /\ query.rates \subseteq rated /\ query.rates \subseteq Pairs \X Days
      /\ \A x \in rated : x[2] \in DOMAIN Price[x[1]]
  BY DEF BalanceInv, NowOK, QueryOK, RequestRecord, TablesOK
<1>2. /\ \A u : u \in DaysOf(query.rates, p) <=> <<p, u>> \in query.rates
      /\ DaysOf(query.rates, p) \subseteq Days
  BY <1>1, DaysOfIs
<1>3. DaysOf(query.rates, p) \subseteq Nat
  BY <1>2 DEF Days
<1>4. ASSUME NEW u \in DaysOf(query.rates, p)
      PROVE  p \in Pairs /\ u \in DOMAIN Price[p] /\ Price[p][u] \in Fractions
  <2>1. <<p, u>> \in query.rates
    BY <1>2
  <2>2. p \in Pairs /\ u \in DOMAIN Price[p]
    BY <1>1, <2>1
  <2>3. QED
    BY <2>2, QueryAssumption DEF Pairs
<1>5. QED
  BY <1>3, <1>4

(* No balance is converted with an older rate than the last that was       *)
(* stored when the request began, or, for want of one, with a later rate   *)
(* than the first: whatever the three queries miss or find of the rates    *)
(* that are stored meanwhile.                                              *)
THEOREM RatesAreCurrent == Spec => []RateNotStale
<1>1. BalanceInv => RateNotStale
  <2> SUFFICES ASSUME BalanceInv, Answered, Converts(query),
                      NEW p \in Needed(query), NEW d \in DaysAsked(query)
               PROVE  \E u \in RateDay(query, p[1], d) :
                         \A x \in DaysOf(query.askedRates, Canonical(p[1], p[2])) :
                            /\ x <= d => x <= u /\ u <= d
                            /\ x > d /\ u > d => u <= x
    BY DEF RateNotStale
  <2>1. TablesOK /\ QueryOK(query) /\ query.pc = "done" /\ ~query.failed
    BY DEF BalanceInv, Answered, Converts
  <2>2. /\ query.start \in Nat /\ query.end \in Nat /\ d \in Nat
        /\ query.start <= d /\ d <= query.end
    BY <2>1 DEF QueryOK, RequestRecord, DaysAsked
  <2>3. PICK c : c = Canonical(p[1], p[2])
    OBVIOUS
  <2>4. c \in Sought(query) /\ p[2] = query.target
    BY <2>3 DEF Sought, Needed
  <2>5. PICK D : D = DaysOf(query.rates, c)
    OBVIOUS
  <2>6. D # {} /\ D \subseteq Nat
    BY <2>4, <2>5, RatesAre DEF Converts
  <2>7. PICK u \in D : u \in Closest(D, d)
    BY <2>2, <2>6, ClosestIs
  <2>8. /\ u \in Nat
        /\ \A x \in D : x <= d => x <= u /\ u <= d
        /\ \A x \in D : u > d => u <= x
    BY <2>2, <2>6, <2>7, ClosestIs
  <2>9. u \in RateDay(query, p[1], d)
    BY <2>3, <2>4, <2>5, <2>7 DEF RateDay
  <2>10. ASSUME NEW x \in DaysOf(query.askedRates, c)
         PROVE  /\ x <= d => x <= u /\ u <= d
                /\ x > d /\ u > d => u <= x
    <3>1. x \in Nat
      BY AskedAreStored
    <3>2. /\ query.start <= x /\ x <= query.end => x \in D
          /\ x < query.start => \E v \in D : x <= v /\ v < query.start
          /\ x > query.end => \E v \in D : query.end < v /\ v <= x
      BY <2>1, <2>4, <2>5 DEF QueryOK, RatesRead
    <3>3. CASE query.start <= x /\ x <= query.end
      BY <2>8, <3>2, <3>3
    <3>4. CASE x < query.start
      <4>1. PICK v \in D : x <= v /\ v < query.start
        BY <3>2, <3>4
      <4>2. v \in Nat /\ v <= d
        BY <2>2, <2>6, <4>1
      <4>3. v <= u /\ u <= d
        BY <2>8, <4>2
      <4>4. QED
        BY <2>2, <2>8, <3>1, <3>4, <4>1, <4>2, <4>3
    <3>5. CASE x > query.end
      <4>1. PICK v \in D : query.end < v /\ v <= x
        BY <3>2, <3>5
      <4>2. v \in Nat /\ (u > d => u <= v)
        BY <2>6, <2>8, <4>1
      <4>3. QED
        BY <2>2, <2>8, <3>1, <3>5, <4>1, <4>2
    <3>6. QED
      BY <2>2, <3>1, <3>3, <3>4, <3>5
  <2>11. QED
    BY <2>3, <2>9, <2>10
<1>2. QED
  BY <1>1, Invariant, PTL

-----------------------------------------------------------------------------
(* An account's card and what opens from it.                               *)

(* A converted balance was in another currency.                            *)
LEMMA ConvertedIsOther ==
    ASSUME NEW q, NEW x, NEW d
    PROVE  LET b == EffectiveOn(q, x, d) IN
           \A m \in b.converted : m.currency = q.target /\ b.balance.currency # q.target
<1>1. PICK bal : bal = Effective(TypeOf[x[1]], Recorded(q, x, d).available, Recorded(q, x, d).current)
  OBVIOUS
<1>2. EffectiveOn(q, x, d) =
         [balance |-> bal,
          converted |-> {Convert(bal, q.target, r) : r \in RateFor(q, bal.currency, d)}]
  BY <1>1 DEF EffectiveOn, WithConversion
<1>3. \A r : Convert(bal, q.target, r).currency = q.target
  BY DEF Convert
<1>4. RateFor(q, bal.currency, d) # {} => <<bal.currency, q.target>> \in Needed(q)
  BY DEF RateFor
<1>5. <<bal.currency, q.target>> \in Needed(q) => bal.currency # q.target
  BY DEF Needed
<1>6. QED
  BY <1>2, <1>3, <1>4, <1>5

(* The last time there is of the range is that of the day shown last.      *)
LEMMA LatestIsShown ==
    ASSUME NEW q, QueryOK(q), NEW x \in q.accounts
    PROVE  LatestSyncedAt(q, x) =
              {s[3] : s \in {y \in SnapshotFor(q, x[1], q.end) : q.start <= y[2]}}
<1> DEFINE all == UNION {SyncedAt(q, x[1], d) : d \in DaysAsked(q)}
           shown == {y \in SnapshotFor(q, x[1], q.end) : q.start <= y[2]}
<1>1. q.start \in Nat /\ q.end \in Nat
  BY DEF QueryOK, RequestRecord
<1>2. \A d \in DaysAsked(q) : d \in Nat /\ q.start <= d /\ d <= q.end
  BY <1>1 DEF DaysAsked
<1>3. \A d \in Nat : q.start <= d /\ d <= q.end => d \in DaysAsked(q)
  BY <1>1 DEF DaysAsked
<1>4. q.snaps \subseteq Rows
  BY DEF QueryOK, RequestRecord, Rows
<1>5. \A u \in q.snaps : u[2] \in Nat /\ u[3] \in Nat
  BY <1>4 DEF Rows, Days
<1>6. ASSUME NEW v \in all
      PROVE  \E u \in q.snaps : u[1] = x[1] /\ q.start <= u[2] /\ u[2] <= q.end /\ v = u[3]
  <2>1. PICK d \in DaysAsked(q) : v \in SyncedAt(q, x[1], d)
    OBVIOUS
  <2>2. PICK u \in SnapshotFor(q, x[1], d) : u[2] = d /\ v = u[3]
    BY <2>1 DEF SyncedAt
  <2>3. u \in q.snaps /\ u[1] = x[1]
    BY <2>2 DEF SnapshotFor
  <2>4. QED
    BY <1>2, <2>1, <2>2, <2>3
<1>7. ASSUME NEW u \in q.snaps, u[1] = x[1], q.start <= u[2], u[2] <= q.end
      PROVE  u[3] \in all
  <2>1. u[2] \in DaysAsked(q) /\ u[2] \in Nat /\ u[2] <= u[2]
    BY <1>3, <1>5, <1>7
  <2>2. u \in SnapshotFor(q, x[1], u[2])
    BY <1>7, <2>1 DEF SnapshotFor
  <2>3. u[3] \in SyncedAt(q, x[1], u[2])
    BY <2>2 DEF SyncedAt
  <2>4. QED
    BY <2>1, <2>3
<1> HIDE DEF all
<1>8. LatestSyncedAt(q, x) = {v \in all : \A w \in all : w <= v}
  BY DEF LatestSyncedAt, all
<1>9. CASE all = {}
  <2>1. shown = {}
    BY <1>1, <1>7, <1>9, SnapshotForIs
  <2>2. QED
    BY <1>8, <1>9, <2>1
<1>10. CASE all # {}
  <2>1. PICK u \in q.snaps : u[1] = x[1] /\ q.start <= u[2] /\ u[2] <= q.end
    BY <1>6, <1>10
  <2>2. PICK last \in SnapshotFor(q, x[1], q.end) : u[2] <= last[2]
    BY <1>1, <2>1, SnapshotForIs
  <2>3. last \in q.snaps /\ last[1] = x[1] /\ last[2] <= q.end
    BY <1>1, <2>2, SnapshotForIs
  <2>4. q.start <= last[2]
    BY <1>1, <1>5, <2>1, <2>2, <2>3
  <2>5. shown = {last}
    BY <1>1, <2>2, <2>4, SnapshotForIs
  <2>6. last[3] \in all
    BY <1>7, <2>3, <2>4
  <2>7. ASSUME NEW w \in all
        PROVE  w <= last[3]
    <3>1. PICK s \in q.snaps : s[1] = x[1] /\ q.start <= s[2] /\ s[2] <= q.end /\ w = s[3]
      BY <1>6
    <3>2. PICK v \in SnapshotFor(q, x[1], q.end) : s[2] <= v[2]
      BY <1>1, <3>1, SnapshotForIs
    <3>3. v = last
      BY <1>1, <2>2, SnapshotForIs
    <3>4. QED
      BY <2>3, <3>1, <3>2, <3>3 DEF QueryOK, SnapsRead
  <2>8. \A v \in all : last[3] <= v => v = last[3]
    <3>1. SUFFICES ASSUME NEW v \in all, last[3] <= v
                   PROVE  v = last[3]
      OBVIOUS
    <3>2. v \in Nat /\ last[3] \in Nat
      BY <1>5, <1>6, <2>3
    <3>3. QED
      BY <2>7, <3>1, <3>2
  <2>9. {v \in all : \A w \in all : w <= v} = {last[3]}
    BY <2>6, <2>7, <2>8
  <2>10. QED
    BY <1>8, <2>5, <2>9
<1>11. QED
  BY <1>9, <1>10

(* What opens from an account's card shows the card's balance and original *)
(* balance, which is also the last point of its chart, and "Last synced"   *)
(* is said of the very snapshot that is shown.                             *)
THEOREM ModalAgrees == Spec => []LastSynced
<1>1. BalanceInv => LastSynced
  <2> DEFINE cards == Section(query, FALSE) \cup Section(query, TRUE)
  <2> SUFFICES ASSUME BalanceInv, Answered, NEW x \in query.accounts
               PROVE  \E opened \in Opened(query, cards, x[1]) :
                      LET modal == opened.modal
                          shown == {y \in SnapshotFor(query, x[1], query.end) : query.start <= y[2]}
                      IN  /\ modal.primary = opened.card.balance.primary
                          /\ modal.original = opened.card.balance.original
                          /\ Major(modal.primary) = modal.chart[query.end]
                          /\ modal.lastSynced = {s[3] : s \in shown}
    BY DEF LastSynced
  <2>1. QueryOK(query) /\ query.start \in Nat /\ query.end \in Nat /\ query.start <= query.end
    BY DEF BalanceInv, QueryOK, RequestRecord
  <2>2. PICK e : e = EffectiveOn(query, x, query.end)
    OBVIOUS
  <2>3. PICK s : s = Summary(query, x)
    OBVIOUS
  <2>4. s.id = x[1] /\ s.type = TypeOf[x[1]] /\ s.effective = e
    BY <2>2, <2>3 DEF Summary
  <2>5. PICK liability \in BOOLEAN : liability = IsLiability(s.type)
    <3>1. CASE IsLiability(s.type)
      <4>1. IsLiability(s.type) = TRUE
        BY <3>1 DEF IsLiability
      <4>2. QED
        BY <4>1
    <3>2. CASE ~IsLiability(s.type)
      <4>1. IsLiability(s.type) = FALSE
        BY <3>2 DEF IsLiability
      <4>2. QED
        BY <4>1
    <3>3. QED
      BY <3>1, <3>2
  <2>6. PICK card : card = Card(s, liability)
    OBVIOUS
  <2>7. card.id = x[1] /\ card.balance = ResolveBalance(e)
    BY <2>4, <2>6 DEF Card
  <2>8. card \in Section(query, liability)
    BY <2>3, <2>5, <2>6 DEF Section
  <2>9. card \in cards
    BY <2>5, <2>8
  <2>10. PICK modal : modal = Modal(query, x)
    OBVIOUS
  <2>11. x = CHOOSE y \in query.accounts : y[1] = x[1]
    BY <2>1 DEF QueryOK, AccountsRead
  <2> HIDE DEF cards
  <2>12. [card |-> card, modal |-> modal] \in Opened(query, cards, x[1])
    BY <2>7, <2>9, <2>10, <2>11 DEF Opened
  <2>13. /\ modal.primary = Resolve(e)
         /\ modal.original = {m \in {e.balance} : \E c \in e.converted : c.currency # m.currency}
         /\ modal.chart = AccountChart(query, x)
         /\ modal.lastSynced = LatestSyncedAt(query, x)
    BY <2>2, <2>10 DEF Modal, History
  <2>14. /\ card.balance.primary = Resolve(e)
         /\ card.balance.original = IF e.converted = {} THEN {} ELSE {e.balance}
    BY <2>7 DEF ResolveBalance
  <2>15. modal.original = card.balance.original
    <3>1. \A m \in e.converted : m.currency # e.balance.currency
      BY <2>2, ConvertedIsOther
    <3>2. QED
      BY <2>13, <2>14, <3>1
  <2>16. Major(modal.primary) = modal.chart[query.end]
    <3>1. query.end \in DaysAsked(query)
      BY <2>1 DEF DaysAsked
    <3>2. modal.chart[query.end] = AmountOn(query, x, query.end)
      BY <2>13, <3>1 DEF AccountChart
    <3>3. QED
      BY <2>2, <2>13, <3>2 DEF AmountOn
  <2>17. modal.lastSynced =
            {v[3] : v \in {y \in SnapshotFor(query, x[1], query.end) : query.start <= y[2]}}
    BY <2>1, <2>13, LatestIsShown
  <2>18. PICK o : o = [card |-> card, modal |-> modal]
    OBVIOUS
  <2>19. o \in Opened(query, cards, x[1]) /\ o.card = card /\ o.modal = modal
    BY <2>12, <2>18
  <2>20. QED
    BY <2>13, <2>14, <2>15, <2>16, <2>17, <2>19
<1>2. QED
  BY <1>1, Invariant, PTL

-----------------------------------------------------------------------------
(* Amounts.                                                                *)

LEMMA Scaled ==
    ASSUME NEW x \in Int, NEW f \in Int, NEW p \in Nat, 2 * Abs(x) <= f
    PROVE  2 * Abs(p * x) <= p * f
<1>1. -f <= 2 * x /\ 2 * x <= f
  BY DEF Abs
<1>2. \A a, b \in Int : a <= b => p * a <= p * b
  OBVIOUS
<1>3. p * (2 * x) <= p * f /\ p * (-f) <= p * (2 * x)
  BY <1>1, <1>2
<1>4. p * (2 * x) = 2 * (p * x) /\ p * (-f) = -(p * f)
  OBVIOUS
<1>5. p * x \in Int /\ p * f \in Int
  OBVIOUS
<1>6. QED
  BY <1>3, <1>4, <1>5 DEF Abs

LEMMA Added ==
    ASSUME NEW x \in Int, NEW y \in Int, NEW f \in Int, NEW g \in Int,
           2 * Abs(x) <= f, 2 * Abs(y) <= g
    PROVE  2 * Abs(x + y) <= f + g
BY DEF Abs

LEMMA Divided ==
    ASSUME NEW n \in Nat, NEW e \in Nat \ {0}
    PROVE  /\ n \div e \in Nat
           /\ e * (n \div e) <= n /\ n < e * (n \div e) + e
<1>1. n \div e \in Int /\ n % e \in 0..(e - 1) /\ n = e * (n \div e) + (n % e)
  OBVIOUS
<1>2. n \div e >= 0
  OBVIOUS
<1>3. e * (n \div e) \in Int
  BY <1>1
<1>4. QED
  BY <1>1, <1>2, <1>3

LEMMA RoundIsNear ==
    ASSUME NEW n \in Nat, NEW d \in Nat \ {0}
    PROVE  Round(n, d) \in Nat /\ 2 * Abs(Round(n, d) * d - n) <= d
<1>1. PICK q : q = (2 * n + d) \div (2 * d)
  OBVIOUS
<1>2. 2 * n + d \in Nat /\ 2 * d \in Nat \ {0}
  OBVIOUS
<1>3. q \in Nat /\ (2 * d) * q <= 2 * n + d /\ 2 * n + d < (2 * d) * q + 2 * d
  BY <1>1, <1>2, Divided
<1>4. (2 * d) * q = 2 * (q * d) /\ q * d \in Int
  BY <1>3
<1>5. 2 * Abs(q * d - n) <= d
  BY <1>3, <1>4 DEF Abs
<1>6. QED
  BY <1>1, <1>3, <1>5 DEF Round

(* The amount with its sign, of a rounded one with its sign                *)
LEMMA SignedNear ==
    ASSUME NEW m, NEW n \in Int, NEW d \in Nat \ {0}, m.amount = Round(Abs(n), d),
           n > 0 => m.sign = "positive", n < 0 => m.sign # "positive"
    PROVE  Signed(m) \in Int /\ 2 * Abs(Signed(m) * d - n) <= d
<1>1. PICK k : k = m.amount
  OBVIOUS
<1>2. Abs(n) \in Nat
  BY DEF Abs
<1>3. k \in Nat /\ 2 * Abs(k * d - Abs(n)) <= d
  BY <1>1, <1>2, RoundIsNear
<1>4. k * d \in Nat /\ (-k) * d = -(k * d)
  BY <1>3
<1>5. CASE m.sign = "positive"
  <2>1. Signed(m) = k /\ Abs(n) = n
    BY <1>1, <1>5 DEF Signed, Abs
  <2>2. QED
    BY <1>3, <2>1
<1>6. CASE m.sign # "positive"
  <2>1. Signed(m) = -k /\ Abs(n) = -n
    BY <1>1, <1>6 DEF Signed, Abs
  <2>2. 2 * Abs(-(k * d) - n) <= d
    BY <1>3, <1>4, <2>1 DEF Abs
  <2>3. QED
    BY <1>3, <1>4, <2>1, <2>2
<1>7. QED
  BY <1>5, <1>6

(* A balance of a report, in its currency's smallest units                 *)
LEMMA FromFloatNear ==
    ASSUME NEW c \in Currency, NEW n \in Int
    PROVE  LET m == FromFloat(c, n) IN
           /\ m.currency = c /\ m.amount \in Nat /\ Signed(m) \in Int
           /\ 2 * Abs(Signed(m) * Parts - n * PerMajor[c]) <= Parts
<1>1. PICK p : p = PerMajor[c]
  OBVIOUS
<1>2. p \in Nat \ {0} /\ Parts \in Nat \ {0}
  BY <1>1, MoneyAssumption
<1>3. PICK m : m = FromFloat(c, n)
  OBVIOUS
<1>4. /\ m.currency = c /\ m.amount = Round(Abs(n) * p, Parts)
      /\ m.sign = IF n >= 0 THEN "positive" ELSE "negative"
  BY <1>1, <1>3 DEF FromFloat, SignOf
<1>5. /\ n * p \in Int /\ Abs(n) * p = Abs(n * p)
      /\ (n * p > 0 => n > 0) /\ (n * p < 0 => n < 0)
  <2>1. CASE n >= 0
    <3>1. n * p >= 0 /\ n * p \in Int
      BY <1>2, <2>1
    <3>2. n * p > 0 => n > 0
      BY <1>2, <2>1
    <3>3. QED
      BY <2>1, <3>1, <3>2 DEF Abs
  <2>2. CASE n < 0
    <3>1. n * p < 0 /\ n * p \in Int /\ (-n) * p = -(n * p)
      BY <1>2, <2>2
    <3>2. QED
      BY <2>2, <3>1 DEF Abs
  <2>3. QED
    BY <2>1, <2>2
<1>6. /\ n * p > 0 => m.sign = "positive"
      /\ n * p < 0 => m.sign # "positive"
  BY <1>4, <1>5
<1>7. Signed(m) \in Int /\ 2 * Abs(Signed(m) * Parts - n * p) <= Parts
  BY <1>2, <1>4, <1>5, <1>6, SignedNear
<1>8. m.amount \in Nat
  <2>1. Abs(n * p) \in Nat
    BY <1>5 DEF Abs
  <2>2. QED
    BY <1>2, <1>4, <1>5, <2>1, RoundIsNear
<1>9. QED
  BY <1>1, <1>3, <1>4, <1>7, <1>8

LEMMA OrIs ==
    ASSUME NEW T, NEW f \in SUBSET T, NEW b \in T
    PROVE  Or(f, b) \in T
<1>1. CASE f = {}
  BY <1>1 DEF Or
<1>2. CASE f # {}
  <2>1. (CHOOSE x \in f : TRUE) \in f
    BY <1>2
  <2>2. QED
    BY <1>2, <2>1 DEF Or
<1>3. QED
  BY <1>1, <1>2

(* The rows of a report                                                    *)
LEMMA RowNear ==
    ASSUME NEW a \in Accounts, NEW v \in Versions(a)
    PROVE  LET row == Row(a, v)
               c == CurrencyOf(a, v)
               A == Or(Reports[a][v].available, 0)
               C == Or(Reports[a][v].current, 0)
           IN  /\ c \in Currency /\ A \in Int /\ C \in Int
               /\ row.available.currency = c /\ row.current.currency = c
               /\ row.current.amount \in Nat
               /\ Signed(row.available) \in Int /\ Signed(row.current) \in Int
               /\ 2 * Abs(Signed(row.available) * Parts - A * PerMajor[c]) <= Parts
               /\ 2 * Abs(Signed(row.current) * Parts - C * PerMajor[c]) <= Parts
<1>1. PICK r : r = Reports[a][v]
  OBVIOUS
<1>2. r \in Answers
  <2>1. Reports[a] \in Seq(Answers)
    BY QueryAssumption
  <2>2. v \in 1..Len(Reports[a])
    BY DEF Versions
  <2>3. QED
    BY <1>1, <2>1, <2>2
<1>3. PICK c : c = Or(r.iso, Or(r.unofficial, USD))
  OBVIOUS
<1>4. c \in Currency
  <2>1. r.iso \in SUBSET Currency /\ r.unofficial \in SUBSET Currency /\ USD \in Currency
    BY <1>2, CurrencyAssumption DEF Answers
  <2>2. Or(r.unofficial, USD) \in Currency
    BY <2>1, OrIs
  <2>3. QED
    BY <1>3, <2>1, <2>2, OrIs
<1>5. PICK A, C : A = Or(r.available, 0) /\ C = Or(r.current, 0)
  OBVIOUS
<1>6. A \in Int /\ C \in Int
  <2>1. r.available \in SUBSET Int /\ r.current \in SUBSET Int /\ 0 \in Int
    BY <1>2 DEF Answers
  <2>2. QED
    BY <1>5, <2>1, OrIs
<1>7. PICK row : row = Row(a, v)
  OBVIOUS
<1>8. row.available = FromFloat(c, A) /\ row.current = FromFloat(c, C)
  <2>1. row = Balances(r)
    <3>1. ReportRows[a] = [w \in Versions(a) |-> Balances(Reports[a][w])]
      BY DEF ReportRows
    <3>2. ReportRows[a][v] = Balances(Reports[a][v])
      BY <3>1
    <3>3. QED
      BY <1>1, <1>7, <3>2 DEF Row
  <2>2. QED
    BY <1>3, <1>5, <2>1 DEF Balances
<1>9. /\ row.available.currency = c /\ row.current.currency = c
      /\ row.current.amount \in Nat
      /\ Signed(row.available) \in Int /\ Signed(row.current) \in Int
      /\ 2 * Abs(Signed(row.available) * Parts - A * PerMajor[c]) <= Parts
      /\ 2 * Abs(Signed(row.current) * Parts - C * PerMajor[c]) <= Parts
  BY <1>4, <1>6, <1>8, FromFloatNear
<1>10. CurrencyOf(a, v) = c
  BY <1>7, <1>9 DEF CurrencyOf
<1>11. QED
  BY <1>1, <1>4, <1>5, <1>6, <1>7, <1>9, <1>10

Invests(a) == TypeOf[a] \in {"investment", "brokerage"}

(* The effective balance of a report                                       *)
LEMMA EffectiveNear ==
    ASSUME NEW a \in Accounts, NEW v \in Versions(a)
    PROVE  LET b == Effective(TypeOf[a], Row(a, v).available, Row(a, v).current)
               from == PerMajor[CurrencyOf(a, v)]
           IN  /\ b.currency = CurrencyOf(a, v) /\ b.currency \in Currency
               /\ b.amount \in Nat /\ Signed(b) \in Int
               /\ ReportedTotal(a, v) \in Int
               /\ 2 * Abs(Signed(b) * Parts - ReportedTotal(a, v) * from)
                     <= Roundings(a) * Parts
<1>1. PICK row, c, A, C : /\ row = Row(a, v) /\ c = CurrencyOf(a, v)
                          /\ A = Or(Reports[a][v].available, 0)
                          /\ C = Or(Reports[a][v].current, 0)
  OBVIOUS
<1>2. PICK p : p = PerMajor[c]
  OBVIOUS
<1>3. /\ c \in Currency /\ A \in Int /\ C \in Int
      /\ row.available.currency = c /\ row.current.currency = c
      /\ row.current.amount \in Nat
      /\ Signed(row.available) \in Int /\ Signed(row.current) \in Int
      /\ 2 * Abs(Signed(row.available) * Parts - A * p) <= Parts
      /\ 2 * Abs(Signed(row.current) * Parts - C * p) <= Parts
  BY <1>1, <1>2, RowNear
<1>4. p \in Nat \ {0} /\ Parts \in Nat \ {0}
  BY <1>2, <1>3, MoneyAssumption
<1>5. PICK b : b = Effective(TypeOf[a], row.available, row.current)
  OBVIOUS
<1>6. CASE Invests(a)
  <2>1. PICK x, y : x = Signed(row.available) /\ y = Signed(row.current)
    OBVIOUS
  <2>2. x \in Int /\ y \in Int /\ x + y \in Int
    BY <1>3, <2>1
  <2>3. b = [amount |-> Abs(x + y), currency |-> row.available.currency, sign |-> SignOf(x + y)]
    BY <1>5, <1>6, <2>1 DEF Effective, Invests
  <2>4. b.amount = Abs(x + y) /\ b.currency = c /\ b.sign = SignOf(x + y)
    BY <1>3, <2>3
  <2>5. b.amount \in Nat /\ Signed(b) = x + y
    BY <2>2, <2>4 DEF Signed, SignOf, Abs
  <2>6. ReportedTotal(a, v) = C + A /\ Roundings(a) = 2
    BY <1>1, <1>6 DEF ReportedTotal, Roundings, Invests
  <2>7. /\ x * Parts - A * p \in Int /\ y * Parts - C * p \in Int
        /\ 2 * Abs(x * Parts - A * p) <= Parts /\ 2 * Abs(y * Parts - C * p) <= Parts
    BY <1>3, <1>4, <2>1, <2>2
  <2>8. 2 * Abs((x * Parts - A * p) + (y * Parts - C * p)) <= Parts + Parts
    BY <1>4, <2>7, Added
  <2>9. (x * Parts - A * p) + (y * Parts - C * p) = (x + y) * Parts - (C + A) * p
    BY <1>3, <1>4, <2>2
  <2>10. 2 * Abs(Signed(b) * Parts - ReportedTotal(a, v) * p) <= Roundings(a) * Parts
    BY <1>4, <2>5, <2>6, <2>8, <2>9
  <2>11. QED
    BY <1>1, <1>2, <1>3, <1>5, <2>2, <2>4, <2>5, <2>6, <2>10
<1>7. CASE ~Invests(a)
  <2>1. b = row.current
    BY <1>5, <1>7 DEF Effective, Invests
  <2>2. ReportedTotal(a, v) = C /\ Roundings(a) = 1
    BY <1>1, <1>3, <1>7 DEF ReportedTotal, Roundings, Invests
  <2>3. 2 * Abs(Signed(b) * Parts - ReportedTotal(a, v) * p) <= Roundings(a) * Parts
    BY <1>3, <1>4, <2>1, <2>2
  <2>4. QED
    BY <1>1, <1>2, <1>3, <1>5, <2>1, <2>2, <2>3
<1>8. QED
  BY <1>6, <1>7

(* A converted amount                                                      *)
LEMMA ConvertNear ==
    ASSUME NEW m, m.amount \in Nat, m.currency \in Currency, NEW c \in Currency,
           NEW r \in Fractions
    PROVE  LET k == Convert(m, c, r) IN
           /\ Signed(k) \in Int /\ Signed(m) \in Int
           /\ 2 * Abs(Signed(k) * (r.d * PerMajor[m.currency]) - Signed(m) * r.n * PerMajor[c])
                <= r.d * PerMajor[m.currency]
<1>1. PICK n, d, from, to, amount : /\ n = r.n /\ d = r.d /\ amount = m.amount
                                    /\ from = PerMajor[m.currency] /\ to = PerMajor[c]
  OBVIOUS
<1>2. n \in Nat /\ d \in Nat \ {0} /\ from \in Nat \ {0} /\ to \in Nat /\ amount \in Nat
  BY <1>1, MoneyAssumption DEF Fractions
<1>3. PICK whole, part : whole = amount * n * to /\ part = d * from
  OBVIOUS
<1>4. whole \in Nat /\ part \in Nat \ {0}
  BY <1>2, <1>3
<1>5. PICK k : k = Convert(m, c, r)
  OBVIOUS
<1>6. k.amount = Round(whole, part) /\ k.sign = m.sign
  BY <1>1, <1>3, <1>5 DEF Convert
<1>7. PICK q : q = Round(whole, part)
  OBVIOUS
<1>8. q \in Nat /\ 2 * Abs(q * part - whole) <= part /\ q * part \in Nat
  BY <1>4, <1>7, RoundIsNear
<1>9. CASE m.sign = "positive"
  <2>1. Signed(k) = q /\ Signed(m) = amount
    BY <1>1, <1>6, <1>7, <1>9 DEF Signed
  <2>2. QED
    BY <1>1, <1>2, <1>3, <1>5, <1>8, <2>1
<1>10. CASE m.sign # "positive"
  <2>1. Signed(k) = -q /\ Signed(m) = -amount
    BY <1>1, <1>6, <1>7, <1>10 DEF Signed
  <2>2. (-q) * part = -(q * part) /\ (-amount) * n * to = -whole
    BY <1>2, <1>3, <1>4, <1>8
  <2>3. 2 * Abs(-(q * part) - (-whole)) <= part
    BY <1>4, <1>8 DEF Abs
  <2>4. QED
    BY <1>1, <1>2, <1>3, <1>5, <1>8, <2>1, <2>2, <2>3
<1>11. QED
  BY <1>9, <1>10

(* Errors of a rounding and of what was rounded before                     *)
LEMMA ErrorsCompose ==
    ASSUME NEW parts \in Nat, NEW from \in Nat, NEW to \in Nat, NEW n \in Nat, NEW d \in Nat,
           NEW steps \in Nat, NEW k \in Int, NEW b \in Int, NEW t \in Int,
           2 * Abs(k * (d * from) - b * n * to) <= d * from,
           2 * Abs(b * parts - t * from) <= steps * parts
    PROVE  2 * Abs(k * d * parts - t * n * to) * from
             <= parts * (d * from + steps * n * to)
<1>1. PICK f, w, x, y, i : /\ f = d * from /\ w = n * to
                           /\ x = k * (d * from) - b * n * to
                           /\ y = b * parts - t * from
                           /\ i = k * d * parts - t * n * to
  OBVIOUS
<1>2. f \in Nat /\ w \in Nat /\ x \in Int /\ y \in Int /\ i \in Int /\ steps * parts \in Int
  BY <1>1
<1>0. 2 * Abs(x) <= f /\ 2 * Abs(y) <= steps * parts
  BY <1>1
<1>3. 2 * Abs(parts * x) <= parts * f
  BY <1>0, <1>2, Scaled
<1>4. 2 * Abs(w * y) <= w * (steps * parts)
  BY <1>0, <1>2, Scaled
<1>5. parts * x \in Int /\ w * y \in Int /\ parts * f \in Int /\ w * (steps * parts) \in Int
  BY <1>2
<1>6. 2 * Abs(parts * x + w * y) <= parts * f + w * (steps * parts)
  BY <1>3, <1>4, <1>5, Added
<1>7. parts * x + w * y = i * from
  BY <1>1
<1>8. parts * f + w * (steps * parts) = parts * (d * from + steps * n * to)
  BY <1>1
<1>9. Abs(i * from) = Abs(i) * from
  <2>1. CASE i >= 0
    <3>1. i * from >= 0
      BY <1>2, <2>1
    <3>2. QED
      BY <1>2, <2>1, <3>1 DEF Abs
  <2>2. CASE i < 0
    <3>1. i * from <= 0 /\ (-i) * from = -(i * from) /\ i * from \in Int
      BY <1>2, <2>2
    <3>2. QED
      BY <1>2, <2>2, <3>1 DEF Abs
  <2>3. QED
    BY <1>2, <2>1, <2>2
<1>10. Abs(i) \in Int
  BY <1>2 DEF Abs
<1>11. QED
  BY <1>1, <1>6, <1>7, <1>8, <1>9, <1>10

(* The version of a snapshot that a request has read was reported.         *)
LEMMA ReadWasReported ==
    ASSUME BalanceInv, NEW s \in query.snaps
    PROVE  s[1] \in Accounts /\ s[3] \in Versions(s[1])
<1>1. s[1] \in Accounts /\ s[2] \in Days /\ s[3] \in Nat \ {0} /\ TablesOK
  BY DEF BalanceInv, QueryOK, RequestRecord
<1>2. s[3] <= snapshots[s[1]][s[2]]
  BY DEF BalanceInv, NowOK, SnapsPast
<1>3. Reports[s[1]] \in Seq(Answers)
  BY <1>1, QueryAssumption
<1>4. /\ snapshots[s[1]][s[2]] \in Nat /\ stored[s[1]] \in Nat /\ reported[s[1]] \in Nat
      /\ Len(Reports[s[1]]) \in Nat
  BY <1>1, <1>3 DEF TablesOK
<1>5. /\ snapshots[s[1]][s[2]] <= stored[s[1]] /\ stored[s[1]] <= reported[s[1]]
      /\ reported[s[1]] <= Len(Reports[s[1]])
  BY <1>1 DEF TablesOK
<1>6. QED
  BY <1>1, <1>2, <1>4, <1>5 DEF Versions

LEMMA RateForIs ==
    ASSUME BalanceInv, NEW c, NEW d
    PROVE  RateFor(query, c, d) \subseteq Fractions
<1>1. SUFFICES ASSUME NEW r \in RateFor(query, c, d)
               PROVE  r \in Fractions
  OBVIOUS
<1>2. PICK p : p = Canonical(c, query.target)
  OBVIOUS
<1>3. PICK u \in RateDay(query, c, d) :
         r = IF Inverted(c, query.target) THEN [n |-> Price[p][u].d, d |-> Price[p][u].n]
             ELSE Price[p][u]
  BY <1>2 DEF RateFor
<1>4. u \in DaysOf(query.rates, p)
  BY <1>2 DEF RateDay, Closest
<1>5. Price[p][u] \in Fractions
  BY <1>4, RatesAre
<1>6. QED
  BY <1>3, <1>5 DEF Fractions

(* Whatever is shown is the balance of a report: the unconverted one to    *)
(* half a smallest unit, or one for an investment, of which two amounts    *)
(* are rounded; the converted one to half a unit more than that comes to   *)
(* at the rate of the day; and no sign is lost.                            *)
THEOREM ShownWasReported == Spec => []ShownIsReported
<1>1. BalanceInv => ShownIsReported
  <2> SUFFICES ASSUME BalanceInv, Answered, NEW x \in query.accounts,
                      NEW day \in DaysAsked(query), NEW s \in SnapshotFor(query, x[1], day)
               PROVE  LET total == ReportedTotal(x[1], s[3])
                          from == PerMajor[CurrencyOf(x[1], s[3])]
                          to == PerMajor[query.target]
                          shown == EffectiveOn(query, x, day)
                      IN  /\ 2 * Abs(Signed(shown.balance) * Parts - total * from)
                               <= Roundings(x[1]) * Parts
                          /\ \A m \in shown.converted,
                               r \in RateFor(query, shown.balance.currency, day) :
                               2 * Abs(Signed(m) * r.d * Parts - total * r.n * to) * from
                                 <= Parts * (r.d * from + Roundings(x[1]) * r.n * to)
    BY DEF ShownIsReported
  <2>1. QueryOK(query) /\ query.target \in Currency
    BY DEF BalanceInv, QueryOK, RequestRecord
  <2>2. day \in Nat
    BY <2>1 DEF QueryOK, RequestRecord, DaysAsked
  <2>3. PICK a, v : a = x[1] /\ v = s[3]
    OBVIOUS
  <2>4. s \in query.snaps /\ s[1] = a /\ SnapshotFor(query, a, day) = {s}
    BY <2>1, <2>2, <2>3, SnapshotForIs
  <2>5. a \in Accounts /\ v \in Versions(a)
    BY <2>3, <2>4, ReadWasReported
  <2>6. Recorded(query, x, day) = Row(a, v)
    <3>1. {Row(x[1], y[3]) : y \in SnapshotFor(query, x[1], day)} = {Row(a, v)}
      BY <2>3, <2>4
    <3>2. \A z : Or({Row(a, v)}, z) = Row(a, v)
      BY DEF Or
    <3>3. QED
      BY <3>1, <3>2 DEF Recorded
  <2>7. PICK b : b = Effective(TypeOf[a], Row(a, v).available, Row(a, v).current)
    OBVIOUS
  <2>8. PICK shown : shown = EffectiveOn(query, x, day)
    OBVIOUS
  <2>9. /\ shown.balance = b
        /\ shown.converted = {Convert(b, query.target, r) : r \in RateFor(query, b.currency, day)}
    BY <2>3, <2>6, <2>7, <2>8 DEF EffectiveOn, WithConversion
  <2>10. PICK from, to, t, steps :
            /\ from = PerMajor[CurrencyOf(a, v)] /\ to = PerMajor[query.target]
            /\ t = ReportedTotal(a, v) /\ steps = Roundings(a)
    OBVIOUS
  <2>11. /\ b.currency = CurrencyOf(a, v) /\ b.currency \in Currency
         /\ b.amount \in Nat /\ Signed(b) \in Int /\ t \in Int
         /\ 2 * Abs(Signed(b) * Parts - t * from) <= steps * Parts
    BY <2>5, <2>7, <2>10, EffectiveNear
  <2>12. from \in Nat /\ to \in Nat /\ steps \in Nat /\ Parts \in Nat
    BY <2>1, <2>10, <2>11, MoneyAssumption DEF Roundings
  <2>13. ASSUME NEW m \in shown.converted, NEW r \in RateFor(query, b.currency, day)
         PROVE  2 * Abs(Signed(m) * r.d * Parts - t * r.n * to) * from
                  <= Parts * (r.d * from + steps * r.n * to)
    <3>1. \A u, w \in RateFor(query, b.currency, day) : u = w
      <4>1. PICK D, p : p = Canonical(b.currency, query.target) /\ D = DaysOf(query.rates, p)
        OBVIOUS
      <4>2. D \subseteq Nat
        BY <4>1, RatesAre
      <4>3. \A u, w \in Closest(D, day) : u = w
        <5>1. \A u, w \in Closest(D, day) : u <= w /\ w <= u
          BY DEF Closest
        <5>2. Closest(D, day) \subseteq Nat
          BY <4>2 DEF Closest
        <5>3. QED
          BY <5>1, <5>2
      <4>4. QED
        BY <4>1, <4>3 DEF RateFor, RateDay
    <3>2. m = Convert(b, query.target, r)
      BY <2>9, <3>1
    <3>3. r \in Fractions /\ r.n \in Nat /\ r.d \in Nat
      BY RateForIs DEF Fractions
    <3>4. /\ Signed(m) \in Int
          /\ 2 * Abs(Signed(m) * (r.d * from) - Signed(b) * r.n * to) <= r.d * from
      BY <2>1, <2>10, <2>11, <3>2, <3>3, ConvertNear
    <3>5. QED
      BY <2>11, <2>12, <3>3, <3>4, ErrorsCompose
  <2>14. QED
    BY <2>3, <2>8, <2>9, <2>10, <2>11, <2>13
<1>2. QED
  BY <1>1, Invariant, PTL

-----------------------------------------------------------------------------
(* Sums over sets.  The sum that MapThenSumSet takes, of the values g, is  *)
(* f[S] for an f that fits its recursion.                                  *)

First(s) == CHOOSE x \in s : TRUE

IsSum(f, S, g) ==
    f = [s \in SUBSET S |-> IF s = {} THEN 0 ELSE g[First(s)] + f[s \ {First(s)}]]

LEMMA FirstIs ==
    ASSUME NEW s, s # {}
    PROVE  First(s) \in s
BY DEF First

LEMMA Removes ==
    ASSUME NEW S, IsFiniteSet(S), NEW s \in SUBSET S
    PROVE  /\ IsFiniteSet(s) /\ Cardinality(s) \in Nat
           /\ Cardinality(s) <= Cardinality(S)
           /\ \A x \in s : Cardinality(s \ {x}) \in Nat /\ Cardinality(s \ {x}) < Cardinality(s)
<1>1. IsFiniteSet(s) /\ Cardinality(s) <= Cardinality(S)
  BY FS_Subset
<1>2. Cardinality(s) \in Nat
  BY <1>1, FS_CardinalityType
<1>3. ASSUME NEW x \in s
      PROVE  Cardinality(s \ {x}) \in Nat /\ Cardinality(s \ {x}) < Cardinality(s)
  <2>1. IsFiniteSet(s \ {x}) /\ Cardinality(s \ {x}) = Cardinality(s) - 1
    BY <1>1, FS_RemoveElement
  <2>2. Cardinality(s \ {x}) \in Nat
    BY <2>1, FS_CardinalityType
  <2>3. QED
    BY <1>2, <2>1, <2>2
<1>4. QED
  BY <1>1, <1>2, <1>3

(* The smallest of the subsets with a property, of which there is one      *)
LEMMA SmallestSubset ==
    ASSUME NEW S, IsFiniteSet(S), NEW F \in SUBSET (SUBSET S), F # {}
    PROVE  \E s \in F : \A x \in s : s \ {x} \notin F
<1> DEFINE T == {Cardinality(s) : s \in F}
<1>1. \A s \in F : Cardinality(s) \in Nat
  BY Removes
<1>2. T \subseteq Nat /\ T # {}
  BY <1>1
<1>3. PICK n \in T : \A k \in T : n <= k
  BY <1>2, Smallest
<1>4. PICK s \in F : Cardinality(s) = n
  OBVIOUS
<1>5. ASSUME NEW x \in s, s \ {x} \in F
      PROVE  FALSE
  <2>1. n <= Cardinality(s \ {x})
    BY <1>3, <1>5
  <2>2. s \in SUBSET S
    OBVIOUS
  <2>3. Cardinality(s \ {x}) \in Nat /\ Cardinality(s \ {x}) < n /\ n \in Nat
    BY <1>1, <1>4, <2>2, Removes
  <2>4. QED
    BY <2>1, <2>3
<1>6. QED
  BY <1>5

LEMMA SumExists ==
    ASSUME NEW S, IsFiniteSet(S), NEW g \in [S -> Int]
    PROVE  \E f : IsSum(f, S, g)
<1> DEFINE Small(n) == {s \in SUBSET S : Cardinality(s) <= n}
           Summed(h, s) == IF s = {} THEN 0 ELSE g[First(s)] + h[s \ {First(s)}]
           Sums(h, n) == /\ h \in [Small(n) -> Int]
                         /\ \A s \in Small(n) : h[s] = Summed(h, s)
<1>1. ASSUME NEW n \in Nat, NEW s \in Small(n + 1), s # {}
      PROVE  First(s) \in S /\ s \ {First(s)} \in Small(n)
  <2>1. First(s) \in s
    BY <1>1, FirstIs
  <2>2. s \in SUBSET S /\ Cardinality(s) <= n + 1
    OBVIOUS
  <2>3. /\ Cardinality(s) \in Nat
        /\ Cardinality(s \ {First(s)}) \in Nat /\ Cardinality(s \ {First(s)}) < Cardinality(s)
    BY <2>1, <2>2, Removes
  <2>4. Cardinality(s \ {First(s)}) <= n
    BY <2>2, <2>3
  <2>5. QED
    BY <2>1, <2>2, <2>4
<1>2. \E h : Sums(h, 0)
  <2>1. ASSUME NEW s \in Small(0)
        PROVE  s = {}
    <3>1. IsFiniteSet(s) /\ Cardinality(s) \in Nat /\ Cardinality(s) <= 0
      BY Removes
    <3>2. Cardinality(s) = 0
      BY <3>1
    <3>3. QED
      BY <3>1, <3>2, FS_EmptySet
  <2>2. PICK h : h = [s \in Small(0) |-> 0]
    OBVIOUS
  <2>3. Sums(h, 0)
    BY <2>1, <2>2
  <2>4. QED
    BY <2>3
<1>3. ASSUME NEW n \in Nat, NEW h, Sums(h, n)
      PROVE  \E k : Sums(k, n + 1)
  <2>1. PICK k : k = [s \in Small(n + 1) |-> Summed(h, s)]
    OBVIOUS
  <2>2. \A s \in Small(n + 1) : k[s] = Summed(h, s)
    BY <2>1
  <2>3. ASSUME NEW s \in Small(n + 1)
        PROVE  Summed(h, s) \in Int
    <3>1. CASE s = {}
      BY <3>1
    <3>2. CASE s # {}
      <4>1. First(s) \in S /\ s \ {First(s)} \in Small(n)
        BY <1>1, <3>2
      <4>2. g[First(s)] \in Int /\ h[s \ {First(s)}] \in Int
        BY <1>3, <4>1
      <4>3. QED
        BY <3>2, <4>2
    <3>3. QED
      BY <3>1, <3>2
  <2>4. ASSUME NEW s \in Small(n)
        PROVE  s \in Small(n + 1) /\ k[s] = h[s]
    <3>1. Cardinality(s) \in Nat /\ Cardinality(s) <= n
      BY Removes
    <3>2. s \in Small(n + 1)
      BY <3>1
    <3>3. QED
      BY <1>3, <2>2, <3>2
  <2>5. ASSUME NEW s \in Small(n + 1)
        PROVE  k[s] = Summed(k, s)
    <3>1. CASE s = {}
      BY <2>2, <3>1
    <3>2. CASE s # {}
      <4>1. s \ {First(s)} \in Small(n)
        BY <1>1, <3>2
      <4>2. k[s \ {First(s)}] = h[s \ {First(s)}]
        BY <2>4, <4>1
      <4>3. QED
        BY <2>2, <3>2, <4>2
    <3>3. QED
      BY <3>1, <3>2
  <2>6. k \in [Small(n + 1) -> Int]
    BY <2>1, <2>3
  <2>7. Sums(k, n + 1)
    BY <2>5, <2>6
  <2>8. QED
    BY <2>7
<1> HIDE DEF Sums
<1>4. \A n \in Nat : \E h : Sums(h, n)
  <2> DEFINE T == {n \in Nat : ~\E h : Sums(h, n)}
  <2>1. SUFFICES ASSUME T # {}
                 PROVE  FALSE
    OBVIOUS
  <2>2. T \subseteq Nat
    OBVIOUS
  <2>3. PICK n \in T : \A k \in T : n <= k
    BY <2>1, <2>2, Smallest
  <2>4. n \in Nat /\ n # 0
    BY <1>2
  <2>5. n - 1 \in Nat /\ (n - 1) + 1 = n /\ ~(n <= n - 1)
    BY <2>4
  <2>6. n - 1 \notin T
    BY <2>3, <2>5
  <2>7. PICK h : Sums(h, n - 1)
    BY <2>5, <2>6
  <2>8. \E k : Sums(k, n)
    BY <1>3, <2>5, <2>7
  <2>9. QED
    BY <2>8
<1>5. PICK m : m = Cardinality(S)
  OBVIOUS
<1>6. m \in Nat /\ Small(m) = SUBSET S
  <2>1. \A s \in SUBSET S : Cardinality(s) <= m
    BY <1>5, Removes
  <2>2. QED
    BY <1>5, <2>1, FS_CardinalityType
<1>7. PICK f : Sums(f, m)
  BY <1>4, <1>6
<1>8. f \in [SUBSET S -> Int] /\ \A s \in SUBSET S : f[s] = Summed(f, s)
  BY <1>6, <1>7 DEF Sums
<1>9. f = [s \in SUBSET S |-> Summed(f, s)]
  BY <1>8
<1>10. QED
  BY <1>9 DEF IsSum

(* In whichever order the elements come                                    *)
LEMMA SumSteps ==
    ASSUME NEW S, IsFiniteSet(S), NEW g \in [S -> Int], NEW f, IsSum(f, S, g)
    PROVE  /\ f[{}] = 0
           /\ \A s \in SUBSET S : f[s] \in Int
           /\ \A s \in SUBSET S : \A x \in s : f[s] = g[x] + f[s \ {x}]
<1>1. ASSUME NEW s \in SUBSET S
      PROVE  f[s] = IF s = {} THEN 0 ELSE g[First(s)] + f[s \ {First(s)}]
  BY DEF IsSum
<1>2. f[{}] = 0
  BY <1>1
<1>3. \A s \in SUBSET S : f[s] \in Int
  <2> DEFINE F == {s \in SUBSET S : f[s] \notin Int}
  <2>1. SUFFICES ASSUME F # {}
                 PROVE  FALSE
    OBVIOUS
  <2>2. F \in SUBSET (SUBSET S)
    OBVIOUS
  <2>3. PICK s \in F : \A x \in s : s \ {x} \notin F
    BY <2>1, <2>2, SmallestSubset
  <2>4. s \in SUBSET S /\ f[s] \notin Int /\ s # {}
    BY <1>2
  <2>5. First(s) \in s
    BY <2>4, FirstIs
  <2>6. s \ {First(s)} \in SUBSET S
    BY <2>4
  <2>7. f[s \ {First(s)}] \in Int /\ g[First(s)] \in Int
    BY <2>3, <2>4, <2>5, <2>6
  <2>8. f[s] = g[First(s)] + f[s \ {First(s)}]
    BY <1>1, <2>4
  <2>9. QED
    BY <2>4, <2>7, <2>8
<1>4. \A s \in SUBSET S : \A x \in s : f[s] = g[x] + f[s \ {x}]
  <2> DEFINE F == {s \in SUBSET S : \E x \in s : f[s] # g[x] + f[s \ {x}]}
  <2>1. SUFFICES ASSUME F # {}
                 PROVE  FALSE
    OBVIOUS
  <2>2. F \in SUBSET (SUBSET S)
    OBVIOUS
  <2>3. PICK s \in F : \A x \in s : s \ {x} \notin F
    BY <2>1, <2>2, SmallestSubset
  <2>4. PICK x \in s : f[s] # g[x] + f[s \ {x}]
    OBVIOUS
  <2>5. PICK c : c = First(s)
    OBVIOUS
  <2>6. c \in s /\ s \in SUBSET S /\ f[s] = g[c] + f[s \ {c}]
    BY <1>1, <2>4, <2>5, FirstIs
  <2>7. c # x
    BY <2>4, <2>6
  <2>8. s \ {c} \in SUBSET S /\ s \ {x} \in SUBSET S
    BY <2>6
  <2>9. s \ {c} \notin F /\ s \ {x} \notin F
    BY <2>3, <2>6
  <2>10. x \in s \ {c} /\ c \in s \ {x}
    BY <2>6, <2>7
  <2>11. /\ f[s \ {c}] = g[x] + f[(s \ {c}) \ {x}]
         /\ f[s \ {x}] = g[c] + f[(s \ {x}) \ {c}]
    BY <2>8, <2>9, <2>10
  <2>12. (s \ {c}) \ {x} = (s \ {x}) \ {c} /\ (s \ {c}) \ {x} \in SUBSET S
    BY <2>6
  <2>13. PICK k : k = f[(s \ {c}) \ {x}]
    OBVIOUS
  <2>14. k \in Int /\ g[x] \in Int /\ g[c] \in Int
    BY <1>3, <2>6, <2>12, <2>13
  <2>15. f[s] = g[c] + (g[x] + k) /\ f[s \ {x}] = g[c] + k
    BY <2>6, <2>11, <2>12, <2>13
  <2>16. QED
    BY <2>4, <2>14, <2>15
<1>5. QED
  BY <1>2, <1>3, <1>4

(* The net worth is such a sum of the accounts' contributions.             *)
LEMMA NetWorthIs ==
    ASSUME NEW q, NEW d, NEW S, S = q.accounts, IsFiniteSet(S), NEW g \in [S -> Int],
           \A x \in S : g[x] = Contribution(q, x, d)
    PROVE  \E f : IsSum(f, S, g) /\ NetWorth(q, d) = f[S]
<1> DEFINE Recurs(iter) == iter = [s \in SUBSET S |->
                    IF s = {} THEN 0
                    ELSE LET x == CHOOSE x \in s : TRUE
                         IN  Contribution(q, x, d) + iter[s \ {x}]]
           it == CHOOSE iter : Recurs(iter)
<1>1. PICK f : IsSum(f, S, g)
  BY SumExists
<1>2. ASSUME NEW h
      PROVE  [s \in SUBSET S |-> IF s = {} THEN 0 ELSE g[First(s)] + h[s \ {First(s)}]]
              = [s \in SUBSET S |->
                    IF s = {} THEN 0
                    ELSE LET x == CHOOSE x \in s : TRUE
                         IN  Contribution(q, x, d) + h[s \ {x}]]
  <2>1. ASSUME NEW s \in SUBSET S, s # {}
        PROVE  First(s) \in S /\ g[First(s)] = Contribution(q, First(s), d)
    BY <2>1, FirstIs
  <2>2. QED
    BY <2>1 DEF First
<1>3. Recurs(f)
  BY <1>1, <1>2 DEF IsSum
<1>4. Recurs(it)
  <2> HIDE DEF Recurs
  <2>1. QED
    BY <1>3
<1>5. NetWorth(q, d) = it[S]
  BY DEF NetWorth, MapThenSumSet, MapThenFoldSet
<1> HIDE DEF it
<1>6. IsSum(it, S, g)
  BY <1>2, <1>4 DEF IsSum
<1>7. QED
  BY <1>5, <1>6

-----------------------------------------------------------------------------
(* What the page adds.                                                     *)

LEMMA AccountIs ==
    ASSUME BalanceInv, NEW x \in query.accounts
    PROVE  x[1] \in Accounts /\ x[2] \in Versions(x[1])
BY DEF BalanceInv, QueryOK, RequestRecord, AccountsRead

(* An account's balances of a day are in a currency it had.                *)
LEMMA RecordedIs ==
    ASSUME BalanceInv, NEW x \in query.accounts, NEW d \in Nat
    PROVE  LET r == Recorded(query, x, d) IN
           \E v \in Versions(x[1]) :
              /\ r.available.currency = CurrencyOf(x[1], v)
              /\ r.current.currency = CurrencyOf(x[1], v)
              /\ CurrencyOf(x[1], v) \in Currency
              /\ r.current.amount \in Nat
              /\ Signed(r.available) \in Int /\ Signed(r.current) \in Int
<1>1. x[1] \in Accounts /\ x[2] \in Versions(x[1]) /\ QueryOK(query)
  BY AccountIs DEF BalanceInv
<1>2. PICK r : r = Recorded(query, x, d)
  OBVIOUS
<1>3. CASE SnapshotFor(query, x[1], d) = {}
  <2>1. PICK v : v = x[2]
    OBVIOUS
  <2>2. /\ r.available = Zero(Row(x[1], v).available.currency)
        /\ r.current = Zero(CurrencyOf(x[1], v))
    BY <1>2, <1>3, <2>1 DEF Recorded, Or
  <2>3. /\ Row(x[1], v).available.currency = CurrencyOf(x[1], v)
        /\ CurrencyOf(x[1], v) \in Currency
    BY <1>1, <2>1, RowNear
  <2>4. /\ r.available.currency = CurrencyOf(x[1], v) /\ r.current.currency = CurrencyOf(x[1], v)
        /\ r.current.amount \in Nat
        /\ Signed(r.available) \in Int /\ Signed(r.current) \in Int
    BY <2>2, <2>3 DEF Zero, Signed
  <2>5. QED
    BY <1>1, <1>2, <2>1, <2>3, <2>4
<1>4. CASE SnapshotFor(query, x[1], d) # {}
  <2>0. \A s, u \in SnapshotFor(query, x[1], d) : s = u
    BY <1>1, SnapshotForIs
  <2>1. PICK s : SnapshotFor(query, x[1], d) = {s}
    BY <1>4, <2>0
  <2>2. s \in query.snaps /\ s[1] = x[1]
    BY <2>1 DEF SnapshotFor
  <2>3. PICK v : v = s[3]
    OBVIOUS
  <2>4. v \in Versions(x[1])
    BY <2>2, <2>3, ReadWasReported
  <2>5. r = Row(x[1], v)
    <3>1. {Row(x[1], y[3]) : y \in SnapshotFor(query, x[1], d)} = {Row(x[1], v)}
      BY <2>1, <2>3
    <3>2. \A z : Or({Row(x[1], v)}, z) = Row(x[1], v)
      BY DEF Or
    <3>3. QED
      BY <1>2, <3>1, <3>2 DEF Recorded
  <2>6. QED
    BY <1>1, <1>2, <2>4, <2>5, RowNear
<1>5. QED
  BY <1>3, <1>4

LEMMA AmountIs ==
    ASSUME BalanceInv, NEW x \in query.accounts, NEW d \in Nat
    PROVE  AmountOn(query, x, d) \in Int /\ Contribution(query, x, d) \in Int
<1>1. PICK r : r = Recorded(query, x, d)
  OBVIOUS
<1>2. PICK c \in Currency : /\ r.available.currency = c /\ r.current.currency = c
                            /\ r.current.amount \in Nat
                            /\ Signed(r.available) \in Int /\ Signed(r.current) \in Int
  BY <1>1, RecordedIs
<1>3. PICK b : b = Effective(TypeOf[x[1]], r.available, r.current)
  OBVIOUS
<1>4. b.currency = c /\ b.amount \in Nat /\ Signed(b) \in Int
  <2>1. CASE Invests(x[1])
    <3>1. PICK n : n = Signed(r.available) + Signed(r.current)
      OBVIOUS
    <3>2. b = [amount |-> Abs(n), currency |-> r.available.currency, sign |-> SignOf(n)]
      BY <1>3, <2>1, <3>1 DEF Effective, Invests
    <3>3. n \in Int /\ Abs(n) \in Nat
      BY <1>2, <3>1 DEF Abs
    <3>4. QED
      BY <1>2, <3>2, <3>3 DEF Signed
  <2>2. CASE ~Invests(x[1])
    <3>1. b = r.current
      BY <1>3, <2>2 DEF Effective, Invests
    <3>2. QED
      BY <1>2, <3>1
  <2>3. QED
    BY <2>1, <2>2
<1>5. PICK e : e = EffectiveOn(query, x, d)
  OBVIOUS
<1>6. /\ e.balance = b
      /\ e.converted = {Convert(b, query.target, f) : f \in RateFor(query, b.currency, d)}
  BY <1>1, <1>3, <1>5 DEF EffectiveOn, WithConversion
<1>7. PICK m : m = Resolve(e)
  OBVIOUS
<1>8. m.currency \in Currency /\ Signed(m) \in Int
  <2>1. CASE e.converted = {}
    BY <1>4, <1>6, <1>7, <2>1 DEF Resolve, Or
  <2>2. CASE e.converted # {}
    <3>1. m \in e.converted
      BY <1>7, <2>2 DEF Resolve, Or
    <3>2. PICK f \in RateFor(query, b.currency, d) : m = Convert(b, query.target, f)
      BY <1>6, <3>1
    <3>3. f \in Fractions /\ query.target \in Currency
      BY RateForIs DEF BalanceInv, QueryOK, RequestRecord
    <3>4. m.currency = query.target
      BY <3>2 DEF Convert
    <3>5. Signed(m) \in Int
      BY <1>4, <3>2, <3>3, ConvertNear
    <3>6. QED
      BY <3>3, <3>4, <3>5
  <2>3. QED
    BY <2>1, <2>2
<1>9. PerMajor[m.currency] \in Nat \ {0} /\ Scale \in Nat
  BY <1>8, MoneyAssumption, ScaleAssumption
<1>10. Scale \div PerMajor[m.currency] \in Int
  BY <1>9, Divided
<1>11. AmountOn(query, x, d) = Signed(m) * (Scale \div PerMajor[m.currency])
  BY <1>5, <1>7 DEF AmountOn, Major
<1>12. AmountOn(query, x, d) \in Int
  BY <1>8, <1>10, <1>11
<1>13. QED
  BY <1>12 DEF Contribution, Abs

LEMMA AccountsFinite ==
    ASSUME BalanceInv
    PROVE  IsFiniteSet(query.accounts)
<1>1. PICK S : S = query.accounts
  OBVIOUS
<1>2. S \subseteq Accounts \X (Nat \ {0}) /\ \A x, y \in S : x[1] = y[1] => x = y
  BY <1>1 DEF BalanceInv, QueryOK, RequestRecord, AccountsRead
<1> DEFINE A == {x[1] : x \in S}
           f == [a \in A |-> CHOOSE x \in S : x[1] = a]
<1>3. IsFiniteSet(A)
  <2>1. A \in SUBSET Accounts
    BY <1>2
  <2>2. QED
    BY <2>1, QueryAssumption, FS_Subset
<1>4. ASSUME NEW x \in S
      PROVE  x[1] \in A /\ f[x[1]] = x
  BY <1>2
<1>5. f \in [A -> S]
  BY <1>4
<1>6. f \in Surjection(A, S)
  BY <1>4, <1>5 DEF Surjection
<1> HIDE DEF f, A
<1>7. QED
  BY <1>1, <1>3, <1>6, FS_Surjection

LEMMA NetWorthIsSum ==
    ASSUME BalanceInv, NEW d \in Nat
    PROVE  /\ NetWorth(query, d) \in Int
           /\ \E f : /\ IsSum(f, query.accounts, [x \in query.accounts |-> Contribution(query, x, d)])
                     /\ NetWorth(query, d) = f[query.accounts]
<1>1. PICK S : S = query.accounts
  OBVIOUS
<1>2. PICK g : g = [x \in S |-> Contribution(query, x, d)]
  OBVIOUS
<1>3. g \in [S -> Int] /\ \A x \in S : g[x] = Contribution(query, x, d)
  BY <1>1, <1>2, AmountIs
<1>4. IsFiniteSet(S)
  BY <1>1, AccountsFinite
<1>5. PICK f : IsSum(f, S, g) /\ NetWorth(query, d) = f[S]
  BY <1>1, <1>3, <1>4, NetWorthIs
<1>6. f[S] \in Int
  BY <1>3, <1>4, <1>5, SumSteps
<1>7. QED
  BY <1>1, <1>2, <1>5, <1>6

(* The colour of a change is that of its direction.                        *)
LEMMA ColourIs ==
    ASSUME NEW current \in Int, NEW previous \in Int, NEW liability \in BOOLEAN,
           Shown(Change(current, previous))
    PROVE  Colour(liability, Change(current, previous)) = "teal" <=>
              IF liability THEN current < previous ELSE current > previous
<1>1. previous # 0
  BY DEF Shown, Change
<1>2. PICK k : k = (current - previous) * 100
  OBVIOUS
<1>3. Change(current, previous) = {[n |-> k, d |-> Abs(previous)]}
  BY <1>1, <1>2 DEF Change
<1>4. k # 0 /\ k \in Int
  BY <1>2, <1>3 DEF Shown
<1>5. (\E c \in Change(current, previous) : c.n > 0) <=> k > 0
  BY <1>3
<1>6. k > 0 <=> current > previous
  BY <1>2
<1>7. current # previous
  BY <1>2, <1>4
<1>8. CASE liability = TRUE
  <2>1. Colour(liability, Change(current, previous)) = "teal" <=> ~(k > 0)
    <3>1. CASE k > 0
      BY <1>5, <1>8, <3>1 DEF Colour
    <3>2. CASE ~(k > 0)
      BY <1>5, <1>8, <3>2 DEF Colour
    <3>3. QED
      BY <3>1, <3>2
  <2>2. ~(k > 0) <=> current < previous
    BY <1>6, <1>7
  <2>3. QED
    BY <1>8, <2>1, <2>2
<1>9. CASE liability = FALSE
  <2>1. Colour(liability, Change(current, previous)) = "teal" <=> k > 0
    <3>1. CASE k > 0
      BY <1>5, <1>9, <3>1 DEF Colour
    <3>2. CASE ~(k > 0)
      BY <1>5, <1>9, <3>2 DEF Colour
    <3>3. QED
      BY <3>1, <3>2
  <2>2. QED
    BY <1>6, <1>9, <2>1
<1>10. QED
  BY <1>8, <1>9

(* A change is green exactly when the net worth goes up by it, on the net  *)
(* worth's card and on the cards of assets and of liabilities that are     *)
(* owed, of any accounts, currencies and rates.                            *)
THEOREM GreenGoesUp == Spec => []GreenIsGood
<1>1. BalanceInv => GreenIsGood
  <2> SUFFICES ASSUME BalanceInv, Answered, query.accounts # {}
               PROVE  /\ \A colour \in NetWorthCard(query, CHOOSE x \in query.accounts : TRUE).colour :
                            colour = "teal" <=> NetWorth(query, query.end) > NetWorth(query, query.start)
                      /\ \A liability \in BOOLEAN : \A card \in Section(query, liability) :
                            \A colour \in card.colour, x \in {y \in query.accounts : y[1] = card.id} :
                               (liability => AmountOn(query, x, query.start) >= 0
                                             /\ AmountOn(query, x, query.end) >= 0) =>
                                  (colour = "teal" <=>
                                     Contribution(query, x, query.end) > Contribution(query, x, query.start))
    BY DEF GreenIsGood
  <2>1. QueryOK(query) /\ query.start \in Nat /\ query.end \in Nat
    BY DEF BalanceInv, QueryOK, RequestRecord
  <2>2. PICK now, was : now = NetWorth(query, query.end) /\ was = NetWorth(query, query.start)
    OBVIOUS
  <2>3. now \in Int /\ was \in Int
    BY <2>1, <2>2, NetWorthIsSum
  <2>4. PICK first : first = CHOOSE x \in query.accounts : TRUE
    OBVIOUS
  <2>5. ASSUME NEW colour \in NetWorthCard(query, first).colour
        PROVE  colour = "teal" <=> now > was
    <3>1. PICK change : change = Change(now, was)
      OBVIOUS
    <3>2. PICK board : board = Dashboard(query, first)
      OBVIOUS
    <3>3. board.change = change
      BY <2>2, <3>1, <3>2 DEF Dashboard
    <3>4. NetWorthCard(query, first).colour = IF Shown(change) THEN {Colour(FALSE, change)} ELSE {}
      BY <3>2, <3>3 DEF NetWorthCard
    <3>5. Shown(change) /\ colour = Colour(FALSE, change)
      BY <3>4
    <3>6. QED
      BY <2>3, <3>1, <3>5, ColourIs
  <2>6. ASSUME NEW liability \in BOOLEAN, NEW card \in Section(query, liability),
               NEW colour \in card.colour, NEW x \in query.accounts, x[1] = card.id,
               liability => AmountOn(query, x, query.start) >= 0
                            /\ AmountOn(query, x, query.end) >= 0
        PROVE  colour = "teal" <=>
                  Contribution(query, x, query.end) > Contribution(query, x, query.start)
    <3>1. PICK y \in query.accounts :
             card = Card(Summary(query, y), liability)
             /\ IsLiability(Summary(query, y).type) = liability
      BY DEF Section
    <3>2. PICK s : s = Summary(query, y)
      OBVIOUS
    <3>3. PICK current, previous : /\ current = AmountOn(query, x, query.end)
                                   /\ previous = AmountOn(query, x, query.start)
      OBVIOUS
    <3>4. card = Card(s, liability) /\ s.id = y[1] /\ s.type = TypeOf[y[1]]
      BY <3>1, <3>2 DEF Summary
    <3>5. card.id = s.id
      BY <3>4 DEF Card
    <3>6. y = x
      BY <2>1, <2>6, <3>4, <3>5 DEF QueryOK, AccountsRead
    <3>7. s.change = Change(current, previous) /\ IsLiability(TypeOf[x[1]]) = liability
      BY <3>1, <3>2, <3>3, <3>4, <3>6 DEF Summary
    <3>8. card.colour = IF Shown(s.change) THEN {Colour(liability, s.change)} ELSE {}
      BY <3>4 DEF Card
    <3>9. Shown(s.change) /\ colour = Colour(liability, s.change)
      BY <2>6, <3>8
    <3>10. current \in Int /\ previous \in Int
      BY <2>1, <3>3, AmountIs
    <3>11. colour = "teal" <=> IF liability THEN current < previous ELSE current > previous
      BY <3>7, <3>9, <3>10, ColourIs
    <3>12. CASE liability = TRUE
      <4>1. current >= 0 /\ previous >= 0
        BY <2>6, <3>3, <3>12
      <4>2. /\ Contribution(query, x, query.end) = -Abs(current)
            /\ Contribution(query, x, query.start) = -Abs(previous)
        BY <3>3, <3>7, <3>12 DEF Contribution
      <4>3. Abs(current) = current /\ Abs(previous) = previous
        BY <3>10, <4>1 DEF Abs
      <4>4. -current > -previous <=> current < previous
        BY <3>10
      <4>5. QED
        BY <3>11, <3>12, <4>2, <4>3, <4>4
    <3>13. CASE liability = FALSE
      <4>1. /\ Contribution(query, x, query.end) = current
            /\ Contribution(query, x, query.start) = previous
        BY <3>3, <3>7, <3>13 DEF Contribution
      <4>2. QED
        BY <3>11, <3>13, <4>1
    <3>14. QED
      BY <3>12, <3>13
  <2>7. QED
    BY <2>2, <2>4, <2>5, <2>6
<1>2. QED
  BY <1>1, Invariant, PTL

-----------------------------------------------------------------------------
(* Sums over parts and images.                                             *)

LEMMA SumSplits ==
    ASSUME NEW S, IsFiniteSet(S), NEW g \in [S -> Int], NEW f, IsSum(f, S, g),
           NEW T \in SUBSET S
    PROVE  f[S] = f[T] + f[S \ T]
<1> DEFINE F == {s \in SUBSET S : f[s] # f[s \cap T] + f[s \ T]}
<1>1. F \in SUBSET (SUBSET S)
  OBVIOUS
<1>2. /\ f[{}] = 0
      /\ \A s \in SUBSET S : f[s] \in Int
      /\ \A s \in SUBSET S : \A x \in s : f[s] = g[x] + f[s \ {x}]
  BY SumSteps
<1>3. F = {}
  <2>1. SUFFICES ASSUME F # {}
                 PROVE  FALSE
    OBVIOUS
  <2>2. PICK s \in F : \A x \in s : s \ {x} \notin F
    BY <1>1, <2>1, SmallestSubset
  <2>3. s \in SUBSET S /\ f[s] # f[s \cap T] + f[s \ T]
    OBVIOUS
  <2>4. CASE s = {}
    <3>1. s \cap T = {} /\ s \ T = {}
      BY <2>4
    <3>2. QED
      BY <1>2, <2>3, <2>4, <3>1
  <2>5. CASE s # {}
    <3>1. PICK x \in s : TRUE
      BY <2>5
    <3>2. PICK r : r = s \ {x}
      OBVIOUS
    <3>3. r \in SUBSET S /\ r \cap T \in SUBSET S /\ r \ T \in SUBSET S /\ x \in S
          /\ s \cap T \in SUBSET S /\ s \ T \in SUBSET S
      BY <2>3, <3>1, <3>2
    <3>4. f[r] = f[r \cap T] + f[r \ T] /\ f[s] = g[x] + f[r]
      BY <1>2, <2>2, <2>3, <3>1, <3>2, <3>3
    <3>5. g[x] \in Int /\ f[r \cap T] \in Int /\ f[r \ T] \in Int
      BY <1>2, <3>3
    <3>6. CASE x \in T
      <4>1. s \ T = r \ T /\ (s \cap T) \ {x} = r \cap T /\ x \in s \cap T
        BY <3>1, <3>2, <3>6
      <4>2. f[s \cap T] = g[x] + f[r \cap T]
        BY <1>2, <3>3, <4>1
      <4>3. f[s \cap T] + f[s \ T] = (g[x] + f[r \cap T]) + f[r \ T]
        BY <4>1, <4>2
      <4>4. f[s] = g[x] + (f[r \cap T] + f[r \ T])
        BY <3>4
      <4>5. f[s] = f[s \cap T] + f[s \ T]
        BY <3>5, <4>3, <4>4
      <4>6. QED
        BY <2>3, <4>5
    <3>7. CASE x \notin T
      <4>1. s \cap T = r \cap T /\ (s \ T) \ {x} = r \ T /\ x \in s \ T
        BY <3>1, <3>2, <3>7
      <4>2. f[s \ T] = g[x] + f[r \ T]
        BY <1>2, <3>3, <4>1
      <4>3. f[s \cap T] + f[s \ T] = f[r \cap T] + (g[x] + f[r \ T])
        BY <4>1, <4>2
      <4>4. f[s] = g[x] + (f[r \cap T] + f[r \ T])
        BY <3>4
      <4>5. f[s] = f[s \cap T] + f[s \ T]
        BY <3>5, <4>3, <4>4
      <4>6. QED
        BY <2>3, <4>5
    <3>8. QED
      BY <3>6, <3>7
  <2>6. QED
    BY <2>4, <2>5
<1>4. S \cap T = T /\ S \in SUBSET S
  OBVIOUS
<1>5. QED
  BY <1>3, <1>4

(* The elements of T are sent, by c, one to one onto those of A, whose     *)
(* values are theirs, times k.                                             *)
SentOnto(S, g, f, T, c, k, A, h, e) ==
    /\ IsFiniteSet(S) /\ g \in [S -> Int] /\ IsSum(f, S, g) /\ T \in SUBSET S
    /\ IsFiniteSet(A) /\ h \in [A -> Int] /\ IsSum(e, A, h)
    /\ c \in [T -> A]
    /\ \A a \in A : \E x \in T : c[x] = a
    /\ \A x, y \in T : c[x] = c[y] => x = y
    /\ k \in Int
    /\ \A x \in T : g[x] = k * h[c[x]]

LEMMA SumOfImage ==
    ASSUME NEW S, NEW g, NEW f, NEW T, NEW c, NEW k, NEW A, NEW h, NEW e,
           SentOnto(S, g, f, T, c, k, A, h, e)
    PROVE  f[T] = k * e[A]
<1>0. /\ IsFiniteSet(S) /\ g \in [S -> Int] /\ IsSum(f, S, g) /\ T \in SUBSET S
      /\ IsFiniteSet(A) /\ h \in [A -> Int] /\ IsSum(e, A, h)
      /\ c \in [T -> A]
      /\ \A a \in A : \E x \in T : c[x] = a
      /\ \A x, y \in T : c[x] = c[y] => x = y
      /\ k \in Int
      /\ \A x \in T : g[x] = k * h[c[x]]
  BY DEF SentOnto
<1> DEFINE Image(s) == {c[x] : x \in s}
           F == {s \in SUBSET T : f[s] # k * e[Image(s)]}
<1>1. F \in SUBSET (SUBSET S) /\ Image(T) = A
  BY <1>0
<1>2. /\ f[{}] = 0
      /\ \A s \in SUBSET S : \A x \in s : f[s] = g[x] + f[s \ {x}]
  BY <1>0, SumSteps
<1>3. /\ e[{}] = 0
      /\ \A s \in SUBSET A : e[s] \in Int
      /\ \A s \in SUBSET A : \A x \in s : e[s] = h[x] + e[s \ {x}]
  BY <1>0, SumSteps
<1>4. F = {}
  <2>1. SUFFICES ASSUME F # {}
                 PROVE  FALSE
    OBVIOUS
  <2>2. PICK s \in F : \A x \in s : s \ {x} \notin F
    BY <1>0, <1>1, <2>1, SmallestSubset
  <2>3. s \in SUBSET T /\ f[s] # k * e[Image(s)]
    OBVIOUS
  <2>4. CASE s = {}
    <3>1. Image(s) = {}
      BY <2>4
    <3> HIDE DEF Image
    <3>2. e[Image(s)] = 0 /\ f[s] = 0
      BY <1>2, <1>3, <2>4, <3>1
    <3>3. k * 0 = 0
      BY <1>0
    <3>4. QED
      BY <2>3, <3>2, <3>3, <1>0
  <2>5. CASE s # {}
    <3>1. PICK x \in s : TRUE
      BY <2>5
    <3>2. PICK r : r = s \ {x}
      OBVIOUS
    <3>3. r \in SUBSET T /\ x \in T /\ s \in SUBSET S /\ c[x] \in A
      BY <1>0, <2>3, <3>1, <3>2
    <3>4. f[r] = k * e[Image(r)] /\ f[s] = g[x] + f[r]
      BY <1>2, <2>2, <3>1, <3>2, <3>3, <1>0
    <3>5. Image(s) \in SUBSET A /\ Image(r) \in SUBSET A /\ c[x] \in Image(s)
      BY <1>0, <2>3, <3>1, <3>3
    <3>6. Image(r) = Image(s) \ {c[x]}
      BY <2>3, <3>1, <3>2, <3>3, <1>0
    <3> HIDE DEF Image
    <3>7. e[Image(s)] = h[c[x]] + e[Image(r)]
      BY <1>3, <3>5, <3>6
    <3>8. h[c[x]] \in Int /\ e[Image(r)] \in Int
      BY <1>0, <1>3, <3>3, <3>5
    <3>9. k * (h[c[x]] + e[Image(r)]) = k * h[c[x]] + k * e[Image(r)]
      BY <1>0, <3>8
    <3>10. QED
      BY <2>3, <3>3, <3>4, <3>7, <3>9, <1>0
  <2>6. QED
    BY <2>4, <2>5
<1>5. T \in SUBSET T
  OBVIOUS
<1>6. f[T] = k * e[Image(T)]
  BY <1>4, <1>5
<1>7. QED
  BY <1>1, <1>6

LEMMA TotalIs ==
    ASSUME NEW S, IsFiniteSet(S), NEW g \in [S -> Int],
           \A x \in S : g[x] = Major(x.balance.primary)
    PROVE  \E f : IsSum(f, S, g) /\ Total(S) = f[S]
<1> DEFINE Recurs(iter) == iter = [s \in SUBSET S |->
                    IF s = {} THEN 0
                    ELSE LET x == CHOOSE x \in s : TRUE
                         IN  Major(x.balance.primary) + iter[s \ {x}]]
           it == CHOOSE iter : Recurs(iter)
<1>1. PICK f : IsSum(f, S, g)
  BY SumExists
<1>2. ASSUME NEW h
      PROVE  [s \in SUBSET S |-> IF s = {} THEN 0 ELSE g[First(s)] + h[s \ {First(s)}]]
              = [s \in SUBSET S |->
                    IF s = {} THEN 0
                    ELSE LET x == CHOOSE x \in s : TRUE
                         IN  Major(x.balance.primary) + h[s \ {x}]]
  <2>1. ASSUME NEW s \in SUBSET S, s # {}
        PROVE  First(s) \in S /\ g[First(s)] = Major(First(s).balance.primary)
    BY <2>1, FirstIs
  <2>2. QED
    BY <2>1 DEF First
<1>3. Recurs(f)
  BY <1>1, <1>2 DEF IsSum
<1>4. Recurs(it)
  <2> HIDE DEF Recurs
  <2>1. QED
    BY <1>3
<1>5. Total(S) = it[S]
  BY DEF Total, MapThenSumSet, MapThenFoldSet
<1> HIDE DEF it
<1>6. IsSum(it, S, g)
  BY <1>2, <1>4 DEF IsSum
<1>7. QED
  BY <1>5, <1>6

LEMMA OwedIs ==
    ASSUME NEW S, IsFiniteSet(S), NEW g \in [S -> Int],
           \A x \in S : g[x] = Abs(Major(x.balance.primary))
    PROVE  \E f : IsSum(f, S, g) /\ Owed(S) = f[S]
<1> DEFINE Recurs(iter) == iter = [s \in SUBSET S |->
                    IF s = {} THEN 0
                    ELSE LET x == CHOOSE x \in s : TRUE
                         IN  Abs(Major(x.balance.primary)) + iter[s \ {x}]]
           it == CHOOSE iter : Recurs(iter)
<1>1. PICK f : IsSum(f, S, g)
  BY SumExists
<1>2. ASSUME NEW h
      PROVE  [s \in SUBSET S |-> IF s = {} THEN 0 ELSE g[First(s)] + h[s \ {First(s)}]]
              = [s \in SUBSET S |->
                    IF s = {} THEN 0
                    ELSE LET x == CHOOSE x \in s : TRUE
                         IN  Abs(Major(x.balance.primary)) + h[s \ {x}]]
  <2>1. ASSUME NEW s \in SUBSET S, s # {}
        PROVE  First(s) \in S /\ g[First(s)] = Abs(Major(First(s).balance.primary))
    BY <2>1, FirstIs
  <2>2. QED
    BY <2>1 DEF First
<1>3. Recurs(f)
  BY <1>1, <1>2 DEF IsSum
<1>4. Recurs(it)
  <2> HIDE DEF Recurs
  <2>1. QED
    BY <1>3
<1>5. Owed(S) = it[S]
  BY DEF Owed, MapThenSumSet, MapThenFoldSet
<1> HIDE DEF it
<1>6. IsSum(it, S, g)
  BY <1>2, <1>4 DEF IsSum
<1>7. QED
  BY <1>5, <1>6

-----------------------------------------------------------------------------
(* The dashboard.                                                          *)

(* Every account keeps its currency.                                       *)
SteadyCurrency ==
    \A a \in Accounts : \A v, w \in Versions(a) : CurrencyOf(a, v) = CurrencyOf(a, w)

HaveRates(q) == ~q.failed /\ \A p \in Sought(q) : DaysOf(q.askedRates, p) # {}

(* With a rate of every currency, of whatever day, all are converted.      *)
LEMMA AllConvert ==
    ASSUME BalanceInv, Answered, HaveRates(query), NEW x \in query.accounts,
           NEW m, m.currency = CurrencyOf(x[1], x[2]), NEW d \in Nat
    PROVE  Resolve(WithConversion(query, m, d)).currency = query.target
<1>1. PICK b : b = WithConversion(query, m, d)
  OBVIOUS
<1>2. /\ b.balance = m
      /\ b.converted = {Convert(m, query.target, r) : r \in RateFor(query, m.currency, d)}
  BY <1>1 DEF WithConversion
<1>3. PICK c : c = m.currency
  OBVIOUS
<1>4. ASSUME NEW p \in Sought(query)
      PROVE  DaysOf(query.rates, p) # {}
  <2>1. PICK y \in DaysOf(query.askedRates, p) : TRUE
    BY <1>4 DEF HaveRates
  <2>2. y \in Nat
    BY AskedAreStored
  <2>3. /\ query.start <= y /\ y <= query.end => y \in DaysOf(query.rates, p)
        /\ y < query.start => \E v \in DaysOf(query.rates, p) : y <= v /\ v < query.start
        /\ y > query.end => \E v \in DaysOf(query.rates, p) : query.end < v /\ v <= y
        /\ query.start \in Nat /\ query.end \in Nat
    BY DEF BalanceInv, QueryOK, RatesRead, RequestRecord, Answered, HaveRates
  <2>4. QED
    BY <2>2, <2>3
<1>5. CASE c = query.target
  <2>1. <<c, query.target>> \notin Needed(query)
    BY <1>5 DEF Needed
  <2>2. RateFor(query, c, d) = {}
    BY <2>1 DEF RateFor
  <2>3. b.converted = {}
    BY <1>2, <1>3, <2>2
  <2>4. QED
    BY <1>1, <1>2, <1>3, <1>5, <2>3 DEF Resolve, Or
<1>6. CASE c # query.target
  <2>1. <<c, query.target>> \in Needed(query)
    BY <1>3, <1>6 DEF Needed
  <2>2. PICK p, D : p = Canonical(c, query.target) /\ D = DaysOf(query.rates, p)
    OBVIOUS
  <2>3. p \in Sought(query)
    BY <2>1, <2>2 DEF Sought
  <2>4. D # {} /\ D \subseteq Nat
    BY <1>4, <2>2, <2>3, RatesAre
  <2>5. PICK u \in D : u \in Closest(D, d)
    BY <2>4, ClosestIs
  <2>6. u \in RateDay(query, c, d) /\ Converts(query)
    BY <1>4, <2>2, <2>5 DEF RateDay, Converts, HaveRates
  <2>7. RateFor(query, c, d) # {}
    BY <2>1, <2>6 DEF RateFor
  <2>8. b.converted # {}
    BY <1>2, <1>3, <2>7
  <2>9. Resolve(b) \in b.converted
    BY <2>8 DEF Resolve, Or
  <2>10. \A k \in b.converted : k.currency = query.target
    BY <1>2 DEF Convert
  <2>11. QED
    BY <1>1, <2>9, <2>10
<1>7. QED
  BY <1>5, <1>6

(* What is shown of a number of parts                                      *)
LEMMA MoneyOfNear ==
    ASSUME NEW n \in Int, NEW c \in Currency
    PROVE  /\ Major(MoneyOf(n, c)) \in Int
           /\ 2 * Abs(Major(MoneyOf(n, c)) - n) <= Scale \div PerMajor[c]
<1>1. PICK p, u, m : p = PerMajor[c] /\ u = Scale \div p /\ m = MoneyOf(n, c)
  OBVIOUS
<1>2. p \in Nat \ {0} /\ Scale \in Nat \ {0} /\ p * u = Scale
  BY <1>1, MoneyAssumption, ScaleAssumption
<1>3. u \in Nat
  BY <1>1, <1>2, Divided
<1>4. /\ m.amount = Round(Abs(n) * p, Scale) /\ m.currency = c
      /\ m.sign = IF n < 0 THEN "negative" ELSE "positive"
  BY <1>1 DEF MoneyOf
<1>5. /\ n * p \in Int /\ Abs(n) * p = Abs(n * p)
      /\ (n * p > 0 => n > 0) /\ (n * p < 0 => n < 0)
  <2>1. CASE n >= 0
    <3>1. n * p >= 0 /\ n * p \in Int
      BY <1>2, <2>1
    <3>2. n * p > 0 => n > 0
      BY <1>2, <2>1
    <3>3. QED
      BY <2>1, <3>1, <3>2 DEF Abs
  <2>2. CASE n < 0
    <3>1. n * p < 0 /\ n * p \in Int /\ (-n) * p = -(n * p)
      BY <1>2, <2>2
    <3>2. QED
      BY <2>2, <3>1 DEF Abs
  <2>3. QED
    BY <2>1, <2>2
<1>6. /\ n * p > 0 => m.sign = "positive"
      /\ n * p < 0 => m.sign # "positive"
  BY <1>4, <1>5
<1>7. PICK k : k = Signed(m)
  OBVIOUS
<1>8. k \in Int /\ 2 * Abs(k * Scale - n * p) <= Scale
  BY <1>2, <1>4, <1>5, <1>6, <1>7, SignedNear
<1>9. PICK y : y = k * u - n
  OBVIOUS
<1>10. y \in Int /\ k * Scale - n * p = p * y
  BY <1>2, <1>3, <1>8, <1>9
<1>11. 2 * Abs(y) <= u
  <2>1. Abs(p * y) = p * Abs(y)
    <3>1. CASE y >= 0
      <4>1. p * y >= 0
        BY <1>2, <1>10, <3>1
      <4>2. Abs(y) = y
        BY <1>10, <3>1 DEF Abs
      <4>3. Abs(p * y) = p * y
        BY <1>2, <1>10, <4>1 DEF Abs
      <4>4. QED
        BY <4>2, <4>3
    <3>2. CASE y < 0
      <4>1. p * y < 0 /\ p * (-y) = -(p * y) /\ p * y \in Int
        BY <1>2, <1>10, <3>2
      <4>2. QED
        BY <3>2, <4>1 DEF Abs
    <3>3. QED
      BY <1>10, <3>1, <3>2
  <2>2. PICK z : z = Abs(y)
    OBVIOUS
  <2>3. z \in Nat
    BY <1>10, <2>2 DEF Abs
  <2>4. 2 * (p * z) <= p * u
    BY <1>2, <1>8, <1>10, <2>1, <2>2
  <2>5. p * (2 * z) <= p * u
    BY <1>2, <2>3, <2>4
  <2>6. 2 * z <= u
    <3>1. SUFFICES ASSUME 2 * z >= u + 1
                   PROVE  FALSE
      BY <1>3, <2>3
    <3>2. p * (2 * z) >= p * (u + 1)
      BY <1>2, <1>3, <2>3, <3>1
    <3>3. p * (u + 1) = p * u + p /\ p * u \in Int
      BY <1>2, <1>3
    <3>4. p * (2 * z) \in Int
      BY <1>2, <2>3
    <3>5. QED
      BY <1>2, <2>5, <3>2, <3>3, <3>4
  <2>7. QED
    BY <2>2, <2>6
<1>12. Major(m) = k * u
  BY <1>1, <1>4, <1>7 DEF Major
<1>13. k * u \in Int
  BY <1>3, <1>8
<1>14. QED
  BY <1>1, <1>9, <1>11, <1>12, <1>13

Kind(q, liability) == {y \in q.accounts : IsLiability(TypeOf[y[1]]) = liability}

LEMMA KindsSplit ==
    ASSUME NEW q
    PROVE  Kind(q, TRUE) = q.accounts \ Kind(q, FALSE)
<1>1. ASSUME NEW y \in q.accounts
      PROVE  (IsLiability(TypeOf[y[1]]) = TRUE) <=> ~(IsLiability(TypeOf[y[1]]) = FALSE)
  <2>1. CASE IsLiability(TypeOf[y[1]])
    BY <2>1 DEF IsLiability
  <2>2. CASE ~IsLiability(TypeOf[y[1]])
    BY <2>2 DEF IsLiability
  <2>3. QED
    BY <2>1, <2>2
<1>2. QED
  BY <1>1 DEF Kind

(* A section has one card of each account of its kind.                     *)
LEMMA CardsAre ==
    ASSUME BalanceInv, NEW liability \in BOOLEAN
    PROVE  LET P == Kind(query, liability)
               R == Section(query, liability)
           IN  \E c \in [P -> R] :
                  /\ \A r \in R : \E y \in P : c[y] = r
                  /\ \A x, y \in P : c[x] = c[y] => x = y
                  /\ \A y \in P : Major(c[y].balance.primary) = AmountOn(query, y, query.end)
                  /\ IsFiniteSet(R)
                  /\ \A r \in R : Major(r.balance.primary) \in Int
<1> DEFINE P == Kind(query, liability)
           R == Section(query, liability)
<1>1. PICK c : c = [y \in P |-> Card(Summary(query, y), liability)]
  OBVIOUS
<1>2. query.end \in Nat
  BY DEF BalanceInv, QueryOK, RequestRecord
<1>3. ASSUME NEW y \in P
      PROVE  /\ c[y] \in R /\ c[y].id = y[1] /\ y \in query.accounts
             /\ Major(c[y].balance.primary) = AmountOn(query, y, query.end)
  <2>1. PICK s : s = Summary(query, y)
    OBVIOUS
  <2>2. /\ s.id = y[1] /\ s.type = TypeOf[y[1]]
        /\ s.effective = EffectiveOn(query, y, query.end)
    BY <2>1 DEF Summary
  <2>3. PICK r : r = Card(s, liability)
    OBVIOUS
  <2>4. c[y] = r
    BY <1>1, <2>1, <2>3
  <2>5. r.id = y[1] /\ r.balance = ResolveBalance(s.effective)
    BY <2>2, <2>3 DEF Card
  <2>6. y \in query.accounts /\ IsLiability(s.type) = liability
    BY <2>2 DEF Kind
  <2>7. r \in R
    BY <2>1, <2>3, <2>6 DEF Section
  <2>8. r.balance.primary = Resolve(EffectiveOn(query, y, query.end))
    BY <2>2, <2>5 DEF ResolveBalance
  <2>9. QED
    BY <2>4, <2>5, <2>6, <2>7, <2>8 DEF AmountOn
<1>4. ASSUME NEW r \in R
      PROVE  \E y \in P : c[y] = r
  <2>1. PICK y \in query.accounts :
           /\ r = Card(Summary(query, y), liability)
           /\ IsLiability(Summary(query, y).type) = liability
    BY DEF Section
  <2>2. Summary(query, y).type = TypeOf[y[1]]
    BY DEF Summary
  <2>3. y \in P
    BY <2>1, <2>2 DEF Kind
  <2>4. QED
    BY <1>1, <2>1, <2>3
<1>5. c \in [P -> R]
  BY <1>1, <1>3
<1>6. ASSUME NEW x \in P, NEW y \in P, c[x] = c[y]
      PROVE  x = y
  <2>1. x[1] = y[1] /\ x \in query.accounts /\ y \in query.accounts
    BY <1>3, <1>6
  <2>2. QED
    BY <2>1 DEF BalanceInv, QueryOK, AccountsRead
<1>7. IsFiniteSet(P)
  <2>1. P \in SUBSET query.accounts
    BY DEF Kind
  <2>2. IsFiniteSet(query.accounts)
    BY AccountsFinite
  <2>3. QED
    BY <2>1, <2>2, FS_Subset
<1> HIDE DEF P, R
<1>8. c \in Surjection(P, R)
  BY <1>4, <1>5 DEF Surjection
<1>9. IsFiniteSet(R)
  BY <1>7, <1>8, FS_Surjection
<1>10. ASSUME NEW r \in R
       PROVE  Major(r.balance.primary) \in Int
  <2>1. PICK y \in P : c[y] = r
    BY <1>4
  <2>2. y \in query.accounts /\ Major(r.balance.primary) = AmountOn(query, y, query.end)
    BY <1>3, <2>1
  <2>3. QED
    BY <1>2, <2>2, AmountIs
<1>11. QED
  BY <1>3, <1>4, <1>5, <1>6, <1>9, <1>10 DEF P, R

LEMMA WorthIs ==
    ASSUME BalanceInv
    PROVE  NetWorth(query, query.end) =
              Total(Section(query, FALSE)) - Owed(Section(query, TRUE))
<1>1. query.end \in Nat
  BY DEF BalanceInv, QueryOK, RequestRecord
<1>2. PICK S, T, A, L : /\ S = query.accounts /\ T = Kind(query, FALSE)
                        /\ A = Section(query, FALSE) /\ L = Section(query, TRUE)
  OBVIOUS
<1>3. T \in SUBSET S /\ S \ T = Kind(query, TRUE) /\ IsFiniteSet(S)
  BY <1>2, KindsSplit, AccountsFinite DEF Kind
<1>4. PICK g : g = [x \in S |-> Contribution(query, x, query.end)]
  OBVIOUS
<1>5. g \in [S -> Int] /\ \A x \in S : g[x] = Contribution(query, x, query.end)
  BY <1>1, <1>2, <1>4, AmountIs
<1>6. PICK f : IsSum(f, S, g) /\ NetWorth(query, query.end) = f[S]
  BY <1>1, <1>2, <1>4, NetWorthIsSum
<1>7. f[S] = f[T] + f[S \ T]
  BY <1>3, <1>5, <1>6, SumSplits
<1>8. f[T] = Total(A) /\ Total(A) \in Int
  <2>1. PICK c \in [T -> A] :
           /\ \A r \in A : \E y \in T : c[y] = r
           /\ \A x, y \in T : c[x] = c[y] => x = y
           /\ \A y \in T : Major(c[y].balance.primary) = AmountOn(query, y, query.end)
           /\ IsFiniteSet(A)
           /\ \A r \in A : Major(r.balance.primary) \in Int
    BY <1>2, CardsAre
  <2>2. PICK h : h = [r \in A |-> Major(r.balance.primary)]
    OBVIOUS
  <2>3. h \in [A -> Int] /\ \A r \in A : h[r] = Major(r.balance.primary)
    BY <2>1, <2>2
  <2>4. PICK e : IsSum(e, A, h) /\ Total(A) = e[A]
    BY <2>1, <2>3, TotalIs
  <2>5. ASSUME NEW y \in T
        PROVE  g[y] = 1 * h[c[y]]
    <3>1. ~IsLiability(TypeOf[y[1]]) /\ y \in S
      BY <1>2, <1>3 DEF Kind
    <3>2. g[y] = AmountOn(query, y, query.end)
      BY <1>5, <3>1 DEF Contribution
    <3>3. h[c[y]] = AmountOn(query, y, query.end) /\ h[c[y]] \in Int
      BY <2>1, <2>3
    <3>4. QED
      BY <3>2, <3>3
  <2>6. f[T] = 1 * e[A]
    <3>1. PICK k \in Int : k = 1
      OBVIOUS
    <3>2. \A y \in T : g[y] = k * h[c[y]]
      BY <2>5, <3>1
    <3>3. SentOnto(S, g, f, T, c, k, A, h, e)
      BY <1>3, <1>5, <1>6, <2>1, <2>3, <2>4, <3>2 DEF SentOnto
    <3>4. QED
      BY <3>1, <3>3, SumOfImage
  <2>7. e[A] \in Int
    BY <2>1, <2>3, <2>4, SumSteps
  <2>8. QED
    BY <2>4, <2>6, <2>7
<1>9. f[S \ T] = -Owed(L) /\ Owed(L) \in Int
  <2>1. PICK D : D = S \ T
    OBVIOUS
  <2>2. PICK c \in [D -> L] :
           /\ \A r \in L : \E y \in D : c[y] = r
           /\ \A x, y \in D : c[x] = c[y] => x = y
           /\ \A y \in D : Major(c[y].balance.primary) = AmountOn(query, y, query.end)
           /\ IsFiniteSet(L)
           /\ \A r \in L : Major(r.balance.primary) \in Int
    <3>1. D = Kind(query, TRUE) /\ L = Section(query, TRUE)
      BY <1>2, <1>3, <2>1
    <3>2. QED
      BY <3>1, CardsAre
  <2>3. PICK h : h = [r \in L |-> Abs(Major(r.balance.primary))]
    OBVIOUS
  <2>4. h \in [L -> Int] /\ \A r \in L : h[r] = Abs(Major(r.balance.primary))
    BY <2>2, <2>3 DEF Abs
  <2>5. PICK e : IsSum(e, L, h) /\ Owed(L) = e[L]
    BY <2>2, <2>4, OwedIs
  <2>6. ASSUME NEW y \in D
        PROVE  g[y] = (-1) * h[c[y]]
    <3>1. IsLiability(TypeOf[y[1]]) /\ y \in S
      BY <1>3, <2>1 DEF Kind
    <3>2. g[y] = -Abs(AmountOn(query, y, query.end))
      BY <1>5, <3>1 DEF Contribution
    <3>3. h[c[y]] = Abs(AmountOn(query, y, query.end)) /\ h[c[y]] \in Int
      BY <2>2, <2>4
    <3>4. QED
      BY <3>2, <3>3
  <2>7. D \in SUBSET S
    BY <2>1
  <2>8. f[D] = (-1) * e[L]
    <3>1. PICK k \in Int : k = -1
      OBVIOUS
    <3>2. \A y \in D : g[y] = k * h[c[y]]
      BY <2>6, <3>1
    <3>3. SentOnto(S, g, f, D, c, k, L, h, e)
      BY <1>3, <1>5, <1>6, <2>2, <2>4, <2>5, <2>7, <3>2 DEF SentOnto
    <3>4. QED
      BY <3>1, <3>3, SumOfImage
  <2>9. e[L] \in Int
    BY <2>2, <2>4, <2>5, SumSteps
  <2>10. QED
    BY <2>1, <2>5, <2>8, <2>9
<1>10. QED
  BY <1>2, <1>6, <1>7, <1>8, <1>9

(* Of accounts that keep their currency, all of whose currencies have a    *)
(* rate at all: every balance is shown in the user's currency, and the net *)
(* worth is what the assets' cards come to less the liabilities', is the   *)
(* last point of the chart, and is stated to the smallest unit.            *)
THEOREM PageAddsUp == SteadyCurrency /\ Spec => []DashboardAddsUp
<1> SUFFICES ASSUME SteadyCurrency PROVE Spec => []DashboardAddsUp
  OBVIOUS
<1>1. BalanceInv => DashboardAddsUp
  <2> SUFFICES ASSUME BalanceInv, Answered, HaveRates(query)
               PROVE  /\ \A x \in query.accounts, d \in DaysAsked(query) :
                            LET result == Result(query, x, d) IN
                            \A b \in {result.available, result.current, result.effective} :
                                b.balance.currency = CurrencyOf(x[1], x[2]) =>
                                    Resolve(b).currency = query.target
                      /\ \A home \in {Home(query, x) : x \in query.accounts} :
                            LET worth == Total(home.assets) - Owed(home.liabilities)
                            IN  /\ home.netWorth.shown.currency = query.target
                                /\ home.netWorth.chart[query.end] = worth
                                /\ Abs(Major(home.netWorth.shown) - worth) * 2
                                     <= Scale \div PerMajor[query.target]
    BY DEF DashboardAddsUp, HaveRates
  <2>1. /\ query.start \in Nat /\ query.end \in Nat /\ query.start <= query.end
        /\ query.target \in Currency
    BY DEF BalanceInv, QueryOK, RequestRecord
  <2>2. ASSUME NEW x \in query.accounts, NEW d \in DaysAsked(query),
               NEW b \in {Result(query, x, d).available, Result(query, x, d).current,
                          Result(query, x, d).effective},
               b.balance.currency = CurrencyOf(x[1], x[2])
        PROVE  Resolve(b).currency = query.target
    <3>1. d \in Nat
      BY <2>1 DEF DaysAsked
    <3>2. PICK m : b = WithConversion(query, m, d)
      BY DEF Result, EffectiveOn
    <3>3. b.balance = m
      BY <3>2 DEF WithConversion
    <3>4. QED
      BY <2>2, <3>1, <3>2, <3>3, AllConvert
  <2>3. ASSUME NEW home \in {Home(query, x) : x \in query.accounts}
        PROVE  LET worth == Total(home.assets) - Owed(home.liabilities)
               IN  /\ home.netWorth.shown.currency = query.target
                   /\ home.netWorth.chart[query.end] = worth
                   /\ Abs(Major(home.netWorth.shown) - worth) * 2
                        <= Scale \div PerMajor[query.target]
    <3>1. PICK x \in query.accounts : home = Home(query, x)
      OBVIOUS
    <3>2. PICK n : n = NetWorth(query, query.end)
      OBVIOUS
    <3>3. PICK e : e = EffectiveOn(query, x, query.end)
      OBVIOUS
    <3>4. PICK board : board = Dashboard(query, x)
      OBVIOUS
    <3>5. /\ board.netWorth = MoneyOf(n, Resolve(e).currency)
          /\ board.chart = [d \in DaysAsked(query) |-> NetWorth(query, d)]
      BY <3>2, <3>3, <3>4 DEF Dashboard
    <3>6. PICK card : card = NetWorthCard(query, x)
      OBVIOUS
    <3>7. card.shown = board.netWorth /\ card.chart = board.chart
      BY <3>4, <3>6 DEF NetWorthCard
    <3>8. /\ home.netWorth = card /\ home.assets = Section(query, FALSE)
          /\ home.liabilities = Section(query, TRUE)
      BY <3>6, <3>1 DEF Home
    <3>9. PICK m : m = Effective(TypeOf[x[1]], Recorded(query, x, query.end).available,
                                 Recorded(query, x, query.end).current)
      OBVIOUS
    <3>10. e = WithConversion(query, m, query.end)
      BY <3>3, <3>9 DEF EffectiveOn
    <3>11. m.currency = CurrencyOf(x[1], x[2])
      <4>1. PICK r : r = Recorded(query, x, query.end)
        OBVIOUS
      <4>2. PICK v \in Versions(x[1]) : /\ r.available.currency = CurrencyOf(x[1], v)
                                        /\ r.current.currency = CurrencyOf(x[1], v)
        BY <2>1, <4>1, RecordedIs
      <4>3. x[1] \in Accounts /\ x[2] \in Versions(x[1])
        BY AccountIs
      <4>4. CurrencyOf(x[1], v) = CurrencyOf(x[1], x[2])
        BY <4>3 DEF SteadyCurrency
      <4>5. CASE Invests(x[1])
        <5>1. m.currency = r.available.currency
          BY <3>9, <4>1, <4>5 DEF Effective, Invests
        <5>2. QED
          BY <4>2, <4>4, <5>1
      <4>6. CASE ~Invests(x[1])
        <5>1. m = r.current
          BY <3>9, <4>1, <4>6 DEF Effective, Invests
        <5>2. QED
          BY <4>2, <4>4, <5>1
      <4>7. QED
        BY <4>5, <4>6
    <3>12. Resolve(e).currency = query.target
      BY <2>1, <3>10, <3>11, AllConvert
    <3>13. home.netWorth.shown = MoneyOf(n, query.target)
      BY <3>5, <3>7, <3>8, <3>12
    <3>14. home.netWorth.shown.currency = query.target
      BY <3>13 DEF MoneyOf
    <3>15. query.end \in DaysAsked(query)
      BY <2>1 DEF DaysAsked
    <3>16. home.netWorth.chart[query.end] = n
      BY <3>2, <3>5, <3>7, <3>8, <3>15
    <3>17. Total(home.assets) - Owed(home.liabilities) = n
      BY <3>2, <3>8, WorthIs
    <3>18. n \in Int
      BY <2>1, <3>2, NetWorthIsSum
    <3>19. /\ Major(home.netWorth.shown) \in Int
           /\ 2 * Abs(Major(home.netWorth.shown) - n) <= Scale \div PerMajor[query.target]
      BY <2>1, <3>13, <3>18, MoneyOfNear
    <3>20. PICK z : z = Abs(Major(home.netWorth.shown) - n)
      OBVIOUS
    <3>21. z * 2 = 2 * z
      BY <3>18, <3>19, <3>20 DEF Abs
    <3>22. QED
      BY <3>14, <3>16, <3>17, <3>19, <3>20, <3>21
  <2>4. QED
    BY <2>2, <2>3
<1>2. QED
  BY <1>1, Invariant, PTL
=============================================================================
