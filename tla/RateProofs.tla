------------------------------ MODULE RateProofs ------------------------------
(***************************************************************************)
(* What holds of the exchange rates for any users, currencies, days and    *)
(* tasks: rates are stored forward, no snapshot is forgotten, the crypto   *)
(* sync covers what it found, and the rate that a query finds for a day is *)
(* the closest of all that are stored.                                     *)
(***************************************************************************)
EXTENDS RateSync, RateRange, WellFoundedInduction, TLAPS

-----------------------------------------------------------------------------
(* Days.                                                                   *)

LEMMA NatMin ==
    ASSUME NEW T, T \subseteq Nat, T # {}
    PROVE  \E x \in T : \A y \in T : x <= y
<1>1. IsWellFoundedOn(OpToRel(<, Nat), Nat)
  BY NatLessThanWellFounded
<1>2. \E x \in T : \A y \in T : ~ (<<y, x>> \in OpToRel(<, Nat))
  BY <1>1, WFMin
<1>3. PICK x \in T : \A y \in T : ~ (<<y, x>> \in OpToRel(<, Nat))
  BY <1>2
<1>4. \A y \in T : ~(y < x)
  BY <1>3 DEF OpToRel
<1>5. \A y \in T : x <= y
  <2> SUFFICES ASSUME NEW y \in T PROVE x <= y
    OBVIOUS
  <2>1. x \in Nat /\ y \in Nat
    OBVIOUS
  <2>2. ~(y < x)
    BY <1>4
  <2>3. QED
    BY <2>1, <2>2
<1>6. QED
  BY <1>5

LEMMA NatMax ==
    ASSUME NEW T, T \subseteq Nat, T # {}, NEW b \in Nat, \A x \in T : x <= b
    PROVE  \E x \in T : \A y \in T : y <= x
<1> DEFINE U == {b - x : x \in T}
<1>1. ASSUME NEW x \in T
      PROVE  b - x \in Nat
  <2>1. x \in Nat /\ x <= b
    OBVIOUS
  <2>2. QED
    BY <2>1
<1>1a. U \subseteq Nat /\ U # {}
  BY <1>1
<1>2. PICK v \in U : \A w \in U : v <= w
  BY <1>1a, NatMin
<1>3. PICK x \in T : v = b - x
  OBVIOUS
<1>4. ASSUME NEW y \in T
      PROVE  y <= x
  <2>1. b - y \in U
    OBVIOUS
  <2>2. b - x <= b - y
    BY <1>2, <1>3, <2>1
  <2>3. x \in Nat /\ y \in Nat
    OBVIOUS
  <2>4. QED
    BY <2>2, <2>3
<1>5. QED
  BY <1>4

(* The rate of a day, taken from the rows the three queries read, is the   *)
(* closest one of all rows: getRatesForDateRange with findClosestRate, at  *)
(* both edges of the range and for any gaps.                               *)
THEOREM QueriesSuffice ==
    ASSUME NEW D, D \subseteq Nat, NEW start \in Nat, NEW end \in Nat, NEW d \in start..end
    PROVE  Closest(Known(D, start, end), d) = Closest(D, d)
<1> DEFINE K == Known(D, start, end)
<1>1. K \subseteq D /\ d \in Nat /\ start <= d /\ d <= end
  BY DEF Known, PriorRate, InRange, FutureRate
<1>2. ASSUME NEW x \in D, x <= d, \A y \in D : y <= d => y <= x
      PROVE  x \in K
  <2>1. x \in Nat
    OBVIOUS
  <2>2. CASE start <= x
    <3>1. x <= end
      BY <1>1, <1>2, <2>1
    <3>2. QED
      BY <2>2, <3>1 DEF Known, InRange
  <2>3. CASE x < start
    <3>1. \A y \in D : y < start => y <= x
      BY <1>1, <1>2
    <3>2. QED
      BY <2>3, <3>1 DEF Known, PriorRate
  <2>4. QED
    BY <2>1, <2>2, <2>3
<1>3. ASSUME NEW x \in D, \A y \in D : x <= y, ~(x <= d)
      PROVE  x \in K
  <2>1. x \in Nat /\ x > d
    BY <1>1, <1>3
  <2>2. CASE x <= end
    BY <1>1, <2>1, <2>2 DEF Known, InRange
  <2>3. CASE x > end
    BY <1>3, <2>3 DEF Known, FutureRate
  <2>4. QED
    BY <2>1, <2>2, <2>3
<1>4. CASE \E x \in D : x <= d
  <2> DEFINE T == {x \in D : x <= d}
  <2>1. T \subseteq Nat /\ T # {} /\ \A x \in T : x <= d
    BY <1>4
  <2>2. PICK m \in T : \A y \in T : y <= m
    BY <1>1, <2>1, NatMax
  <2>3. m \in D /\ m <= d /\ \A y \in D : y <= d => y <= m
    BY <2>2
  <2>4. m \in K
    BY <1>2, <2>3
  <2>5. ASSUME NEW x
        PROVE  (x \in K /\ x <= d /\ \A y \in K : y <= d => y <= x)
                 <=> (x \in D /\ x <= d /\ \A y \in D : y <= d => y <= x)
    <3>1. ASSUME x \in K, x <= d, \A y \in K : y <= d => y <= x
          PROVE  \A y \in D : y <= d => y <= x
      <4>1. m <= x
        BY <2>3, <2>4, <3>1
      <4>2. x \in Nat /\ m \in Nat
        BY <1>1, <2>3, <3>1
      <4>3. QED
        BY <2>3, <4>1, <4>2
    <3>2. QED
      BY <1>1, <1>2, <3>1
  <2>6. Closest(D, d) = {x \in D : x <= d /\ \A y \in D : y <= d => y <= x}
    BY <1>4 DEF Closest
  <2>7. Closest(K, d) = {x \in K : x <= d /\ \A y \in K : y <= d => y <= x}
    BY <2>3, <2>4 DEF Closest
  <2> HIDE DEF K
  <2>8. ASSUME NEW x
        PROVE  x \in Closest(K, d) <=> x \in Closest(D, d)
    BY <2>5, <2>6, <2>7
  <2>9. Closest(K, d) = Closest(D, d)
    BY <2>8, <2>6, <2>7
  <2>10. QED
    BY <2>9 DEF K
<1>5. CASE ~(\E x \in D : x <= d)
  <2>1. Closest(D, d) = {x \in D : \A y \in D : x <= y}
    BY <1>5 DEF Closest
  <2>2. Closest(K, d) = {x \in K : \A y \in K : x <= y}
    BY <1>1, <1>5 DEF Closest
  <2>3. CASE D = {}
    BY <1>1, <2>1, <2>2, <2>3
  <2>4. CASE D # {}
    <3>1. PICK m \in D : \A y \in D : m <= y
      BY <2>4, NatMin
    <3>2. m \in K
      BY <1>3, <1>5, <3>1
    <3>3. ASSUME NEW x
          PROVE  (x \in K /\ \A y \in K : x <= y) <=> (x \in D /\ \A y \in D : x <= y)
      <4>1. ASSUME x \in K, \A y \in K : x <= y
            PROVE  \A y \in D : x <= y
        <5>1. x <= m /\ x \in Nat /\ m \in Nat
          BY <1>1, <3>2, <4>1
        <5>2. QED
          BY <3>1, <5>1
      <4>2. QED
        BY <1>1, <1>3, <1>5, <4>1
    <3> HIDE DEF K
    <3>4. ASSUME NEW x
          PROVE  x \in Closest(K, d) <=> x \in Closest(D, d)
      BY <2>1, <2>2, <3>3
    <3>5. Closest(K, d) = Closest(D, d)
      BY <2>1, <2>2, <3>4
    <3>6. QED
      BY <3>5 DEF K
  <2>5. QED
    BY <2>3, <2>4
<1>6. QED
  BY <1>4, <1>5

-----------------------------------------------------------------------------
(* Pairs.                                                                  *)

LEMMA CanonicalStays ==
    ASSUME NEW b \in Currency, NEW c \in Currency
    PROVE  /\ Canonical(b, c) \in Price
           /\ Canonical(b, c)[1] \in Currency /\ Canonical(b, c)[2] \in Currency
           /\ Canonical(Canonical(b, c)[1], Canonical(b, c)[2]) = Canonical(b, c)
<1>1. CASE ~Inverted(b, c)
  BY <1>1 DEF Canonical, Price
<1>2. CASE Inverted(b, c)
  <2>1. Canonical(b, c) = <<c, b>>
    BY <1>2 DEF Canonical
  <2>2. ~Inverted(c, b) \/ b = c
    <3>1. CASE b = USD \/ c = USD
      BY <1>2, <3>1 DEF Inverted
    <3>2. CASE ~(b = USD \/ c = USD)
      <4>1. Rank[c] < Rank[b] /\ Rank[c] \in Nat /\ Rank[b] \in Nat
        BY <1>2, <3>2, CurrencyAssumption DEF Inverted
      <4>2. ~(Rank[b] < Rank[c])
        BY <4>1
      <4>3. QED
        BY <3>2, <4>2 DEF Inverted
    <3>3. QED
      BY <3>1, <3>2
  <2>3. Canonical(c, b) = <<c, b>>
    BY <2>2 DEF Canonical
  <2>4. QED
    BY <2>1, <2>3 DEF Price
<1>3. QED
  BY <1>1, <1>2

-----------------------------------------------------------------------------
(* What a task is, and what it still owes.                                 *)

(* The job asks for the rate of this row key.                              *)
AsksFor(j, day, key) ==
    \E c \in j.targets :
        /\ key.pair = Canonical(j.base, c)
        /\ j.from <= key.day
        /\ key.day <= day

(* The task is going to ask for the rate, or to store it.                  *)
Owes(k, key) ==
    \/ \E j \in k.jobs \cup k.ready : AsksFor(j, k.day, key)
    \/ \E q \in k.got : key = QuoteKey(q)

(* The keys a backfill leaves out are those of rows.                       *)
KeysOK(k, stored) ==
    k.kind = "backfill" =>
        \A j \in k.ready : \A c \in j.targets : \A d \in j.from..k.day :
            <<c, d>> \in k.keys => [pair |-> Canonical(j.base, c), day |-> d] \in stored

(* A task between two requests                                             *)
Going(k, stored) ==
    /\ k \in Task
    /\ k.got = {}
    /\ k.kind = "crypto" => k.jobs = {}
    /\ k.kind = "ensure" => \E u \in Users : k.who = {u}
    /\ k.kind \in {"ensure", "backfill"} => \A i, j \in k.ready : i = j
    /\ KeysOK(k, stored)

(* A task at any of its awaits: ensuring and backfilling go through one    *)
(* request at a time.                                                      *)
Sound(k, stored) ==
    /\ k \in Task
    /\ HasWork(k)
    /\ k.pc \in {"idle", "user", "owned"} => k.jobs = {} /\ k.ready = {} /\ k.asked = {}
    /\ k.pc \notin {"find", "save"} => k.got = {}
    /\ k.pc = "save" => \A x, y \in k.item : x = y
    /\ k.kind = "crypto" => k.jobs = {}
    /\ k.kind = "ensure" /\ k.pc # "idle" => (k.pc # "owned" /\ \E u \in Users : k.who = {u})
    /\ k.kind \in {"ensure", "backfill"} =>
          /\ k.pc # "fetch" => k.ready = {}
          /\ \A i, j \in k.ready : i = j
    /\ KeysOK(k, stored)

(* The crypto sync has or owes what it found required.                     *)
AskedOK(k, have) ==
    k.kind = "crypto" =>
        \A p \in k.asked :
            LET key == [pair |-> p, day |-> k.day] IN key \in have \/ Owes(k, key)

LEMMA IdleSound ==
    ASSUME NEW stored, NEW have
    PROVE  /\ Sound(Idle, stored)
           /\ AskedOK(Idle, have)
           /\ \A key : ~Owes(Idle, key)
<1>1. Idle \in Task
  BY RateAssumption, CurrencyAssumption DEF Idle, Task, Kinds, Points, Days
<1>2. QED
  BY <1>1 DEF Sound, HasWork, KeysOK, AskedOK, Owes, Idle

(* Onward loses nothing.                                                   *)
LEMMA GoesOn ==
    ASSUME NEW k, NEW stored, Going(k, stored)
    PROVE  /\ Sound(Onward(k), stored)
           /\ \A key : Owes(k, key) <=> Owes(Onward(k), key)
           /\ Onward(k).kind = k.kind \/ Onward(k) = Idle
           /\ (Onward(k).asked = k.asked /\ Onward(k).day = k.day) \/ Onward(k) = Idle
<1>0. k \in Task /\ k.got = {}
  BY DEF Going
<1>1. CASE k.ready # {}
  <2>1. PICK q : q = [k EXCEPT !.pc = "fetch"] /\ Onward(k) = q
    BY <1>1 DEF Onward
  <2>2. q \in Task /\ q.pc = "fetch" /\ q.kind = k.kind /\ q.who = k.who /\ q.day = k.day
    BY <1>0, <2>1 DEF Task, Points
  <2>3. q.jobs = k.jobs /\ q.ready = k.ready /\ q.keys = k.keys /\ q.asked = k.asked /\ q.got = k.got
    BY <1>0, <2>1 DEF Task
  <2>4. Sound(q, stored)
    BY <1>1, <2>2, <2>3 DEF Going, Sound, HasWork, KeysOK
  <2>5. QED
    BY <2>1, <2>2, <2>3, <2>4 DEF Owes
<1>2. CASE k.ready = {} /\ k.jobs # {}
  <2>1. PICK q : q = [k EXCEPT !.pc = "keys"] /\ Onward(k) = q
    BY <1>2 DEF Onward
  <2>2. q \in Task /\ q.pc = "keys" /\ q.kind = k.kind /\ q.who = k.who /\ q.day = k.day
    BY <1>0, <2>1 DEF Task, Points
  <2>3. q.jobs = k.jobs /\ q.ready = k.ready /\ q.keys = k.keys /\ q.asked = k.asked /\ q.got = k.got
    BY <1>0, <2>1 DEF Task
  <2>4. Sound(q, stored)
    BY <1>2, <2>2, <2>3 DEF Going, Sound, HasWork, KeysOK
  <2>5. QED
    BY <2>1, <2>2, <2>3, <2>4 DEF Owes
<1>3. CASE k.ready = {} /\ k.jobs = {}
  <2>1. Onward(k) = Idle
    BY <1>3 DEF Onward
  <2>2. \A key : ~Owes(k, key)
    BY <1>0, <1>3 DEF Owes
  <2>3. QED
    BY <2>1, <2>2, IdleSound
<1>4. QED
  BY <1>1, <1>2, <1>3

LEMMA MoreStored ==
    ASSUME NEW k, NEW old, NEW new, old \subseteq new
    PROVE  /\ Sound(k, old) => Sound(k, new)
           /\ AskedOK(k, old) => AskedOK(k, new)
BY DEF Sound, KeysOK, AskedOK

-----------------------------------------------------------------------------
(* The inductive invariant of the tasks, and their steps.                  *)

Have == Stored \cup missed

TasksOK ==
    /\ task \in [Tasks -> Task]
    /\ \A t \in Tasks : Sound(task[t], Stored) /\ AskedOK(task[t], Have)

TableOK ==
    /\ rates \subseteq Row
    /\ \A r, s \in rates : KeyOf(r) = KeyOf(s) => r = s
    /\ missed \subseteq RowKey
    /\ RowsForward

RateInv ==
    /\ today \in Days
    /\ currency \in [Users -> Currency]
    /\ snapshots \subseteq Snapshot
    /\ \A s \in snapshots : s.day <= today
    /\ starts \in 0..MaxStarts
    /\ faults \in 0..MaxFaults
    /\ TableOK
    /\ TasksOK

(* The task goes to k.                                                     *)
GoesTo(t, k) ==
    /\ task' = [task EXCEPT ![t] = k]
    /\ Sound(k, Stored')
    /\ AskedOK(k, Have')

(* What it owed is stored or missed now, or still owed.                    *)
Keeps(k, k2) ==
    \A key \in RowKey :
        k.kind # "fiat" /\ Owes(k, key) =>
            key \in Have' \/ (k2.kind # "fiat" /\ Owes(k2, key))

LEMMA SameRows ==
    ASSUME UNCHANGED <<rates, missed>>
    PROVE  Stored' = Stored /\ Have' = Have
BY DEF Stored, Have

LEMMA BeginsWell ==
    ASSUME RateInv, NEW t \in Tasks, NEW kind \in Kinds, NEW who \in SUBSET Users,
           NEW cur \in Currency, NEW day \in Days,
           kind = "ensure" => \E u \in Users : who = {u},
           Begin(t, kind, who, cur, day), UNCHANGED <<rates, missed>>
    PROVE  /\ task[t].pc = "idle"
           /\ starts' \in 0..MaxStarts
           /\ \E k2 : /\ GoesTo(t, k2)
                      /\ k2 = [Idle EXCEPT !.kind = kind, !.pc = "user", !.who = who,
                                           !.cur = cur, !.day = day]
<1>1. PICK q : /\ q = [Idle EXCEPT !.kind = kind, !.pc = "user", !.who = who,
                                   !.cur = cur, !.day = day]
               /\ task' = [task EXCEPT ![t] = q]
  BY DEF Begin
<1>2. Idle \in Task
  BY IdleSound DEF Sound
<1>3. q \in Task /\ q.pc = "user" /\ q.kind = kind /\ q.who = who
  BY <1>1, <1>2 DEF Task, Points
<1>4. q.jobs = {} /\ q.ready = {} /\ q.asked = {} /\ q.got = {} /\ q.item = {}
  BY <1>1, <1>2 DEF Task, Idle
<1>5. Sound(q, Stored') /\ AskedOK(q, Have')
  BY <1>3, <1>4 DEF Sound, HasWork, KeysOK, AskedOK
<1>6. starts' \in 0..MaxStarts
  BY RateAssumption DEF Begin, RateInv
<1>7. QED
  BY <1>1, <1>5, <1>6 DEF Begin, GoesTo

LEMMA ReadTyped ==
    ASSUME RateInv, NEW k \in Task
    PROVE  Read(k) \in Task
<1>1. [u \in Users |-> IF u \in k.who THEN currency[u] ELSE k.pref[u]] \in [Users -> Currency]
  BY DEF RateInv, Task
<1>2. QED
  BY <1>1 DEF Read, Task

LEMMA ReadsUserWell ==
    ASSUME RateInv, NEW t \in Tasks, ReadUser(t)
    PROVE  \E k2 : /\ GoesTo(t, k2) /\ Keeps(task[t], k2)
                   /\ k2.pc = "owned" /\ k2.kind = task[t].kind /\ k2.who = task[t].who
                   /\ \A u \in k2.who : k2.pref[u] = currency[u]
<1> DEFINE k == task[t]
<1>1. k \in Task /\ k.pc = "user" /\ k.kind # "ensure" /\ Sound(k, Stored)
  BY DEF ReadUser, RateInv, TasksOK
<1>2. Read(k) \in Task
  BY <1>1, ReadTyped
<1>3. PICK q : q = [Read(k) EXCEPT !.pc = "owned"] /\ task' = [task EXCEPT ![t] = q]
  BY DEF ReadUser, Become
<1>4. q \in Task /\ q.pc = "owned"
  BY <1>2, <1>3 DEF Task, Points
<1>5. q.kind = k.kind /\ q.who = k.who /\ q.day = k.day /\ q.jobs = k.jobs /\ q.ready = k.ready
  BY <1>1, <1>2, <1>3 DEF Task, Read
<1>6. q.keys = k.keys /\ q.asked = k.asked /\ q.got = k.got /\ q.item = k.item
  BY <1>1, <1>2, <1>3 DEF Task, Read
<1>7. q.pref = [u \in Users |-> IF u \in k.who THEN currency[u] ELSE k.pref[u]]
  BY <1>1, <1>2, <1>3 DEF Task, Read
<1>8. k.who \subseteq Users
  BY <1>1 DEF Task
<1>9. \A u \in q.who : q.pref[u] = currency[u]
  BY <1>5, <1>7, <1>8
<1>10. Stored' = Stored /\ Have' = Have
  BY SameRows DEF ReadUser
<1> HIDE DEF k
<1>11. k.jobs = {} /\ k.ready = {} /\ k.asked = {} /\ k.got = {}
  BY <1>1 DEF Sound
<1>12. Sound(q, Stored') /\ AskedOK(q, Have')
  BY <1>1, <1>4, <1>5, <1>6, <1>10, <1>11 DEF Sound, HasWork, KeysOK, AskedOK
<1>13. Keeps(k, q)
  BY <1>11 DEF Keeps, Owes
<1>14. QED
  BY <1>3, <1>4, <1>5, <1>9, <1>12, <1>13 DEF GoesTo, k

LEMMA EnsuresWell ==
    ASSUME RateInv, NEW t \in Tasks, EnsureRate(t)
    PROVE  \E k2 : /\ GoesTo(t, k2) /\ Keeps(task[t], k2)
                   /\ k2.kind = "ensure"
                   /\ \A u \in task[t].who : currency[u] # task[t].cur =>
                         Owes(k2, [pair |-> Canonical(task[t].cur, currency[u]),
                                   day |-> task[t].day])
<1> DEFINE k == task[t]
<1>1. k \in Task /\ k.pc = "user" /\ k.kind = "ensure" /\ Sound(k, Stored)
  BY DEF EnsureRate, RateInv, TasksOK
<1>2. Read(k) \in Task
  BY <1>1, ReadTyped
<1>3. PICK u \in k.who :
         task' = [task EXCEPT ![t] = Onward([Read(k) EXCEPT !.jobs =
           IF currency[u] # k.cur
             THEN {[base |-> k.cur, targets |-> {currency[u]}, from |-> k.day]} ELSE {}])]
  BY DEF EnsureRate, Become
<1>4. PICK q : /\ q = [Read(k) EXCEPT !.jobs =
                    IF currency[u] # k.cur
                      THEN {[base |-> k.cur, targets |-> {currency[u]}, from |-> k.day]}
                      ELSE {}]
               /\ task' = [task EXCEPT ![t] = Onward(q)]
  BY <1>3
<1>5. u \in Users /\ currency[u] \in Currency /\ k.cur \in Currency /\ k.day \in Days
  BY <1>1 DEF Task, RateInv
<1>6. [base |-> k.cur, targets |-> {currency[u]}, from |-> k.day] \in Job
  BY <1>5 DEF Job
<1>7. q \in Task
  BY <1>2, <1>4, <1>6 DEF Task
<1>8. q.kind = k.kind /\ q.who = k.who /\ q.day = k.day /\ q.ready = k.ready
  BY <1>1, <1>2, <1>4 DEF Task, Read
<1>9. q.keys = k.keys /\ q.asked = k.asked /\ q.got = k.got
  BY <1>1, <1>2, <1>4 DEF Task, Read
<1>10. q.jobs = IF currency[u] # k.cur
                  THEN {[base |-> k.cur, targets |-> {currency[u]}, from |-> k.day]} ELSE {}
  BY <1>2, <1>4 DEF Task, Read
<1>11. Stored' = Stored /\ Have' = Have
  BY SameRows DEF EnsureRate
<1> HIDE DEF k
<1>12. k.jobs = {} /\ k.ready = {} /\ k.asked = {} /\ k.got = {} /\ k.who = {u}
  BY <1>1, <1>3 DEF Sound
<1>13. Going(q, Stored)
  BY <1>1, <1>5, <1>7, <1>8, <1>9, <1>12 DEF Going, KeysOK
<1>14. /\ Sound(Onward(q), Stored)
       /\ \A key : Owes(q, key) <=> Owes(Onward(q), key)
       /\ Onward(q).kind = q.kind \/ Onward(q) = Idle
  BY <1>13, GoesOn
<1>15. Onward(q).kind = "ensure"
  BY <1>1, <1>8, <1>14 DEF Idle
<1>16. AskedOK(Onward(q), Have')
  BY <1>15 DEF AskedOK
<1>17. ASSUME currency[u] # k.cur
       PROVE  Owes(q, [pair |-> Canonical(k.cur, currency[u]), day |-> k.day])
  <2> DEFINE j == [base |-> k.cur, targets |-> {currency[u]}, from |-> k.day]
  <2>1. j \in q.jobs \cup q.ready
    BY <1>10, <1>17
  <2>2. k.day <= k.day
    BY <1>5 DEF Days
  <2>3. AsksFor(j, q.day, [pair |-> Canonical(k.cur, currency[u]), day |-> k.day])
    BY <1>8, <2>2 DEF AsksFor
  <2>4. QED
    BY <2>1, <2>3 DEF Owes
<1>18. Keeps(k, Onward(q))
  BY <1>12 DEF Keeps, Owes
<1>19. QED
  BY <1>4, <1>11, <1>12, <1>14, <1>15, <1>16, <1>17, <1>18 DEF GoesTo, k

LEMMA EarliestIs ==
    ASSUME NEW T, T \subseteq Nat, T # {}
    PROVE  Earliest(T) \in T /\ \A x \in T : Earliest(T) <= x
BY NatMin DEF Earliest

(* Grouped by base, no pair is left out.                                   *)
LEMMA GroupedAsks ==
    ASSUME NEW pairs, NEW from, pairs \subseteq Price,
           \A p \in pairs : from[p[1]] \in Days /\ Canonical(p[1], p[2]) = p
    PROVE  /\ Grouped(pairs, from) \subseteq Job
           /\ \A p \in pairs : \A d, day : from[p[1]] <= d /\ d <= day =>
                 \E j \in Grouped(pairs, from) : AsksFor(j, day, [pair |-> p, day |-> d])
<1>1. ASSUME NEW p \in pairs
      PROVE  /\ p[1] \in Currency /\ p[2] \in Currency
             /\ [base |-> p[1], targets |-> {x[2] : x \in {y \in pairs : y[1] = p[1]}},
                 from |-> from[p[1]]] \in Grouped(pairs, from)
  BY DEF Price, Grouped
<1>2. ASSUME NEW p \in pairs
      PROVE  [base |-> p[1], targets |-> {x[2] : x \in {y \in pairs : y[1] = p[1]}},
              from |-> from[p[1]]] \in Job
  BY <1>1 DEF Job
<1>3. Grouped(pairs, from) \subseteq Job
  BY <1>2 DEF Grouped
<1>4. ASSUME NEW p \in pairs, NEW d, NEW day, from[p[1]] <= d, d <= day
      PROVE  \E j \in Grouped(pairs, from) : AsksFor(j, day, [pair |-> p, day |-> d])
  <2> DEFINE j == [base |-> p[1], targets |-> {x[2] : x \in {y \in pairs : y[1] = p[1]}},
                   from |-> from[p[1]]]
  <2>1. p[2] \in j.targets /\ p = Canonical(j.base, p[2])
    OBVIOUS
  <2>2. AsksFor(j, day, [pair |-> p, day |-> d])
    BY <1>4, <2>1 DEF AsksFor
  <2>3. QED
    BY <1>1, <2>2
<1>5. QED
  BY <1>3, <1>4

LEMMA ReadsSnapshotsWell ==
    ASSUME RateInv, NEW t \in Tasks, ReadSnapshots(t)
    PROVE  \E k2 : /\ GoesTo(t, k2) /\ Keeps(task[t], k2)
                   /\ k2.kind = "backfill" \/ k2 = Idle
                   /\ \A s \in snapshots :
                         s.user \in task[t].who /\ s.currency # task[t].pref[s.user] =>
                            /\ k2.kind = "backfill"
                            /\ Owes(k2, [pair |-> Canonical(s.currency, task[t].pref[s.user]),
                                         day |-> s.day])
<1> DEFINE k == task[t]
           seen == {s \in snapshots : s.user \in k.who /\ s.currency # k.pref[s.user]}
           pairOf(s) == Canonical(s.currency, k.pref[s.user])
           pairs == {pairOf(s) : s \in seen}
           days(b) == {s.day : s \in {x \in seen : pairOf(x)[1] = b}}
           from == [b \in Currency |-> Earliest(days(b))]
<1>1. k \in Task /\ k.pc = "owned" /\ k.kind = "backfill" /\ Sound(k, Stored)
  BY DEF ReadSnapshots, RateInv, TasksOK
<1>2. PICK q : /\ q = [k EXCEPT !.jobs = Grouped(pairs, from), !.day = today]
               /\ task' = [task EXCEPT ![t] = Onward(q)]
  BY DEF ReadSnapshots, Become
<1>3. ASSUME NEW s \in seen
      PROVE  /\ pairOf(s) \in Price /\ pairOf(s)[1] \in Currency
             /\ Canonical(pairOf(s)[1], pairOf(s)[2]) = pairOf(s)
             /\ s.day \in Nat
  <2>1. s.currency \in Currency /\ k.pref[s.user] \in Currency /\ s.day \in Days
    BY <1>1 DEF RateInv, Snapshot, Task
  <2>2. QED
    BY <2>1, CanonicalStays DEF Days
<1>4. ASSUME NEW s \in seen
      PROVE  /\ from[pairOf(s)[1]] \in Days
             /\ from[pairOf(s)[1]] <= s.day
  <2>1. from[pairOf(s)[1]] = Earliest(days(pairOf(s)[1]))
    BY <1>3
  <2>2. s.day \in days(pairOf(s)[1])
    OBVIOUS
  <2>3. \A x \in days(pairOf(s)[1]) : x \in Days
    BY DEF RateInv, Snapshot
  <2>4. days(pairOf(s)[1]) \subseteq Nat
    BY <2>3 DEF Days
  <2> HIDE DEF days, pairOf, from
  <2>5. QED
    BY <2>1, <2>2, <2>3, <2>4, EarliestIs
<1>5. /\ pairs \subseteq Price
      /\ \A p \in pairs : from[p[1]] \in Days /\ Canonical(p[1], p[2]) = p
  <2> HIDE DEF from, seen, pairOf
  <2>1. QED
    BY <1>3, <1>4
<1>6. /\ Grouped(pairs, from) \subseteq Job
      /\ \A p \in pairs : \A d, day : from[p[1]] <= d /\ d <= day =>
            \E j \in Grouped(pairs, from) : AsksFor(j, day, [pair |-> p, day |-> d])
  <2> HIDE DEF from, pairs
  <2>1. QED
    BY <1>5, GroupedAsks
<1>7. \A s \in seen : pairOf(s) \in pairs
  OBVIOUS
<1>8. \A s \in seen : s.day <= today /\ s \in snapshots
  BY DEF RateInv
<1>9. today \in Days
  BY DEF RateInv
<1>10. Stored' = Stored /\ Have' = Have
  BY SameRows DEF ReadSnapshots
<1>11. \A s \in snapshots : s.user \in k.who /\ s.currency # k.pref[s.user] => s \in seen
  OBVIOUS
<1>12. \A s : pairOf(s) = Canonical(s.currency, k.pref[s.user])
  OBVIOUS
<1> HIDE DEF k, seen, pairOf, pairs, days, from
<1>13. q \in Task /\ q.kind = k.kind /\ q.ready = k.ready /\ q.got = k.got
  BY <1>1, <1>2, <1>6, <1>9 DEF Task
<1>14. q.jobs = Grouped(pairs, from) /\ q.day = today
  BY <1>1, <1>2 DEF Task
<1>15. k.jobs = {} /\ k.ready = {} /\ k.got = {}
  BY <1>1 DEF Sound
<1>16. Going(q, Stored)
  BY <1>1, <1>13, <1>15 DEF Going, KeysOK
<1>17. /\ Sound(Onward(q), Stored)
       /\ \A key : Owes(q, key) <=> Owes(Onward(q), key)
       /\ Onward(q).kind = q.kind \/ Onward(q) = Idle
  BY <1>16, GoesOn
<1>18. AskedOK(Onward(q), Have')
  BY <1>1, <1>13, <1>17, IdleSound DEF AskedOK
<1>19. Keeps(k, Onward(q))
  BY <1>15 DEF Keeps, Owes
<1>20. ASSUME NEW s \in seen
       PROVE  /\ Onward(q).kind = "backfill"
              /\ Owes(Onward(q), [pair |-> pairOf(s), day |-> s.day])
  <2>1. PICK j \in Grouped(pairs, from) : AsksFor(j, today, [pair |-> pairOf(s), day |-> s.day])
    BY <1>4, <1>6, <1>7, <1>8
  <2>2. Owes(q, [pair |-> pairOf(s), day |-> s.day])
    BY <1>14, <2>1 DEF Owes
  <2>3. QED
    BY <1>1, <1>13, <1>17, <2>2, IdleSound
<1>21. /\ GoesTo(t, Onward(q)) /\ Keeps(task[t], Onward(q))
       /\ Onward(q).kind = "backfill" \/ Onward(q) = Idle
  BY <1>1, <1>2, <1>10, <1>13, <1>17, <1>18, <1>19 DEF GoesTo, k
<1>22. ASSUME NEW s \in snapshots, s.user \in task[t].who, s.currency # task[t].pref[s.user]
       PROVE  /\ Onward(q).kind = "backfill"
              /\ Owes(Onward(q), [pair |-> Canonical(s.currency, task[t].pref[s.user]),
                                  day |-> s.day])
  BY <1>11, <1>12, <1>20, <1>22 DEF k
<1>23. QED
  BY <1>21, <1>22

LEMMA ReadsAccountsWell ==
    ASSUME RateInv, NEW t \in Tasks, ReadAccounts(t)
    PROVE  \E k2 : GoesTo(t, k2) /\ Keeps(task[t], k2)
<1> DEFINE k == task[t]
           pairs == {Canonical(c[2], k.pref[c[1]]) :
                       c \in {x \in Users \X Currency :
                                x[2] \in Held(x[1]) /\ x[2] # k.pref[x[1]]}}
           fiat == {p \in pairs : ~IsCrypto(p[1])}
           from == [b \in Currency |-> k.day]
           singles == {[base |-> p[1], targets |-> {p[2]}, from |-> k.day] : p \in pairs \ fiat}
<1>1. k \in Task /\ k.pc = "owned" /\ Sound(k, Stored) /\ k.day \in Days
  BY DEF ReadAccounts, RateInv, TasksOK, Task
<1>2. \A p \in pairs : p \in Price /\ p[1] \in Currency /\ p[2] \in Currency /\ Canonical(p[1], p[2]) = p
  <2>1. ASSUME NEW u \in Users, NEW c \in Currency
        PROVE  LET p == Canonical(c, k.pref[u])
               IN  p \in Price /\ p[1] \in Currency /\ p[2] \in Currency /\ Canonical(p[1], p[2]) = p
    <3>1. k.pref[u] \in Currency
      BY <1>1 DEF Task
    <3>2. QED
      BY <3>1, CanonicalStays
  <2>2. QED
    BY <2>1
<1>3. fiat \subseteq pairs /\ \A b \in Currency : from[b] = k.day
  OBVIOUS
<1>4. \/ /\ k.kind = "fiat"
         /\ task' = [task EXCEPT ![t] = Onward([k EXCEPT !.jobs = Grouped(fiat, from), !.asked = fiat])]
      \/ /\ k.kind = "crypto"
         /\ task' = [task EXCEPT ![t] = Onward([k EXCEPT !.ready = singles, !.asked = pairs \ fiat])]
  BY DEF ReadAccounts, Become
<1>5. Stored' = Stored /\ Have' = Have
  BY SameRows DEF ReadAccounts
<1>6. \A j \in singles : \E p \in pairs \ fiat : j = [base |-> p[1], targets |-> {p[2]}, from |-> k.day]
  OBVIOUS
<1>7. \A p \in pairs \ fiat : [base |-> p[1], targets |-> {p[2]}, from |-> k.day] \in singles
  OBVIOUS
<1> HIDE DEF k, pairs, fiat, from, singles
<1>8. k.jobs = {} /\ k.ready = {} /\ k.got = {}
  BY <1>1 DEF Sound
<1>9. ASSUME NEW k2
      PROVE  Keeps(k, k2)
  BY <1>8 DEF Keeps, Owes
<1>10. CASE k.kind = "fiat"
  <2>1. PICK q : /\ q = [k EXCEPT !.jobs = Grouped(fiat, from), !.asked = fiat]
                 /\ task' = [task EXCEPT ![t] = Onward(q)]
    BY <1>4, <1>10
  <2>2. Grouped(fiat, from) \subseteq Job
    BY <1>1, <1>2, <1>3, GroupedAsks
  <2>3. q \in Task /\ q.kind = "fiat" /\ q.got = {}
    BY <1>1, <1>2, <1>3, <1>8, <1>10, <2>1, <2>2 DEF Task
  <2>4. Going(q, Stored)
    BY <2>3 DEF Going, KeysOK
  <2>5. Sound(Onward(q), Stored) /\ (Onward(q).kind = q.kind \/ Onward(q) = Idle)
    BY <2>4, GoesOn
  <2>6. AskedOK(Onward(q), Have)
    BY <2>3, <2>5, IdleSound DEF AskedOK
  <2>7. QED
    BY <1>5, <1>9, <2>1, <2>5, <2>6 DEF GoesTo, k
<1>11. CASE k.kind = "crypto"
  <2>1. PICK q : /\ q = [k EXCEPT !.ready = singles, !.asked = pairs \ fiat]
                 /\ task' = [task EXCEPT ![t] = Onward(q)]
    BY <1>4, <1>11
  <2>2. singles \subseteq Job
    BY <1>1, <1>2, <1>6 DEF Job
  <2>3. q \in Task /\ q.kind = "crypto" /\ q.got = {} /\ q.jobs = {} /\ q.day = k.day
    BY <1>1, <1>2, <1>8, <1>11, <2>1, <2>2 DEF Task
  <2>4. q.ready = singles /\ q.asked = pairs \ fiat
    BY <1>1, <2>1 DEF Task
  <2>5. Going(q, Stored)
    BY <2>3 DEF Going, KeysOK
  <2>6. /\ Sound(Onward(q), Stored)
        /\ \A key : Owes(q, key) <=> Owes(Onward(q), key)
        /\ (Onward(q).asked = q.asked /\ Onward(q).day = q.day) \/ Onward(q) = Idle
    BY <2>5, GoesOn
  <2>7. ASSUME NEW p \in q.asked
        PROVE  Owes(q, [pair |-> p, day |-> q.day])
    <3> DEFINE j == [base |-> p[1], targets |-> {p[2]}, from |-> k.day]
    <3>1. j \in q.ready
      BY <1>7, <2>4
    <3>2. p = Canonical(j.base, p[2]) /\ p[2] \in j.targets
      BY <1>2, <2>4
    <3>3. k.day <= k.day
      BY <1>1 DEF Days
    <3>4. AsksFor(j, q.day, [pair |-> p, day |-> q.day])
      BY <2>3, <3>2, <3>3 DEF AsksFor
    <3>5. QED
      BY <3>1, <3>4 DEF Owes
  <2>8. CASE Onward(q) = Idle
    BY <1>5, <1>9, <2>1, <2>6, <2>8, IdleSound DEF GoesTo, k
  <2>9. CASE Onward(q).asked = q.asked /\ Onward(q).day = q.day
    <3>1. AskedOK(Onward(q), Have)
      BY <2>6, <2>7, <2>9 DEF AskedOK
    <3>2. QED
      BY <1>5, <1>9, <2>1, <2>6, <3>1 DEF GoesTo, k
  <2>10. QED
    BY <2>6, <2>8, <2>9
<1>12. QED
  BY <1>4, <1>10, <1>11

LEMMA ReadsKeysWell ==
    ASSUME RateInv, NEW t \in Tasks, ReadKeys(t)
    PROVE  \E k2 : GoesTo(t, k2) /\ Keeps(task[t], k2)
<1> DEFINE k == task[t]
<1>1. k \in Task /\ k.pc = "keys" /\ Sound(k, Stored) /\ k.day \in Nat
  BY DEF ReadKeys, RateInv, TasksOK, Task, Days
<1>2. PICK j \in k.jobs :
         LET existing == ExistingKeys(j, k.day)
             rest == [k EXCEPT !.jobs = @ \ {j}]
             read == [rest EXCEPT !.ready = @ \cup {j},
                                  !.keys = existing \cup
                                     IF k.kind = "fiat" THEN @ ELSE {}]
         IN  \/ /\ k.kind # "fiat"
                /\ Become(t, Onward(IF existing = Required(j, k.day) THEN rest ELSE read))
             \/ /\ k.kind = "fiat"
                /\ Become(t, IF rest.jobs # {} THEN read
                               ELSE Onward([read EXCEPT !.ready = ToSync(read)]))
  BY DEF ReadKeys
<1>3. PICK rest : rest = [k EXCEPT !.jobs = @ \ {j}]
  OBVIOUS
<1>4. PICK read : read = [rest EXCEPT !.ready = @ \cup {j},
                                      !.keys = ExistingKeys(j, k.day) \cup
                                         IF k.kind = "fiat" THEN @ ELSE {}]
  OBVIOUS
<1>5. \/ /\ k.kind # "fiat"
         /\ task' = [task EXCEPT ![t] =
              Onward(IF ExistingKeys(j, k.day) = Required(j, k.day) THEN rest ELSE read)]
      \/ /\ k.kind = "fiat"
         /\ task' = [task EXCEPT ![t] =
              IF rest.jobs # {} THEN read ELSE Onward([read EXCEPT !.ready = ToSync(read)])]
  BY <1>2, <1>3, <1>4 DEF Become
<1>6. Stored' = Stored /\ Have' = Have
  BY SameRows DEF ReadKeys
<1>7. j \in Job /\ j.targets \subseteq Currency /\ j.from \in Nat /\ j.from \in Days /\ k.day \in Days
  BY <1>1 DEF Task, Job, Days
<1>8. ExistingKeys(j, k.day) \subseteq Currency \X Days
  <2>1. j.from..k.day \subseteq Days
    BY <1>7, RateAssumption DEF Days
  <2>2. QED
    BY <1>7, <2>1 DEF ExistingKeys
<1> HIDE DEF k
<1>9. rest \in Task /\ rest.pc = "keys" /\ rest.kind = k.kind /\ rest.who = k.who /\ rest.day = k.day
  BY <1>1, <1>3 DEF Task
<1>10. rest.jobs = k.jobs \ {j} /\ rest.ready = k.ready /\ rest.keys = k.keys /\ rest.got = k.got
  BY <1>1, <1>3 DEF Task
<1>11. read \in Task /\ read.pc = "keys" /\ read.kind = k.kind /\ read.who = k.who /\ read.day = k.day
  BY <1>4, <1>7, <1>8, <1>9 DEF Task
<1>12. /\ read.jobs = k.jobs \ {j} /\ read.ready = k.ready \cup {j} /\ read.got = k.got
       /\ read.keys = ExistingKeys(j, k.day) \cup IF k.kind = "fiat" THEN k.keys ELSE {}
  BY <1>4, <1>9, <1>10 DEF Task
<1>13. k.got = {}
  BY <1>1 DEF Sound
<1>14. CASE k.kind = "fiat"
  <2>1. ASSUME NEW k2
        PROVE  Keeps(k, k2)
    BY <1>14 DEF Keeps
  <2>2. CASE rest.jobs # {}
    <3>1. Sound(read, Stored) /\ AskedOK(read, Have)
      BY <1>10, <1>11, <1>12, <1>13, <1>14, <2>2 DEF Sound, HasWork, KeysOK, AskedOK
    <3>2. task' = [task EXCEPT ![t] = read]
      BY <1>5, <1>14, <2>2
    <3>3. QED
      BY <1>6, <2>1, <3>1, <3>2 DEF GoesTo, k
  <2>3. CASE rest.jobs = {}
    <3>1. PICK q : /\ q = [read EXCEPT !.ready = ToSync(read)]
                   /\ task' = [task EXCEPT ![t] = Onward(q)]
      BY <1>5, <1>14, <2>3
    <3>2. ToSync(read) \subseteq Job
      <4>1. read.ready \subseteq Job
        BY <1>11 DEF Task
      <4>2. QED
        BY <4>1 DEF ToSync, Job
    <3>3. q \in Task /\ q.kind = "fiat" /\ q.got = {}
      BY <1>11, <1>12, <1>13, <1>14, <3>1, <3>2 DEF Task
    <3>4. Going(q, Stored)
      BY <3>3 DEF Going, KeysOK
    <3>5. Sound(Onward(q), Stored) /\ (Onward(q).kind = q.kind \/ Onward(q) = Idle)
      BY <3>4, GoesOn
    <3>6. AskedOK(Onward(q), Have)
      BY <3>3, <3>5, IdleSound DEF AskedOK
    <3>7. QED
      BY <1>6, <2>1, <3>1, <3>5, <3>6 DEF GoesTo, k
  <2>4. QED
    BY <2>2, <2>3
<1>15. CASE k.kind # "fiat"
  <2>1. k.kind \in {"ensure", "backfill"}
    <3>1. k.kind # "crypto"
      BY <1>1, <1>2 DEF Sound, k
    <3>2. QED
      BY <1>1, <1>15, <3>1 DEF Task, Kinds
  <2>2. k.ready = {} /\ (k.kind = "ensure" => \E u \in Users : k.who = {u})
    BY <1>1, <2>1 DEF Sound
  <2>3. Going(rest, Stored)
    BY <1>9, <1>10, <1>13, <2>1, <2>2 DEF Going, KeysOK
  <2>4. KeysOK(read, Stored)
    <3>1. \A i \in read.ready : i = j
      BY <1>12, <2>2
    <3>2. read.keys = ExistingKeys(j, k.day)
      BY <1>12, <1>15
    <3>3. \A c, d : <<c, d>> \in ExistingKeys(j, k.day) =>
             [pair |-> Canonical(j.base, c), day |-> d] \in Stored
      BY DEF ExistingKeys
    <3>4. QED
      BY <3>1, <3>2, <3>3 DEF KeysOK
  <2>5. Going(read, Stored)
    BY <1>11, <1>12, <1>13, <2>1, <2>2, <2>4 DEF Going
  <2>6. CASE ExistingKeys(j, k.day) = Required(j, k.day)
    <3>1. task' = [task EXCEPT ![t] = Onward(rest)]
      BY <1>5, <1>15, <2>6
    <3>2. /\ Sound(Onward(rest), Stored)
          /\ \A key : Owes(rest, key) <=> Owes(Onward(rest), key)
          /\ Onward(rest).kind = rest.kind \/ Onward(rest) = Idle
      BY <2>3, GoesOn
    <3>3. ASSUME NEW key \in RowKey, AsksFor(j, k.day, key)
          PROVE  key \in Stored
      <4>1. PICK c \in j.targets : key.pair = Canonical(j.base, c) /\ j.from <= key.day /\ key.day <= k.day
        BY <3>3 DEF AsksFor
      <4>2. key.day \in Nat /\ key = [pair |-> key.pair, day |-> key.day]
        BY DEF RowKey, Days
      <4>3. key.day \in j.from..k.day
        BY <1>1, <1>7, <4>1, <4>2
      <4>4. <<c, key.day>> \in ExistingKeys(j, k.day)
        BY <2>6, <4>1, <4>3 DEF Required
      <4>5. [pair |-> Canonical(j.base, c), day |-> key.day] \in Stored
        BY <4>4 DEF ExistingKeys
      <4>6. QED
        BY <4>1, <4>2, <4>5
    <3>4. ASSUME NEW key \in RowKey, Owes(k, key)
          PROVE  key \in Stored \/ Owes(rest, key)
      <4>1. PICK i \in k.jobs : AsksFor(i, k.day, key)
        BY <1>13, <2>2, <3>4 DEF Owes
      <4>2. CASE i = j
        BY <3>3, <4>1, <4>2
      <4>3. CASE i # j
        <5>1. i \in rest.jobs \cup rest.ready /\ AsksFor(i, rest.day, key)
          BY <1>9, <1>10, <4>1, <4>3
        <5>2. QED
          BY <5>1 DEF Owes
      <4>4. QED
        BY <4>2, <4>3
    <3>5. \A key : Owes(Onward(rest), key) => Onward(rest).kind # "fiat"
      BY <1>9, <1>15, <3>2, IdleSound
    <3>6. \A key \in Stored : key \in Have'
      BY <1>6 DEF Have
    <3>7. Keeps(k, Onward(rest))
      BY <3>2, <3>4, <3>5, <3>6 DEF Keeps
    <3>8. AskedOK(Onward(rest), Have')
      BY <1>9, <2>1, <3>2, IdleSound DEF AskedOK
    <3>9. QED
      BY <1>6, <3>1, <3>2, <3>7, <3>8 DEF GoesTo, k
  <2>7. CASE ExistingKeys(j, k.day) # Required(j, k.day)
    <3>1. task' = [task EXCEPT ![t] = Onward(read)]
      BY <1>5, <1>15, <2>7
    <3>2. /\ Sound(Onward(read), Stored)
          /\ \A key : Owes(read, key) <=> Owes(Onward(read), key)
          /\ Onward(read).kind = read.kind \/ Onward(read) = Idle
      BY <2>5, GoesOn
    <3>3. ASSUME NEW key \in RowKey, Owes(k, key)
          PROVE  Owes(read, key)
      <4>1. PICK i \in k.jobs : AsksFor(i, k.day, key)
        BY <1>13, <2>2, <3>3 DEF Owes
      <4>2. i \in read.jobs \cup read.ready /\ AsksFor(i, read.day, key)
        BY <1>11, <1>12, <4>1
      <4>3. QED
        BY <4>2 DEF Owes
    <3>4. \A key : Owes(Onward(read), key) => Onward(read).kind # "fiat"
      BY <1>11, <1>15, <3>2, IdleSound
    <3>5. Keeps(k, Onward(read))
      BY <3>2, <3>3, <3>4 DEF Keeps
    <3>6. AskedOK(Onward(read), Have')
      BY <1>11, <2>1, <3>2, IdleSound DEF AskedOK
    <3>7. QED
      BY <1>6, <3>1, <3>2, <3>5, <3>6 DEF GoesTo, k
  <2>8. QED
    BY <2>6, <2>7
<1>16. QED
  BY <1>14, <1>15

LEMMA AskedStays ==
    ASSUME NEW k, k \in Task, NEW k2, Have \subseteq Have', Keeps(k, k2), AskedOK(k, Have),
           \/ k2 = Idle
           \/ k2.kind = k.kind /\ k2.asked = k.asked /\ k2.day = k.day
    PROVE  AskedOK(k2, Have')
<1>1. CASE k2 = Idle
  BY <1>1, IdleSound
<1>2. CASE k2.kind = k.kind /\ k2.asked = k.asked /\ k2.day = k.day /\ k.kind = "crypto"
  <2>1. ASSUME NEW p \in k.asked
        PROVE  [pair |-> p, day |-> k.day] \in Have' \/ Owes(k2, [pair |-> p, day |-> k.day])
    <3>1. [pair |-> p, day |-> k.day] \in RowKey
      BY DEF Task, RowKey
    <3>2. [pair |-> p, day |-> k.day] \in Have \/ Owes(k, [pair |-> p, day |-> k.day])
      BY <1>2 DEF AskedOK
    <3>3. QED
      BY <1>2, <3>1, <3>2 DEF Keeps
  <2>2. QED
    BY <1>2, <2>1 DEF AskedOK
<1>3. QED
  BY <1>1, <1>2 DEF AskedOK

LEMMA QuoteKeyTyped ==
    ASSUME NEW q \in Quote
    PROVE  /\ QuoteKey(q) \in RowKey
           /\ Canonical(q.base, q.target) \in Price
           /\ LET p == Canonical(q.base, q.target) IN Canonical(p[1], p[2]) = p
<1>1. q.base \in Currency /\ q.target \in Currency /\ q.day \in Days
  BY DEF Quote
<1>2. QED
  BY <1>1, CanonicalStays DEF QuoteKey, RowKey

LEMMA WantedTyped ==
    ASSUME NEW k \in Task, NEW j \in Job
    PROVE  Wanted(k, j) \subseteq Quote
<1>1. j.base \in Currency /\ j.targets \subseteq Currency /\ j.from \in Days /\ k.day \in Days
  BY DEF Job, Task
<1>2. j.from..k.day \subseteq Days
  BY <1>1, RateAssumption DEF Days
<1>3. QED
  BY <1>1, <1>2 DEF Wanted, Quote

LEMMA FetchesWell ==
    ASSUME RateInv, NEW t \in Tasks, Fetch(t)
    PROVE  /\ \E k2 : GoesTo(t, k2) /\ Keeps(task[t], k2)
           /\ TableOK' /\ Have \subseteq Have' /\ Stored' = Stored
           /\ faults' \in 0..MaxFaults
<1> DEFINE k == task[t]
<1>1. k \in Task /\ k.pc = "fetch" /\ Sound(k, Stored) /\ AskedOK(k, Have) /\ k.day \in Nat
  BY DEF Fetch, RateInv, TasksOK, Task, Days
<1>1a. PICK j \in k.ready :
         \E got \in SUBSET {q \in Wanted(k, j) : Quotes(q.base, q.target)} :
         LET rest == [k EXCEPT !.ready = @ \ {j}, !.got = got]
             gaps == Wanted(k, j) \ got
         IN  /\ \/ /\ \A q \in gaps : ~Quotes(q.base, q.target)
                   /\ UNCHANGED faults
                \/ /\ \E q \in gaps : Quotes(q.base, q.target)
                   /\ faults < MaxFaults
                   /\ faults' = faults + 1
             /\ Become(t, IF got = {} THEN Onward(rest)
                            ELSE [rest EXCEPT !.pc = "find"])
             /\ missed' = missed \cup {QuoteKey(q) : q \in gaps}
  BY DEF Fetch
<1>2. PICK got \in SUBSET {q \in Wanted(k, j) : Quotes(q.base, q.target)} :
         LET rest == [k EXCEPT !.ready = @ \ {j}, !.got = got]
             gaps == Wanted(k, j) \ got
         IN  /\ \/ /\ \A q \in gaps : ~Quotes(q.base, q.target)
                   /\ UNCHANGED faults
                \/ /\ \E q \in gaps : Quotes(q.base, q.target)
                   /\ faults < MaxFaults
                   /\ faults' = faults + 1
             /\ Become(t, IF got = {} THEN Onward(rest)
                            ELSE [rest EXCEPT !.pc = "find"])
             /\ missed' = missed \cup {QuoteKey(q) : q \in gaps}
  BY <1>1a
<1>3. PICK rest : rest = [k EXCEPT !.ready = @ \ {j}, !.got = got]
  OBVIOUS
<1>4. /\ task' = [task EXCEPT ![t] = IF got = {} THEN Onward(rest)
                                       ELSE [rest EXCEPT !.pc = "find"]]
      /\ missed' = missed \cup {QuoteKey(q) : q \in Wanted(k, j) \ got}
      /\ UNCHANGED faults \/ (faults < MaxFaults /\ faults' = faults + 1)
  BY <1>2, <1>3 DEF Become
<1>5. UNCHANGED rates /\ Stored' = Stored
  BY DEF Fetch, Stored
<1>6. faults' \in 0..MaxFaults
  BY <1>4, RateAssumption DEF RateInv
<1>7. j \in Job /\ j.from \in Nat
  BY <1>1 DEF Task, Job, Days
<1>8. got \subseteq Wanted(k, j) /\ Wanted(k, j) \subseteq Quote
  BY <1>1, <1>2, <1>7, WantedTyped
<1>9. \A q \in Wanted(k, j) \ got : QuoteKey(q) \in RowKey
  BY <1>8, QuoteKeyTyped
<1>10. TableOK'
  <2>1. missed' \subseteq RowKey
    BY <1>4, <1>9 DEF RateInv, TableOK
  <2>2. QED
    BY <1>5, <2>1 DEF RateInv, TableOK, RowsForward
<1>11. Have \subseteq Have' /\ \A q \in Wanted(k, j) \ got : QuoteKey(q) \in Have'
  BY <1>4, <1>5 DEF Have
<1> HIDE DEF k
<1>12. rest \in Task /\ rest.kind = k.kind /\ rest.who = k.who /\ rest.day = k.day /\ rest.asked = k.asked
  BY <1>1, <1>3, <1>8 DEF Task
<1>13. rest.jobs = k.jobs /\ rest.ready = k.ready \ {j} /\ rest.keys = k.keys /\ rest.got = got
  BY <1>1, <1>3 DEF Task
<1>14. k.got = {}
  BY <1>1 DEF Sound
<1>15. ASSUME NEW key \in RowKey, Owes(k, key)
       PROVE  key \in Have' \/ Owes(rest, key)
  <2>1. PICK i \in k.jobs \cup k.ready : AsksFor(i, k.day, key)
    BY <1>14, <1>15 DEF Owes
  <2>2. CASE i \in rest.jobs \cup rest.ready
    BY <1>12, <2>1, <2>2 DEF Owes
  <2>3. CASE i \notin rest.jobs \cup rest.ready
    <3>1. i = j
      BY <1>13, <2>3
    <3>2. PICK c \in j.targets : key.pair = Canonical(j.base, c) /\ j.from <= key.day /\ key.day <= k.day
      BY <2>1, <3>1 DEF AsksFor
    <3>3. key.day \in Nat /\ key = [pair |-> key.pair, day |-> key.day]
      BY DEF RowKey, Days
    <3>4. key.day \in j.from..k.day
      BY <1>1, <1>7, <3>2, <3>3
    <3>5. PICK q : q = [base |-> j.base, target |-> c, day |-> key.day]
      OBVIOUS
    <3>6. q \in [base : {j.base}, target : j.targets, day : j.from..k.day] /\ QuoteKey(q) = key
      BY <3>2, <3>3, <3>4, <3>5 DEF QuoteKey
    <3>7. CASE q \in got
      BY <1>13, <3>6, <3>7 DEF Owes
    <3>8. CASE q \in Wanted(k, j) \ got
      BY <1>11, <3>6, <3>8
    <3>9. CASE q \notin Wanted(k, j)
      <4>1. k.kind = "backfill" /\ <<c, key.day>> \in k.keys
        BY <3>5, <3>6, <3>9 DEF Wanted
      <4>2. [pair |-> Canonical(j.base, c), day |-> key.day] \in Stored
        BY <1>1, <3>2, <3>4, <4>1 DEF Sound, KeysOK
      <4>3. QED
        BY <1>5, <3>2, <3>3, <4>2 DEF Have
    <3>10. QED
      BY <3>7, <3>8, <3>9
  <2>4. QED
    BY <2>2, <2>3
<1>16. KeysOK(rest, Stored)
  BY <1>1, <1>12, <1>13 DEF Sound, KeysOK
<1>17. /\ rest.kind = "crypto" => rest.jobs = {}
       /\ rest.kind = "ensure" => \E u \in Users : rest.who = {u}
       /\ rest.kind \in {"ensure", "backfill"} => rest.ready = {}
  BY <1>1, <1>12, <1>13 DEF Sound
<1>18. CASE got = {}
  <2>1. Going(rest, Stored)
    BY <1>12, <1>13, <1>16, <1>17, <1>18 DEF Going
  <2>2. /\ Sound(Onward(rest), Stored)
        /\ \A key : Owes(rest, key) <=> Owes(Onward(rest), key)
        /\ Onward(rest).kind = rest.kind \/ Onward(rest) = Idle
        /\ (Onward(rest).asked = rest.asked /\ Onward(rest).day = rest.day) \/ Onward(rest) = Idle
    BY <2>1, GoesOn
  <2>3. k.kind # "fiat" => \A key : Owes(Onward(rest), key) => Onward(rest).kind # "fiat"
    BY <1>12, <2>2, IdleSound
  <2>4. Keeps(k, Onward(rest))
    BY <1>15, <2>2, <2>3 DEF Keeps
  <2>5. AskedOK(Onward(rest), Have')
    BY <1>1, <1>11, <1>12, <2>2, <2>4, AskedStays
  <2>6. QED
    BY <1>4, <1>5, <1>6, <1>10, <1>11, <1>18, <2>2, <2>4, <2>5 DEF GoesTo, k
<1>19. CASE got # {}
  <2>1. PICK q : q = [rest EXCEPT !.pc = "find"] /\ task' = [task EXCEPT ![t] = q]
    BY <1>4, <1>19
  <2>2. q \in Task /\ q.pc = "find" /\ q.kind = k.kind /\ q.who = k.who /\ q.day = k.day /\ q.asked = k.asked
    BY <1>12, <2>1 DEF Task, Points
  <2>3. q.jobs = rest.jobs /\ q.ready = rest.ready /\ q.keys = rest.keys /\ q.got = got
    BY <1>12, <1>13, <2>1 DEF Task
  <2>4. KeysOK(q, Stored)
    BY <1>12, <1>16, <2>2, <2>3 DEF KeysOK
  <2>5. Sound(q, Stored)
    BY <1>12, <1>17, <1>19, <2>2, <2>3, <2>4 DEF Sound, HasWork
  <2>6. \A key : Owes(rest, key) <=> Owes(q, key)
    BY <1>12, <1>13, <2>2, <2>3 DEF Owes
  <2>7. Keeps(k, q)
    BY <1>15, <2>2, <2>6 DEF Keeps
  <2>8. AskedOK(q, Have')
    BY <1>1, <1>11, <2>2, <2>7, AskedStays
  <2>9. QED
    BY <1>5, <1>6, <1>10, <1>11, <2>1, <2>5, <2>7, <2>8 DEF GoesTo, k
<1>20. QED
  BY <1>18, <1>19

LEMMA FindsWell ==
    ASSUME RateInv, NEW t \in Tasks, FindRate(t)
    PROVE  \E k2 : GoesTo(t, k2) /\ Keeps(task[t], k2)
<1> DEFINE k == task[t]
<1>1. k \in Task /\ k.pc = "find" /\ Sound(k, Stored) /\ AskedOK(k, Have)
  BY DEF FindRate, RateInv, TasksOK
<1>2. PICK q \in k.got :
         task' = [task EXCEPT ![t] = [k EXCEPT !.pc = "save", !.item = {q},
                                               !.found = QuoteKey(q) \in Stored]]
  BY DEF FindRate, Become
<1>3. PICK k2 : /\ k2 = [k EXCEPT !.pc = "save", !.item = {q},
                                  !.found = QuoteKey(q) \in Stored]
                /\ task' = [task EXCEPT ![t] = k2]
  BY <1>2
<1>4. Stored' = Stored /\ Have' = Have
  BY SameRows DEF FindRate
<1> HIDE DEF k
<1>5. q \in Quote /\ (QuoteKey(q) \in Stored) \in BOOLEAN
  BY <1>1, <1>2 DEF Task
<1>6. k2 \in Task /\ k2.pc = "save" /\ k2.kind = k.kind /\ k2.who = k.who /\ k2.day = k.day /\ k2.asked = k.asked
  BY <1>1, <1>3, <1>5 DEF Task, Points
<1>7. k2.jobs = k.jobs /\ k2.ready = k.ready /\ k2.keys = k.keys /\ k2.got = k.got /\ k2.item = {q}
  BY <1>1, <1>3 DEF Task
<1>8. Sound(k2, Stored)
  BY <1>1, <1>2, <1>6, <1>7 DEF Sound, HasWork, KeysOK
<1>9. \A key : Owes(k, key) <=> Owes(k2, key)
  BY <1>6, <1>7 DEF Owes
<1>10. Keeps(k, k2)
  BY <1>6, <1>9 DEF Keeps
<1>11. AskedOK(k2, Have')
  BY <1>1, <1>4, <1>6, <1>10, AskedStays
<1>12. QED
  BY <1>3, <1>4, <1>8, <1>10, <1>11 DEF GoesTo, k

(* Giving the rest of a request up loses nothing but that rest.            *)
LEMMA GivesUp ==
    ASSUME NEW k, NEW stored, Sound(k, stored), k.pc \in {"find", "save"}
    PROVE  /\ Sound(GiveUp(k), stored)
           /\ \A key : (\E j \in k.jobs \cup k.ready : AsksFor(j, k.day, key)) =>
                 Owes(GiveUp(k), key) /\ GiveUp(k).kind = k.kind
           /\ \/ GiveUp(k) = Idle
              \/ /\ GiveUp(k).kind = k.kind /\ GiveUp(k).asked = k.asked
                 /\ GiveUp(k).day = k.day
<1>1. PICK q : q = [k EXCEPT !.got = {}, !.item = {}, !.found = FALSE] /\ GiveUp(k) = Onward(q)
  BY DEF GiveUp
<1>2. k \in Task
  BY DEF Sound
<1>3. q \in Task /\ q.kind = k.kind /\ q.who = k.who /\ q.day = k.day /\ q.asked = k.asked
  BY <1>1, <1>2 DEF Task
<1>4. q.jobs = k.jobs /\ q.ready = k.ready /\ q.keys = k.keys /\ q.got = {}
  BY <1>1, <1>2 DEF Task
<1>5. Going(q, stored)
  BY <1>3, <1>4 DEF Going, Sound, KeysOK
<1>6. /\ Sound(Onward(q), stored)
      /\ \A key : Owes(q, key) <=> Owes(Onward(q), key)
      /\ Onward(q).kind = q.kind \/ Onward(q) = Idle
      /\ (Onward(q).asked = q.asked /\ Onward(q).day = q.day) \/ Onward(q) = Idle
  BY <1>5, GoesOn
<1>7. \A key : (\E j \in k.jobs \cup k.ready : AsksFor(j, k.day, key)) => Owes(q, key)
  BY <1>3, <1>4 DEF Owes
<1>8. QED
  BY <1>1, <1>3, <1>6, <1>7, IdleSound

LEMMA SavesWell ==
    ASSUME RateInv, NEW t \in Tasks, SaveRate(t)
    PROVE  /\ \E k2 : GoesTo(t, k2) /\ Keeps(task[t], k2)
           /\ TableOK' /\ Have \subseteq Have' /\ Stored \subseteq Stored'
<1> DEFINE k == task[t]
<1>1. k \in Task /\ k.pc = "save" /\ Sound(k, Stored) /\ AskedOK(k, Have)
  BY DEF SaveRate, RateInv, TasksOK
<1>2. PICK q \in k.item :
          \/ /\ k.found \/ QuoteKey(q) \notin Stored
             /\ rates' = {RowOf(q)} \cup {r \in rates : KeyOf(r) # QuoteKey(q)}
             /\ Become(t, SaveNext(k))
             /\ UNCHANGED missed
          \/ /\ ~k.found /\ QuoteKey(q) \in Stored
             /\ Become(t, GiveUp(k))
             /\ missed' = missed \cup {QuoteKey(x) : x \in k.got \ {q}}
             /\ UNCHANGED rates
  BY DEF SaveRate
<1>3. k.item = {q} /\ q \in k.got /\ k.got \subseteq Quote /\ q \in Quote
  BY <1>1, <1>2 DEF Sound, HasWork, Task
<1>4. QuoteKey(q) \in RowKey
  BY <1>3, QuoteKeyTyped
<1>5. \A r \in rates : r \in Row /\ KeyOf(r) \in Stored
  BY DEF RateInv, TableOK, Stored
<1>6. CASE /\ rates' = {RowOf(q)} \cup {r \in rates : KeyOf(r) # QuoteKey(q)}
           /\ Become(t, SaveNext(k))
           /\ UNCHANGED missed
  <2>1. PICK row : row = RowOf(q)
    OBVIOUS
  <2>2. /\ row \in Row /\ KeyOf(row) = QuoteKey(q)
        /\ row.price = row.pair /\ row.pair = Canonical(row.pair[1], row.pair[2])
    <3>1. q.base \in Currency /\ q.target \in Currency /\ q.day \in Days
      BY <1>3 DEF Quote
    <3>2. PICK p : p = Canonical(q.base, q.target)
      OBVIOUS
    <3>3. p \in Price /\ Canonical(p[1], p[2]) = p
      BY <1>3, <3>2, QuoteKeyTyped
    <3>4. p = IF Inverted(q.base, q.target) THEN InversePrice(<<q.base, q.target>>)
                ELSE <<q.base, q.target>>
      BY <3>2 DEF Canonical, InversePrice
    <3>5. row = [pair |-> p, day |-> q.day, price |-> p]
      BY <2>1, <3>2, <3>4 DEF RowOf
    <3>6. QED
      BY <3>1, <3>2, <3>3, <3>5 DEF Row, KeyOf, QuoteKey
  <2>3. rates' = {row} \cup {r \in rates : KeyOf(r) # QuoteKey(q)}
    BY <1>6, <2>1
  <2> HIDE DEF k
  <2>4. \A r \in rates' : r = row \/ (r \in rates /\ KeyOf(r) # QuoteKey(q))
    BY <2>3
  <2>5. rates' \subseteq Row
    BY <1>5, <2>2, <2>4
  <2>6. \A r, s \in rates' : KeyOf(r) = KeyOf(s) => r = s
    BY <2>2, <2>4 DEF RateInv, TableOK
  <2>7. \A r \in rates' : r.price = r.pair /\ r.pair = Canonical(r.pair[1], r.pair[2])
    BY <2>2, <2>4 DEF RateInv, TableOK, RowsForward
  <2>8. TableOK'
    BY <1>6, <2>5, <2>6, <2>7 DEF RateInv, TableOK, RowsForward
  <2>9. QuoteKey(q) \in Stored'
    BY <2>2, <2>3 DEF Stored
  <2>10. ASSUME NEW r \in rates
         PROVE  KeyOf(r) \in Stored'
    <3>1. CASE KeyOf(r) = QuoteKey(q)
      BY <2>9, <3>1
    <3>2. CASE KeyOf(r) # QuoteKey(q)
      BY <2>3, <3>2 DEF Stored
    <3>3. QED
      BY <3>1, <3>2
  <2>11. Stored \subseteq Stored'
    BY <2>10 DEF Stored
  <2>12. Have \subseteq Have' /\ QuoteKey(q) \in Have'
    BY <1>6, <2>9, <2>11 DEF Have
  <2>13. PICK rest : rest = [k EXCEPT !.got = @ \ k.item, !.item = {}, !.found = FALSE]
    OBVIOUS
  <2>14. task' = [task EXCEPT ![t] = IF rest.got = {} THEN Onward(rest)
                                       ELSE [rest EXCEPT !.pc = "find"]]
    BY <1>6, <2>13 DEF Become, SaveNext, k
  <2>15. rest \in Task /\ rest.kind = k.kind /\ rest.who = k.who /\ rest.day = k.day /\ rest.asked = k.asked
    BY <1>1, <2>13 DEF Task
  <2>16. rest.jobs = k.jobs /\ rest.ready = k.ready /\ rest.keys = k.keys /\ rest.got = k.got \ {q}
    BY <1>1, <1>3, <2>13 DEF Task
  <2>17. ASSUME NEW key \in RowKey, Owes(k, key)
         PROVE  key \in Have' \/ Owes(rest, key)
    <3>1. CASE \E j \in k.jobs \cup k.ready : AsksFor(j, k.day, key)
      BY <2>15, <2>16, <3>1 DEF Owes
    <3>2. CASE \E x \in k.got : key = QuoteKey(x)
      BY <2>12, <2>16, <3>2 DEF Owes
    <3>3. QED
      BY <2>17, <3>1, <3>2 DEF Owes
  <2>18. Sound(k, Stored')
    BY <1>1, <2>11, MoreStored
  <2>19. CASE rest.got = {}
    <3>1. Going(rest, Stored')
      BY <1>1, <2>15, <2>16, <2>18, <2>19 DEF Going, Sound, KeysOK
    <3>2. /\ Sound(Onward(rest), Stored')
          /\ \A key : Owes(rest, key) <=> Owes(Onward(rest), key)
          /\ Onward(rest).kind = rest.kind \/ Onward(rest) = Idle
          /\ (Onward(rest).asked = rest.asked /\ Onward(rest).day = rest.day) \/ Onward(rest) = Idle
      BY <3>1, GoesOn
    <3>3. k.kind # "fiat" => \A key : Owes(Onward(rest), key) => Onward(rest).kind # "fiat"
      BY <2>15, <3>2, IdleSound
    <3>4. Keeps(k, Onward(rest))
      BY <2>17, <3>2, <3>3 DEF Keeps
    <3>5. AskedOK(Onward(rest), Have')
      BY <1>1, <2>12, <2>15, <3>2, <3>4, AskedStays
    <3>6. QED
      BY <2>8, <2>11, <2>12, <2>14, <2>19, <3>2, <3>4, <3>5 DEF GoesTo, k
  <2>20. CASE rest.got # {}
    <3>1. PICK k2 : k2 = [rest EXCEPT !.pc = "find"] /\ task' = [task EXCEPT ![t] = k2]
      BY <2>14, <2>20
    <3>2. k2 \in Task /\ k2.pc = "find" /\ k2.kind = k.kind /\ k2.who = k.who /\ k2.day = k.day
      BY <2>15, <3>1 DEF Task, Points
    <3>3. k2.jobs = k.jobs /\ k2.ready = k.ready /\ k2.keys = k.keys /\ k2.got = rest.got /\ k2.asked = k.asked
      BY <2>15, <2>16, <3>1 DEF Task
    <3>4. Sound(k2, Stored')
      BY <1>1, <2>18, <2>20, <3>2, <3>3 DEF Sound, HasWork, KeysOK
    <3>5. \A key : Owes(rest, key) <=> Owes(k2, key)
      BY <2>15, <2>16, <3>2, <3>3 DEF Owes
    <3>6. Keeps(k, k2)
      BY <2>17, <3>2, <3>5 DEF Keeps
    <3>7. AskedOK(k2, Have')
      BY <1>1, <2>12, <3>2, <3>3, <3>6, AskedStays
    <3>8. QED
      BY <2>8, <2>11, <2>12, <3>1, <3>4, <3>6, <3>7 DEF GoesTo, k
  <2>21. QED
    BY <2>19, <2>20
<1>7. CASE /\ QuoteKey(q) \in Stored
           /\ Become(t, GiveUp(k))
           /\ missed' = missed \cup {QuoteKey(x) : x \in k.got \ {q}}
           /\ UNCHANGED rates
  <2>1. Stored' = Stored
    BY <1>7 DEF Stored
  <2>2. Have \subseteq Have' /\ \A x \in k.got : QuoteKey(x) \in Have'
    BY <1>7, <2>1 DEF Have
  <2>3. \A x \in k.got : QuoteKey(x) \in RowKey
    BY <1>3, QuoteKeyTyped
  <2>4. TableOK'
    <3>1. missed' \subseteq RowKey
      BY <1>7, <2>3 DEF RateInv, TableOK
    <3>2. QED
      BY <1>7, <3>1 DEF RateInv, TableOK, RowsForward
  <2>5. task' = [task EXCEPT ![t] = GiveUp(k)]
    BY <1>7 DEF Become
  <2> HIDE DEF k
  <2>6. /\ Sound(GiveUp(k), Stored)
        /\ \A key : (\E j \in k.jobs \cup k.ready : AsksFor(j, k.day, key)) =>
              Owes(GiveUp(k), key) /\ GiveUp(k).kind = k.kind
        /\ \/ GiveUp(k) = Idle
           \/ /\ GiveUp(k).kind = k.kind /\ GiveUp(k).asked = k.asked
              /\ GiveUp(k).day = k.day
    BY <1>1, GivesUp
  <2>7. Keeps(k, GiveUp(k))
    BY <2>2, <2>6 DEF Keeps, Owes
  <2>8. AskedOK(GiveUp(k), Have')
    BY <1>1, <2>2, <2>6, <2>7, AskedStays
  <2>9. QED
    BY <2>1, <2>2, <2>4, <2>5, <2>6, <2>7, <2>8 DEF GoesTo, k
<1>8. QED
  BY <1>2, <1>6, <1>7

(* A failure may leave behind whatever any snapshot needs.                 *)
AllNeedsHad == \A s \in Foreign : Need(s) \in Have'

LEMMA NeedTyped ==
    ASSUME RateInv, NEW s \in snapshots
    PROVE  /\ Need(s) \in RowKey
           /\ s.user \in Users /\ s.currency \in Currency /\ s.day \in Days
           /\ currency[s.user] \in Currency
<1>1. s.user \in Users /\ s.currency \in Currency /\ s.day \in Days
  BY DEF RateInv, Snapshot
<1>2. currency[s.user] \in Currency
  BY <1>1 DEF RateInv
<1>3. QED
  BY <1>1, <1>2, CanonicalStays DEF Need, RowKey

LEMMA LostTyped ==
    ASSUME RateInv, NEW S \in SUBSET Tasks
    PROVE  /\ Lost(S) \subseteq RowKey
           /\ \A s \in Foreign : Need(s) \in Lost(S)
           /\ \A t \in S : \A p \in task[t].asked : [pair |-> p, day |-> task[t].day] \in Lost(S)
<1>1. \A s \in Foreign : Need(s) \in RowKey
  BY NeedTyped DEF Foreign
<1>2. ASSUME NEW t \in S
      PROVE  \A p \in task[t].asked : [pair |-> p, day |-> task[t].day] \in RowKey
  <2>1. task[t] \in Task
    BY DEF RateInv, TasksOK
  <2>2. QED
    BY <2>1 DEF Task, RowKey
<1>3. ASSUME NEW t \in S
      PROVE  \A p \in task[t].asked : [pair |-> p, day |-> task[t].day] \in Lost(S)
  BY DEF Lost
<1>4. QED
  BY <1>1, <1>2, <1>3 DEF Lost

LEMMA ThrowsWell ==
    ASSUME RateInv, NEW t \in Tasks, QueryThrows(t)
    PROVE  /\ \E k2 : /\ GoesTo(t, k2)
                      /\ \/ Keeps(task[t], k2)
                         \/ AllNeedsHad /\ (task[t].kind = "crypto" => task[t].asked = {})
           /\ TableOK' /\ Have \subseteq Have' /\ Stored' = Stored
           /\ faults' \in 0..MaxFaults
<1> DEFINE k == task[t]
<1>1. k \in Task /\ Sound(k, Stored) /\ AskedOK(k, Have) /\ k = task[t]
  BY DEF RateInv, TasksOK
<1>2. UNCHANGED rates /\ Stored' = Stored
  BY DEF QueryThrows, Stored
<1>3. faults' \in 0..MaxFaults
  BY RateAssumption DEF RateInv, QueryThrows
<1>4. /\ Lost({t}) \subseteq RowKey
      /\ \A s \in Foreign : Need(s) \in Lost({t})
  BY LostTyped
<1>5. \/ /\ k.pc \in {"user", "owned"} \/ (k.pc = "keys" /\ k.kind = "fiat")
         /\ task' = [task EXCEPT ![t] = Idle]
         /\ missed' = missed \cup Lost({t})
      \/ /\ k.pc = "keys" /\ k.kind # "fiat"
         /\ \E j \in k.jobs : task' = [task EXCEPT ![t] = Onward([k EXCEPT !.jobs = @ \ {j}])]
         /\ missed' = missed \cup Lost({t})
      \/ /\ k.pc \in {"find", "save"}
         /\ task' = [task EXCEPT ![t] = GiveUp(k)]
         /\ missed' = missed \cup {QuoteKey(q) : q \in k.got}
  BY DEF QueryThrows, Become
<1> HIDE DEF k
<1>6. ASSUME missed' = missed \cup Lost({t})
      PROVE  TableOK' /\ Have \subseteq Have' /\ AllNeedsHad
  <2>1. missed' \subseteq RowKey
    BY <1>4, <1>6 DEF RateInv, TableOK
  <2>2. TableOK'
    BY <1>2, <2>1 DEF RateInv, TableOK, RowsForward
  <2>3. Have \subseteq Have' /\ \A s \in Foreign : Need(s) \in Have'
    BY <1>2, <1>4, <1>6 DEF Have
  <2>4. QED
    BY <2>2, <2>3 DEF AllNeedsHad
<1>7. CASE /\ k.pc \in {"user", "owned"} \/ (k.pc = "keys" /\ k.kind = "fiat")
           /\ task' = [task EXCEPT ![t] = Idle]
           /\ missed' = missed \cup Lost({t})
  <2>1. k.kind = "crypto" => k.asked = {}
    BY <1>1, <1>7 DEF Sound
  <2>2. GoesTo(t, Idle)
    BY <1>7, IdleSound DEF GoesTo
  <2>3. TableOK' /\ Have \subseteq Have' /\ AllNeedsHad
    BY <1>6, <1>7
  <2>4. QED
    BY <1>1, <1>2, <1>3, <2>1, <2>2, <2>3
<1>8. CASE /\ k.pc = "keys" /\ k.kind # "fiat"
           /\ \E j \in k.jobs : task' = [task EXCEPT ![t] = Onward([k EXCEPT !.jobs = @ \ {j}])]
           /\ missed' = missed \cup Lost({t})
  <2>1. PICK j \in k.jobs : task' = [task EXCEPT ![t] = Onward([k EXCEPT !.jobs = @ \ {j}])]
    BY <1>8
  <2>2. PICK q : q = [k EXCEPT !.jobs = @ \ {j}] /\ task' = [task EXCEPT ![t] = Onward(q)]
    BY <2>1
  <2>3. k.kind # "crypto"
    BY <1>1, <1>8 DEF Sound, HasWork
  <2>4. k.kind \in {"ensure", "backfill"}
    BY <1>1, <1>8, <2>3 DEF Task, Kinds
  <2>5. k.ready = {} /\ k.got = {} /\ (k.kind = "ensure" => \E u \in Users : k.who = {u})
    BY <1>1, <1>8, <2>4 DEF Sound
  <2>6. q \in Task /\ q.kind = k.kind /\ q.who = k.who /\ q.ready = {} /\ q.got = {}
    BY <1>1, <2>2, <2>5 DEF Task
  <2>7. Going(q, Stored)
    BY <2>3, <2>5, <2>6 DEF Going, KeysOK
  <2>8. Sound(Onward(q), Stored) /\ (Onward(q).kind = q.kind \/ Onward(q) = Idle)
    BY <2>7, GoesOn
  <2>9. AskedOK(Onward(q), Have')
    BY <2>3, <2>6, <2>8, IdleSound DEF AskedOK
  <2>10. GoesTo(t, Onward(q))
    BY <1>2, <2>2, <2>8, <2>9 DEF GoesTo
  <2>11. TableOK' /\ Have \subseteq Have' /\ AllNeedsHad
    BY <1>6, <1>8
  <2>12. QED
    BY <1>1, <1>2, <1>3, <2>3, <2>10, <2>11
<1>9. CASE /\ k.pc \in {"find", "save"}
           /\ task' = [task EXCEPT ![t] = GiveUp(k)]
           /\ missed' = missed \cup {QuoteKey(q) : q \in k.got}
  <2>1. \A q \in k.got : QuoteKey(q) \in RowKey
    BY <1>1, QuoteKeyTyped DEF Task
  <2>2. missed' \subseteq RowKey
    BY <1>9, <2>1 DEF RateInv, TableOK
  <2>3. TableOK'
    BY <1>2, <2>2 DEF RateInv, TableOK, RowsForward
  <2>4. Have \subseteq Have' /\ \A q \in k.got : QuoteKey(q) \in Have'
    BY <1>2, <1>9 DEF Have
  <2>5. /\ Sound(GiveUp(k), Stored)
        /\ \A key : (\E j \in k.jobs \cup k.ready : AsksFor(j, k.day, key)) =>
              Owes(GiveUp(k), key) /\ GiveUp(k).kind = k.kind
        /\ \/ GiveUp(k) = Idle
           \/ /\ GiveUp(k).kind = k.kind /\ GiveUp(k).asked = k.asked
              /\ GiveUp(k).day = k.day
    BY <1>1, <1>9, GivesUp
  <2>6. Keeps(k, GiveUp(k))
    BY <2>4, <2>5 DEF Keeps, Owes
  <2>7. AskedOK(GiveUp(k), Have')
    BY <1>1, <2>4, <2>5, <2>6, AskedStays
  <2>8. GoesTo(t, GiveUp(k))
    BY <1>2, <1>9, <2>5, <2>7 DEF GoesTo
  <2>9. QED
    BY <1>1, <1>2, <1>3, <2>3, <2>4, <2>6, <2>8
<1>10. QED
  BY <1>5, <1>7, <1>8, <1>9

(* What every step of the tasks does                                       *)
Works(t) ==
    \E k2 :
        /\ GoesTo(t, k2)
        /\ \/ Keeps(task[t], k2)
           \/ AllNeedsHad /\ (task[t].kind = "crypto" => task[t].asked = {})

LEMMA WorksKeepsInv ==
    ASSUME RateInv, NEW t \in Tasks, Works(t), TableOK', Have \subseteq Have',
           Stored \subseteq Stored'
    PROVE  TasksOK'
<1>1. PICK k2 : GoesTo(t, k2)
  BY DEF Works
<1>2. k2 \in Task /\ task' = [task EXCEPT ![t] = k2]
  BY <1>1 DEF GoesTo, Sound
<1>3. task' \in [Tasks -> Task]
  BY <1>2 DEF RateInv, TasksOK
<1>4. ASSUME NEW x \in Tasks
      PROVE  Sound(task'[x], Stored') /\ AskedOK(task'[x], Have')
  <2>1. CASE x = t
    BY <1>1, <1>2, <2>1 DEF GoesTo, RateInv, TasksOK
  <2>2. CASE x # t
    <3>1. task'[x] = task[x] /\ Sound(task[x], Stored) /\ AskedOK(task[x], Have)
      BY <1>2, <2>2 DEF RateInv, TasksOK
    <3>2. QED
      BY <3>1, MoreStored
  <2>3. QED
    BY <2>1, <2>2
<1>5. QED
  BY <1>3, <1>4 DEF TasksOK

(* A step of a task keeps the users and snapshots.                         *)
LEMMA StepsWell ==
    ASSUME RateInv, NEW t \in Tasks, TaskStep(t) \/ QueryThrows(t)
    PROVE  /\ Works(t) /\ TableOK' /\ Have \subseteq Have' /\ Stored \subseteq Stored'
           /\ faults' \in 0..MaxFaults
           /\ UNCHANGED <<today, currency, snapshots, starts>>
<1>1. CASE ReadUser(t) \/ EnsureRate(t) \/ ReadSnapshots(t) \/ ReadAccounts(t) \/ ReadKeys(t) \/ FindRate(t)
  <2>1. UNCHANGED <<today, currency, snapshots, starts, rates, faults, missed>>
    BY <1>1 DEF ReadUser, EnsureRate, ReadSnapshots, ReadAccounts, ReadKeys, FindRate
  <2>2. Stored' = Stored /\ Have' = Have
    BY <2>1, SameRows
  <2>3. TableOK' /\ faults' \in 0..MaxFaults
    BY <2>1 DEF RateInv, TableOK, RowsForward
  <2>4. Works(t)
    BY <1>1, ReadsUserWell, EnsuresWell, ReadsSnapshotsWell, ReadsAccountsWell, ReadsKeysWell,
       FindsWell DEF Works
  <2>5. QED
    BY <2>1, <2>2, <2>3, <2>4
<1>2. CASE Fetch(t)
  <2>1. UNCHANGED <<today, currency, snapshots, starts>>
    BY <1>2 DEF Fetch
  <2>2. QED
    BY <1>2, <2>1, FetchesWell DEF Works
<1>3. CASE SaveRate(t)
  <2>1. UNCHANGED <<today, currency, snapshots, starts, faults>>
    BY <1>3 DEF SaveRate
  <2>2. faults' \in 0..MaxFaults
    BY <2>1 DEF RateInv
  <2>3. QED
    BY <1>3, <2>1, <2>2, SavesWell DEF Works
<1>4. CASE QueryThrows(t)
  <2>1. UNCHANGED <<today, currency, snapshots, starts>>
    BY <1>4 DEF QueryThrows
  <2>2. QED
    BY <1>4, <2>1, ThrowsWell DEF Works
<1>5. QED
  BY <1>1, <1>2, <1>3, <1>4 DEF TaskStep

-----------------------------------------------------------------------------
(* The invariant is kept.                                                  *)

LEMMA InvStarts == Init => RateInv
<1> SUFFICES ASSUME Init PROVE RateInv
  OBVIOUS
<1>1. today \in Days /\ starts \in 0..MaxStarts /\ faults \in 0..MaxFaults
  BY RateAssumption DEF Init, Days
<1>2. TableOK
  BY DEF Init, TableOK, RowsForward
<1>3. Sound(Idle, Stored) /\ AskedOK(Idle, Have) /\ Idle \in Task
  BY IdleSound DEF Sound
<1>4. TasksOK
  BY <1>3 DEF Init, TasksOK
<1>5. QED
  BY <1>1, <1>2, <1>4 DEF Init, RateInv

LEMMA BegunOK ==
    ASSUME RateInv, NEW t \in Tasks, NEW k2, GoesTo(t, k2), UNCHANGED <<rates, missed>>
    PROVE  TableOK' /\ TasksOK'
<1>1. Stored' = Stored /\ Have' = Have
  BY SameRows
<1>2. k2 \in Task /\ task' = [task EXCEPT ![t] = k2]
  BY DEF GoesTo, Sound
<1>3. task' \in [Tasks -> Task]
  BY <1>2 DEF RateInv, TasksOK
<1>4. ASSUME NEW x \in Tasks
      PROVE  Sound(task'[x], Stored') /\ AskedOK(task'[x], Have')
  BY <1>1, <1>2 DEF GoesTo, RateInv, TasksOK
<1>5. TasksOK'
  BY <1>3, <1>4 DEF TasksOK
<1>6. TableOK'
  BY DEF RateInv, TableOK, RowsForward
<1>7. QED
  BY <1>5, <1>6

LEMMA InvStays == RateInv /\ [Next]_vars => RateInv'
<1> SUFFICES ASSUME RateInv, [Next]_vars PROVE RateInv'
  OBVIOUS
<1> USE DEF RateInv
<1>1. ASSUME NEW u \in Users, NEW c \in Currency, TakeSnapshot(u, c)
      PROVE  RateInv'
  <2>1. today \in Days /\ {u} \in SUBSET Users /\ "ensure" \in Kinds
    BY DEF Kinds
  <2>2. UNCHANGED <<today, currency, rates, faults, missed>>
    BY <1>1 DEF TakeSnapshot
  <2>3. PICK t \in Tasks : Begin(t, "ensure", {u}, c, today)
    BY <1>1 DEF TakeSnapshot
  <2>4. starts' \in 0..MaxStarts /\ \E k2 : GoesTo(t, k2)
    BY <2>1, <2>2, <2>3, BeginsWell
  <2>5. TableOK' /\ TasksOK'
    BY <2>2, <2>4, BegunOK
  <2>6. PICK s : /\ s = [user |-> u, currency |-> c, day |-> today]
                 /\ snapshots' = snapshots \cup {s}
    BY <1>1 DEF TakeSnapshot
  <2>7. s \in Snapshot /\ s.day <= today
    BY <2>1, <2>6 DEF Snapshot, Days
  <2>8. snapshots' \subseteq Snapshot /\ \A x \in snapshots' : x.day <= today
    BY <2>6, <2>7
  <2>9. QED
    BY <2>2, <2>4, <2>5, <2>8
<1>2. ASSUME NEW u \in Users, NEW c \in Currency, ChangeCurrency(u, c)
      PROVE  RateInv'
  <2>1. 0 \in Days /\ {u} \in SUBSET Users /\ "backfill" \in Kinds /\ USD \in Currency
    BY RateAssumption, CurrencyAssumption DEF Kinds, Days
  <2>2. UNCHANGED <<today, snapshots, rates, faults, missed>>
    BY <1>2 DEF ChangeCurrency
  <2>3. PICK t \in Tasks : Begin(t, "backfill", {u}, USD, 0)
    BY <1>2 DEF ChangeCurrency
  <2>4. starts' \in 0..MaxStarts /\ \E k2 : GoesTo(t, k2)
    BY <2>1, <2>2, <2>3, BeginsWell
  <2>5. TableOK' /\ TasksOK'
    BY <2>2, <2>4, BegunOK
  <2>6. currency' \in [Users -> Currency]
    BY <1>2 DEF ChangeCurrency
  <2>7. QED
    BY <2>2, <2>4, <2>5, <2>6
<1>3. ASSUME Cron
      PROVE  RateInv'
  <2>1. today \in Days /\ Users \in SUBSET Users /\ USD \in Currency /\ {"fiat", "crypto"} \subseteq Kinds
    BY CurrencyAssumption DEF Kinds
  <2>2. UNCHANGED <<today, currency, snapshots, rates, faults, missed>>
    BY <1>3 DEF Cron
  <2>3. PICK t \in Tasks, kind \in {"fiat", "crypto"} : Begin(t, kind, Users, USD, today)
    BY <1>3 DEF Cron
  <2>4. starts' \in 0..MaxStarts /\ \E k2 : GoesTo(t, k2)
    BY <2>1, <2>2, <2>3, BeginsWell
  <2>5. TableOK' /\ TasksOK'
    BY <2>2, <2>4, BegunOK
  <2>6. QED
    BY <2>2, <2>4, <2>5
<1>4. ASSUME Midnight
      PROVE  RateInv'
  <2>1. UNCHANGED <<currency, snapshots, rates, task, starts, faults, missed>> /\ today' = today + 1
    BY <1>4 DEF Midnight
  <2>2. Stored' = Stored /\ Have' = Have
    BY <2>1, SameRows
  <2>3. TableOK' /\ TasksOK'
    BY <2>1, <2>2 DEF TableOK, RowsForward, TasksOK
  <2>4. today \in Nat /\ today' \in Days
    BY <1>4, <2>1, RateAssumption DEF Midnight, Days
  <2>5. \A s \in snapshots : s.day \in Nat
    BY DEF Snapshot, Days
  <2>6. \A s \in snapshots : s.day <= today'
    BY <2>1, <2>4, <2>5
  <2>7. QED
    BY <2>1, <2>3, <2>4, <2>6
<1>5. ASSUME NEW t \in Tasks, TaskStep(t) \/ QueryThrows(t)
      PROVE  RateInv'
  <2>1. /\ Works(t) /\ TableOK' /\ Have \subseteq Have' /\ Stored \subseteq Stored'
        /\ faults' \in 0..MaxFaults
        /\ UNCHANGED <<today, currency, snapshots, starts>>
    BY <1>5, StepsWell
  <2>2. TasksOK'
    BY <2>1, WorksKeepsInv
  <2>3. QED
    BY <2>1, <2>2
<1>6. ASSUME Crash
      PROVE  RateInv'
  <2>1. UNCHANGED <<today, currency, snapshots, rates, starts>>
    BY <1>6 DEF Crash
  <2>2. task' = [t \in Tasks |-> Idle] /\ missed' = missed \cup Lost(Tasks)
    BY <1>6 DEF Crash
  <2>3. faults' \in 0..MaxFaults
    BY <1>6, RateAssumption DEF Crash
  <2>4. Lost(Tasks) \subseteq RowKey
    BY LostTyped
  <2>5. TableOK'
    BY <2>1, <2>2, <2>4 DEF TableOK, RowsForward
  <2>6. Sound(Idle, Stored') /\ AskedOK(Idle, Have') /\ Idle \in Task
    BY IdleSound DEF Sound
  <2>7. TasksOK'
    BY <2>2, <2>6 DEF TasksOK
  <2>8. QED
    BY <2>1, <2>3, <2>5, <2>7
<1>7. ASSUME UNCHANGED vars
      PROVE  RateInv'
  <2>1. Stored' = Stored /\ Have' = Have
    BY <1>7, SameRows DEF vars
  <2>2. QED
    BY <1>7, <2>1 DEF vars, TableOK, RowsForward, TasksOK
<1>8. QED
  BY <1>1, <1>2, <1>3, <1>4, <1>5, <1>6, <1>7 DEF Next

(* Whatever overlaps, fails or is refused, tasks ask for one request at a  *)
(* time and owe what they have not asked for yet.                          *)
THEOREM RateInvHolds == Spec => []RateInv
BY InvStarts, InvStays, PTL DEF Spec

(* The variables have their types, and (baseCurrency, targetCurrency,      *)
(* rateDate) stays unique under overlapping upserts.                       *)
THEOREM RatesTypeCorrect == Spec => []TypeOK
<1>1. RateInv => TypeOK
  BY DEF RateInv, TableOK, TasksOK, Sound, TypeOK
<1>2. QED
  BY <1>1, RateInvHolds, PTL

(* Whoever asks in whatever direction, upsertRate stores every pair in its *)
(* one direction, with the price of that direction.                        *)
THEOREM RatesForward == Spec => []RowsForward
<1>1. RateInv => RowsForward
  BY DEF RateInv, TableOK
<1>2. QED
  BY <1>1, RateInvHolds, PTL

(* A crypto sync that ends has today's rates of what it found required,    *)
(* but those a provider or a query failed to give.                         *)
LEMMA CryptoStep ==
    ASSUME RateInv, [Next]_vars, NEW t \in Tasks, Ends(t, "crypto")
    PROVE  Covered(t)
<1> DEFINE k == task[t]
<1>1. k \in Task /\ AskedOK(k, Have) /\ k.kind = "crypto" /\ k.pc # "idle" /\ task'[t].pc = "idle"
  BY DEF RateInv, TasksOK, Ends
<1>2. \A p \in k.asked : [pair |-> p, day |-> k.day] \in RowKey
  BY <1>1 DEF Task, RowKey
<1>3. (Stored \cup missed)' = Have'
  BY DEF Have
<1>4. CASE \E x \in Tasks : TaskStep(x) \/ QueryThrows(x)
  <2>1. PICK x \in Tasks : TaskStep(x) \/ QueryThrows(x)
    BY <1>4
  <2>2. Works(x) /\ Have \subseteq Have' /\ TableOK' /\ Stored \subseteq Stored'
    BY <2>1, StepsWell
  <2>3. PICK k2 : /\ GoesTo(x, k2)
                  /\ \/ Keeps(task[x], k2)
                     \/ AllNeedsHad /\ (task[x].kind = "crypto" => task[x].asked = {})
    BY <2>2 DEF Works
  <2>4. x = t
    BY <1>1, <2>3 DEF GoesTo, RateInv, TasksOK
  <2>5. task'[t] = k2 /\ k2.pc = "idle" /\ Sound(k2, Stored')
    BY <1>1, <2>3, <2>4 DEF GoesTo, RateInv, TasksOK
  <2>6. k2.jobs = {} /\ k2.ready = {} /\ k2.got = {}
    BY <2>5 DEF Sound
  <2>7. \A key : ~Owes(k2, key)
    BY <2>6 DEF Owes
  <2>8. CASE Keeps(k, k2)
    <3>1. \A p \in k.asked : [pair |-> p, day |-> k.day] \in Have'
      BY <1>1, <1>2, <2>2, <2>7, <2>8 DEF Keeps, AskedOK
    <3>2. QED
      BY <1>3, <3>1 DEF Covered
  <2>9. CASE k.asked = {}
    BY <2>9 DEF Covered
  <2>10. QED
    BY <1>1, <2>3, <2>4, <2>8, <2>9
<1>5. CASE Crash
  <2>1. \A p \in k.asked : [pair |-> p, day |-> k.day] \in Lost(Tasks)
    BY LostTyped
  <2>2. missed' = missed \cup Lost(Tasks)
    BY <1>5 DEF Crash
  <2>3. QED
    BY <1>3, <2>1, <2>2 DEF Covered, Have
<1>6. CASE UNCHANGED task
  BY <1>1, <1>6
<1>7. CASE \E x \in Tasks : \E kind, who, cur, day : Begin(x, kind, who, cur, day)
  <2>0. PICK x \in Tasks : \E kind, who, cur, day : Begin(x, kind, who, cur, day)
    BY <1>7
  <2>1. PICK kind, who, cur, day : Begin(x, kind, who, cur, day)
    BY <2>0
  <2>2. x # t
    BY <1>1, <2>1 DEF Begin
  <2>3. task'[t] = task[t]
    BY <2>1, <2>2 DEF Begin, RateInv, TasksOK
  <2>4. QED
    BY <1>1, <2>3
<1>8. QED
  <2>1. ASSUME NEW u \in Users, NEW c \in Currency, TakeSnapshot(u, c) \/ ChangeCurrency(u, c)
        PROVE  \E x \in Tasks : \E kind, who, cur, day : Begin(x, kind, who, cur, day)
    BY <2>1 DEF TakeSnapshot, ChangeCurrency
  <2>2. ASSUME Cron
        PROVE  \E x \in Tasks : \E kind, who, cur, day : Begin(x, kind, who, cur, day)
    BY <2>2 DEF Cron
  <2>3. Midnight \/ UNCHANGED vars => UNCHANGED task
    BY DEF Midnight, vars
  <2>4. QED
    BY <1>4, <1>5, <1>6, <1>7, <2>1, <2>2, <2>3 DEF Next

(* An hourly sync of any number of pairs covers all it found, whatever     *)
(* fails for one of them.                                                  *)
THEOREM CryptoIsCovered == Spec => CryptoCovered
<1>1. RateInv /\ [Next]_vars => [\A t \in Tasks : Ends(t, "crypto") => Covered(t)]_vars
  BY CryptoStep
<1>2. QED
  BY <1>1, RateInvHolds, PTL DEF Spec, CryptoCovered

-----------------------------------------------------------------------------
(* No snapshot is forgotten: at every moment its rate is stored or missed, *)
(* or a task is going to ask for it with the user's currency of now.       *)

Covers(t, s) ==
    \/ task[t].kind # "fiat" /\ Owes(task[t], Need(s))
    \/ /\ task[t].kind = "ensure" /\ task[t].pc = "user"
       /\ s.user \in task[t].who
       /\ task[t].cur = s.currency /\ task[t].day = s.day
    \/ /\ task[t].kind = "backfill" /\ task[t].pc = "user"
       /\ s.user \in task[t].who
    \/ /\ task[t].kind = "backfill" /\ task[t].pc = "owned"
       /\ s.user \in task[t].who
       /\ task[t].pref[s.user] = currency[s.user]

CoverInv ==
    \A s \in Foreign : Need(s) \in Have \/ \E t \in Tasks : Covers(t, s)

(* What covers a snapshot goes on covering it through its own steps.       *)
LEMMA CoveredOn ==
    ASSUME RateInv, NEW t \in Tasks, NEW s \in Foreign,
           TaskStep(t) \/ QueryThrows(t), Covers(t, s)
    PROVE  Need(s) \in Have' \/ Covers(t, s)'
<1>1. /\ Works(t) /\ TableOK' /\ Have \subseteq Have'
      /\ UNCHANGED <<currency, snapshots>>
  BY StepsWell
<1>2. Need(s)' = Need(s)
  BY <1>1 DEF Need
<1>3. s \in snapshots /\ s.currency # currency[s.user] /\ Need(s) \in RowKey
  BY NeedTyped DEF Foreign
<1>4. task[t] \in Task
  BY DEF RateInv, TasksOK
<1>5. CASE task[t].kind # "fiat" /\ Owes(task[t], Need(s))
  <2>1. PICK k2 : GoesTo(t, k2) /\ (Keeps(task[t], k2) \/ AllNeedsHad)
    BY <1>1 DEF Works
  <2>2. task'[t] = k2
    BY <2>1 DEF GoesTo, RateInv, TasksOK
  <2>3. CASE Keeps(task[t], k2)
    <3>1. Need(s) \in Have' \/ (k2.kind # "fiat" /\ Owes(k2, Need(s)))
      BY <1>3, <1>5, <2>3 DEF Keeps
    <3>2. QED
      BY <1>2, <2>2, <3>1 DEF Covers
  <2>4. CASE AllNeedsHad
    BY <2>4 DEF AllNeedsHad
  <2>5. QED
    BY <2>1, <2>3, <2>4
<1>6. CASE QueryThrows(t) /\ task[t].pc \in {"user", "owned"}
  <2>1. missed' = missed \cup Lost({t})
    BY <1>6 DEF QueryThrows
  <2>2. Need(s) \in Lost({t})
    BY LostTyped
  <2>3. QED
    BY <2>1, <2>2 DEF Have
<1>7. CASE /\ TaskStep(t)
           /\ task[t].kind = "ensure" /\ task[t].pc = "user"
           /\ s.user \in task[t].who
           /\ task[t].cur = s.currency /\ task[t].day = s.day
  <2>1. EnsureRate(t)
    BY <1>7 DEF TaskStep, ReadUser, EnsureRate, ReadSnapshots, ReadAccounts, ReadKeys, Fetch,
               FindRate, SaveRate
  <2>2. PICK k2 : /\ GoesTo(t, k2) /\ k2.kind = "ensure"
                  /\ \A u \in task[t].who : currency[u] # task[t].cur =>
                        Owes(k2, [pair |-> Canonical(task[t].cur, currency[u]),
                                  day |-> task[t].day])
    BY <2>1, EnsuresWell
  <2>3. task'[t] = k2
    BY <2>2 DEF GoesTo, RateInv, TasksOK
  <2>4. Owes(k2, Need(s))
    BY <1>3, <1>7, <2>2 DEF Need
  <2>5. QED
    BY <1>2, <2>2, <2>3, <2>4 DEF Covers
<1>8. CASE /\ TaskStep(t)
           /\ task[t].kind = "backfill" /\ task[t].pc = "user"
           /\ s.user \in task[t].who
  <2>1. ReadUser(t)
    BY <1>8 DEF TaskStep, ReadUser, EnsureRate, ReadSnapshots, ReadAccounts, ReadKeys, Fetch,
               FindRate, SaveRate
  <2>2. PICK k2 : /\ GoesTo(t, k2)
                  /\ k2.pc = "owned" /\ k2.kind = task[t].kind /\ k2.who = task[t].who
                  /\ \A u \in k2.who : k2.pref[u] = currency[u]
    BY <2>1, ReadsUserWell
  <2>3. task'[t] = k2
    BY <2>2 DEF GoesTo, RateInv, TasksOK
  <2>4. QED
    BY <1>1, <1>8, <2>2, <2>3 DEF Covers
<1>9. CASE /\ TaskStep(t)
           /\ task[t].kind = "backfill" /\ task[t].pc = "owned"
           /\ s.user \in task[t].who
           /\ task[t].pref[s.user] = currency[s.user]
  <2>1. ReadSnapshots(t)
    BY <1>9 DEF TaskStep, ReadUser, EnsureRate, ReadSnapshots, ReadAccounts, ReadKeys, Fetch,
               FindRate, SaveRate
  <2>2. PICK k2 : /\ GoesTo(t, k2)
                  /\ \A x \in snapshots :
                        x.user \in task[t].who /\ x.currency # task[t].pref[x.user] =>
                           /\ k2.kind = "backfill"
                           /\ Owes(k2, [pair |-> Canonical(x.currency, task[t].pref[x.user]),
                                        day |-> x.day])
    BY <2>1, ReadsSnapshotsWell
  <2>3. task'[t] = k2
    BY <2>2 DEF GoesTo, RateInv, TasksOK
  <2>4. k2.kind = "backfill" /\ Owes(k2, Need(s))
    BY <1>3, <1>9, <2>2 DEF Need
  <2>5. QED
    BY <1>2, <2>3, <2>4 DEF Covers
<1>10. QED
  BY <1>5, <1>6, <1>7, <1>8, <1>9 DEF Covers

(* Nothing is covered by an idle task.                                     *)
LEMMA IdleCoversNothing ==
    ASSUME RateInv, NEW t \in Tasks, task[t].pc = "idle", NEW s
    PROVE  ~Covers(t, s)
<1>1. task[t].jobs = {} /\ task[t].ready = {} /\ task[t].got = {}
  BY DEF RateInv, TasksOK, Sound
<1>2. QED
  BY <1>1 DEF Covers, Owes

(* A task that starts takes the place of an idle one.                      *)
LEMMA OthersCover ==
    ASSUME RateInv, NEW t \in Tasks, NEW k2, task' = [task EXCEPT ![t] = k2],
           task[t].pc = "idle", NEW s, NEW x \in Tasks, Covers(x, s),
           currency'[s.user] = currency[s.user]
    PROVE  Covers(x, s)'
<1>1. x # t
  BY IdleCoversNothing
<1>2. task'[x] = task[x]
  BY <1>1 DEF RateInv, TasksOK
<1>3. Need(s)' = Need(s)
  BY DEF Need
<1>4. QED
  BY <1>2, <1>3 DEF Covers

LEMMA CoverStays == RateInv /\ CoverInv /\ [Next]_vars => CoverInv'
<1> SUFFICES ASSUME RateInv, CoverInv, [Next]_vars, NEW s \in Foreign'
             PROVE  Need(s)' \in Have' \/ \E t \in Tasks : Covers(t, s)'
  BY DEF CoverInv
<1>1. ASSUME NEW u \in Users, NEW c \in Currency, TakeSnapshot(u, c)
      PROVE  Need(s)' \in Have' \/ \E t \in Tasks : Covers(t, s)'
  <2>1. UNCHANGED <<today, currency, rates, faults, missed>>
    BY <1>1 DEF TakeSnapshot
  <2>2. PICK t \in Tasks : Begin(t, "ensure", {u}, c, today)
    BY <1>1 DEF TakeSnapshot
  <2>4. PICK k2 : /\ task' = [task EXCEPT ![t] = k2] /\ task[t].pc = "idle"
                  /\ k2 = [Idle EXCEPT !.kind = "ensure", !.pc = "user", !.who = {u},
                                       !.cur = c, !.day = today]
    BY <2>2 DEF Begin
  <2>5. k2.kind = "ensure" /\ k2.pc = "user" /\ k2.who = {u} /\ k2.cur = c /\ k2.day = today
    BY <2>4 DEF Idle
  <2>6. task' = [task EXCEPT ![t] = k2] /\ task'[t] = k2
    BY <2>4 DEF RateInv, TasksOK
  <2>7. s \in Foreign \/ s = [user |-> u, currency |-> c, day |-> today]
    BY <1>1, <2>1 DEF TakeSnapshot, Foreign
  <2>8. CASE s \in Foreign
    <3>1. Need(s)' = Need(s) /\ Have' = Have
      BY <2>1, SameRows DEF Need
    <3>2. \A x \in Tasks : Covers(x, s) => Covers(x, s)'
      BY <2>1, <2>4, <2>6, OthersCover
    <3>3. QED
      BY <2>8, <3>1, <3>2 DEF CoverInv
  <2>9. CASE s = [user |-> u, currency |-> c, day |-> today]
    BY <2>5, <2>6, <2>9 DEF Covers
  <2>10. QED
    BY <2>7, <2>8, <2>9
<1>2. ASSUME NEW u \in Users, NEW c \in Currency, ChangeCurrency(u, c)
      PROVE  Need(s)' \in Have' \/ \E t \in Tasks : Covers(t, s)'
  <2>1. UNCHANGED <<today, snapshots, rates, faults, missed>>
    BY <1>2 DEF ChangeCurrency
  <2>2. PICK t \in Tasks : Begin(t, "backfill", {u}, USD, 0)
    BY <1>2 DEF ChangeCurrency
  <2>4. PICK k2 : /\ task' = [task EXCEPT ![t] = k2] /\ task[t].pc = "idle"
                  /\ k2 = [Idle EXCEPT !.kind = "backfill", !.pc = "user", !.who = {u},
                                       !.cur = USD, !.day = 0]
    BY <2>2 DEF Begin
  <2>5. k2.kind = "backfill" /\ k2.pc = "user" /\ k2.who = {u}
    BY <2>4 DEF Idle
  <2>6. task' = [task EXCEPT ![t] = k2] /\ task'[t] = k2
    BY <2>4 DEF RateInv, TasksOK
  <2>7. s \in snapshots /\ s.user \in Users
    BY <2>1, NeedTyped DEF Foreign
  <2>8. CASE s.user = u
    BY <2>5, <2>6, <2>8 DEF Covers
  <2>9. CASE s.user # u
    <3>1. currency'[s.user] = currency[s.user]
      BY <1>2, <2>7, <2>9 DEF ChangeCurrency, RateInv
    <3>2. s \in Foreign
      BY <2>1, <2>7, <3>1 DEF Foreign
    <3>3. Need(s)' = Need(s) /\ Have' = Have
      BY <2>1, <3>1, SameRows DEF Need
    <3>4. \A x \in Tasks : Covers(x, s) => Covers(x, s)'
      BY <2>4, <2>6, <3>1, OthersCover
    <3>5. QED
      BY <3>2, <3>3, <3>4 DEF CoverInv
  <2>10. QED
    BY <2>8, <2>9
<1>3. ASSUME Cron
      PROVE  Need(s)' \in Have' \/ \E t \in Tasks : Covers(t, s)'
  <2>1. UNCHANGED <<today, currency, snapshots, rates, faults, missed>>
    BY <1>3 DEF Cron
  <2>2. PICK t \in Tasks, kind \in {"fiat", "crypto"} : Begin(t, kind, Users, USD, today)
    BY <1>3 DEF Cron
  <2>3. PICK k2 : task' = [task EXCEPT ![t] = k2] /\ task[t].pc = "idle"
    BY <2>2 DEF Begin
  <2>4. s \in Foreign /\ Need(s)' = Need(s) /\ Have' = Have
    BY <2>1, SameRows DEF Foreign, Need
  <2>5. \A x \in Tasks : Covers(x, s) => Covers(x, s)'
    BY <2>1, <2>3, OthersCover
  <2>6. QED
    BY <2>4, <2>5 DEF CoverInv
<1>4. ASSUME Midnight \/ UNCHANGED vars
      PROVE  Need(s)' \in Have' \/ \E t \in Tasks : Covers(t, s)'
  <2>1. UNCHANGED <<currency, snapshots, rates, task, missed>>
    BY <1>4 DEF Midnight, vars
  <2>2. s \in Foreign /\ Need(s)' = Need(s) /\ Have' = Have
    BY <2>1, SameRows DEF Foreign, Need
  <2>3. \A x \in Tasks : Covers(x, s) => Covers(x, s)'
    BY <2>1, <2>2 DEF Covers
  <2>4. QED
    BY <2>2, <2>3 DEF CoverInv
<1>5. ASSUME NEW t \in Tasks, TaskStep(t) \/ QueryThrows(t)
      PROVE  Need(s)' \in Have' \/ \E x \in Tasks : Covers(x, s)'
  <2>1. /\ Works(t) /\ Have \subseteq Have'
        /\ UNCHANGED <<currency, snapshots>>
    BY <1>5, StepsWell
  <2>2. s \in Foreign /\ Need(s)' = Need(s)
    BY <2>1 DEF Foreign, Need
  <2>3. PICK k2 : task' = [task EXCEPT ![t] = k2]
    BY <2>1 DEF Works, GoesTo
  <2>4. CASE Need(s) \in Have
    BY <2>1, <2>2, <2>4
  <2>5. ASSUME NEW x \in Tasks, Covers(x, s)
        PROVE  Need(s)' \in Have' \/ \E y \in Tasks : Covers(y, s)'
    <3>1. CASE x = t
      BY <1>5, <2>2, <2>5, <3>1, CoveredOn
    <3>2. CASE x # t
      <4>1. task'[x] = task[x]
        BY <2>3, <3>2 DEF RateInv, TasksOK
      <4>2. Covers(x, s)'
        BY <2>1, <2>2, <2>5, <4>1 DEF Covers
      <4>3. QED
        BY <4>2
    <3>3. QED
      BY <3>1, <3>2
  <2>6. QED
    BY <2>2, <2>4, <2>5 DEF CoverInv
<1>6. ASSUME Crash
      PROVE  Need(s)' \in Have' \/ \E x \in Tasks : Covers(x, s)'
  <2>1. UNCHANGED <<currency, snapshots>> /\ missed' = missed \cup Lost(Tasks)
    BY <1>6 DEF Crash
  <2>2. s \in Foreign /\ Need(s)' = Need(s)
    BY <2>1 DEF Foreign, Need
  <2>3. Need(s) \in Lost(Tasks)
    BY <2>2, LostTyped
  <2>4. QED
    BY <2>1, <2>2, <2>3 DEF Have
<1>7. QED
  BY <1>1, <1>2, <1>3, <1>4, <1>5, <1>6 DEF Next

(* Once no task is in progress, every snapshot in another currency than    *)
(* its user's has its rate, but those a task could not get or store:       *)
(* changes of the currency and new snapshots never pass each other unseen. *)
THEOREM NoSnapshotForgotten == Spec => []NothingForgotten
<1>1. Init => CoverInv
  BY DEF Init, CoverInv, Foreign
<1>2. RateInv /\ CoverInv => NothingForgotten
  BY IdleCoversNothing DEF CoverInv, NothingForgotten, Have
<1>3. QED
  BY <1>1, <1>2, CoverStays, RateInvHolds, PTL DEF Spec
=============================================================================
