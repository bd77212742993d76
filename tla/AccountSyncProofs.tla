-------------------------- MODULE AccountSyncProofs --------------------------
(***************************************************************************)
(* Theorems about AccountSync, for any links, syncs, accounts and bounds:  *)
(* its types, and what syncing guarantees when its calls do not overlap.   *)
(***************************************************************************)
EXTENDS BalanceSnapshots, FiniteSetTheorems, TLAPS

Steps == {"idle", "fetch", "saveLink", "saveNew", "find", "save", "done"}

LEMMA NoneTypes == None \in [Ext -> 0..MaxVersion] /\ None \in [Ext -> Nat]
  BY AccountAssumption DEF None

(* What finishing a call leaves. *)
LEMMA FinishTypes ==
  ASSUME TypeOK, NEW c \in Calls, NEW q \in Steps, Finish(c, q)
  PROVE  /\ pc' \in [Calls -> Steps]
         /\ got' \in [Calls -> [Ext -> 0..MaxVersion]]
         /\ held' \in [Syncs -> [Ext -> Nat]]
         /\ target' \in [Syncs -> Links \cup {NoLink}]
  BY NoneTypes DEF TypeOK, Steps, Finish, Goto

LEMMA FinishTargets ==
  ASSUME TypeOK, NEW c \in Calls, NEW q \in Steps, Finish(c, q),
         c \in Syncs => q = "idle", links' = links
  PROVE  \A s \in Syncs : pc'[s] # "idle" => target'[s] \in links'
  BY AccountAssumption DEF TypeOK, Finish, Goto, Calls

LEMMA NewTypes ==
  ASSUME TypeOK, NEW c \in Calls, NEW l \in Links, NEW e \in Fetched(c)
  PROVE  /\ NewAccount(c, l, e) \in Account
         /\ EventOf(NewAccount(c, l, e), TRUE) \in Event
  BY AccountAssumption DEF TypeOK, Fetched, NewAccount, Account, EventOf, Event

LEMMA UpdatedTypes ==
  ASSUME TypeOK, NEW s \in Syncs, NEW e \in Fetched(s),
         target[s] \in Links, held[s][e] # 0
  PROVE  /\ Updated(s, e) \in Account
         /\ EventOf(Updated(s, e), FALSE) \in Event
  BY AccountAssumption
     DEF TypeOK, Fetched, Updated, Account, EventOf, Event, Calls

LEMMA TypeStep == TypeOK /\ [Next]_vars => TypeOK'
<1> SUFFICES ASSUME TypeOK, [Next]_vars
             PROVE  TypeOK'
  OBVIOUS
<1> USE AccountAssumption DEF callVars, tableVars
<1>1. ASSUME NEW e \in Ext, Change(e)
      PROVE  TypeOK'
  BY <1>1 DEF TypeOK, Change
<1>2. ASSUME NEW l \in Links, StartLink(l)
      PROVE  TypeOK'
  BY <1>2 DEF TypeOK, StartLink, MayStart, Goto, Calls
<1>3. ASSUME NEW l \in Links, SaveLink(l)
      PROVE  TypeOK'
  BY <1>3 DEF TypeOK, SaveLink, Goto, Calls
<1>4. ASSUME NEW l \in Links, SaveNewAccounts(l)
      PROVE  TypeOK'
  <2> DEFINE new == {NewAccount(l, l, e) : e \in Fetched(l)}
  <2>a. \A a \in new : a \in Account /\ EventOf(a, TRUE) \in Event
    BY NewTypes DEF Calls
  <2>b. accounts' = accounts \cup new /\ emitted' = {EventOf(a, TRUE) : a \in new}
    BY <1>4 DEF SaveNewAccounts
  <2> HIDE DEF new
  <2>1. accounts' \subseteq Account /\ emitted' \subseteq Event
    BY <2>a, <2>b DEF TypeOK
  <2>2. serial' \in [Ext -> Nat]
    BY <1>4 DEF SaveNewAccounts, TypeOK, Insert
  <2>3. Finish(l, "done") /\ l \in Calls /\ l \notin Syncs
    BY <1>4 DEF SaveNewAccounts, Calls
  <2>4. QED
    BY <1>4, <2>1, <2>2, <2>3, FinishTypes, FinishTargets
       DEF SaveNewAccounts, TypeOK, Steps
<1>5. ASSUME NEW s \in Syncs, NEW l \in Links, StartSync(s, l)
      PROVE  TypeOK'
  BY <1>5 DEF TypeOK, StartSync, Goto, Calls
<1>6. ASSUME NEW s \in Syncs, FetchAccounts(s)
      PROVE  TypeOK'
  <2>1. CASE Open = {}
    BY <1>6, <2>1, FinishTypes, FinishTargets
       DEF FetchAccounts, TypeOK, Calls, Steps
  <2>2. CASE Open # {}
    <3>1. /\ pc[s] = "fetch"
          /\ pc' = [pc EXCEPT ![s] = "find"]
          /\ got' = [got EXCEPT ![s] = balance]
          /\ UNCHANGED <<balance, tableVars, target, held, faults, deletes>>
      BY <1>6, <2>2 DEF FetchAccounts, Goto
    <3>2. QED
      BY <3>1 DEF TypeOK, Calls
  <2>3. QED
    BY <2>1, <2>2
<1>7. ASSUME NEW s \in Syncs, FindExisting(s)
      PROVE  TypeOK'
  <2>1. PICK h \in [Ext -> {0} \cup {a.id : a \in accounts}] :
              held' = [held EXCEPT ![s] = h]
    BY <1>7 DEF FindExisting
  <2>2. h \in [Ext -> Nat]
    BY <2>1 DEF TypeOK, Account
  <2>3. QED
    BY <1>7, <2>1, <2>2 DEF FindExisting, TypeOK, Goto, Calls
<1>8. ASSUME NEW s \in Syncs, SaveAccounts(s)
      PROVE  TypeOK'
  <2>1. s \in Calls /\ target[s] \in Links
    BY <1>8 DEF SaveAccounts, TypeOK, Calls
  <2> DEFINE found == {e \in Fetched(s) : held[s][e] # 0}
             upd == {Updated(s, e) : e \in found}
             new == {NewAccount(s, target[s], e) : e \in Fetched(s) \ found}
  <2>a. \A a \in upd : a \in Account /\ EventOf(a, FALSE) \in Event
    BY <2>1, UpdatedTypes
  <2>b. \A a \in new : a \in Account /\ EventOf(a, TRUE) \in Event
    BY <2>1, NewTypes
  <2>c. /\ accounts' = upd \cup new \cup
              {a \in accounts : \A u \in upd : ~SameRow(a, u)}
        /\ emitted' = {EventOf(a, TRUE) : a \in new} \cup
                      {EventOf(a, FALSE) : a \in upd}
    BY <1>8 DEF SaveAccounts
  <2> HIDE DEF new, upd
  <2>2. accounts' \subseteq Account /\ emitted' \subseteq Event
    BY <2>a, <2>b, <2>c DEF TypeOK
  <2>3. serial' \in [Ext -> Nat]
    BY <1>8 DEF SaveAccounts, TypeOK, Insert
  <2>4. Finish(s, "idle")
    BY <1>8 DEF SaveAccounts
  <2>5. QED
    BY <1>8, <2>1, <2>2, <2>3, <2>4, FinishTypes, FinishTargets
       DEF SaveAccounts, TypeOK, Steps
<1>9. ASSUME NEW c \in Calls, Throws(c)
      PROVE  TypeOK'
  <2> DEFINE q == IF c \in Links THEN "done" ELSE "idle"
  <2>1. Finish(c, q) /\ q \in Steps /\ (c \in Syncs => q = "idle")
    BY <1>9 DEF Throws, Steps
  <2> HIDE DEF q
  <2>2. QED
    BY <1>9, <2>1, FinishTypes, FinishTargets DEF Throws, TypeOK, Steps
<1>10. ASSUME NEW a \in accounts, DeleteAccount(a)
       PROVE  TypeOK'
  BY <1>10 DEF TypeOK, DeleteAccount
<1>11. CASE UNCHANGED vars
  BY <1>11 DEF TypeOK, vars
<1>12. QED
  BY <1>1, <1>2, <1>3, <1>4, <1>5, <1>6, <1>7, <1>8, <1>9, <1>10, <1>11
     DEF Next, SyncStep

LEMMA InitTypes == Init => TypeOK
<1> SUFFICES ASSUME Init
             PROVE  TypeOK
  OBVIOUS
<1>1. pc \in [Calls -> Steps] /\ \A s \in Syncs : pc[s] = "idle"
  BY DEF Init, Calls, Steps
<1>2. got \in [Calls -> [Ext -> 0..MaxVersion]] /\ held \in [Syncs -> [Ext -> Nat]]
  BY NoneTypes DEF Init
<1>3. balance \in [Ext -> 0..MaxVersion] /\ serial \in [Ext -> Nat]
  BY NoneTypes DEF Init
<1>4. QED
  BY <1>1, <1>2, <1>3, AccountAssumption DEF Init, TypeOK, Steps

(* Every variable keeps its type; in particular a sync in progress has a   *)
(* saved bank link as its target.                                          *)
THEOREM TypeCorrect == Spec => []TypeOK
<1>1. QED
  BY InitTypes, TypeStep, PTL DEF Spec

-----------------------------------------------------------------------------
(* However calls overlap, ids are never given twice and a row is stored    *)
(* once.                                                                   *)
KeysUnique == \A a, b \in accounts : SameRow(a, b) => a = b

IdsUsed ==
    /\ \A a \in accounts : a.id <= serial[a.ext]
    /\ \A s \in Syncs, e \in Ext : held[s][e] <= serial[e]

KeyInv == TypeOK /\ KeysUnique /\ IdsUsed

(* A call that finishes is busy no more and forgets what it fetched and    *)
(* found; the others are as they were.                                     *)
LEMMA FinishOrder ==
  ASSUME TypeOK, NEW c \in Calls, NEW q \in {"idle", "done"}, Finish(c, q)
  PROVE  /\ \A d \in Calls : d # c => pc'[d] = pc[d] /\ got'[d] = got[d]
         /\ pc'[c] = q /\ got'[c] = None
         /\ \A s \in Syncs : s # c => held'[s] = held[s]
         /\ c \in Syncs => held'[c] = None
         /\ \A d \in Calls, e \in Ext : got'[d][e] = got[d][e] \/ got'[d][e] = 0
         /\ \A s \in Syncs, e \in Ext : held'[s][e] = held[s][e] \/ held'[s][e] = 0
<1>1. /\ pc' = [pc EXCEPT ![c] = q] /\ got' = [got EXCEPT ![c] = None]
      /\ c \in Syncs => held' = [held EXCEPT ![c] = None]
      /\ c \notin Syncs => held' = held
  BY DEF Finish, Goto
<1>2. \A e \in Ext : None[e] = 0
  BY DEF None
<1>3. \A d \in Calls, e \in Ext : got'[d][e] = got[d][e] \/ got'[d][e] = 0
  BY <1>1, <1>2 DEF TypeOK
<1>4. \A s \in Syncs, e \in Ext : held'[s][e] = held[s][e] \/ held'[s][e] = 0
  BY <1>1, <1>2 DEF TypeOK
<1>5. QED
  BY <1>1, <1>3, <1>4 DEF TypeOK

(* The rows a call inserts have ids of their own. *)
NewRows(c, l, es) == {NewAccount(c, l, e) : e \in es}

LEMMA InsertKeys ==
  ASSUME KeyInv, NEW c \in Calls, NEW l \in Links, NEW es \in SUBSET Fetched(c),
         Insert(NewRows(c, l, es))
  PROVE  LET new == NewRows(c, l, es) IN
         /\ \A a \in new : a.ext \in es /\ a.id = serial[a.ext] + 1
         /\ \A a, b \in new : a.ext = b.ext => a = b
         /\ \A e \in Ext : serial'[e] \in Nat /\ serial[e] <= serial'[e]
         /\ \A a \in new : a.id <= serial'[a.ext]
<1> DEFINE new == NewRows(c, l, es)
<1>1. \A a \in new : a.ext \in es /\ a.id = serial[a.ext] + 1
  BY DEF NewRows, NewAccount
<1>2. \A a, b \in new : a.ext = b.ext => a = b
  BY DEF NewRows, NewAccount
<1>3. serial \in [Ext -> Nat] /\ es \subseteq Ext
  BY DEF KeyInv, TypeOK, Fetched
<1>4. serial' = [e \in Ext |-> IF \E a \in new : a.ext = e THEN serial[e] + 1
                                                        ELSE serial[e]]
  BY DEF Insert
<1> HIDE DEF new
<1>5. \A e \in Ext : serial'[e] \in Nat /\ serial[e] <= serial'[e]
  BY <1>3, <1>4
<1>6. \A a \in new : a.id <= serial'[a.ext]
  BY <1>1, <1>3, <1>4
<1>7. QED
  BY <1>1, <1>2, <1>5, <1>6 DEF new

LEMMA KeyStep == KeyInv /\ [Next]_vars => KeyInv'
<1> SUFFICES ASSUME KeyInv, [Next]_vars
             PROVE  KeysUnique' /\ IdsUsed'
  BY TypeStep DEF KeyInv
<1>0. /\ \A s \in Syncs, e \in Ext : held[s][e] \in Nat
      /\ \A e \in Ext : serial[e] \in Nat
      /\ \A a \in accounts : a.ext \in Ext /\ a.id \in Nat
  BY AccountAssumption DEF KeyInv, TypeOK, Account
<1>a. ASSUME UNCHANGED <<accounts, serial>>,
             \A s \in Syncs, e \in Ext : held'[s][e] <= serial[e]
      PROVE  KeysUnique' /\ IdsUsed'
  BY <1>a DEF KeyInv, KeysUnique, IdsUsed
<1>b. ASSUME UNCHANGED <<accounts, serial, held>>
      PROVE  KeysUnique' /\ IdsUsed'
  BY <1>b DEF KeyInv, KeysUnique, IdsUsed
<1>c. ASSUME NEW c \in Calls, NEW q \in {"idle", "done"}, Finish(c, q)
      PROVE  \A s \in Syncs, e \in Ext : held'[s][e] <= serial[e]
  <2>1. \A s \in Syncs, e \in Ext : held'[s][e] = held[s][e] \/ held'[s][e] = 0
    BY <1>c, FinishOrder DEF KeyInv
  <2>2. QED
    BY <1>0, <2>1 DEF KeyInv, IdsUsed
<1>1. ASSUME NEW e \in Ext, Change(e)
      PROVE  KeysUnique' /\ IdsUsed'
  BY <1>1, <1>b DEF Change, tableVars, callVars
<1>2. ASSUME NEW l \in Links, StartLink(l) \/ SaveLink(l)
      PROVE  KeysUnique' /\ IdsUsed'
  BY <1>2, <1>b DEF StartLink, SaveLink, tableVars
<1>3. ASSUME NEW l \in Links, SaveNewAccounts(l)
      PROVE  KeysUnique' /\ IdsUsed'
  <2> DEFINE new == NewRows(l, l, Fetched(l))
  <2>1. accounts' = accounts \cup new /\ Insert(new) /\ Finish(l, "done")
    BY <1>3 DEF SaveNewAccounts, NewRows
  <2>2. held' = held
    BY <2>1, AccountAssumption DEF Finish
  <2> HIDE DEF new
  <2>3. /\ \A a \in new : a.ext \in Fetched(l) /\ a.id = serial[a.ext] + 1
        /\ \A a, b \in new : a.ext = b.ext => a = b
        /\ \A e \in Ext : serial'[e] \in Nat /\ serial[e] <= serial'[e]
        /\ \A a \in new : a.id <= serial'[a.ext]
    BY <2>1, InsertKeys DEF Calls, new
  <2>4. KeysUnique'
    BY <1>0, <2>1, <2>3 DEF KeyInv, KeysUnique, IdsUsed, SameRow, Fetched
  <2>5. \A a \in accounts' : a.id <= serial'[a.ext]
    BY <1>0, <2>1, <2>3 DEF KeyInv, IdsUsed
  <2>6. \A s \in Syncs, e \in Ext : held'[s][e] <= serial'[e]
    BY <1>0, <2>2, <2>3 DEF KeyInv, IdsUsed
  <2>7. QED
    BY <2>4, <2>5, <2>6 DEF IdsUsed
<1>4. ASSUME NEW s \in Syncs, NEW l \in Links, StartSync(s, l)
      PROVE  KeysUnique' /\ IdsUsed'
  BY <1>4, <1>b DEF StartSync, tableVars
<1>5. ASSUME NEW s \in Syncs, FetchAccounts(s)
      PROVE  KeysUnique' /\ IdsUsed'
  <2>1. CASE Open = {}
    BY <1>5, <2>1, <1>a, <1>c DEF FetchAccounts, Calls, tableVars
  <2>2. CASE Open # {}
    BY <1>5, <2>2, <1>b DEF FetchAccounts, tableVars
  <2>3. QED
    BY <2>1, <2>2
<1>6. ASSUME NEW s \in Syncs, FindExisting(s)
      PROVE  KeysUnique' /\ IdsUsed'
  <2>1. PICK h \in [Ext -> {0} \cup {a.id : a \in accounts}] :
          /\ \A e \in Ext : h[e] = 0 \/ \E a \in Rows(e) : h[e] = a.id
          /\ held' = [held EXCEPT ![s] = h]
    BY <1>6 DEF FindExisting
  <2>2. \A e \in Ext : h[e] <= serial[e]
    BY <1>0, <2>1 DEF Rows, KeyInv, IdsUsed
  <2>3. \A t \in Syncs, e \in Ext : held'[t][e] <= serial[e]
    BY <2>1, <2>2 DEF KeyInv, IdsUsed, TypeOK
  <2>4. QED
    BY <1>6, <2>3, <1>a DEF FindExisting, tableVars
<1>7. ASSUME NEW s \in Syncs, SaveAccounts(s)
      PROVE  KeysUnique' /\ IdsUsed'
  <2> DEFINE found == {e \in Fetched(s) : held[s][e] # 0}
             upd == {Updated(s, e) : e \in found}
             new == NewRows(s, target[s], Fetched(s) \ found)
             old == {a \in accounts : \A u \in upd : ~SameRow(a, u)}
  <2>1. /\ pc[s] = "save" /\ accounts' = upd \cup new \cup old
        /\ Insert(new) /\ Finish(s, "idle")
    BY <1>7 DEF SaveAccounts, NewRows
  <2>2. target[s] \in Links /\ s \in Calls
    BY <2>1 DEF KeyInv, TypeOK, Calls
  <2>3. \A a \in upd : a.ext \in found /\ a.id = held[s][a.ext]
    BY DEF Updated
  <2>4. \A a, b \in upd : a.ext = b.ext => a = b
    BY DEF Updated
  <2>5. \A a \in old : a \in accounts /\ \A u \in upd : ~SameRow(a, u)
    OBVIOUS
  <2>6. Fetched(s) \ found \in SUBSET Fetched(s) /\ Fetched(s) \subseteq Ext
    BY DEF Fetched
  <2>7. /\ \A a \in new : a.ext \in Fetched(s) \ found /\ a.id = serial[a.ext] + 1
        /\ \A a, b \in new : a.ext = b.ext => a = b
        /\ \A e \in Ext : serial'[e] \in Nat /\ serial[e] <= serial'[e]
        /\ \A a \in new : a.id <= serial'[a.ext]
    <3> HIDE DEF found
    <3>1. QED
      BY <2>1, <2>2, <2>6, InsertKeys
  <2>8. found \subseteq Fetched(s)
    OBVIOUS
  <2> HIDE DEF new, upd, old, found
  <2>9. KeysUnique'
    BY <1>0, <2>1, <2>3, <2>4, <2>5, <2>6, <2>7, <2>8
       DEF KeyInv, KeysUnique, IdsUsed, SameRow
  <2>10. ASSUME NEW a \in upd
         PROVE  a.id <= serial'[a.ext]
    BY <1>0, <2>3, <2>6, <2>7, <2>8 DEF KeyInv, IdsUsed
  <2>11. ASSUME NEW a \in old
         PROVE  a.id <= serial'[a.ext]
    BY <1>0, <2>5, <2>7 DEF KeyInv, IdsUsed
  <2>12. ASSUME NEW t \in Syncs, NEW e \in Ext
         PROVE  held'[t][e] <= serial'[e]
    <3>1. held'[t][e] <= serial[e]
      BY <1>c, <2>1, <2>2
    <3>2. held'[t][e] \in Nat
      BY TypeStep DEF TypeOK, KeyInv
    <3>3. QED
      BY <1>0, <2>7, <3>1, <3>2
  <2>13. QED
    BY <2>1, <2>7, <2>9, <2>10, <2>11, <2>12 DEF IdsUsed
<1>8. ASSUME NEW c \in Calls, Throws(c)
      PROVE  KeysUnique' /\ IdsUsed'
  <2>1. (IF c \in Links THEN "done" ELSE "idle") \in {"idle", "done"}
    OBVIOUS
  <2>2. QED
    BY <1>8, <2>1, <1>a, <1>c DEF Throws, tableVars
<1>9. ASSUME NEW a \in accounts, DeleteAccount(a)
      PROVE  KeysUnique' /\ IdsUsed'
  BY <1>9 DEF DeleteAccount, callVars, KeyInv, KeysUnique, IdsUsed
<1>10. CASE UNCHANGED vars
  BY <1>10, <1>b DEF vars, tableVars, callVars
<1>11. QED
  BY <1>1, <1>2, <1>3, <1>4, <1>5, <1>6, <1>7, <1>8, <1>9, <1>10 DEF Next, SyncStep

LEMMA KeyInit == Init => KeyInv
<1>1. \A e \in Ext : None[e] = 0
  BY DEF None
<1>2. QED
  BY <1>1, InitTypes DEF Init, KeyInv, KeysUnique, IdsUsed

LEMMA KeyInvariant == Spec => []KeyInv
  BY KeyInit, KeyStep, PTL DEF Spec

-----------------------------------------------------------------------------
(* Every row of an external account can be charged to a call of its own,   *)
(* one that will not insert another: a linking call that is done, or the   *)
(* sync that inserted it.  A sync that would insert one has found none, so *)
(* the rows are then those that other syncs still hold and will store      *)
(* again.                                                                  *)
WillSave(s, e) == pc[s] = "save" /\ e \in Fetched(s)

RowIds(e) ==
    {a.id : a \in Rows(e)} \cup
    {held[s][e] : s \in {x \in Syncs : WillSave(x, e) /\ held[x][e] # 0}}

Unspent(e) ==
    {l \in Links : pc[l] # "done"} \cup
    {s \in Syncs : WillSave(s, e) /\ held[s][e] = 0}

Charged(e) == ExistsInjection(RowIds(e), Calls \ Unspent(e))

CopiesInv == \A e \in Ext : Charged(e)

LEMMA InjectionKept ==
  ASSUME NEW S, NEW T, NEW S2 \in SUBSET S, NEW T2, T \subseteq T2, ExistsInjection(S, T)
  PROVE  ExistsInjection(S2, T2)
<1>1. PICK f \in [S -> T] : \A x, y \in S : f[x] = f[y] => x = y
  BY DEF ExistsInjection, Injection, IsInjective
<1> DEFINE g == [x \in S2 |-> f[x]]
<1>2. g \in [S2 -> T2] /\ \A x, y \in S2 : g[x] = g[y] => x = y
  BY <1>1
<1> HIDE DEF g
<1>3. g \in Injection(S2, T2)
  BY <1>2 DEF Injection, IsInjective
<1>4. QED
  BY <1>3 DEF ExistsInjection

LEMMA InjectionGrows ==
  ASSUME NEW S, NEW T, NEW x, NEW c, c \notin T, ExistsInjection(S, T)
  PROVE  ExistsInjection(S \cup {x}, T \cup {c})
<1>1. PICK f \in [S -> T] : \A y, z \in S : f[y] = f[z] => y = z
  BY DEF ExistsInjection, Injection, IsInjective
<1> DEFINE g == [y \in S \cup {x} |-> IF y \in S THEN f[y] ELSE c]
<1>2. g \in [S \cup {x} -> T \cup {c}]
  BY <1>1
<1>3. \A y, z \in S \cup {x} : g[y] = g[z] => y = z
  BY <1>1
<1> HIDE DEF g
<1>4. g \in Injection(S \cup {x}, T \cup {c})
  BY <1>2, <1>3 DEF Injection, IsInjective
<1>5. QED
  BY <1>4 DEF ExistsInjection

(* What no longer stands for a row, or is no longer unspent, frees a call. *)
LEMMA ChargedStays ==
  ASSUME NEW e \in Ext, Charged(e), RowIds(e)' \subseteq RowIds(e),
         Unspent(e)' \subseteq Unspent(e)
  PROVE  Charged(e)'
BY InjectionKept DEF Charged, Calls

(* A call that inserts a row is charged for it. *)
LEMMA ChargedInsert ==
  ASSUME NEW e \in Ext, Charged(e), NEW x, RowIds(e)' \subseteq RowIds(e) \cup {x},
         NEW c \in Unspent(e), Unspent(e)' \subseteq Unspent(e) \ {c}
  PROVE  Charged(e)'
<1>1. c \in Calls
  BY DEF Unspent, Calls
<1>2. ExistsInjection(RowIds(e) \cup {x}, (Calls \ Unspent(e)) \cup {c})
  BY InjectionGrows DEF Charged
<1>3. (Calls \ Unspent(e)) \cup {c} \subseteq Calls \ Unspent(e)'
  BY <1>1
<1>4. QED
  BY <1>2, <1>3, InjectionKept DEF Charged, Calls

(* While there is no row, each sync that holds one is charged for it. *)
LEMMA ChargedHolders ==
  ASSUME NEW e \in Ext, Rows(e)' = {}
  PROVE  Charged(e)'
<1> DEFINE ids == RowIds(e)'
           free == Calls' \ Unspent(e)'
           holders == {s \in Syncs : WillSave(s, e)' /\ held'[s][e] # 0}
           f == [i \in ids |-> CHOOSE s \in holders : held'[s][e] = i]
<1>1. ids = {held'[s][e] : s \in holders}
  BY DEF RowIds
<1>2. holders \subseteq free
  BY AccountAssumption DEF Unspent, Calls
<1>3. \A i \in ids : f[i] \in holders /\ held'[f[i]][e] = i
  BY <1>1
<1> HIDE DEF ids, free, holders
<1>4. f \in [ids -> free] /\ \A i, j \in ids : f[i] = f[j] => i = j
  BY <1>2, <1>3
<1> HIDE DEF f
<1>5. f \in Injection(ids, free)
  BY <1>4 DEF Injection, IsInjective
<1>6. QED
  BY <1>5 DEF ExistsInjection, Charged, ids, free

(* A call that ends without a save holds nothing. *)
LEMMA ChargedFinish ==
  ASSUME KeyInv, CopiesInv, NEW c \in Calls, NEW q \in {"idle", "done"}, Finish(c, q),
         c \in Links => q = "done", accounts' \subseteq accounts
  PROVE  CopiesInv'
<1> SUFFICES ASSUME NEW e \in Ext
             PROVE  Charged(e)'
  BY DEF CopiesInv
<1>1. /\ \A d \in Calls : d # c => pc'[d] = pc[d] /\ got'[d] = got[d]
      /\ pc'[c] = q
      /\ \A s \in Syncs : s # c => held'[s] = held[s]
  BY FinishOrder DEF KeyInv
<1>2. \A s \in Syncs : WillSave(s, e)' => WillSave(s, e) /\ held'[s] = held[s]
  BY <1>1 DEF WillSave, Fetched, Calls
<1>3. RowIds(e)' \subseteq RowIds(e)
  BY <1>2 DEF RowIds, Rows
<1>4. Unspent(e)' \subseteq Unspent(e)
  BY <1>1, <1>2, AccountAssumption DEF Unspent, Calls
<1>5. QED
  BY <1>3, <1>4, ChargedStays DEF CopiesInv

LEMMA CopiesStep == KeyInv /\ CopiesInv /\ [Next]_vars => CopiesInv'
<1> SUFFICES ASSUME KeyInv, CopiesInv, [Next]_vars
             PROVE  CopiesInv'
  OBVIOUS
<1> USE DEF KeyInv
(* Steps that begin no save *)
<1>a. ASSUME accounts' \subseteq accounts, UNCHANGED held,
             \A s \in Syncs : pc'[s] = "save" => pc[s] = "save" /\ got'[s] = got[s],
             \A l \in Links : pc[l] = "done" => pc'[l] = "done"
      PROVE  CopiesInv'
  <2> SUFFICES ASSUME NEW e \in Ext
               PROVE  Charged(e)'
    BY DEF CopiesInv
  <2>1. \A s \in Syncs : WillSave(s, e)' => WillSave(s, e)
    BY <1>a DEF WillSave, Fetched
  <2>2. RowIds(e)' \subseteq RowIds(e) /\ Unspent(e)' \subseteq Unspent(e)
    BY <1>a, <2>1 DEF RowIds, Rows, Unspent
  <2>3. QED
    BY <2>2, ChargedStays DEF CopiesInv
<1>1. ASSUME NEW e \in Ext, Change(e)
      PROVE  CopiesInv'
  BY <1>1, <1>a DEF Change, tableVars, callVars
<1>2. ASSUME NEW l \in Links, StartLink(l) \/ SaveLink(l)
      PROVE  CopiesInv'
  BY <1>2, <1>a, AccountAssumption
     DEF StartLink, SaveLink, MayStart, Goto, tableVars, TypeOK, Calls
<1>3. ASSUME NEW l \in Links, SaveNewAccounts(l)
      PROVE  CopiesInv'
  <2> SUFFICES ASSUME NEW e \in Ext
               PROVE  Charged(e)'
    BY DEF CopiesInv
  <2>1. /\ pc[l] = "saveNew" /\ Finish(l, "done") /\ l \in Calls /\ l \notin Syncs
        /\ accounts' = accounts \cup NewRows(l, l, Fetched(l))
    BY <1>3, AccountAssumption DEF SaveNewAccounts, NewRows, Calls
  <2>2. /\ \A d \in Calls : d # l => pc'[d] = pc[d] /\ got'[d] = got[d]
        /\ pc'[l] = "done" /\ held' = held
    BY <2>1, FinishOrder DEF Finish
  <2>3. \A s \in Syncs : WillSave(s, e)' <=> WillSave(s, e)
    BY <2>1, <2>2 DEF WillSave, Fetched, Calls
  <2>4. RowIds(e)' \subseteq RowIds(e) \cup {serial[e] + 1}
    <3>1. \A a \in NewRows(l, l, Fetched(l)) : a.ext = e => a.id = serial[e] + 1
      BY DEF NewRows, NewAccount
    <3>2. QED
      BY <2>1, <2>2, <2>3, <3>1 DEF RowIds, Rows
  <2>5. l \in Unspent(e) /\ Unspent(e)' \subseteq Unspent(e) \ {l}
    BY <2>1, <2>2, <2>3, AccountAssumption DEF Unspent, Calls
  <2>6. QED
    BY <2>4, <2>5, ChargedInsert DEF CopiesInv
<1>4. ASSUME NEW s \in Syncs, NEW l \in Links, StartSync(s, l)
      PROVE  CopiesInv'
  BY <1>4, <1>a, AccountAssumption DEF StartSync, Goto, tableVars, TypeOK, Calls
<1>5. ASSUME NEW s \in Syncs, FetchAccounts(s)
      PROVE  CopiesInv'
  <2>1. CASE Open = {}
    BY <1>5, <2>1, ChargedFinish, AccountAssumption DEF FetchAccounts, Calls, tableVars
  <2>2. CASE Open # {}
    <3>1. /\ pc' = [pc EXCEPT ![s] = "find"] /\ got' = [got EXCEPT ![s] = balance]
          /\ UNCHANGED <<accounts, held>>
      BY <1>5, <2>2 DEF FetchAccounts, Goto, tableVars
    <3>2. QED
      BY <3>1, <1>a, AccountAssumption DEF TypeOK, Calls
  <2>3. QED
    BY <2>1, <2>2
<1>6. ASSUME NEW s \in Syncs, FindExisting(s)
      PROVE  CopiesInv'
  <2> SUFFICES ASSUME NEW e \in Ext
               PROVE  Charged(e)'
    BY DEF CopiesInv
  <2>1. PICK h \in [Ext -> {0} \cup {a.id : a \in accounts}] :
          /\ IF e \in Fetched(s) /\ Rows(e) # {}
               THEN \E a \in Rows(e) : h[e] = a.id
               ELSE h[e] = 0
          /\ held' = [held EXCEPT ![s] = h]
    BY <1>6 DEF FindExisting
  <2>2. /\ pc[s] = "find" /\ pc' = [pc EXCEPT ![s] = "save"]
        /\ UNCHANGED <<got, accounts>>
    BY <1>6 DEF FindExisting, Goto, tableVars
  <2>3. held'[s] = h /\ \A t \in Syncs : t # s => held'[t] = held[t]
    BY <2>1 DEF TypeOK
  <2>4. /\ \A t \in Syncs : t # s => (WillSave(t, e)' <=> WillSave(t, e))
        /\ WillSave(s, e)' <=> e \in Fetched(s)
    BY <2>2 DEF WillSave, Fetched, TypeOK, Calls
  <2>5. CASE Rows(e) = {}
    BY <2>2, <2>5, ChargedHolders DEF Rows
  <2>6. CASE Rows(e) # {}
    <3>1. e \in Fetched(s) => h[e] # 0 /\ h[e] \in {a.id : a \in Rows(e)}
      BY <2>1, <2>6 DEF Rows, TypeOK, Account
    <3>2. RowIds(e)' \subseteq RowIds(e)
      BY <2>2, <2>3, <2>4, <3>1 DEF RowIds, Rows
    <3>3. Unspent(e)' \subseteq Unspent(e)
      BY <2>2, <2>3, <2>4, <3>1, AccountAssumption DEF Unspent, TypeOK, Calls
    <3>4. QED
      BY <3>2, <3>3, ChargedStays DEF CopiesInv
  <2>7. QED
    BY <2>5, <2>6
<1>7. ASSUME NEW s \in Syncs, SaveAccounts(s)
      PROVE  CopiesInv'
  <2> SUFFICES ASSUME NEW e \in Ext
               PROVE  Charged(e)'
    BY DEF CopiesInv
  <2> DEFINE found == {x \in Fetched(s) : held[s][x] # 0}
             upd == {Updated(s, x) : x \in found}
             new == NewRows(s, target[s], Fetched(s) \ found)
  <2>1. /\ pc[s] = "save" /\ Finish(s, "idle") /\ s \in Calls /\ s \notin Links
        /\ accounts' \subseteq upd \cup new \cup accounts
    BY <1>7, AccountAssumption DEF SaveAccounts, NewRows, Calls
  <2>2. /\ \A d \in Calls : d # s => pc'[d] = pc[d] /\ got'[d] = got[d]
        /\ pc'[s] = "idle" /\ \A t \in Syncs : t # s => held'[t] = held[t]
    BY <2>1, FinishOrder
  <2>3. \A t \in Syncs : WillSave(t, e)' => t # s /\ WillSave(t, e)
    BY <2>2 DEF WillSave, Fetched, Calls
  <2>4. \A a \in upd : a.ext = e => WillSave(s, e) /\ held[s][e] # 0 /\ a.id = held[s][e]
    BY <2>1 DEF Updated, WillSave
  <2>5. \A a \in new : a.ext = e =>
              WillSave(s, e) /\ held[s][e] = 0 /\ a.id = serial[e] + 1
    BY <2>1 DEF NewRows, NewAccount, WillSave
  <2> HIDE DEF upd, new
  <2>6. Unspent(e)' \subseteq Unspent(e) \ {s}
    BY <2>1, <2>2, <2>3, AccountAssumption DEF Unspent, Calls
  <2>7. CASE s \in Unspent(e)
    <3>1. RowIds(e)' \subseteq RowIds(e) \cup {serial[e] + 1}
      BY <2>1, <2>2, <2>3, <2>4, <2>5 DEF RowIds, Rows
    <3>2. QED
      BY <2>6, <2>7, <3>1, ChargedInsert DEF CopiesInv
  <2>8. CASE s \notin Unspent(e)
    <3>1. RowIds(e)' \subseteq RowIds(e)
      BY <2>1, <2>2, <2>3, <2>4, <2>5, <2>8 DEF RowIds, Rows, Unspent
    <3>2. QED
      BY <2>6, <3>1, ChargedStays DEF CopiesInv
  <2>9. QED
    BY <2>7, <2>8
<1>8. ASSUME NEW c \in Calls, Throws(c)
      PROVE  CopiesInv'
  <2> DEFINE q == IF c \in Links THEN "done" ELSE "idle"
  <2>1. /\ Finish(c, q) /\ q \in {"idle", "done"} /\ (c \in Links => q = "done")
        /\ accounts' \subseteq accounts
    BY <1>8 DEF Throws, tableVars
  <2> HIDE DEF q
  <2>2. QED
    BY <2>1, ChargedFinish
<1>9. ASSUME NEW a \in accounts, DeleteAccount(a)
      PROVE  CopiesInv'
  BY <1>9, <1>a DEF DeleteAccount, callVars
<1>10. CASE UNCHANGED vars
  BY <1>10, <1>a DEF vars, tableVars, callVars
<1>11. QED
  BY <1>1, <1>2, <1>3, <1>4, <1>5, <1>6, <1>7, <1>8, <1>9, <1>10 DEF Next, SyncStep

(* However calls, failures and deletions overlap, an external account has  *)
(* at most one row for each linking call and each sync in progress.        *)
THEOREM CopiesAreBounded == Spec => []CopiesBounded
<1>1. Init => CopiesInv
  <2> SUFFICES ASSUME Init, NEW e \in Ext
               PROVE  Charged(e)
    BY DEF CopiesInv
  <2>1. RowIds(e) = {}
    BY DEF Init, RowIds, Rows, WillSave, Calls
  <2>2. [x \in {} |-> x] \in Injection({}, Calls \ Unspent(e))
    BY DEF Injection, IsInjective
  <2>3. QED
    BY <2>1, <2>2 DEF Charged, ExistsInjection
<1>2. ASSUME KeyInv, CopiesInv
      PROVE  CopiesBounded
  <2> SUFFICES ASSUME NEW e \in Ext
               PROVE  Cardinality(Rows(e)) <= Cardinality(Calls)
    BY DEF CopiesBounded
  <2> DEFINE free == Calls \ Unspent(e)
             id == [a \in Rows(e) |-> a.id]
  <2>1. IsFiniteSet(Calls)
    BY AccountAssumption, FS_Union DEF Calls
  <2>2. IsFiniteSet(free) /\ Cardinality(free) <= Cardinality(Calls)
    BY <2>1, FS_Subset
  <2>3. PICK f \in Injection(RowIds(e), free) : TRUE
    BY <1>2 DEF CopiesInv, Charged, ExistsInjection
  <2> HIDE DEF free
  <2>4. IsFiniteSet(RowIds(e)) /\ Cardinality(RowIds(e)) <= Cardinality(free)
    BY <2>2, <2>3, FS_Injection
  <2>5. \A a, b \in Rows(e) : a.id = b.id => a = b
    BY <1>2 DEF Rows, KeyInv, KeysUnique, SameRow
  <2>6. id \in Injection(Rows(e), RowIds(e))
    BY <2>5 DEF Injection, IsInjective, RowIds
  <2> HIDE DEF id
  <2>7. IsFiniteSet(Rows(e)) /\ Cardinality(Rows(e)) <= Cardinality(RowIds(e))
    BY <2>4, <2>6, FS_Injection
  <2>8. /\ Cardinality(Rows(e)) \in Nat /\ Cardinality(RowIds(e)) \in Nat
        /\ Cardinality(free) \in Nat /\ Cardinality(Calls) \in Nat
    BY <2>1, <2>2, <2>4, <2>7, FS_CardinalityType
  <2>9. QED
    BY <2>2, <2>4, <2>7, <2>8
<1>3. QED
  BY <1>1, <1>2, CopiesStep, KeyInvariant, PTL DEF Spec

-----------------------------------------------------------------------------
(* Without overlap at most one call is in progress, so nothing is stored   *)
(* between a sync's fetch and its save, and what the sync fetched is at    *)
(* least as new as every row.                                              *)
Busy(c) == pc[c] \notin {"idle", "done"}

Exclusive == \A c, d \in Calls : Busy(c) /\ Busy(d) => c = d

NotAhead ==
    /\ \A a \in accounts : a.balance <= balance[a.ext]
    /\ \A c \in Calls, e \in Ext : got[c][e] <= balance[e]

FetchedLast ==
    \A s \in Syncs : pc[s] \in {"find", "save"} =>
        \A a \in accounts : a.balance <= got[s][a.ext]

Ordered == Exclusive /\ NotAhead /\ FetchedLast

OrderInv == KeyInv /\ Ordered

LEMMA FinishBounds ==
  ASSUME TypeOK, NotAhead, NEW c \in Calls, NEW q \in {"idle", "done"}, Finish(c, q)
  PROVE  \A d \in Calls, e \in Ext : got'[d][e] <= balance[e]
<1> SUFFICES ASSUME NEW d \in Calls, NEW e \in Ext
             PROVE  got'[d][e] <= balance[e]
  OBVIOUS
<1>1. got'[d][e] = got[d][e] \/ got'[d][e] = 0
  BY FinishOrder
<1>2. balance[e] \in Nat /\ got[d][e] <= balance[e]
  BY AccountAssumption DEF TypeOK, NotAhead
<1>3. QED
  BY <1>1, <1>2

LEMMA OrderStep == ~Overlap /\ OrderInv /\ [Next]_vars => OrderInv'
<1> SUFFICES ASSUME ~Overlap, OrderInv, [Next]_vars
             PROVE  Ordered'
  BY KeyStep DEF OrderInv, Ordered
<1> TypeOK'
  BY TypeStep DEF OrderInv, KeyInv
<1> /\ \A c \in Calls, e \in Ext : got[c][e] \in Nat /\ balance[e] \in Nat
    /\ \A a \in accounts : a.ext \in Ext /\ a.id \in Nat /\ a.balance \in Nat
  BY AccountAssumption DEF OrderInv, KeyInv, TypeOK, Account
<1> USE AccountAssumption
    DEF OrderInv, KeyInv, TypeOK, Ordered, Exclusive, Busy, NotAhead, FetchedLast,
        callVars, tableVars, Goto, Calls
<1>1. ASSUME NEW e \in Ext, Change(e)
      PROVE  Ordered'
  BY <1>1 DEF Change, Account
<1>2. ASSUME NEW l \in Links, StartLink(l)
      PROVE  Ordered'
  BY <1>2 DEF StartLink, MayStart, Account
<1>3. ASSUME NEW l \in Links, SaveLink(l)
      PROVE  Ordered'
  BY <1>3 DEF SaveLink
<1>4. ASSUME NEW l \in Links, SaveNewAccounts(l)
      PROVE  Ordered'
  <2> DEFINE new == {NewAccount(l, l, e) : e \in Fetched(l)}
  <2>1. /\ pc[l] = "saveNew" /\ l \notin Syncs
        /\ accounts' = accounts \cup new
        /\ UNCHANGED <<balance, links, faults, deletes>>
    BY <1>4 DEF SaveNewAccounts
  <2>2. \A a \in new : a.ext \in Ext /\ a.balance = got[l][a.ext]
    BY DEF NewAccount, Fetched
  <2>3. \A d \in Calls : ~(pc'[d] \notin {"idle", "done"})
    BY <1>4, <2>1, FinishOrder DEF SaveNewAccounts
  <2>4. \A d \in Calls, e \in Ext : got'[d][e] <= balance[e]
    BY <1>4, FinishBounds DEF SaveNewAccounts
  <2> HIDE DEF new
  <2>5. \A a \in accounts' : a.balance <= balance'[a.ext]
    BY <2>1, <2>2
  <2>6. QED
    BY <2>1, <2>3, <2>4, <2>5
<1>5. ASSUME NEW s \in Syncs, NEW l \in Links, StartSync(s, l)
      PROVE  Ordered'
  BY <1>5 DEF StartSync, MayStart
<1>6. ASSUME NEW s \in Syncs, FetchAccounts(s)
      PROVE  Ordered'
  <2>1. CASE Open = {}
    <3>1. /\ Finish(s, "idle")
          /\ balance' = balance /\ accounts' = accounts
      BY <1>6, <2>1 DEF FetchAccounts
    <3>2. \A d \in Calls : pc'[d] \notin {"idle", "done"} => pc'[d] = pc[d] /\ d # s
      BY <3>1, FinishOrder
    <3>3. \A d \in Calls : d # s => got'[d] = got[d]
      BY <3>1, FinishOrder
    <3>4. \A d \in Calls, e \in Ext : got'[d][e] <= balance[e]
      BY <3>1, FinishBounds
    <3>5. QED
      BY <3>1, <3>2, <3>3, <3>4
  <2>2. CASE Open # {}
    <3>1. /\ pc[s] = "fetch"
          /\ pc' = [pc EXCEPT ![s] = "find"]
          /\ got' = [got EXCEPT ![s] = balance]
          /\ UNCHANGED <<balance, tableVars, target, held, faults, deletes>>
      BY <1>6, <2>2 DEF FetchAccounts
    <3>2. QED
      BY <3>1 DEF Account
  <2>3. QED
    BY <2>1, <2>2
<1>7. ASSUME NEW s \in Syncs, FindExisting(s)
      PROVE  Ordered'
  BY <1>7 DEF FindExisting
<1>8. ASSUME NEW s \in Syncs, SaveAccounts(s)
      PROVE  Ordered'
  <2> DEFINE found == {e \in Fetched(s) : held[s][e] # 0}
             upd == {Updated(s, e) : e \in found}
             new == {NewAccount(s, target[s], e) : e \in Fetched(s) \ found}
             old == {a \in accounts : \A u \in upd : ~SameRow(a, u)}
  <2>1. /\ pc[s] = "save"
        /\ accounts' = upd \cup new \cup old
        /\ UNCHANGED <<balance, links, faults, deletes>>
    BY <1>8 DEF SaveAccounts
  <2>2. \A a \in new \cup upd : a.ext \in Ext /\ a.balance = got[s][a.ext]
    BY DEF NewAccount, Updated, Fetched
  <2>3. old \subseteq accounts
    OBVIOUS
  <2>4. \A d \in Calls : ~(pc'[d] \notin {"idle", "done"})
    BY <1>8, <2>1, FinishOrder DEF SaveAccounts
  <2>5. \A d \in Calls, e \in Ext : got'[d][e] <= balance[e]
    BY <1>8, FinishBounds DEF SaveAccounts
  <2> HIDE DEF new, upd, old
  <2>6. \A a \in accounts' : a.balance <= balance'[a.ext]
    BY <2>1, <2>2, <2>3
  <2>7. QED
    BY <2>1, <2>4, <2>5, <2>6
<1>9. ASSUME NEW c \in Calls, Throws(c)
      PROVE  Ordered'
  <2> DEFINE q == IF c \in Links THEN "done" ELSE "idle"
  <2>1. /\ Finish(c, q) /\ q \in {"idle", "done"}
        /\ balance' = balance /\ accounts' = accounts
    BY <1>9 DEF Throws
  <2> HIDE DEF q
  <2>2. \A d \in Calls : pc'[d] \notin {"idle", "done"} => pc'[d] = pc[d] /\ d # c
    BY <2>1, FinishOrder
  <2>3. \A d \in Calls : d # c => got'[d] = got[d]
    BY <2>1, FinishOrder
  <2>4. \A d \in Calls, e \in Ext : got'[d][e] <= balance[e]
    BY <2>1, FinishBounds
  <2>5. QED
    BY <2>1, <2>2, <2>3, <2>4
<1>10. ASSUME NEW a \in accounts, DeleteAccount(a)
       PROVE  Ordered'
  BY <1>10 DEF DeleteAccount
<1>11. CASE UNCHANGED vars
  BY <1>11 DEF vars
<1>12. QED
  BY <1>1, <1>2, <1>3, <1>4, <1>5, <1>6, <1>7, <1>8, <1>9, <1>10, <1>11
     DEF Next, SyncStep

LEMMA OrderInit == Init => OrderInv
<1> SUFFICES ASSUME Init
             PROVE  OrderInv
  OBVIOUS
<1>1. KeyInv
  BY KeyInit
<1>2. \A e \in Ext : None[e] = 0
  BY DEF None
<1>3. QED
  BY <1>1, <1>2
     DEF Init, OrderInv, Ordered, Exclusive, Busy, NotAhead, FetchedLast

LEMMA OrderInvariant == ~Overlap /\ Spec => []OrderInv
<1> SUFFICES ASSUME ~Overlap
             PROVE  Spec => []OrderInv
  OBVIOUS
<1>1. OrderInv /\ [Next]_vars => OrderInv'
  BY OrderStep
<1>2. QED
  BY <1>1, OrderInit, PTL DEF Spec

(* When calls do not overlap, no step takes an account row back to an      *)
(* older balance, with any number of links, syncs, accounts and faults.    *)
THEOREM NeverBack == ~Overlap /\ Spec => NoRollback
<1> SUFFICES ASSUME ~Overlap
             PROVE  Spec => NoRollback
  OBVIOUS
<1>1. ASSUME OrderInv, [Next]_vars
      PROVE  \A a \in accounts, b \in accounts' :
                SameRow(a, b) => a.balance <= b.balance
  <2> SUFFICES ASSUME NEW a \in accounts, NEW b \in accounts', SameRow(a, b)
               PROVE  a.balance <= b.balance
    OBVIOUS
  <2> USE AccountAssumption, <1>1 DEF OrderInv, KeyInv, Ordered, KeysUnique, IdsUsed, FetchedLast
  <2>1. /\ a.ext \in Ext /\ a.id \in Nat /\ a.balance \in Nat
        /\ serial[a.ext] \in Nat
    BY DEF TypeOK, Account
  <2>2. CASE b \in accounts
    BY <2>1, <2>2
  <2>3. ASSUME NEW l \in Links, SaveNewAccounts(l)
        PROVE  a.balance <= b.balance
    BY <2>1, <2>2, <2>3 DEF SaveNewAccounts, NewAccount, SameRow
  <2>4. ASSUME NEW s \in Syncs, SaveAccounts(s)
        PROVE  a.balance <= b.balance
    BY <2>1, <2>2, <2>4 DEF SaveAccounts, NewAccount, Updated, SameRow
  <2>5. QED
    BY <2>2, <2>3, <2>4
       DEF Next, SyncStep, vars, tableVars, Change, StartLink, SaveLink, StartSync,
           FetchAccounts, FindExisting, Throws, DeleteAccount
<1>2. QED
  BY <1>1, OrderInvariant, PTL DEF Spec, NoRollback

-----------------------------------------------------------------------------
(* With one bank link as well, no duplicate is ever stored: until linking  *)
(* is over there is no row, and a sync that is about to save still sees    *)
(* what it found, at most one row for each external account.               *)
OneLink == \A k, l \in Links : k = l

OneRow == \A a, b \in accounts : a.ext = b.ext => a = b

LinkedFirst ==
    /\ \A l \in links : pc[l] \in {"saveNew", "done"}
    /\ accounts # {} => \A l \in Links : pc[l] = "done"

FoundAll ==
    \A s \in Syncs : pc[s] = "save" =>
        \A e \in Fetched(s), a \in accounts :
            a.ext = e => held[s][e] # 0 /\ a.id = held[s][e]

RowInv == OneRow /\ LinkedFirst /\ FoundAll

LEMMA RowStep == ~Overlap /\ OneLink /\ OrderInv /\ RowInv /\ [Next]_vars => RowInv'
<1> SUFFICES ASSUME ~Overlap, OneLink, OrderInv, RowInv, [Next]_vars
             PROVE  RowInv'
  OBVIOUS
<1> USE AccountAssumption
    DEF OneLink, OrderInv, KeyInv, Ordered, TypeOK, Exclusive, Busy, RowInv, OneRow, LinkedFirst,
        FoundAll, callVars, tableVars, Goto, Calls
<1>1. ASSUME NEW e \in Ext, Change(e)
      PROVE  RowInv'
  BY <1>1 DEF Change, Fetched
<1>2. ASSUME NEW l \in Links, StartLink(l)
      PROVE  RowInv'
  BY <1>2 DEF StartLink, MayStart, Fetched
<1>3. ASSUME NEW l \in Links, SaveLink(l)
      PROVE  RowInv'
  BY <1>3 DEF SaveLink, Fetched
<1>4. ASSUME NEW l \in Links, SaveNewAccounts(l)
      PROVE  RowInv'
  <2> DEFINE new == {NewAccount(l, l, e) : e \in Fetched(l)}
  <2>1. /\ pc[l] = "saveNew" /\ Finish(l, "done") /\ links' = links
        /\ accounts' = accounts \cup new
    BY <1>4 DEF SaveNewAccounts
  <2>2. accounts = {}
    BY <2>1
  <2>3. \A a, b \in new : a.ext = b.ext => a = b
    BY DEF NewAccount
  <2> HIDE DEF new
  <2>4. pc' = [pc EXCEPT ![l] = "done"]
    BY <2>1 DEF Finish
  <2>5. \A s \in Syncs : pc'[s] # "save"
    BY <2>1, <2>4
  <2>6. QED
    BY <2>1, <2>2, <2>3, <2>4, <2>5
<1>5. ASSUME NEW s \in Syncs, NEW l \in Links, StartSync(s, l)
      PROVE  RowInv'
  BY <1>5 DEF StartSync, MayStart, Fetched
<1>6. ASSUME NEW s \in Syncs, FetchAccounts(s)
      PROVE  RowInv'
  <2>1. \E q \in {"idle", "find"} : pc' = [pc EXCEPT ![s] = q]
    BY <1>6 DEF FetchAccounts, Finish
  <2>2. \A t \in Syncs : pc'[t] # "save"
    BY <1>6, <2>1 DEF FetchAccounts
  <2>3. accounts' = accounts /\ links' = links
    BY <1>6 DEF FetchAccounts
  <2>4. QED
    BY <2>1, <2>2, <2>3
<1>7. ASSUME NEW s \in Syncs, FindExisting(s)
      PROVE  RowInv'
  <2>1. /\ pc[s] = "find" /\ pc' = [pc EXCEPT ![s] = "save"]
        /\ accounts' = accounts /\ links' = links /\ got' = got
    BY <1>7 DEF FindExisting
  <2>2. PICK h \in [Ext -> {0} \cup {a.id : a \in accounts}] :
          /\ \A e \in Ext :
                IF e \in Fetched(s) /\ Rows(e) # {}
                  THEN \E a \in Rows(e) : h[e] = a.id
                  ELSE h[e] = 0
          /\ held' = [held EXCEPT ![s] = h]
    BY <1>7 DEF FindExisting
  <2>3. held'[s] = h
    BY <2>2
  <2>4. ASSUME NEW e \in Fetched(s), NEW a \in accounts, a.ext = e
        PROVE  h[e] # 0 /\ a.id = h[e]
    <3>1. e \in Ext /\ a \in Rows(e)
      BY <2>4 DEF Fetched, Rows
    <3>2. PICK b \in Rows(e) : h[e] = b.id
      BY <2>2, <3>1
    <3>3. b = a
      BY <3>1, <3>2 DEF Rows
    <3>4. a.id # 0
      BY DEF Account
    <3>5. QED
      BY <3>2, <3>3, <3>4
  <2>5. \A t \in Syncs : pc'[t] = "save" => t = s
    BY <2>1
  <2>6. FoundAll'
    BY <2>1, <2>3, <2>4, <2>5 DEF Fetched
  <2>7. QED
    BY <2>1, <2>6
<1>8. ASSUME NEW s \in Syncs, SaveAccounts(s)
      PROVE  RowInv'
  <2> DEFINE found == {e \in Fetched(s) : held[s][e] # 0}
             upd == {Updated(s, e) : e \in found}
             new == {NewAccount(s, target[s], e) : e \in Fetched(s) \ found}
             old == {a \in accounts : \A u \in upd : ~SameRow(a, u)}
  <2>1. /\ pc[s] = "save" /\ pc' = [pc EXCEPT ![s] = "idle"]
        /\ accounts' = upd \cup new \cup old /\ links' = links
    BY <1>8 DEF SaveAccounts, Finish
  <2>2. \A a \in upd : /\ a.ext \in Fetched(s) /\ held[s][a.ext] # 0
                      /\ a.id = held[s][a.ext]
    BY DEF Updated
  <2>3. \A a \in new : a.ext \in Fetched(s) /\ held[s][a.ext] = 0
    BY DEF NewAccount
  <2>4. /\ \A a, b \in new : a.ext = b.ext => a = b
        /\ \A a, b \in upd : a.ext = b.ext => a = b
    BY DEF NewAccount, Updated
  <2>5. \A a \in old : a \in accounts /\ \A u \in upd : ~SameRow(a, u)
    OBVIOUS
  <2> HIDE DEF new, upd, old
  <2>6. \A a \in old, b \in upd \cup new : a.ext # b.ext
    BY <2>1, <2>2, <2>3, <2>5 DEF SameRow
  <2>7. OneRow'
    BY <2>1, <2>2, <2>3, <2>4, <2>5, <2>6
  <2>8. \A t \in Syncs : pc'[t] # "save"
    BY <2>1
  <2>9. \A l \in Links : pc'[l] = "done"
    <3>1. target[s] \in links /\ pc[target[s]] # "saveNew"
      BY <2>1
    <3>2. QED
      BY <2>1, <3>1
  <2>10. QED
    BY <2>1, <2>7, <2>8, <2>9
<1>9. ASSUME NEW c \in Calls, Throws(c)
      PROVE  RowInv'
  <2> DEFINE q == IF c \in Links THEN "done" ELSE "idle"
  <2>1. /\ Finish(c, q) /\ pc[c] \notin {"idle", "done"}
        /\ accounts' = accounts /\ links' = links
    BY <1>9 DEF Throws
  <2>2. pc' = [pc EXCEPT ![c] = q]
    BY <2>1 DEF Finish
  <2>3. \A t \in Syncs : pc'[t] # "save"
    BY <2>1, <2>2
  <2>4. QED
    BY <2>1, <2>2, <2>3
<1>10. ASSUME NEW a \in accounts, DeleteAccount(a)
       PROVE  RowInv'
  BY <1>10 DEF DeleteAccount, Fetched
<1>11. CASE UNCHANGED vars
  BY <1>11 DEF vars, Fetched
<1>12. QED
  BY <1>1, <1>2, <1>3, <1>4, <1>5, <1>6, <1>7, <1>8, <1>9, <1>10, <1>11
     DEF Next, SyncStep

(* When calls do not overlap and the accounts are linked once, an external *)
(* account has at most one row, with any number of syncs and faults.       *)
THEOREM NoDuplicates == ~Overlap /\ OneLink /\ Spec => []UniqueAccounts
<1> SUFFICES ASSUME ~Overlap, OneLink
             PROVE  Spec => []UniqueAccounts
  OBVIOUS
<1>1. Init => RowInv
  BY DEF Init, RowInv, OneRow, LinkedFirst, FoundAll, Calls
<1>2. OrderInv /\ RowInv /\ [Next]_vars => RowInv'
  BY RowStep
<1>3. ASSUME RowInv, NEW e \in Ext
      PROVE  Cardinality(Rows(e)) <= 1
  <2>1. CASE Rows(e) = {}
    BY <2>1, FS_EmptySet
  <2>2. CASE Rows(e) # {}
    <3>1. PICK a \in Rows(e) : TRUE
      BY <2>2
    <3>2. Rows(e) = {a}
      BY <1>3, <3>1 DEF RowInv, OneRow, Rows
    <3>3. QED
      BY <3>2, FS_Singleton
  <2>3. QED
    BY <2>1, <2>2
<1>4. RowInv => UniqueAccounts
  BY <1>3 DEF UniqueAccounts
<1>5. QED
  BY <1>1, <1>2, <1>4, OrderInvariant, PTL DEF Spec

-----------------------------------------------------------------------------
(* Balance snapshots.  The listeners only read the accounts, so what is    *)
(* proved of AccountSync holds of the composition.                         *)

LEMMA SyncStepOfSnapshots == [SnapshotNext]_allVars => [Next]_vars
BY DEF SnapshotNext, allVars, Save, Start, Other, Delete, Midnight, ListenerStep,
       GetSnapshotDate, FindSnapshot, SaveSnapshot, Lose, Next, SyncStep

(* The accounts of the composition behave as AccountSync says.             *)
THEOREM SnapshotsImplementSync == SnapshotSpec => Spec
<1>1. SnapshotInit => Init
  BY DEF SnapshotInit
<1>2. QED
  BY <1>1, SyncStepOfSnapshots, PTL DEF SnapshotSpec, Spec

LEMMA EmitTypes ==
  ASSUME SnapshotTypeOK, TypeOK', Emit
  PROVE  SnapshotTypeOK'
<1>1. PICK f \in [emitted' -> Free] :
        /\ step' = [n \in Listeners |->
              IF \E x \in emitted' : f[x] = n THEN "timezone" ELSE step[n]]
        /\ event' = [n \in Listeners |->
              IF \E x \in emitted' : f[x] = n
                THEN CHOOSE x \in emitted' : f[x] = n ELSE event[n]]
        /\ UNCHANGED <<today, snapshots, date, existing, losses>>
  BY DEF Emit
<1>2. emitted' \subseteq Event
  BY DEF TypeOK
<1>3. ASSUME NEW n \in Listeners
      PROVE  /\ step'[n] \in {"idle", "timezone", "find", "save"}
             /\ event'[n] \in Event \cup {NoEvent}
             /\ step'[n] # "idle" => event'[n] \in Event
  <2>1. CASE \E x \in emitted' : f[x] = n
    BY <1>1, <1>2, <2>1
  <2>2. CASE ~\E x \in emitted' : f[x] = n
    BY <1>1, <2>2 DEF SnapshotTypeOK
  <2>3. QED
    BY <2>1, <2>2
<1>4. /\ step' \in [Listeners -> {"idle", "timezone", "find", "save"}]
      /\ event' \in [Listeners -> Event \cup {NoEvent}]
  BY <1>1, <1>3
<1>5. QED
  BY <1>1, <1>3, <1>4 DEF SnapshotTypeOK

(* What ending a listener leaves                                           *)
LEMMA StopTypes ==
  ASSUME SnapshotTypeOK, NEW n \in Listeners, Stop(n)
  PROVE  /\ step' \in [Listeners -> {"idle", "timezone", "find", "save"}]
         /\ event' \in [Listeners -> Event \cup {NoEvent}]
         /\ \A m \in Listeners : step'[m] # "idle" => event'[m] \in Event
         /\ date' \in [Listeners -> 0..MaxDay]
         /\ existing' \in [Listeners -> SUBSET Snapshot]
         /\ step'[n] = "idle"
         /\ \A m \in Listeners : m # n =>
               /\ step'[m] = step[m] /\ event'[m] = event[m]
               /\ date'[m] = date[m] /\ existing'[m] = existing[m]
BY SnapshotAssumption DEF SnapshotTypeOK, Stop, Continue

(* A snapshot found for the listener's day, or a new one                   *)
FoundToday ==
    \A n \in Listeners : step[n] = "save" =>
        \A p \in existing[n] :
            p \in Snapshot /\ SameRow(p, event[n]) /\ p.day = date[n]

LEMMA SavedSnapshot ==
  ASSUME SnapshotTypeOK, FoundToday, NEW n \in Listeners, SaveSnapshot(n)
  PROVE  /\ SnapshotOf(n) \in Snapshot
         /\ \/ snapshots' = {SnapshotOf(n)} \cup
                  {q \in snapshots : ~(SameRow(SnapshotOf(n), q) /\ date[n] = q.day)}
            \/ /\ existing[n] = {}
               /\ snapshots' = snapshots \cup {p \in {SnapshotOf(n)} : Insertable(p)}
<1>1. step[n] = "save" /\ event[n] \in Event /\ date[n] \in 0..MaxDay
  BY DEF SaveSnapshot, SnapshotTypeOK
<1>2. SnapshotOf(n) \in Snapshot
  BY <1>1 DEF SnapshotOf, Snapshot, Event
<1>3. ASSUME NEW p \in existing[n]
      PROVE  /\ [p EXCEPT !.balance = event[n].balance] = SnapshotOf(n)
             /\ \A q : SameRow(p, q) <=> SameRow(SnapshotOf(n), q)
             /\ p.day = date[n]
  BY <1>1 DEF FoundToday, SnapshotOf, Snapshot, SameRow
<1>4. QED
  BY <1>2, <1>3 DEF SaveSnapshot

LEMMA SnapshotTypeStep ==
  SnapshotTypeOK /\ FoundToday /\ [SnapshotNext]_allVars => SnapshotTypeOK' /\ FoundToday'
<1> SUFFICES ASSUME SnapshotTypeOK, FoundToday, [SnapshotNext]_allVars
             PROVE  SnapshotTypeOK' /\ FoundToday'
  OBVIOUS
<1>0. TypeOK'
  BY SyncStepOfSnapshots, TypeStep DEF SnapshotTypeOK
<1>a. ASSUME UNCHANGED snapshotVars
      PROVE  SnapshotTypeOK' /\ FoundToday'
  BY <1>0, <1>a DEF snapshotVars, listenerVars, SnapshotTypeOK, FoundToday
<1>1. CASE Save
  <2>1. SnapshotTypeOK'
    BY <1>0, <1>1, EmitTypes DEF Save
  <2>2. \A n \in Listeners : step'[n] = "save" =>
            step[n] = "save" /\ event'[n] = event[n]
    BY <1>1 DEF Save, Emit
  <2>3. existing' = existing /\ date' = date
    BY <1>1 DEF Save, Emit
  <2>4. FoundToday'
    BY <2>2, <2>3 DEF FoundToday
  <2>5. QED
    BY <2>1, <2>4
<1>2. CASE Start \/ Other \/ Delete
  BY <1>2, <1>a DEF Start, Other, Delete
<1>3. CASE Midnight
  BY <1>0, <1>3, SnapshotAssumption
     DEF Midnight, listenerVars, SnapshotTypeOK, FoundToday
<1>4. ASSUME NEW n \in Listeners, GetSnapshotDate(n)
      PROVE  SnapshotTypeOK' /\ FoundToday'
  BY <1>0, <1>4 DEF GetSnapshotDate, Continue, SnapshotTypeOK, FoundToday
<1>5. ASSUME NEW n \in Listeners, FindSnapshot(n)
      PROVE  SnapshotTypeOK' /\ FoundToday'
  <2> DEFINE found == {p \in snapshots : SameRow(p, event[n]) /\ p.day = date[n]}
  <2>1. /\ step[n] = "find" /\ step' = [step EXCEPT ![n] = "save"]
        /\ existing' = [existing EXCEPT ![n] = found]
        /\ UNCHANGED <<today, snapshots, event, date, losses>>
    BY <1>5 DEF FindSnapshot, Continue
  <2>2. found \subseteq Snapshot
    BY DEF SnapshotTypeOK
  <2>3. \A p \in found : SameRow(p, event[n]) /\ p.day = date[n]
    OBVIOUS
  <2> HIDE DEF found
  <2>4. SnapshotTypeOK'
    BY <1>0, <2>1, <2>2 DEF SnapshotTypeOK
  <2>5. FoundToday'
    BY <2>1, <2>2, <2>3 DEF FoundToday, SnapshotTypeOK
  <2>6. QED
    BY <2>4, <2>5
<1>6. ASSUME NEW n \in Listeners, SaveSnapshot(n)
      PROVE  SnapshotTypeOK' /\ FoundToday'
  <2>1. Stop(n) /\ today' = today /\ losses' = losses
    BY <1>6 DEF SaveSnapshot
  <2>2. snapshots' \subseteq Snapshot
    BY <1>6, SavedSnapshot DEF SnapshotTypeOK
  <2>3. \A p, q \in snapshots' : SameRow(p, q) /\ p.day = q.day => p = q
    <3>1. SnapshotOf(n).day = date[n]
      BY DEF SnapshotOf
    <3>2. QED
      BY <1>6, <3>1, SavedSnapshot DEF SnapshotTypeOK, Insertable, SameRow
  <2>4. SnapshotTypeOK'
    BY <1>0, <2>1, <2>2, <2>3, StopTypes DEF SnapshotTypeOK
  <2>5. FoundToday'
    BY <2>1, StopTypes DEF FoundToday
  <2>6. QED
    BY <2>4, <2>5
<1>7. ASSUME NEW n \in Listeners, Lose(n)
      PROVE  SnapshotTypeOK' /\ FoundToday'
  <2>1. /\ Stop(n) /\ UNCHANGED <<today, snapshots>>
        /\ losses < MaxLosses /\ losses' = losses + 1
    BY <1>7 DEF Lose
  <2>2. SnapshotTypeOK'
    BY <1>0, <2>1, StopTypes, SnapshotAssumption DEF SnapshotTypeOK
  <2>3. FoundToday'
    BY <2>1, StopTypes DEF FoundToday
  <2>4. QED
    BY <2>2, <2>3
<1>8. CASE UNCHANGED allVars
  BY <1>8, <1>a DEF allVars
<1>9. QED
  BY <1>1, <1>2, <1>3, <1>4, <1>5, <1>6, <1>7, <1>8 DEF SnapshotNext, ListenerStep

LEMMA SnapshotTypeInvariant == SnapshotSpec => [](SnapshotTypeOK /\ FoundToday)
<1>1. SnapshotInit => SnapshotTypeOK /\ FoundToday
  BY InitTypes, SnapshotAssumption DEF SnapshotInit, SnapshotTypeOK, FoundToday
<1>2. QED
  BY <1>1, SnapshotTypeStep, PTL DEF SnapshotSpec

(* Every variable keeps its type, and an account has one snapshot a day,   *)
(* however listeners overlap.                                              *)
THEOREM SnapshotTypeCorrect == SnapshotSpec => []SnapshotTypeOK
  BY SnapshotTypeInvariant, PTL

(* However listeners overlap, the snapshot of a past day changes only      *)
(* through one that took its date before midnight.                         *)
THEOREM PastIsFixed == SnapshotSpec => PastStays
<1>1. ASSUME SnapshotTypeOK, FoundToday, [SnapshotNext]_allVars
      PROVE  \A p \in snapshots :
                /\ p.day < today
                /\ \A n \in Listeners :
                      step[n] # "timezone" /\ step[n] # "idle" => date[n] # p.day
                => p \in snapshots'
  <2> SUFFICES ASSUME NEW p \in snapshots, p.day < today,
                      \A n \in Listeners :
                         step[n] # "timezone" /\ step[n] # "idle" => date[n] # p.day
               PROVE  p \in snapshots'
    OBVIOUS
  <2>1. ASSUME NEW n \in Listeners, SaveSnapshot(n)
        PROVE  p \in snapshots'
    <3>1. step[n] = "save" /\ date[n] # p.day
      BY <1>1, <2>1 DEF SaveSnapshot
    <3>2. QED
      BY <1>1, <2>1, <3>1, SavedSnapshot
  <2>2. QED
    BY <1>1, <2>1
       DEF SnapshotNext, allVars, snapshotVars, Save, Emit, Start, Other, Delete, Midnight,
           ListenerStep, GetSnapshotDate, FindSnapshot, Lose
<1>2. QED
  BY <1>1, SnapshotTypeInvariant, PTL DEF SnapshotSpec, PastStays

-----------------------------------------------------------------------------
(* The newest snapshot.  When calls do not overlap and start only after    *)
(* the listeners of earlier ones, no account changes under a listener, and *)
(* no two listeners write snapshots of one account.                        *)

(* Every row a save stores is told in an event of its own.                 *)
LEMMA EventsOfRows ==
  ASSUME NEW a, NEW new \in BOOLEAN
  PROVE  LET x == EventOf(a, new) IN
         /\ SameRow(a, x) /\ SameRow(x, a)
         /\ a.balance = x.balance /\ x.ext = a.ext
BY DEF EventOf, SameRow

LEMMA SaveEvents ==
  ASSUME KeyInv, KeyInv', NEW c \in Calls,
         (c \in Links /\ SaveNewAccounts(c)) \/ (c \in Syncs /\ SaveAccounts(c))
  PROVE  /\ Busy(c)
         /\ \A x \in emitted' : \E a \in accounts' : SameRow(a, x) /\ a.balance = x.balance
         /\ \A a \in accounts' : a \in accounts \/ \E x \in emitted' : SameRow(x, a)
         /\ \A x, y \in emitted' : SameRow(x, y) => x = y
<1>1. CASE c \in Links /\ SaveNewAccounts(c)
  <2> DEFINE new == {NewAccount(c, c, e) : e \in Fetched(c)}
  <2>1. /\ pc[c] = "saveNew" /\ accounts' = accounts \cup new
        /\ emitted' = {EventOf(a, TRUE) : a \in new}
    BY <1>1 DEF SaveNewAccounts
  <2>2. \A a, b \in new : a.ext = b.ext => a = b
    BY DEF NewAccount
  <2> HIDE DEF new
  <2>3. \A x \in emitted' : \E a \in new :
              SameRow(a, x) /\ a.balance = x.balance /\ x.ext = a.ext /\ x = EventOf(a, TRUE)
    BY <2>1, EventsOfRows
  <2>4. \A a \in new : EventOf(a, TRUE) \in emitted' /\ SameRow(EventOf(a, TRUE), a)
    BY <2>1, EventsOfRows
  <2>5. ASSUME NEW x \in emitted', NEW y \in emitted', x.ext = y.ext
        PROVE  x = y
    <3>1. PICK a \in new : x.ext = a.ext /\ x = EventOf(a, TRUE)
      BY <2>3
    <3>2. PICK b \in new : y.ext = b.ext /\ y = EventOf(b, TRUE)
      BY <2>3
    <3>3. a = b
      BY <2>2, <2>5, <3>1, <3>2
    <3>4. QED
      BY <3>1, <3>2, <3>3
  <2>6. QED
    BY <2>1, <2>3, <2>4, <2>5 DEF SameRow, Busy
<1>2. CASE c \in Syncs /\ SaveAccounts(c)
  <2> DEFINE found == {e \in Fetched(c) : held[c][e] # 0}
             upd == {Updated(c, e) : e \in found}
             new == {NewAccount(c, target[c], e) : e \in Fetched(c) \ found}
             old == {a \in accounts : \A u \in upd : ~SameRow(a, u)}
  <2>1. /\ pc[c] = "save" /\ accounts' = upd \cup new \cup old
        /\ emitted' = {EventOf(a, TRUE) : a \in new} \cup {EventOf(a, FALSE) : a \in upd}
    BY <1>2 DEF SaveAccounts
  <2>2. /\ \A a, b \in new : a.ext = b.ext => a = b
        /\ \A a, b \in upd : a.ext = b.ext => a = b
        /\ \A a \in new, b \in upd : a.ext # b.ext
    BY DEF NewAccount, Updated
  <2>3. old \subseteq accounts
    OBVIOUS
  <2> HIDE DEF found, upd, new, old
  <2>4. ASSUME NEW x \in emitted'
        PROVE  \E a \in new \cup upd :
                  /\ SameRow(a, x) /\ a.balance = x.balance /\ x.ext = a.ext
                  /\ \/ a \in new /\ x = EventOf(a, TRUE)
                     \/ a \in upd /\ x = EventOf(a, FALSE)
    BY <2>1, EventsOfRows
  <2>5. \A a \in new \cup upd : \E x \in emitted' : SameRow(x, a)
    BY <2>1, EventsOfRows
  <2>6. \A x \in emitted' : \E a \in accounts' : SameRow(a, x) /\ a.balance = x.balance
    BY <2>1, <2>4
  <2>7. \A a \in accounts' : a \in accounts \/ \E x \in emitted' : SameRow(x, a)
    BY <2>1, <2>3, <2>5
  <2>8. ASSUME NEW x \in emitted', NEW y \in emitted', x.ext = y.ext
        PROVE  x = y
    <3>1. PICK a \in new \cup upd :
             /\ x.ext = a.ext
             /\ \/ a \in new /\ x = EventOf(a, TRUE)
                \/ a \in upd /\ x = EventOf(a, FALSE)
      BY <2>4
    <3>2. PICK b \in new \cup upd :
             /\ y.ext = b.ext
             /\ \/ b \in new /\ y = EventOf(b, TRUE)
                \/ b \in upd /\ y = EventOf(b, FALSE)
      BY <2>4
    <3>3. a = b /\ (a \in new <=> b \in new) /\ ~(a \in new /\ a \in upd)
      BY <2>2, <2>8, <3>1, <3>2
    <3>4. QED
      BY <3>1, <3>2, <3>3
  <2>9. QED
    BY <2>1, <2>6, <2>7, <2>8 DEF SameRow, Busy
<1>3. QED
  BY <1>1, <1>2

Active(n) == step[n] # "idle"

OneAtATime == \A n \in Listeners, c \in Calls : Active(n) => ~Busy(c)

OwnRows ==
    \A m, n \in Listeners :
        Active(m) /\ Active(n) /\ SameRow(event[m], event[n]) => m = n

EventsCurrent ==
    \A n \in Listeners, a \in accounts :
        Active(n) /\ SameRow(event[n], a) => a.balance = event[n].balance

DatesLast ==
    /\ \A p \in snapshots : p.day <= today
    /\ \A n \in Listeners : date[n] <= today
    /\ \A n \in Listeners, p \in snapshots :
          step[n] \in {"find", "save"} /\ SameRow(p, event[n]) => p.day <= date[n]

FoundNone ==
    \A n \in Listeners, p \in snapshots :
        step[n] = "save" /\ existing[n] = {} => ~(SameRow(p, event[n]) /\ p.day = date[n])

Recorded(a) ==
    \/ \E n \in Listeners : Active(n) /\ SameRow(event[n], a)
    \/ \E p \in snapshots : SameRow(p, a) /\ Newest(p) /\ p.balance = a.balance

AllRecorded == losses = 0 => \A a \in accounts : Recorded(a)

NewestInv ==
    /\ SnapshotTypeOK
    /\ FoundToday
    /\ OrderInv
    /\ OneAtATime
    /\ OwnRows
    /\ EventsCurrent
    /\ DatesLast
    /\ FoundNone
    /\ AllRecorded

(* No step of a call but a save changes an account, or makes a call busy   *)
(* unless it starts one.                                                   *)
LEMMA OtherCalls ==
  ASSUME TypeOK, Other
  PROVE  /\ accounts' = accounts /\ UNCHANGED snapshotVars
         /\ \A c \in Calls : Busy(c)' => Busy(c)
<1>1. ASSUME NEW c \in Calls, NEW q, Goto(c, q), Busy(c)
      PROVE  \A d \in Calls : Busy(d)' => Busy(d)
  BY <1>1 DEF Goto, Busy, TypeOK
<1>2. CASE \E e \in Ext : Change(e)
  BY <1>2 DEF Other, Change, tableVars, callVars, Busy
<1>3. ASSUME NEW l \in Links, SaveLink(l)
      PROVE  accounts' = accounts /\ \A d \in Calls : Busy(d)' => Busy(d)
  BY <1>1, <1>3 DEF SaveLink, Busy, Calls
<1>4. ASSUME NEW s \in Syncs, FetchAccounts(s)
      PROVE  accounts' = accounts /\ \A d \in Calls : Busy(d)' => Busy(d)
  BY <1>1, <1>4 DEF FetchAccounts, Finish, Busy, Calls, tableVars
<1>5. ASSUME NEW s \in Syncs, FindExisting(s)
      PROVE  accounts' = accounts /\ \A d \in Calls : Busy(d)' => Busy(d)
  BY <1>1, <1>5 DEF FindExisting, Busy, Calls, tableVars
<1>6. ASSUME NEW c \in Calls, Throws(c)
      PROVE  accounts' = accounts /\ \A d \in Calls : Busy(d)' => Busy(d)
  BY <1>1, <1>6 DEF Throws, Finish, Busy, tableVars
<1>7. QED
  BY <1>2, <1>3, <1>4, <1>5, <1>6 DEF Other

(* The listeners a save starts, when none is in progress                   *)
LEMMA EmitListeners ==
  ASSUME SnapshotTypeOK, ListenersIdle, Emit
  PROVE  /\ UNCHANGED <<today, snapshots, date, existing, losses>>
         /\ \A n \in Listeners : Active(n)' =>
               step'[n] = "timezone" /\ event'[n] \in emitted'
         /\ \A m, n \in Listeners :
               Active(m)' /\ Active(n)' /\ event'[m] = event'[n] => m = n
         /\ \A x \in emitted' : \E n \in Listeners : Active(n)' /\ event'[n] = x
<1>1. PICK f \in [emitted' -> Free] :
        /\ \A x, y \in emitted' : f[x] = f[y] => x = y
        /\ step' = [n \in Listeners |->
              IF \E x \in emitted' : f[x] = n THEN "timezone" ELSE step[n]]
        /\ event' = [n \in Listeners |->
              IF \E x \in emitted' : f[x] = n
                THEN CHOOSE x \in emitted' : f[x] = n ELSE event[n]]
        /\ UNCHANGED <<today, snapshots, date, existing, losses>>
  BY DEF Emit
<1>2. \A n \in Listeners : step[n] = "idle"
  BY DEF ListenersIdle, Free
<1>3. ASSUME NEW n \in Listeners, Active(n)'
      PROVE  step'[n] = "timezone" /\ event'[n] \in emitted' /\ f[event'[n]] = n
  <2>1. \E x \in emitted' : f[x] = n
    BY <1>1, <1>2, <1>3 DEF Active
  <2>2. event'[n] = CHOOSE x \in emitted' : f[x] = n
    BY <1>1, <2>1
  <2>3. QED
    BY <1>1, <2>1, <2>2
<1>4. ASSUME NEW x \in emitted'
      PROVE  \E n \in Listeners : Active(n)' /\ event'[n] = x
  <2>1. f[x] \in Listeners /\ Active(f[x])'
    BY <1>1 DEF Active, Free
  <2>2. event'[f[x]] \in emitted' /\ f[event'[f[x]]] = f[x]
    BY <1>3, <2>1
  <2>3. QED
    BY <1>1, <2>1, <2>2
<1>5. QED
  BY <1>1, <1>3, <1>4

LEMMA NewestSave == NewestInv /\ OrderInv' /\ Save => NewestInv'
<1> SUFFICES ASSUME NewestInv, OrderInv', Save
             PROVE  NewestInv'
  OBVIOUS
<1>1. PICK c \in Calls :
        (c \in Links /\ SaveNewAccounts(c)) \/ (c \in Syncs /\ SaveAccounts(c))
  <2>1. ASSUME NEW l \in Links, SaveNewAccounts(l)
        PROVE  l \in Calls
    BY DEF Calls
  <2>2. ASSUME NEW t \in Syncs, SaveAccounts(t)
        PROVE  t \in Calls
    BY DEF Calls
  <2>3. QED
    BY <2>1, <2>2 DEF Save
<1>2. KeyInv /\ KeyInv'
  BY DEF NewestInv, OrderInv
<1>3. /\ Busy(c)
      /\ \A x \in emitted' : \E a \in accounts' : SameRow(a, x) /\ a.balance = x.balance
      /\ \A a \in accounts' : a \in accounts \/ \E x \in emitted' : SameRow(x, a)
      /\ \A x, y \in emitted' : SameRow(x, y) => x = y
  BY <1>1, <1>2, SaveEvents
<1>4. \A n \in Listeners : ~Active(n)
  BY <1>3 DEF NewestInv, OneAtATime
<1>5. ListenersIdle /\ Emit
  BY <1>4 DEF ListenersIdle, Free, Active, Save
<1>6. SnapshotTypeOK' /\ FoundToday'
  BY SnapshotTypeStep DEF NewestInv, SnapshotNext
<1>7. /\ UNCHANGED <<today, snapshots, date, existing, losses>>
      /\ \A n \in Listeners : Active(n)' =>
            step'[n] = "timezone" /\ event'[n] \in emitted'
      /\ \A m, n \in Listeners :
            Active(m)' /\ Active(n)' /\ event'[m] = event'[n] => m = n
      /\ \A x \in emitted' : \E n \in Listeners : Active(n)' /\ event'[n] = x
  BY <1>5, EmitListeners DEF NewestInv
<1>8. OneAtATime'
  <2>1. \E q \in {"idle", "done"} : Goto(c, q)
    BY <1>1 DEF SaveNewAccounts, SaveAccounts, Finish
  <2>2. \A d \in Calls : d # c => ~Busy(d)
    BY <1>3 DEF NewestInv, OrderInv, Ordered, Exclusive
  <2>3. pc \in [Calls -> Steps]
    BY <1>2 DEF KeyInv, TypeOK, Steps
  <2>4. \A d \in Calls : ~Busy(d)'
    BY <2>1, <2>2, <2>3 DEF Goto, Busy
  <2>5. QED
    BY <2>4 DEF OneAtATime
<1>9. OwnRows'
  BY <1>3, <1>7 DEF OwnRows
<1>10. EventsCurrent'
  <2> SUFFICES ASSUME NEW n \in Listeners, NEW a \in accounts', Active(n)',
                      SameRow(event'[n], a)
               PROVE  a.balance = event'[n].balance
    BY DEF EventsCurrent
  <2>1. PICK b \in accounts' : SameRow(b, event'[n]) /\ b.balance = event'[n].balance
    BY <1>3, <1>7
  <2>2. a = b
    BY <1>2, <2>1 DEF KeyInv, KeysUnique, SameRow
  <2>3. QED
    BY <2>1, <2>2
<1>11. \A n \in Listeners : step'[n] \notin {"find", "save"}
  BY <1>7 DEF Active
<1>12. DatesLast' /\ FoundNone'
  BY <1>7, <1>11 DEF NewestInv, DatesLast, FoundNone
<1>13. ASSUME losses' = 0, NEW a \in accounts'
       PROVE  Recorded(a)'
  <2>1. CASE \E x \in emitted' : SameRow(x, a)
    BY <1>7, <2>1 DEF Recorded
  <2>2. CASE a \in accounts
    <3>1. \E p \in snapshots : SameRow(p, a) /\ Newest(p) /\ p.balance = a.balance
      BY <1>4, <1>7, <1>13, <2>2 DEF NewestInv, AllRecorded, Recorded
    <3>2. QED
      BY <1>7, <3>1 DEF Recorded, Newest
  <2>3. QED
    BY <1>3, <2>1, <2>2
<1>14. QED
  BY <1>6, <1>8, <1>9, <1>10, <1>12, <1>13 DEF NewestInv, AllRecorded

LEMMA NewestSnapshot ==
  ASSUME NewestInv, NEW n \in Listeners, SaveSnapshot(n)
  PROVE  DatesLast' /\ FoundNone' /\ AllRecorded'
<1>0. PICK s : s = SnapshotOf(n)
  OBVIOUS
<1>1. /\ s \in Snapshot
      /\ \/ snapshots' = {s} \cup {q \in snapshots : ~(SameRow(s, q) /\ date[n] = q.day)}
         \/ /\ existing[n] = {}
            /\ snapshots' = snapshots \cup {p \in {s} : Insertable(p)}
  BY <1>0, SavedSnapshot DEF NewestInv
<1>2. /\ step[n] = "save" /\ Stop(n)
      /\ accounts' = accounts /\ today' = today /\ losses' = losses
  BY DEF SaveSnapshot, vars, tableVars
<1>3. /\ step'[n] = "idle"
      /\ \A m \in Listeners : m # n =>
            /\ step'[m] = step[m] /\ event'[m] = event[m]
            /\ date'[m] = date[m] /\ existing'[m] = existing[m]
  BY <1>2, StopTypes DEF NewestInv
<1>4. s.day = date[n] /\ s.balance = event[n].balance /\ \A q : SameRow(s, q) <=> SameRow(event[n], q)
  BY <1>0 DEF SnapshotOf, SameRow
<1>5. \A m \in Listeners : m # n /\ Active(m) => ~SameRow(s, event[m])
  BY <1>2, <1>4 DEF NewestInv, OwnRows, Active
<1>6. \A p \in snapshots' : p = s \/ p \in snapshots
  BY <1>1
<1>7. DatesLast'
  <2>1. date'[n] <= today
    BY <1>2, SnapshotAssumption DEF Stop, NewestInv, SnapshotTypeOK
  <2>2. QED
    BY <1>2, <1>3, <1>4, <1>5, <1>6, <2>1 DEF NewestInv, DatesLast, Active
<1>8. FoundNone'
  BY <1>2, <1>3, <1>4, <1>5, <1>6 DEF NewestInv, FoundNone, Active
<1>9. ASSUME losses = 0, NEW a \in accounts, SameRow(event[n], a)
      PROVE  Recorded(a)'
  <2>1. s \in snapshots'
    <3>1. CASE existing[n] = {}
      <4>1. \A q \in snapshots : ~(SameRow(s, q) /\ s.day = q.day)
        BY <1>2, <1>4, <3>1 DEF NewestInv, FoundNone, SameRow
      <4>2. SameRow(a, s)
        BY <1>4, <1>9 DEF SameRow
      <4>3. QED
        BY <1>1, <4>1, <4>2 DEF Insertable
    <3>2. QED
      BY <1>1, <3>1
  <2>2. ASSUME NEW q \in snapshots, SameRow(s, q)
        PROVE  q.day <= s.day
    BY <1>2, <1>4, <2>2 DEF NewestInv, DatesLast, SameRow
  <2>3. s.day \in Nat
    BY <1>1 DEF Snapshot
  <2>4. Newest(s)'
    BY <1>6, <2>2, <2>3 DEF Newest
  <2>5. a.balance = s.balance /\ SameRow(s, a)
    BY <1>2, <1>4, <1>9 DEF NewestInv, EventsCurrent, Active
  <2>6. QED
    BY <2>1, <2>4, <2>5 DEF Recorded
<1>10. ASSUME losses = 0, NEW a \in accounts, ~SameRow(event[n], a)
       PROVE  Recorded(a)'
  <2>1. CASE \E m \in Listeners : Active(m) /\ SameRow(event[m], a)
    BY <1>3, <1>10, <2>1 DEF Recorded, Active
  <2>2. CASE \E p \in snapshots : SameRow(p, a) /\ Newest(p) /\ p.balance = a.balance
    <3>1. PICK p \in snapshots : SameRow(p, a) /\ Newest(p) /\ p.balance = a.balance
      BY <2>2
    <3>2. ~SameRow(s, p) /\ ~SameRow(p, s)
      BY <1>4, <1>10, <3>1 DEF SameRow
    <3>3. p \in snapshots'
      BY <1>1, <3>2
    <3>4. Newest(p)'
      BY <1>6, <3>1, <3>2 DEF Newest
    <3>5. QED
      BY <3>1, <3>3, <3>4 DEF Recorded
  <2>3. QED
    BY <1>10, <2>1, <2>2 DEF NewestInv, AllRecorded, Recorded
<1>11. QED
  BY <1>2, <1>7, <1>8, <1>9, <1>10 DEF AllRecorded

LEMMA NewestStep ==
  ~Overlap /\ Drained /\ NewestInv /\ [SnapshotNext]_allVars => NewestInv'
<1> SUFFICES ASSUME ~Overlap, Drained, NewestInv, [SnapshotNext]_allVars
             PROVE  NewestInv'
  OBVIOUS
<1>0. SnapshotTypeOK' /\ FoundToday' /\ OrderInv'
  BY SyncStepOfSnapshots, SnapshotTypeStep, OrderStep DEF NewestInv
<1>a. ASSUME accounts' \subseteq accounts, UNCHANGED snapshotVars
      PROVE  /\ OwnRows' /\ EventsCurrent' /\ DatesLast' /\ FoundNone' /\ AllRecorded'
             /\ \A n \in Listeners : Active(n)' <=> Active(n)
  <2>1. /\ OwnRows' /\ DatesLast' /\ FoundNone'
        /\ \A n \in Listeners : Active(n)' <=> Active(n)
    BY <1>a DEF snapshotVars, listenerVars, NewestInv, OwnRows, DatesLast, FoundNone, Active
  <2>2. EventsCurrent'
    BY <1>a DEF snapshotVars, listenerVars, NewestInv, EventsCurrent, Active
  <2>3. AllRecorded'
    BY <1>a DEF snapshotVars, listenerVars, NewestInv, AllRecorded, Recorded, Newest, Active
  <2>4. QED
    BY <2>1, <2>2, <2>3
<1>1. CASE Save
  BY <1>0, <1>1, NewestSave
<1>2. CASE Start
  <2>1. ListenersIdle /\ accounts' = accounts /\ UNCHANGED snapshotVars
    BY <1>2 DEF Start, StartLink, StartSync, tableVars
  <2>2. OneAtATime'
    BY <2>1 DEF ListenersIdle, Free, OneAtATime, Active, snapshotVars, listenerVars
  <2>3. QED
    BY <1>0, <1>a, <2>1, <2>2 DEF NewestInv
<1>3. CASE Other
  <2>1. /\ accounts' = accounts /\ UNCHANGED snapshotVars
        /\ \A c \in Calls : Busy(c)' => Busy(c)
    BY <1>3, OtherCalls DEF NewestInv, SnapshotTypeOK
  <2>2. OneAtATime'
    BY <1>a, <2>1 DEF NewestInv, OneAtATime
  <2>3. QED
    BY <1>0, <1>a, <2>1, <2>2 DEF NewestInv
<1>4. CASE Delete
  <2>1. accounts' \subseteq accounts /\ UNCHANGED snapshotVars /\ pc' = pc
    BY <1>4 DEF Delete, DeleteAccount, callVars
  <2>2. OneAtATime'
    BY <1>a, <2>1 DEF NewestInv, OneAtATime, Busy
  <2>3. QED
    BY <1>0, <1>a, <2>1, <2>2 DEF NewestInv
<1>5. CASE Midnight
  <2>1. /\ pc' = pc /\ accounts' = accounts /\ today' = today + 1
        /\ UNCHANGED <<snapshots, step, event, date, existing, losses>>
    BY <1>5 DEF Midnight, vars, tableVars, callVars, listenerVars
  <2>2. OneAtATime' /\ OwnRows' /\ EventsCurrent' /\ FoundNone'
    BY <2>1 DEF NewestInv, OneAtATime, OwnRows, EventsCurrent, FoundNone, Active, Busy
  <2>3. AllRecorded'
    BY <2>1 DEF NewestInv, AllRecorded, Recorded, Newest, Active
  <2>4. DatesLast'
    <3>1. \A p \in snapshots : p.day \in Nat
      BY DEF NewestInv, SnapshotTypeOK, Snapshot
    <3>2. today \in Nat /\ \A n \in Listeners : date[n] \in Nat
      BY SnapshotAssumption DEF NewestInv, SnapshotTypeOK
    <3>3. QED
      BY <2>1, <3>1, <3>2 DEF NewestInv, DatesLast
  <2>5. QED
    BY <1>0, <2>2, <2>3, <2>4 DEF NewestInv
<1>6. ASSUME NEW n \in Listeners, GetSnapshotDate(n) \/ FindSnapshot(n)
      PROVE  NewestInv'
  <2>1. /\ pc' = pc /\ accounts' = accounts /\ event' = event
        /\ UNCHANGED <<today, snapshots, losses>>
        /\ \A m \in Listeners : Active(m)' <=> Active(m)
    BY <1>6 DEF GetSnapshotDate, FindSnapshot, Continue, Active, vars, tableVars, callVars,
                NewestInv, SnapshotTypeOK
  <2>2. OneAtATime' /\ OwnRows' /\ EventsCurrent'
    BY <2>1 DEF NewestInv, OneAtATime, OwnRows, EventsCurrent, Busy
  <2>3. AllRecorded'
    BY <2>1 DEF NewestInv, AllRecorded, Recorded, Newest
  <2>4. DatesLast' /\ FoundNone'
    <3>1. CASE GetSnapshotDate(n)
      <4>1. /\ date' = [date EXCEPT ![n] = today] /\ step' = [step EXCEPT ![n] = "find"]
            /\ existing' = existing
        BY <3>1 DEF GetSnapshotDate, Continue
      <4>2. \A m \in Listeners : m # n => date'[m] = date[m] /\ step'[m] = step[m]
        BY <4>1
      <4>3. date'[n] = today /\ step'[n] = "find" /\ today \in Nat
        BY <4>1, SnapshotAssumption DEF NewestInv, SnapshotTypeOK
      <4>4. DatesLast'
        BY <2>1, <4>2, <4>3 DEF NewestInv, DatesLast
      <4>5. FoundNone'
        BY <2>1, <4>1, <4>2, <4>3 DEF NewestInv, FoundNone
      <4>6. QED
        BY <4>4, <4>5
    <3>2. CASE FindSnapshot(n)
      <4>1. /\ step[n] = "find" /\ date' = date /\ step' = [step EXCEPT ![n] = "save"]
            /\ existing' = [existing EXCEPT ![n] =
                   {p \in snapshots : SameRow(p, event[n]) /\ p.day = date[n]}]
        BY <3>2 DEF FindSnapshot, Continue
      <4>2. \A m \in Listeners : m # n => existing'[m] = existing[m] /\ step'[m] = step[m]
        BY <4>1
      <4>3. existing'[n] = {p \in snapshots : SameRow(p, event[n]) /\ p.day = date[n]}
        BY <4>1 DEF NewestInv, SnapshotTypeOK
      <4>4. DatesLast'
        BY <2>1, <4>1, <4>2 DEF NewestInv, DatesLast
      <4>5. FoundNone'
        BY <2>1, <4>1, <4>2, <4>3 DEF NewestInv, FoundNone
      <4>6. QED
        BY <4>4, <4>5
    <3>3. QED
      BY <1>6, <3>1, <3>2
  <2>5. QED
    BY <1>0, <2>2, <2>3, <2>4 DEF NewestInv
<1>7. ASSUME NEW n \in Listeners, SaveSnapshot(n) \/ Lose(n)
      PROVE  NewestInv'
  <2>1. Stop(n) /\ pc' = pc /\ accounts' = accounts /\ today' = today
    BY <1>7 DEF SaveSnapshot, Lose, vars, tableVars, callVars
  <2>2. /\ step'[n] = "idle"
        /\ \A m \in Listeners : m # n =>
              /\ step'[m] = step[m] /\ event'[m] = event[m]
              /\ date'[m] = date[m] /\ existing'[m] = existing[m]
    BY <2>1, StopTypes DEF NewestInv
  <2>3. OneAtATime'
    BY <2>1, <2>2 DEF NewestInv, OneAtATime, Active, Busy
  <2>4. OwnRows'
    BY <2>2 DEF NewestInv, OwnRows, Active
  <2>5. EventsCurrent'
    BY <2>1, <2>2 DEF NewestInv, EventsCurrent, Active
  <2>6. DatesLast' /\ FoundNone' /\ AllRecorded'
    <3>1. CASE SaveSnapshot(n)
      BY <3>1, NewestSnapshot
    <3>2. CASE Lose(n)
      <4>1. snapshots' = snapshots /\ losses' = losses + 1 /\ losses \in Nat
        BY <3>2, SnapshotAssumption DEF Lose, NewestInv, SnapshotTypeOK
      <4>2. date'[n] <= today
        BY <2>1, SnapshotAssumption DEF Stop, NewestInv, SnapshotTypeOK
      <4>3. DatesLast'
        BY <2>1, <2>2, <4>1, <4>2 DEF NewestInv, DatesLast
      <4>4. FoundNone'
        BY <2>2, <4>1 DEF NewestInv, FoundNone
      <4>5. AllRecorded'
        BY <4>1 DEF AllRecorded
      <4>6. QED
        BY <4>3, <4>4, <4>5
    <3>3. QED
      BY <1>7, <3>1, <3>2
  <2>7. QED
    BY <1>0, <2>3, <2>4, <2>5, <2>6 DEF NewestInv
<1>8. CASE UNCHANGED allVars
  <2>1. UNCHANGED snapshotVars /\ accounts' = accounts /\ pc' = pc
    BY <1>8 DEF allVars, vars, tableVars, callVars
  <2>2. OneAtATime'
    BY <1>a, <2>1 DEF NewestInv, OneAtATime, Busy
  <2>3. QED
    BY <1>0, <1>a, <2>1, <2>2 DEF NewestInv
<1>9. QED
  BY <1>1, <1>2, <1>3, <1>4, <1>5, <1>6, <1>7, <1>8 DEF SnapshotNext, ListenerStep

(* When calls start only after the listeners of earlier ones and none has  *)
(* failed, the newest snapshot of every account has its balance once the   *)
(* listeners are done, over any number of calls, accounts and midnights.   *)
THEOREM NewestCurrent == ~Overlap /\ Drained /\ SnapshotSpec => []NewestIsCurrent
<1> SUFFICES ASSUME ~Overlap, Drained
             PROVE  SnapshotSpec => []NewestIsCurrent
  OBVIOUS
<1>1. SnapshotInit => NewestInv
  <2> SUFFICES ASSUME SnapshotInit
               PROVE  NewestInv
    OBVIOUS
  <2>1. SnapshotTypeOK /\ FoundToday
    BY InitTypes, SnapshotAssumption DEF SnapshotInit, SnapshotTypeOK, FoundToday
  <2>2. OrderInv
    BY OrderInit DEF SnapshotInit
  <2>3. QED
    BY <2>1, <2>2
       DEF SnapshotInit, Init, NewestInv, OneAtATime, OwnRows, EventsCurrent, DatesLast,
           FoundNone, AllRecorded, Active
<1>2. NewestInv /\ [SnapshotNext]_allVars => NewestInv'
  BY NewestStep
<1>3. NewestInv => NewestIsCurrent
  BY DEF NewestInv, NewestIsCurrent, AllRecorded, Recorded, ListenersIdle, Free, Active
<1>4. QED
  BY <1>1, <1>2, <1>3, PTL DEF SnapshotSpec
=============================================================================
