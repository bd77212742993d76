------------------------ MODULE BankLinkStatusProofs ------------------------
(* Theorems about BankLinkStatus, for any writers, window and bounds. *)
EXTENDS BankLinkStatus, FiniteSetTheorems, TLAPS

LEMMA StatusTypes == \A code \in Codes : StatusOf(code) \in Statuses
  BY DEF Codes, Statuses, StatusOf

LEMMA RowSaved ==
  ASSUME NEW e \in BankLink, NEW s \in Statuses
  PROVE  [e EXCEPT !.status = s] \in BankLink
  BY DEF BankLink

LEMMA EntityChanged ==
  ASSUME NEW e \in BankLink, NEW i \in 0..MaxInst
  PROVE  /\ [e EXCEPT !.inst = i] \in BankLink
         /\ [e EXCEPT !.itemId = TRUE] \in BankLink
  BY DEF BankLink

LEMMA InitRowType == InitRow \in BankLink
  BY StatusAssumption DEF InitRow, BankLink, Statuses

LEMMA TypeStep == TypeOK /\ [Next]_vars => TypeOK'
<1> SUFFICES ASSUME TypeOK, [Next]_vars
             PROVE  TypeOK'
  OBVIOUS
<1> USE StatusAssumption DEF TypeOK, Steps, Goto
<1>1. CASE Tick
  BY <1>1 DEF Tick, plaidVars, writerVars
<1>2. CASE ChangeInstitution
  BY <1>2 DEF ChangeInstitution, plaidVars, writerVars
<1>3. ASSUME NEW code \in Codes, Announce(code)
      PROVE  TypeOK'
  <2>1. Cardinality(hooks) + 1 \in 1..MaxWebhooks
    BY <1>3, FS_CardinalityType DEF Announce
  <2>2. hooks' \subseteq Webhook /\ hooks \subseteq hooks'
    BY <1>3, <2>1 DEF Announce, Webhook
  <2>3. IsFiniteSet(hooks')
    BY <1>3, FS_AddElement DEF Announce
  <2>4. QED
    BY <1>3, <2>2, <2>3 DEF Announce, writerVars
<1>4. ASSUME NEW h \in Handlers, NEW w \in hooks, Deliver(h, w)
      PROVE  TypeOK'
  BY <1>4 DEF Deliver, plaidVars, writerVars, Writers, Read
<1>5. ASSUME NEW h \in Handlers, FindRecent(h)
      PROVE  TypeOK'
  BY <1>5, InitRowType DEF FindRecent, Respond200, Return, Forget, plaidVars, Writers
<1>6. ASSUME NEW h \in Handlers, InsertRow(h)
      PROVE  TypeOK'
  <2>1. NewRow(h) \in [code : Codes, completedAt : 0..MaxNow]
    BY <1>6 DEF InsertRow, NewRow, Webhook, Writers
  <2>2. QED
    BY <1>6, <2>1, InitRowType DEF InsertRow, Return, Forget, plaidVars, Writers
<1>7. ASSUME NEW h \in Handlers, SaveStatus(h)
      PROVE  TypeOK'
  <2>1. StatusOf(hook[h].code) \in Statuses
    BY <1>7, StatusTypes DEF SaveStatus, Webhook, Writers
  <2>2. row' \in BankLink
    BY <1>7, <2>1, RowSaved DEF SaveStatus, Writers
  <2>3. QED
    BY <1>7, <2>2, InitRowType
       DEF SaveStatus, Respond200, Return, Forget, plaidVars, Writers
<1>8. ASSUME NEW s \in Syncs, StartSync(s)
      PROVE  TypeOK'
  BY <1>8 DEF StartSync, plaidVars, Writers
<1>9. ASSUME NEW p \in Handlers \cup Syncs, ReadLink(p)
      PROVE  TypeOK'
  BY <1>9 DEF ReadLink, Read, plaidVars, Writers
<1>10. ASSUME NEW p \in Handlers \cup Syncs, GetAccounts(p)
       PROVE  TypeOK'
  <2>1. entity[p] \in BankLink /\ [entity[p] EXCEPT !.inst = inst] \in BankLink
    BY EntityChanged DEF Writers
  <2> QED
    BY <1>10, <2>1, InitRowType
       DEF GetAccounts, SyncReturns, Respond200, Return, Forget, plaidVars, Writers
<1>11. ASSUME NEW p \in Handlers \cup Syncs, SaveInstitution(p)
       PROVE  TypeOK'
  BY <1>11, InitRowType
     DEF SaveInstitution, SyncReturns, Respond200, Return, Forget, plaidVars, Writers
<1>12. ASSUME NEW p \in Handlers \cup Syncs, SyncThrows(p)
       PROVE  TypeOK'
  BY <1>12, InitRowType DEF SyncThrows, Return, Forget, plaidVars, Writers
<1>13. ASSUME NEW b \in Backfills, StartBackfill(b)
       PROVE  TypeOK'
  BY <1>13 DEF StartBackfill, Read, plaidVars, Writers
<1>14. ASSUME NEW b \in Backfills, GetItemId(b)
       PROVE  TypeOK'
  <2>1. [entity[b] EXCEPT !.itemId = TRUE] \in BankLink
    BY EntityChanged DEF Writers
  <2>2. entity' \in [Writers -> BankLink]
    BY <1>14, <2>1, InitRowType DEF GetItemId, Forget, Writers
  <2>3. QED
    BY <1>14, <2>2 DEF GetItemId, plaidVars, Writers
<1>15. ASSUME NEW b \in Backfills, SaveItemId(b)
       PROVE  TypeOK'
  BY <1>15, InitRowType DEF SaveItemId, Forget, plaidVars, Writers
<1>16. ASSUME NEW p \in Handlers \cup Backfills, CallThrows(p)
       PROVE  TypeOK'
  BY <1>16, InitRowType DEF CallThrows, Return, Forget, plaidVars, Writers
<1>17. CASE UNCHANGED vars
  BY <1>17 DEF vars
<1>18. QED
  BY <1>1, <1>2, <1>3, <1>4, <1>5, <1>6, <1>7, <1>8, <1>9, <1>10, <1>11, <1>12,
     <1>13, <1>14, <1>15, <1>16, <1>17
     DEF Next

(* Every variable keeps its type; in particular only webhooks Plaid sent   *)
(* are answered, and a request that is running handles one of them.        *)
THEOREM TypeCorrect == Spec => []TypeOK
<1>1. Init => TypeOK
  BY StatusAssumption, InitRowType, FS_EmptySet
     DEF Init, TypeOK, Statuses, Steps, Writers
<1>2. QED
  BY <1>1, TypeStep, PTL DEF Spec

-----------------------------------------------------------------------------
(* The entity of a status webhook was found by its item id, and a backfill *)
(* that is about to save has put one in its own.                           *)
HoldsItemId ==
    /\ \A h \in Handlers :
          pc[h] \in {"find", "insert", "saveStatus"} => entity[h].itemId
    /\ \A b \in Backfills : pc[b] = "saveItemId" => entity[b].itemId

IInv == TypeOK /\ HoldsItemId

LEMMA IInvStep == IInv /\ [Next]_vars => IInv'
<1> SUFFICES ASSUME IInv, [Next]_vars
             PROVE  HoldsItemId'
  BY TypeStep DEF IInv
<1> USE StatusAssumption
    DEF IInv, TypeOK, HoldsItemId, Steps, Goto, Writers, writerVars
<1>1. CASE Tick \/ ChangeInstitution
  BY <1>1 DEF Tick, ChangeInstitution
<1>2. ASSUME NEW code \in Codes, Announce(code)
      PROVE  HoldsItemId'
  BY <1>2 DEF Announce
<1>3. ASSUME NEW h \in Handlers, NEW w \in hooks, Deliver(h, w)
      PROVE  HoldsItemId'
  BY <1>3 DEF Deliver, Read
<1>4. ASSUME NEW h \in Handlers, FindRecent(h) \/ InsertRow(h) \/ SaveStatus(h)
      PROVE  HoldsItemId'
  BY <1>4 DEF FindRecent, InsertRow, SaveStatus, Respond200, Return, Forget
<1>5. ASSUME NEW s \in Syncs, StartSync(s)
      PROVE  HoldsItemId'
  BY <1>5 DEF StartSync
<1>6. ASSUME NEW p \in Handlers \cup Syncs,
             ReadLink(p) \/ GetAccounts(p) \/ SaveInstitution(p) \/ SyncThrows(p)
      PROVE  HoldsItemId'
  BY <1>6 DEF ReadLink, GetAccounts, SaveInstitution, SyncThrows, SyncReturns,
              Respond200, Return, Forget, Read
<1>7. ASSUME NEW b \in Backfills,
             StartBackfill(b) \/ GetItemId(b) \/ SaveItemId(b)
      PROVE  HoldsItemId'
  BY <1>7 DEF StartBackfill, GetItemId, SaveItemId, Forget, Read, BankLink
<1>8. ASSUME NEW p \in Handlers \cup Backfills, CallThrows(p)
      PROVE  HoldsItemId'
  BY <1>8 DEF CallThrows, Return, Forget
<1>9. CASE UNCHANGED vars
  BY <1>9 DEF vars
<1>10. QED
  BY <1>1, <1>2, <1>3, <1>4, <1>5, <1>6, <1>7, <1>8, <1>9 DEF Next

LEMMA IInvariant == Spec => []IInv
<1>1. Init => IInv
  BY StatusAssumption, InitRowType, FS_EmptySet
     DEF Init, IInv, TypeOK, HoldsItemId, Statuses, Steps, Writers
<1>2. QED
  BY <1>1, IInvStep, PTL DEF Spec

(* Status webhooks and backfills never take a stored item id off the row,  *)
(* however they overlap: only a sync that saves institution info can.      *)
THEOREM ItemIdLostToSyncs == Spec => OnlySyncsLoseItemId
<1>1. ASSUME IInv, [Next]_vars, row.itemId, ~row'.itemId
      PROVE  \E p \in Handlers \cup Syncs : SaveInstitution(p)
  <2> SUFFICES ASSUME \A p \in Handlers \cup Syncs : ~SaveInstitution(p)
               PROVE  FALSE
    OBVIOUS
  <2> USE <1>1 DEF IInv, TypeOK, HoldsItemId, Writers
  <2>1. ASSUME NEW h \in Handlers, SaveStatus(h)
        PROVE  FALSE
    BY <2>1 DEF SaveStatus, BankLink
  <2>2. ASSUME NEW b \in Backfills, SaveItemId(b)
        PROVE  FALSE
    BY <2>2 DEF SaveItemId
  <2>3. QED
    BY <2>1, <2>2
       DEF Next, vars, Tick, ChangeInstitution, Announce, Deliver, FindRecent,
           InsertRow, StartSync, ReadLink, GetAccounts, SyncThrows,
           StartBackfill, GetItemId, CallThrows
<1>2. QED
  BY <1>1, IInvariant, PTL DEF Spec, OnlySyncsLoseItemId

-----------------------------------------------------------------------------
(* Backfills do not overlap. *)
OneBackfill == \A b, c \in Backfills : b = c

(* Until the institution info changes no sync saves the row.  While it has *)
(* no item id no status webhook is past the lookup, so a backfill still    *)
(* holds the current status.                                               *)
Calm ==
    /\ row.inst = 0
    /\ \A p \in Writers : entity[p].inst = 0
    /\ \A p \in Handlers \cup Syncs : pc[p] # "saveInst"
    /\ ~row.itemId =>
          \A h \in Handlers : pc[h] \notin {"find", "insert", "saveStatus"}
    /\ \A b \in Backfills : pc[b] \in {"getItemId", "saveItemId"} =>
          ~row.itemId /\ entity[b].status = row.status

CalmInv == inst = 0 => Calm

LEMMA InstitutionGrows == TypeOK /\ [Next]_vars /\ inst' = 0 => inst = 0
  BY StatusAssumption
     DEF TypeOK, Next, vars, plaidVars, Tick, ChangeInstitution, Announce,
         Deliver, FindRecent, InsertRow, SaveStatus, StartSync, ReadLink,
         GetAccounts, SaveInstitution, SyncThrows, StartBackfill, GetItemId,
         SaveItemId, CallThrows

LEMMA CalmStep == OneBackfill /\ IInv /\ CalmInv /\ [Next]_vars => CalmInv'
<1> SUFFICES ASSUME OneBackfill, IInv, Calm, [Next]_vars, inst = 0, inst' = 0
             PROVE  Calm'
  BY InstitutionGrows DEF IInv, CalmInv
<1>0. InitRow.inst = 0
  BY DEF InitRow
<1> USE <1>0, StatusAssumption
    DEF OneBackfill, Calm, IInv, TypeOK, HoldsItemId, Steps, Goto, Writers, writerVars
<1>1. CASE Tick \/ ChangeInstitution
  BY <1>1 DEF Tick, ChangeInstitution
<1>2. ASSUME NEW code \in Codes, Announce(code)
      PROVE  Calm'
  BY <1>2 DEF Announce
<1>3. ASSUME NEW h \in Handlers, NEW w \in hooks, Deliver(h, w)
      PROVE  Calm'
  BY <1>3 DEF Deliver, Read
<1>4. ASSUME NEW h \in Handlers, FindRecent(h) \/ InsertRow(h)
      PROVE  Calm'
  BY <1>4 DEF FindRecent, InsertRow, Respond200, Return, Forget
<1>5. ASSUME NEW h \in Handlers, SaveStatus(h)
      PROVE  Calm'
  <2>1. row.itemId /\ row'.itemId /\ row'.inst = 0
    BY <1>5 DEF SaveStatus, BankLink
  <2>2. QED
    BY <1>5, <2>1 DEF SaveStatus, Respond200, Return, Forget
<1>6. ASSUME NEW s \in Syncs, StartSync(s)
      PROVE  Calm'
  BY <1>6 DEF StartSync
<1>7. ASSUME NEW p \in Handlers \cup Syncs, GetAccounts(p)
      PROVE  Calm'
  <2>1. inst = entity[p].inst
    OBVIOUS
  <2>2. QED
    BY <1>7, <2>1 DEF GetAccounts, SyncReturns, Respond200, Return, Forget
<1>8. ASSUME NEW p \in Handlers \cup Syncs,
             ReadLink(p) \/ SaveInstitution(p) \/ SyncThrows(p)
      PROVE  Calm'
  BY <1>8 DEF ReadLink, SaveInstitution, SyncThrows, Return, Forget, Read
<1>9. ASSUME NEW b \in Backfills, StartBackfill(b) \/ GetItemId(b)
      PROVE  Calm'
  BY <1>9 DEF StartBackfill, GetItemId, Forget, Read, BankLink
<1>10. ASSUME NEW b \in Backfills, SaveItemId(b)
       PROVE  Calm'
  BY <1>10 DEF SaveItemId, Forget
<1>11. ASSUME NEW p \in Handlers \cup Backfills, CallThrows(p)
       PROVE  Calm'
  BY <1>11 DEF CallThrows, Return, Forget
<1>12. CASE UNCHANGED vars
  BY <1>12 DEF vars
<1>13. QED
  BY <1>1, <1>2, <1>3, <1>4, <1>5, <1>6, <1>7, <1>8, <1>9, <1>10, <1>11, <1>12
     DEF Next

(* Until the institution info changes, and if backfills do not overlap,    *)
(* the status column moves only when a status webhook is processed, with   *)
(* any number of status webhooks and syncs in progress.                    *)
THEOREM StatusFromWebhooks == OneBackfill /\ Spec => StatusIsWebhooks
<1> SUFFICES ASSUME OneBackfill
             PROVE  Spec => StatusIsWebhooks
  OBVIOUS
<1>1. Init => CalmInv
  BY DEF Init, CalmInv, Calm, InitRow, Writers
<1>2. ASSUME IInv, CalmInv, [Next]_vars, inst = 0, row'.status # row.status
      PROVE  \E h \in Handlers : SaveStatus(h)
  <2> USE <1>2 DEF CalmInv, Calm
  <2>1. ASSUME NEW b \in Backfills, SaveItemId(b)
        PROVE  FALSE
    BY <2>1 DEF SaveItemId
  <2>2. ASSUME NEW p \in Handlers \cup Syncs, SaveInstitution(p)
        PROVE  FALSE
    BY <2>2 DEF SaveInstitution
  <2>3. QED
    BY <2>1, <2>2
       DEF Next, vars, Tick, ChangeInstitution, Announce, Deliver, FindRecent,
           InsertRow, StartSync, ReadLink, GetAccounts, SyncThrows,
           StartBackfill, GetItemId, CallThrows
<1>3. IInv /\ CalmInv /\ [Next]_vars => CalmInv'
  BY CalmStep
<1>4. QED
  BY <1>1, <1>2, <1>3, IInvariant, PTL DEF Spec, StatusIsWebhooks

-----------------------------------------------------------------------------
(* Status webhooks do not overlap.  A row in the table is no younger than  *)
(* the one a handler is about to insert or has just inserted, so the       *)
(* status a handler saves is that of a latest row.                         *)
OneHandler == \A g, h \in Handlers : g = h

Shown ==
    IF rows = {}
      THEN row.status = "OK"
      ELSE \E r \in rows : Latest(r) /\ row.status = StatusOf(r.code)

RowsOrdered ==
    /\ \A r \in rows : r.completedAt <= now
    /\ \A h \in Handlers :
          /\ pc[h] = "insert" => \A r \in rows : r.completedAt <= stamp[h]
          /\ pc[h] = "insert" => stamp[h] <= now
          /\ pc[h] = "saveStatus" => NewRow(h) \in rows /\ Latest(NewRow(h))

ShownOrSaving ==
    inst = 0 /\ faults = 0 => Shown \/ \E h \in Handlers : pc[h] = "saveStatus"

ShownInv == RowsOrdered /\ ShownOrSaving

(* What a step that touches neither the table nor a handler leaves         *)
LEMMA ShownKept ==
  ASSUME TypeOK, ShownInv, rows' = rows, now' >= now, now' \in Nat,
         inst' = 0 => inst = 0, faults' = 0 => faults = 0,
         inst' = 0 => row'.status = row.status,
         \A h \in Handlers :
            \/ pc'[h] = pc[h] /\ hook'[h] = hook[h] /\ stamp'[h] = stamp[h]
            \/ pc[h] # "saveStatus" /\ pc'[h] \notin {"insert", "saveStatus"}
            \/ faults' # 0 /\ pc'[h] \notin {"insert", "saveStatus"}
  PROVE  ShownInv'
<1>1. RowsOrdered'
  <2>1. now \in Nat /\ \A r \in rows : r.completedAt \in Nat
    BY StatusAssumption DEF TypeOK
  <2>2. \A r \in rows : r.completedAt <= now'
    BY <2>1 DEF ShownInv, RowsOrdered
  <2>3. ASSUME NEW h \in Handlers, pc'[h] \in {"insert", "saveStatus"}
        PROVE  /\ pc'[h] = pc[h] /\ hook'[h] = hook[h] /\ stamp'[h] = stamp[h]
               /\ stamp[h] \in Nat
    BY <2>3, StatusAssumption DEF TypeOK
  <2>4. ASSUME NEW h \in Handlers, pc'[h] = "insert"
        PROVE  /\ \A r \in rows : r.completedAt <= stamp'[h]
               /\ stamp'[h] <= now'
    BY <2>1, <2>3, <2>4 DEF ShownInv, RowsOrdered
  <2>5. ASSUME NEW h \in Handlers, pc'[h] = "saveStatus"
        PROVE  NewRow(h)' \in rows /\ Latest(NewRow(h))'
    BY <2>3, <2>5 DEF ShownInv, RowsOrdered, NewRow, Latest
  <2>6. QED
    BY <2>2, <2>4, <2>5 DEF RowsOrdered
<1>2. ShownOrSaving'
  <2> SUFFICES ASSUME inst' = 0, faults' = 0
               PROVE  Shown' \/ \E h \in Handlers : pc'[h] = "saveStatus"
    BY DEF ShownOrSaving
  <2>1. CASE Shown
    BY <2>1 DEF Shown, Latest
  <2>2. CASE \E h \in Handlers : pc[h] = "saveStatus"
    BY <2>2
  <2>3. QED
    BY <2>1, <2>2 DEF ShownInv, ShownOrSaving
<1>3. QED
  BY <1>1, <1>2 DEF ShownInv

LEMMA ShownStep ==
  OneBackfill /\ OneHandler /\ IInv /\ CalmInv /\ ShownInv /\ [Next]_vars => ShownInv'
<1> SUFFICES ASSUME OneHandler, IInv, CalmInv, ShownInv, [Next]_vars
             PROVE  ShownInv'
  OBVIOUS
<1>0. TypeOK /\ HoldsItemId /\ now \in Nat /\ faults \in Nat /\ inst \in Nat
  BY StatusAssumption DEF IInv, TypeOK
<1>a. inst = 0 => Calm
  BY DEF CalmInv
<1>1. CASE Tick \/ ChangeInstitution \/ \E code \in Codes : Announce(code)
  <2>1. /\ UNCHANGED <<rows, row, pc, hook, stamp, faults>>
        /\ now' = now \/ now' = now + 1
        /\ inst' = inst \/ inst' = inst + 1
    BY <1>1 DEF Tick, ChangeInstitution, Announce, plaidVars, writerVars
  <2>2. QED
    BY <1>0, <2>1, ShownKept
<1>2. ASSUME NEW h \in Handlers, NEW w \in hooks, Deliver(h, w)
      PROVE  ShownInv'
  <2>1. /\ UNCHANGED <<rows, row, now, inst, faults>> /\ pc[h] = "idle"
        /\ pc'[h] \in {"idle", "find"}
    BY <1>0, <1>2 DEF Deliver, Goto, plaidVars, writerVars, TypeOK, Writers
  <2>2. \A g \in Handlers : g = h
    BY DEF OneHandler
  <2>3. QED
    BY <1>0, <2>1, <2>2, ShownKept
<1>3. ASSUME NEW h \in Handlers, FindRecent(h)
      PROVE  ShownInv'
  <2>1. UNCHANGED <<rows, row, now, inst, faults>> /\ pc[h] = "find"
    BY <1>3 DEF FindRecent, plaidVars
  <2>2. \A g \in Handlers : g = h
    BY DEF OneHandler
  <2>3. CASE Respond200(h)
    <3>1. pc'[h] = "idle"
      BY <1>0, <2>3 DEF Respond200, Return, Goto, TypeOK, Writers
    <3>2. QED
      BY <1>0, <2>1, <2>2, <3>1, ShownKept
  <2>4. CASE pc'[h] = "insert" /\ stamp'[h] = now
    <3>1. RowsOrdered'
      BY <1>0, <2>1, <2>2, <2>4 DEF ShownInv, RowsOrdered
    <3>2. ShownOrSaving'
      BY <2>1, <2>2 DEF ShownInv, ShownOrSaving, Shown, Latest
    <3>3. QED
      BY <3>1, <3>2 DEF ShownInv
  <2>5. QED
    BY <1>0, <1>3, <2>3, <2>4 DEF FindRecent, Goto, TypeOK, Writers
<1>4. ASSUME NEW h \in Handlers, InsertRow(h)
      PROVE  ShownInv'
  <2>1. UNCHANGED <<row, now, inst, faults>> /\ pc[h] = "insert"
    BY <1>4 DEF InsertRow, plaidVars
  <2>2. \A g \in Handlers : g = h
    BY DEF OneHandler
  <2>3. CASE Return(h) /\ rows' = rows
    <3>1. pc'[h] = "idle"
      BY <1>0, <2>3 DEF Return, Goto, TypeOK, Writers
    <3>2. QED
      BY <1>0, <2>1, <2>2, <2>3, <3>1, ShownKept
  <2>4. CASE /\ rows' = rows \cup {NewRow(h)} /\ Goto(h, "saveStatus")
             /\ UNCHANGED <<hook, stamp, entity>>
    <3>1. pc'[h] = "saveStatus" /\ NewRow(h)' = NewRow(h)
      BY <1>0, <2>4 DEF Goto, TypeOK, Writers, NewRow
    <3>2. NewRow(h).completedAt = stamp[h] /\ stamp[h] \in Nat /\ stamp[h] <= now
      <4>1. NewRow(h).completedAt = stamp[h]
        BY DEF NewRow
      <4>2. stamp[h] \in Nat
        BY <1>0, StatusAssumption DEF TypeOK
      <4>3. stamp[h] <= now
        BY <2>1 DEF ShownInv, RowsOrdered
      <4>4. QED
        BY <4>1, <4>2, <4>3
    <3>3. \A r \in rows' : r.completedAt <= stamp[h] /\ r.completedAt <= now
      BY <2>1, <2>4, <3>2 DEF ShownInv, RowsOrdered
    <3>4. NewRow(h) \in rows' /\ \A r \in rows' : r.completedAt <= NewRow(h).completedAt
      BY <2>4, <3>2, <3>3
    <3>5. RowsOrdered'
      BY <2>1, <2>2, <3>1, <3>3, <3>4 DEF RowsOrdered, Latest
    <3>6. QED
      BY <3>1, <3>5 DEF ShownInv, ShownOrSaving
  <2>5. QED
    BY <1>4, <2>3, <2>4 DEF InsertRow
<1>5. ASSUME NEW h \in Handlers, SaveStatus(h)
      PROVE  ShownInv'
  <2>1. /\ UNCHANGED <<rows, now>> /\ pc[h] = "saveStatus"
        /\ row' = [entity[h] EXCEPT !.status = StatusOf(hook[h].code)]
    BY <1>5 DEF SaveStatus, plaidVars
  <2>2. \A g \in Handlers : g = h
    BY DEF OneHandler
  <2>3. pc'[h] \in {"read", "idle"}
    BY <1>0, <1>5 DEF SaveStatus, Respond200, Return, Goto, TypeOK, Writers
  <2>4. RowsOrdered'
    BY <2>1, <2>2, <2>3 DEF ShownInv, RowsOrdered
  <2>5. row'.status = StatusOf(hook[h].code)
    <3>1. entity[h] \in BankLink
      BY <1>0 DEF TypeOK, Writers
    <3>2. QED
      BY <2>1, <3>1 DEF BankLink
  <2>6. NewRow(h) \in rows /\ Latest(NewRow(h)) /\ NewRow(h).code = hook[h].code
    BY <2>1 DEF ShownInv, RowsOrdered, NewRow
  <2>7. Shown'
    BY <2>1, <2>5, <2>6 DEF Shown, Latest
  <2>8. QED
    BY <2>4, <2>7 DEF ShownInv, ShownOrSaving
<1>6. ASSUME NEW s \in Syncs, StartSync(s)
      PROVE  ShownInv'
  <2>1. /\ UNCHANGED <<rows, row, now, inst, faults, hook, stamp>>
        /\ \A h \in Handlers : pc'[h] = pc[h]
    BY <1>0, <1>6, StatusAssumption DEF StartSync, Goto, plaidVars, TypeOK, Writers
  <2>2. QED
    BY <1>0, <2>1, ShownKept
<1>7. ASSUME NEW p \in Handlers \cup Syncs,
             ReadLink(p) \/ GetAccounts(p) \/ SaveInstitution(p) \/ SyncThrows(p)
      PROVE  ShownInv'
  <2>1. UNCHANGED <<rows, now, inst, faults>> /\ pc[p] \in {"read", "getAccounts", "saveInst"}
    BY <1>7 DEF ReadLink, GetAccounts, SaveInstitution, SyncThrows, plaidVars
  <2>2. inst = 0 => row' = row
    BY <1>7, <1>a DEF ReadLink, GetAccounts, SaveInstitution, SyncThrows, Calm
  <2>3. pc'[p] \in {"getAccounts", "saveInst", "idle"}
    BY <1>0, <1>7
       DEF ReadLink, GetAccounts, SaveInstitution, SyncThrows, SyncReturns, Respond200, Return,
           Goto, TypeOK, Writers
  <2>4. \A h \in Handlers : h # p => pc'[h] = pc[h] /\ hook'[h] = hook[h] /\ stamp'[h] = stamp[h]
    BY <1>0, <1>7
       DEF ReadLink, GetAccounts, SaveInstitution, SyncThrows, SyncReturns, Respond200, Return,
           Goto, TypeOK, Writers
  <2>5. QED
    BY <1>0, <2>1, <2>2, <2>3, <2>4, ShownKept
<1>8. ASSUME NEW b \in Backfills, StartBackfill(b) \/ GetItemId(b) \/ SaveItemId(b)
      PROVE  ShownInv'
  <2>1. UNCHANGED <<rows, now, inst, faults, hook, stamp>>
    BY <1>8 DEF StartBackfill, GetItemId, SaveItemId, plaidVars
  <2>2. inst = 0 => row'.status = row.status
    BY <1>8, <1>a DEF StartBackfill, GetItemId, SaveItemId, Calm
  <2>3. \A h \in Handlers : pc'[h] = pc[h]
    BY <1>0, <1>8, StatusAssumption
       DEF StartBackfill, GetItemId, SaveItemId, Goto, TypeOK, Writers
  <2>4. QED
    BY <1>0, <2>1, <2>2, <2>3, ShownKept
<1>9. ASSUME NEW p \in Handlers \cup Backfills, CallThrows(p)
      PROVE  ShownInv'
  <2>1. UNCHANGED <<rows, row, now, inst>> /\ faults' = faults + 1
    BY <1>9 DEF CallThrows, plaidVars
  <2>2. pc'[p] = "idle"
    BY <1>0, <1>9 DEF CallThrows, Return, Goto, TypeOK, Writers
  <2>3. \A h \in Handlers : h # p => pc'[h] = pc[h] /\ hook'[h] = hook[h] /\ stamp'[h] = stamp[h]
    BY <1>0, <1>9 DEF CallThrows, Return, Goto, TypeOK, Writers
  <2>4. faults' # 0
    BY <1>0, <2>1
  <2>5. QED
    BY <1>0, <2>1, <2>2, <2>3, <2>4, ShownKept
<1>10. CASE UNCHANGED vars
  BY <1>0, <1>10, ShownKept DEF vars
<1>11. QED
  BY <1>1, <1>2, <1>3, <1>4, <1>5, <1>6, <1>7, <1>8, <1>9, <1>10 DEF Next

(* When neither status webhooks nor backfills overlap, no query failed and *)
(* the institution info is stable, the row shows between webhooks the      *)
(* status of the webhook acquired last, whatever syncs and backfills read  *)
(* and saved meanwhile.                                                    *)
THEOREM LastAcquiredIsShown == OneHandler /\ OneBackfill /\ Spec => []LastAcquiredShows
<1> SUFFICES ASSUME OneHandler, OneBackfill
             PROVE  Spec => []LastAcquiredShows
  OBVIOUS
<1>1. Init => CalmInv /\ ShownInv
  <2>1. Init => CalmInv
    BY DEF Init, CalmInv, Calm, InitRow, Writers
  <2>2. Init => ShownInv
    BY DEF Init, ShownInv, RowsOrdered, ShownOrSaving, Shown, InitRow, Writers
  <2>3. QED
    BY <2>1, <2>2
<1>2. IInv /\ CalmInv /\ [Next]_vars => CalmInv'
  BY CalmStep
<1>3. IInv /\ CalmInv /\ ShownInv /\ [Next]_vars => ShownInv'
  BY ShownStep
<1>4. ShownInv => LastAcquiredShows
  BY DEF ShownInv, ShownOrSaving, Shown, LastAcquiredShows, HandlersIdle
<1>5. QED
  BY <1>1, <1>2, <1>3, <1>4, IInvariant, PTL DEF Spec
=============================================================================
