------------------------- MODULE WebhookDedupProofs -------------------------
(***************************************************************************)
(* What the deduplication of update webhooks guarantees for any window,    *)
(* any number of items, types and overlapping requests, and what it        *)
(* guarantees only when requests do not overlap; then what the             *)
(* verification before it guarantees for any keys, ages and number of      *)
(* requests, and that the deduplication behind it keeps its promise.       *)
(***************************************************************************)
EXTENDS WebhookVerification, SequenceTheorems, TLAPS

LEMMA TypeStep == TypeOK /\ [Next]_vars => TypeOK'
<1> SUFFICES ASSUME TypeOK, [Next]_vars
             PROVE  TypeOK'
  OBVIOUS
<1> USE DedupAssumption
    DEF TypeOK, plaidVars, handlerVars, Goto, Return, Respond200, Fault
<1>1. CASE Tick
  BY <1>1 DEF Tick
<1>2. ASSUME NEW i \in Items \cup Unknown, NEW ty \in Types, Change(i, ty)
      PROVE  TypeOK'
  BY <1>2 DEF Change, Webhook
<1>3. ASSUME NEW h \in Handlers, NEW w \in hooks, Deliver(h, w)
      PROVE  TypeOK'
  BY <1>3 DEF Deliver
<1>4. ASSUME NEW h \in Handlers, FindRecent(h)
      PROVE  TypeOK'
  BY <1>4 DEF FindRecent, Acquire, Webhook
<1>5. ASSUME NEW h \in Handlers, InsertRow(h)
      PROVE  TypeOK'
  BY <1>5 DEF InsertRow, NewRow, Row, Webhook
<1>6. ASSUME NEW h \in Handlers, FetchAccounts(h)
      PROVE  TypeOK'
  BY <1>6 DEF FetchAccounts
<1>7. ASSUME NEW h \in Handlers, SaveAccounts(h)
      PROVE  TypeOK'
  BY <1>7 DEF SaveAccounts
<1>8. ASSUME NEW h \in Handlers, RequestThrows(h)
      PROVE  TypeOK'
  BY <1>8 DEF RequestThrows
<1>9. CASE UNCHANGED vars
  BY <1>9 DEF vars
<1>10. QED
  BY <1>1, <1>2, <1>3, <1>4, <1>5, <1>6, <1>7, <1>8, <1>9
     DEF Next, HandlerStep

(* Every variable keeps its type; in particular a request reaches the      *)
(* deduplication only for an item that has a bank link.                    *)
THEOREM TypeCorrect == Spec => []TypeOK
<1>1. Init => TypeOK
  BY DedupAssumption DEF Init, TypeOK
<1>2. QED
  BY <1>1, TypeStep, PTL DEF Spec

-----------------------------------------------------------------------------
(* Time only moves forward, so a row inserted after a request took the     *)
(* time is no older than that.                                             *)

StartedBefore ==
    /\ \A h \in Handlers : stamp[h] <= now
    /\ \A r \in rows : r.completedAt <= r.createdAt /\ r.createdAt <= now

IInv == TypeOK /\ StartedBefore /\ OnlyOverlapsDuplicate

LEMMA IInvStep == IInv /\ [Next]_vars => IInv'
<1> SUFFICES ASSUME IInv, [Next]_vars
             PROVE  IInv'
  OBVIOUS
<1>1. TypeOK'
  BY TypeStep DEF IInv
<1> USE <1>1, DedupAssumption
    DEF IInv, TypeOK, StartedBefore, OnlyOverlapsDuplicate, Recent, plaidVars,
        handlerVars, Goto, Return, Respond200, Fault, Row, SameKey
<1>2. CASE Tick
  BY <1>2 DEF Tick
<1>3. ASSUME NEW i \in Items \cup Unknown, NEW ty \in Types, Change(i, ty)
      PROVE  IInv'
  BY <1>3 DEF Change
<1>4. ASSUME NEW h \in Handlers, NEW w \in hooks, Deliver(h, w)
      PROVE  IInv'
  BY <1>4 DEF Deliver
<1>5. ASSUME NEW h \in Handlers, FindRecent(h)
      PROVE  IInv'
  BY <1>5 DEF FindRecent, Acquire
<1>6. ASSUME NEW h \in Handlers, InsertRow(h)
      PROVE  IInv'
  BY <1>6 DEF InsertRow, NewRow
<1>7. ASSUME NEW h \in Handlers,
             FetchAccounts(h) \/ SaveAccounts(h) \/ RequestThrows(h)
      PROVE  IInv'
  BY <1>7 DEF FetchAccounts, SaveAccounts, RequestThrows
<1>8. CASE UNCHANGED vars
  BY <1>8 DEF vars
<1>9. QED
  BY <1>2, <1>3, <1>4, <1>5, <1>6, <1>7, <1>8 DEF Next, HandlerStep

LEMMA IInvInvariant == Spec => []IInv
<1>1. Init => IInv
  BY DedupAssumption
     DEF Init, IInv, TypeOK, StartedBefore, OnlyOverlapsDuplicate
<1>2. QED
  BY <1>1, IInvStep, PTL DEF Spec

(* For any window and any number of requests, tryAcquireWebhook lets a     *)
(* second request for a key through only if it read the table before the   *)
(* first one's row was inserted.                                           *)
THEOREM DuplicatesOverlap == Spec => []OnlyOverlapsDuplicate
<1>1. IInv => OnlyOverlapsDuplicate
  BY DEF IInv
<1>2. QED
  BY <1>1, IInvInvariant, PTL

-----------------------------------------------------------------------------
(* Without overlaps the window is a lock.                                  *)

Serial == \A g, h \in Handlers : g = h

SerialInv ==
    /\ \A h \in Handlers : pc[h] = "insert" =>
          \A r \in rows : SameKey(r, hook[h]) => ~Recent(r, h)
    /\ Spaced

LEMMA SerialStep == Serial /\ IInv /\ SerialInv /\ [Next]_vars => SerialInv'
<1> SUFFICES ASSUME Serial, IInv, SerialInv, [Next]_vars
             PROVE  SerialInv'
  OBVIOUS
<1>1. TypeOK'
  BY TypeStep DEF IInv
<1> USE <1>1, DedupAssumption
    DEF IInv, TypeOK, SerialInv, Spaced, Close, Recent, plaidVars, handlerVars,
        Goto, Return, Respond200, Fault, Row, SameKey
<1>2. CASE Tick
  BY <1>2 DEF Tick
<1>3. ASSUME NEW i \in Items \cup Unknown, NEW ty \in Types, Change(i, ty)
      PROVE  SerialInv'
  BY <1>3 DEF Change
<1>4. ASSUME NEW h \in Handlers, NEW w \in hooks, Deliver(h, w)
      PROVE  SerialInv'
  BY <1>4 DEF Deliver
<1>5. ASSUME NEW h \in Handlers, FindRecent(h)
      PROVE  SerialInv'
  <2>1. rows' = rows /\ now' = now /\ \A g \in Handlers : g = h
    BY <1>5 DEF FindRecent, Serial
  <2>2. Spaced'
    BY <2>1
  <2>3. CASE pc'[h] = "insert"
    <3>1. /\ \A r \in rows : SameKey(r, hook[h]) => ~Recent(r, h)
          /\ hook' = hook /\ stamp' = [stamp EXCEPT ![h] = now]
      <4>1. ~Respond200(h)
        BY <2>3
      <4> HIDE DEF SameKey, Recent, Respond200, TypeOK, IInv, SerialInv
      <4>2. QED
        BY <1>5, <4>1 DEF FindRecent, Acquire
    <3>2. \A r \in rows : SameKey(r, hook[h]) => r.completedAt + Window <= now
      BY <3>1 DEF StartedBefore
    <3>3. stamp'[h] = now
      BY <3>1
    <3>4. \A r \in rows : SameKey(r, hook[h]) => ~(r.completedAt + Window > now)
      BY <3>2
    <3>5. QED
      BY <2>1, <2>2, <3>1, <3>3, <3>4
  <2>4. QED
    BY <2>1, <2>2, <2>3
<1>6. ASSUME NEW h \in Handlers, InsertRow(h)
      PROVE  SerialInv'
  <2>1. rows' = rows \/ rows' = rows \cup {NewRow(h)}
    BY <1>6 DEF InsertRow
  <2>2. ASSUME NEW r \in rows, SameKey(r, NewRow(h))
        PROVE  r.completedAt + Window <= NewRow(h).completedAt
    BY <1>6, <2>2 DEF InsertRow, NewRow
  <2>3. NewRow(h).completedAt \in Nat
    BY DEF NewRow
  <2>4. ASSUME NEW r \in rows, SameKey(r, NewRow(h)) \/ SameKey(NewRow(h), r)
        PROVE  ~Close(r, NewRow(h)) /\ ~Close(NewRow(h), r)
    <3>1. SameKey(r, NewRow(h))
      BY <2>4
    <3>2. r.completedAt + Window <= NewRow(h).completedAt /\ r.completedAt \in Nat
      BY <2>2, <3>1
    <3>3. QED
      BY <2>3, <3>2
  <2> HIDE DEF Close, SameKey, NewRow
  <2>5. Spaced'
    BY <2>1, <2>4
  <2>6. pc'[h] # "insert" /\ \A g \in Handlers : g = h
    BY <1>6 DEF InsertRow, Serial
  <2>7. QED
    BY <2>5, <2>6
<1>7. ASSUME NEW h \in Handlers,
             FetchAccounts(h) \/ SaveAccounts(h) \/ RequestThrows(h)
      PROVE  SerialInv'
  BY <1>7 DEF FetchAccounts, SaveAccounts, RequestThrows
<1>8. CASE UNCHANGED vars
  BY <1>8 DEF vars
<1>9. QED
  BY <1>2, <1>3, <1>4, <1>5, <1>6, <1>7, <1>8 DEF Next, HandlerStep

(* When requests do not overlap, a key is acquired at most once in any     *)
(* window, whatever the webhooks, the retries and the failures.            *)
THEOREM SerialSpaced == Serial /\ Spec => []Spaced
<1>1. CASE Serial
  <2>1. IInv /\ SerialInv /\ [Next]_vars => SerialInv'
    BY <1>1, SerialStep
  <2>2. Init => SerialInv
    BY DEF Init, SerialInv, Spaced
  <2>3. SerialInv => Spaced
    BY DEF SerialInv
  <2>4. QED
    BY <2>1, <2>2, <2>3, IInvInvariant, PTL DEF Spec
<1>2. QED
  BY <1>1

-----------------------------------------------------------------------------
(* Which changes are lost when requests do not overlap.  The latest        *)
(* webhook of an item was dropped for a row of its key that is older, or   *)
(* for one whose sync fetched the change, or failed.                       *)

HooksPast ==
    \A w \in hooks : w.at <= now /\ w.ver <= avail[w.item]

Latest(w) == w.ver = avail[w.item]

LatestSent ==
    \A i \in Items : avail[i] = 0 \/ \E w \in hooks : w.item = i /\ Latest(w)

SyncsForward ==
    /\ \A i \in Items : synced[i] <= avail[i]
    /\ \A h \in Handlers :
          /\ pc[h] = "find" => hook[h].at <= stamp[h]
          /\ pc[h] = "save" =>
                /\ hook[h].ver <= fetched[h]
                /\ synced[hook[h].item] <= fetched[h]
                /\ fetched[h] <= avail[hook[h].item]

(* The sync of a request that has its row fetches, or has fetched, the     *)
(* latest change.                                                          *)
FetchesLatest(h) ==
    \/ pc[h] = "fetch"
    \/ pc[h] = "save" /\ fetched[h] = avail[hook[h].item]

RowsServed ==
    \A r \in rows, w \in hooks :
        SameKey(r, w) /\ Latest(w) /\ w.at < r.completedAt =>
            \/ synced[w.item] = avail[w.item]
            \/ faults > 0
            \/ \E h \in Handlers : hook[h].item = w.item /\ FetchesLatest(h)

Settled(w) ==
    \/ synced[w.item] = avail[w.item]
    \/ \E r \in rows : DroppedBy(w, r) \/ FailedAfterRow(w, r)

AckedServed ==
    \A w \in acked : w.item \in Items /\ Latest(w) => Settled(w)

DropInv ==
    /\ HooksPast
    /\ LatestSent
    /\ SyncsForward
    /\ RowsServed
    /\ AckedServed

(* What the arithmetic of the steps needs of the types                     *)
LEMMA DropTypes ==
  ASSUME TypeOK
  PROVE  /\ now \in Nat
         /\ \A i \in Items \cup Unknown : avail[i] \in Nat
         /\ \A i \in Items : synced[i] \in Nat
         /\ \A w \in hooks : w.item \in Items \cup Unknown /\ w.ver \in Nat /\ w.at \in Nat
         /\ \A r \in rows : r.item \in Items /\ r.completedAt \in Nat
         /\ \A h \in Handlers :
               /\ stamp[h] \in Nat /\ fetched[h] \in Nat
               /\ pc[h] # "idle" => hook[h] \in hooks
               /\ pc[h] \notin {"idle", "find"} => hook[h].item \in Items
         /\ faults \in Nat
<1>1. \A n : n \in 0..MaxNow \/ n \in 0..MaxChanges \/ n \in 0..MaxFaults => n \in Nat
  BY DedupAssumption
<1>2. QED
  BY <1>1 DEF TypeOK, Webhook, Row

(* A step of the only handler that leaves the data, the rows and the       *)
(* answers as they are                                                     *)
LEMMA DropKept ==
  ASSUME DropInv, UNCHANGED <<now, avail, hooks, synced, rows>>,
         acked' = acked, faults' >= faults, faults \in Nat, faults' \in Nat,
         SyncsForward', RowsServed'
  PROVE  DropInv'
<1>1. HooksPast' /\ LatestSent'
  BY DEF DropInv, HooksPast, LatestSent, Latest
<1>2. AckedServed'
  <2>1. ASSUME NEW w, Settled(w)
        PROVE  Settled(w)'
    BY <2>1 DEF Settled, DroppedBy, FailedAfterRow
  <2>2. QED
    BY <2>1 DEF DropInv, AckedServed, Latest
<1>3. QED
  BY <1>1, <1>2 DEF DropInv

LEMMA DropChange ==
  ASSUME TypeOK, StartedBefore, DropInv,
         NEW i \in Items \cup Unknown, NEW ty \in Types, Change(i, ty)
  PROVE  DropInv'
<1> DEFINE new == [item |-> i, type |-> ty, ver |-> avail[i] + 1, at |-> now]
<1>1. /\ avail' = [avail EXCEPT ![i] = @ + 1]
      /\ hooks' = hooks \cup {new}
      /\ UNCHANGED <<now, synced, acked, rows, pc, hook, stamp, fetched, faults>>
  BY DEF Change, handlerVars
<1>2. /\ avail'[i] = avail[i] + 1
      /\ \A j \in Items \cup Unknown : j # i => avail'[j] = avail[j]
  BY <1>1 DEF TypeOK
<1>3. new.item = i /\ new.ver = avail'[i] /\ new.at = now
  BY <1>2
<1> HIDE DEF new
<1>4. \A w \in hooks : Latest(w)' => w.item # i /\ Latest(w)
  BY <1>2, DropTypes DEF DropInv, HooksPast, Latest
<1>5. HooksPast'
  BY <1>1, <1>2, <1>3, DropTypes DEF DropInv, HooksPast
<1>6. LatestSent'
  BY <1>1, <1>2, <1>3 DEF DropInv, LatestSent, Latest
<1>7. SyncsForward'
  <2>1. \A j \in Items : synced[j] <= avail'[j]
    BY <1>2, DropTypes DEF DropInv, SyncsForward
  <2>2. ASSUME NEW h \in Handlers, pc[h] = "save"
        PROVE  fetched[h] <= avail'[hook[h].item]
    BY <1>2, <2>2, DropTypes DEF DropInv, SyncsForward
  <2>3. QED
    BY <1>1, <2>1, <2>2 DEF DropInv, SyncsForward
<1>8. RowsServed'
  <2> SUFFICES ASSUME NEW r \in rows, NEW w \in hooks', SameKey(r, w), Latest(w)',
                      w.at < r.completedAt
               PROVE  \/ synced[w.item] = avail'[w.item]
                      \/ faults > 0
                      \/ \E h \in Handlers : hook[h].item = w.item /\ FetchesLatest(h)'
    BY <1>1 DEF RowsServed
  <2>1. w # new
    <3>1. r.completedAt <= now
      BY DropTypes DEF StartedBefore, TypeOK, Row
    <3>2. QED
      BY <1>3, <3>1, DropTypes
  <2>2. w \in hooks /\ w.item # i /\ Latest(w) /\ avail'[w.item] = avail[w.item]
    BY <1>1, <1>2, <1>4, <2>1, DropTypes
  <2>3. \A h \in Handlers : hook[h].item = w.item /\ FetchesLatest(h) => FetchesLatest(h)'
    BY <1>1, <2>2 DEF FetchesLatest
  <2>4. QED
    BY <2>2, <2>3 DEF DropInv, RowsServed
<1>9. AckedServed'
  <2> SUFFICES ASSUME NEW w \in acked, w.item \in Items, Latest(w)'
               PROVE  Settled(w)'
    BY <1>1 DEF AckedServed
  <2>1. w \in hooks /\ Latest(w) /\ avail'[w.item] = avail[w.item]
    BY <1>2, <1>4 DEF TypeOK
  <2>2. QED
    BY <1>1, <2>1 DEF DropInv, AckedServed, Settled, DroppedBy, FailedAfterRow
<1>10. QED
  BY <1>5, <1>6, <1>7, <1>8, <1>9 DEF DropInv

LEMMA DropFind ==
  ASSUME Serial, TypeOK, DropInv, NEW h \in Handlers, FindRecent(h)
  PROVE  DropInv'
<1>1. /\ pc[h] = "find" /\ hook[h] \in hooks
      /\ UNCHANGED <<now, avail, hooks, synced, rows, faults>>
      /\ hook[h].at <= stamp[h]
  BY DEF FindRecent, plaidVars, TypeOK, DropInv, SyncsForward
<1>2. pc'[h] # "find" /\ pc'[h] # "save" /\ \A g \in Handlers : g = h
  BY DEF FindRecent, Respond200, Return, Acquire, Goto, TypeOK, Serial
<1>3. SyncsForward'
  BY <1>1, <1>2 DEF DropInv, SyncsForward
<1>4. \A g \in Handlers : ~FetchesLatest(g)
  BY <1>1, <1>2 DEF FetchesLatest
<1>5. RowsServed'
  BY <1>1, <1>4 DEF DropInv, RowsServed, Latest
<1>6. \A w : Settled(w) => Settled(w)'
  BY <1>1 DEF Settled, DroppedBy, FailedAfterRow
<1>7. AckedServed'
  <2>1. CASE acked' = acked
    BY <1>1, <1>6, <2>1 DEF DropInv, AckedServed, Latest
  <2>2. CASE Respond200(h)
    <3>1. ASSUME hook[h].item \in Items, Latest(hook[h])
          PROVE  Settled(hook[h])
      <4>1. hook[h].item \notin Unknown
        BY <3>1, DedupAssumption
      <4>2. PICK r \in rows : SameKey(r, hook[h]) /\ Recent(r, h)
        <5>1. ~Acquire(h)
          BY <1>1, <2>2 DEF Acquire, Respond200, Return, Goto, TypeOK
        <5>2. QED
          BY <4>1, <5>1 DEF FindRecent
      <4>3. CASE r.completedAt <= hook[h].at
        <5>1. stamp[h] < r.completedAt + Window /\ hook[h].at < r.completedAt + Window
          BY <1>1, <4>2, DropTypes, DedupAssumption DEF Recent
        <5>2. QED
          BY <4>2, <4>3, <5>1 DEF Settled, DroppedBy
      <4>4. CASE hook[h].at < r.completedAt
        <5>1. synced[hook[h].item] = avail[hook[h].item] \/ faults > 0
          BY <1>1, <1>4, <3>1, <4>2, <4>4 DEF DropInv, RowsServed
        <5>2. r.completedAt >= hook[h].at
          BY <1>1, <4>4, DropTypes
        <5>3. QED
          BY <4>2, <5>1, <5>2 DEF Settled, FailedAfterRow
      <4>5. QED
        BY <1>1, <4>3, <4>4, DropTypes
    <3>2. acked' = acked \cup {hook[h]}
      BY <2>2 DEF Respond200
    <3>3. QED
      BY <1>1, <1>6, <3>1, <3>2 DEF DropInv, AckedServed, Latest
  <2>3. QED
    BY <2>1, <2>2 DEF FindRecent, Acquire
<1>8. QED
  BY <1>1, <1>3, <1>5, <1>7 DEF DropInv, HooksPast, LatestSent, Latest

LEMMA DropInsert ==
  ASSUME Serial, TypeOK, DropInv, NEW h \in Handlers, InsertRow(h)
  PROVE  DropInv'
<1>1. /\ pc[h] = "insert" /\ rows \subseteq rows'
      /\ UNCHANGED <<now, avail, hooks, acked, synced, faults>>
      /\ \/ rows' = rows
         \/ rows' = rows \cup {NewRow(h)} /\ pc'[h] = "fetch" /\ hook' = hook
  BY DEF InsertRow, Goto, plaidVars, TypeOK
<1>2. pc'[h] # "find" /\ pc'[h] # "save" /\ \A g \in Handlers : g = h
  BY DEF InsertRow, Return, Goto, TypeOK, Serial
<1>3. SyncsForward'
  BY <1>1, <1>2 DEF DropInv, SyncsForward
<1>4. \A g \in Handlers : ~FetchesLatest(g)
  BY <1>1, <1>2 DEF FetchesLatest
<1>5. RowsServed'
  <2> SUFFICES ASSUME NEW r \in rows', NEW w \in hooks, SameKey(r, w), Latest(w),
                      w.at < r.completedAt
               PROVE  \/ synced[w.item] = avail[w.item]
                      \/ faults > 0
                      \/ \E g \in Handlers : hook'[g].item = w.item /\ FetchesLatest(g)'
    BY <1>1 DEF RowsServed, Latest
  <2>1. CASE r \in rows
    BY <1>4, <2>1 DEF DropInv, RowsServed
  <2>2. CASE r \notin rows
    <3>1. r = NewRow(h) /\ pc'[h] = "fetch" /\ hook' = hook
      BY <1>1, <2>2
    <3>2. hook'[h].item = w.item /\ FetchesLatest(h)'
      BY <3>1 DEF NewRow, SameKey, FetchesLatest
    <3>3. QED
      BY <3>2
  <2>3. QED
    BY <2>1, <2>2
<1>6. AckedServed'
  BY <1>1 DEF DropInv, AckedServed, Latest, Settled, DroppedBy, FailedAfterRow
<1>7. QED
  BY <1>1, <1>3, <1>5, <1>6 DEF DropInv, HooksPast, LatestSent, Latest

LEMMA DropSave ==
  ASSUME Serial, TypeOK, DropInv, NEW h \in Handlers, SaveAccounts(h)
  PROVE  DropInv'
<1> DEFINE i == hook[h].item
<1>1. /\ pc[h] = "save" /\ hook[h] \in hooks /\ i \in Items
      /\ UNCHANGED <<now, avail, hooks, rows, faults>>
      /\ acked' = acked \cup {hook[h]}
      /\ synced'[i] = fetched[h]
      /\ \A j \in Items : j # i => synced'[j] = synced[j]
  BY DEF SaveAccounts, Respond200, plaidVars, TypeOK
<1>2. pc'[h] = "idle" /\ \A g \in Handlers : g = h
  BY DEF SaveAccounts, Respond200, Return, Goto, TypeOK, Serial
<1>3. /\ hook[h].ver <= fetched[h] /\ synced[i] <= fetched[h] /\ fetched[h] <= avail[i]
      /\ hook[h].ver \in Nat /\ synced[i] \in Nat /\ fetched[h] \in Nat /\ avail[i] \in Nat
  BY <1>1, DropTypes DEF DropInv, SyncsForward
<1> HIDE DEF i
<1>4. \A j \in Items : synced[j] = avail[j] => synced'[j] = avail[j]
  BY <1>1, <1>3
<1>5. SyncsForward'
  BY <1>1, <1>2, <1>3 DEF DropInv, SyncsForward
<1>6. RowsServed'
  <2> SUFFICES ASSUME NEW r \in rows, NEW w \in hooks, SameKey(r, w), Latest(w),
                      w.at < r.completedAt
               PROVE  synced'[w.item] = avail[w.item] \/ faults > 0
    BY <1>1 DEF RowsServed, Latest
  <2>1. w.item \in Items
    BY DropTypes DEF SameKey
  <2>2. CASE synced[w.item] = avail[w.item] \/ faults > 0
    BY <1>4, <2>1, <2>2
  <2>3. CASE hook[h].item = w.item /\ FetchesLatest(h)
    BY <1>1, <2>3 DEF FetchesLatest, i
  <2>4. QED
    BY <1>2, <2>2, <2>3 DEF DropInv, RowsServed
<1>7. AckedServed'
  <2> SUFFICES ASSUME NEW w \in acked', w.item \in Items, Latest(w)
               PROVE  Settled(w)'
    BY <1>1 DEF AckedServed, Latest
  <2>1. CASE w = hook[h]
    BY <1>1, <1>3, <2>1 DEF Latest, Settled, i
  <2>2. CASE w \in acked
    BY <1>1, <1>4, <2>2 DEF DropInv, AckedServed, Settled, DroppedBy, FailedAfterRow
  <2>3. QED
    BY <1>1, <2>1, <2>2
<1>8. QED
  BY <1>1, <1>5, <1>6, <1>7 DEF DropInv, HooksPast, LatestSent, Latest

LEMMA DropStep == Serial /\ IInv /\ DropInv /\ [Next]_vars => DropInv'
<1> SUFFICES ASSUME Serial, IInv, DropInv, [Next]_vars
             PROVE  DropInv'
  OBVIOUS
<1>0. TypeOK /\ TypeOK' /\ StartedBefore
  BY TypeStep DEF IInv
<1>1. CASE Tick
  <2>1. /\ now' = now + 1
        /\ UNCHANGED <<avail, hooks, synced, acked, rows, pc, hook, stamp, fetched, faults>>
    BY <1>1 DEF Tick, plaidVars, handlerVars
  <2>2. HooksPast'
    BY <1>0, <2>1, DropTypes DEF DropInv, HooksPast
  <2>3. QED
    BY <2>1, <2>2
       DEF DropInv, LatestSent, SyncsForward, RowsServed, AckedServed, Latest, Settled,
           FetchesLatest, DroppedBy, FailedAfterRow
<1>2. ASSUME NEW i \in Items \cup Unknown, NEW ty \in Types, Change(i, ty)
      PROVE  DropInv'
  BY <1>0, <1>2, DropChange
<1>3. ASSUME NEW h \in Handlers, NEW w \in hooks, Deliver(h, w)
      PROVE  DropInv'
  <2>1. /\ pc[h] = "idle" /\ pc'[h] = "find" /\ hook'[h] = w /\ stamp'[h] = now
        /\ UNCHANGED <<now, avail, hooks, synced, acked, rows, faults>>
    BY <1>0, <1>3 DEF Deliver, Goto, plaidVars, TypeOK
  <2>2. \A g \in Handlers : g = h
    BY DEF Serial
  <2>3. SyncsForward'
    BY <2>1, <2>2 DEF DropInv, SyncsForward, HooksPast
  <2>4. RowsServed'
    BY <2>1, <2>2 DEF DropInv, RowsServed, Latest, FetchesLatest
  <2>5. QED
    BY <1>0, <2>1, <2>3, <2>4, DropKept, DropTypes
<1>4. ASSUME NEW h \in Handlers, FindRecent(h)
      PROVE  DropInv'
  BY <1>0, <1>4, DropFind
<1>5. ASSUME NEW h \in Handlers, InsertRow(h)
      PROVE  DropInv'
  BY <1>0, <1>5, DropInsert
<1>6. ASSUME NEW h \in Handlers, FetchAccounts(h)
      PROVE  DropInv'
  <2>1. /\ pc[h] = "fetch" /\ pc'[h] = "save" /\ hook' = hook
        /\ fetched'[h] = avail[hook[h].item]
        /\ UNCHANGED <<now, avail, hooks, synced, acked, rows, faults>>
    BY <1>0, <1>6 DEF FetchAccounts, Goto, plaidVars, TypeOK
  <2>2. hook[h] \in hooks /\ hook[h].item \in Items /\ \A g \in Handlers : g = h
    BY <1>0, <2>1 DEF Serial, TypeOK
  <2>3. SyncsForward'
    BY <1>0, <2>1, <2>2, DropTypes DEF DropInv, SyncsForward, HooksPast
  <2>4. FetchesLatest(h)'
    BY <2>1 DEF FetchesLatest
  <2>5. RowsServed'
    BY <2>1, <2>2, <2>4 DEF DropInv, RowsServed, Latest
  <2>6. QED
    BY <1>0, <2>1, <2>3, <2>5, DropKept, DropTypes
<1>7. ASSUME NEW h \in Handlers, SaveAccounts(h)
      PROVE  DropInv'
  BY <1>0, <1>7, DropSave
<1>8. ASSUME NEW h \in Handlers, RequestThrows(h)
      PROVE  DropInv'
  <2>1. /\ pc'[h] = "idle" /\ faults' = faults + 1 /\ faults \in Nat
        /\ UNCHANGED <<now, avail, hooks, synced, acked, rows>>
    BY <1>0, <1>8, DropTypes DEF RequestThrows, Return, Goto, Fault, plaidVars, TypeOK
  <2>2. faults' > 0 /\ \A g \in Handlers : g = h
    BY <2>1 DEF Serial
  <2>3. SyncsForward'
    BY <2>1, <2>2 DEF DropInv, SyncsForward
  <2>4. RowsServed'
    BY <2>2 DEF RowsServed
  <2>5. faults' >= faults /\ faults' \in Nat
    BY <2>1
  <2>6. QED
    BY <2>1, <2>3, <2>4, <2>5, DropKept
<1>9. CASE UNCHANGED vars
  BY <1>9
     DEF vars, DropInv, HooksPast, LatestSent, SyncsForward, RowsServed, AckedServed, Latest,
         Settled, FetchesLatest, DroppedBy, FailedAfterRow
<1>10. QED
  BY <1>1, <1>2, <1>3, <1>4, <1>5, <1>6, <1>7, <1>8, <1>9 DEF Next, HandlerStep

(* When requests do not overlap, the accounts have the latest change of    *)
(* every webhook that was answered, unless a row of its key was inserted   *)
(* less than a window before the change or a call failed after its row,    *)
(* whatever the order and the repetitions of the webhooks.                 *)
THEOREM SerialDropsOnlyClose == Serial /\ Spec => []OnlyCloseChangesDropped
<1> SUFFICES ASSUME Serial
             PROVE  Spec => []OnlyCloseChangesDropped
  OBVIOUS
<1>1. Init => DropInv
  <2> SUFFICES ASSUME Init
               PROVE  DropInv
    OBVIOUS
  <2>1. /\ \A i \in Items : avail[i] = 0 /\ synced[i] = 0
        /\ hooks = {} /\ acked = {} /\ \A h \in Handlers : pc[h] = "idle"
    BY DEF Init
  <2>2. QED
    BY <2>1 DEF DropInv, HooksPast, LatestSent, SyncsForward, RowsServed, AckedServed
<1>2. IInv /\ DropInv /\ [Next]_vars => DropInv'
  BY DropStep
<1>3. IInv /\ DropInv => OnlyCloseChangesDropped
  <2> SUFFICES ASSUME IInv, DropInv, Quiet, NEW i \in Items
               PROVE  \/ synced[i] = avail[i]
                      \/ \E w \in hooks, r \in rows :
                            /\ w.item = i /\ w.ver = avail[i]
                            /\ DroppedBy(w, r) \/ FailedAfterRow(w, r)
    BY DEF OnlyCloseChangesDropped
  <2>1. CASE avail[i] = 0
    <3>1. synced[i] <= avail[i] /\ synced[i] \in Nat
      BY DropTypes DEF IInv, DropInv, SyncsForward
    <3>2. QED
      BY <2>1, <3>1
  <2>2. CASE avail[i] # 0
    <3>1. PICK w \in hooks : w.item = i /\ Latest(w)
      BY <2>2 DEF DropInv, LatestSent
    <3>2. Settled(w)
      BY <3>1 DEF Quiet, DropInv, AckedServed
    <3>3. QED
      BY <3>1, <3>2 DEF Settled, Latest
  <2>3. QED
    BY <2>1, <2>2
<1>4. QED
  BY <1>1, <1>2, <1>3, IInvInvariant, PTL DEF Spec

-----------------------------------------------------------------------------
(* Verification.                                                           *)

Gates ==
    [pc : {"none", "fetch", "verify"}, hook : Webhook \cup {NoHook}, kid : Nat,
     iat : Nat, key : Nat, at : Nat]

Keys == [from : Nat, expiredAt : SUBSET Nat]

(* A request in verification has the key its header names, whatever other  *)
(* requests have put into the cache since.                                 *)
GateInv ==
    /\ keys \in Seq(Keys) /\ keys # <<>>
    /\ cache \in [kid : Nat, expiredAt : SUBSET Nat, cachedAt : Nat]
    /\ gate \in [Handlers -> Gates]
    /\ GateTypeOK
    /\ \A h \in Handlers : gate[h].pc = "verify" => gate[h].key = gate[h].kid

-----------------------------------------------------------------------------
(* Behind the gate.  A step of the gate is one of WebhookDedup, or a fault *)
(* that changes nothing else of it.                                        *)

OnlyFault ==
    /\ faults' \in 0..MaxFaults
    /\ UNCHANGED <<now, plaidVars, synced, acked, rows, handlerVars>>

LEMMA GateStepOfDedup == TypeOK /\ [GateNext]_allVars => [Next]_vars \/ OnlyFault
<1> SUFFICES ASSUME TypeOK, [GateNext]_allVars
             PROVE  [Next]_vars \/ OnlyFault
  OBVIOUS
<1>1. ASSUME NEW h \in Handlers, GateStep(h)
      PROVE  [Next]_vars \/ OnlyFault
  <2>1. CASE \E w \in hooks, kid \in DOMAIN keys, iat \in 0..now : Arrive(h, w, kid, iat)
    BY <2>1 DEF Arrive
  <2>2. CASE FetchKey(h) \/ Refuse(h)
    BY <2>2 DEF FetchKey, Refuse
  <2>3. CASE Accept(h)
    <3>1. gate[h].hook \in hooks /\ Deliver(h, gate[h].hook)
      BY <2>3 DEF Accept, Deliver
    <3>2. QED
      BY <3>1 DEF Next
  <2>4. CASE VerifyFails(h)
    BY <2>4, DedupAssumption DEF VerifyFails, Fault, OnlyFault, TypeOK
  <2>5. QED
    BY <1>1, <2>1, <2>2, <2>3, <2>4 DEF GateStep
<1>2. CASE \E h \in Handlers : HandlerStep(h)
  BY <1>2 DEF Next
<1>3. CASE Tick \/ \E i \in Items \cup Unknown, ty \in Types : Change(i, ty)
  BY <1>3 DEF Next
<1>4. CASE RotateKey
  BY <1>4 DEF RotateKey
<1>5. CASE Restart
  BY <1>5, DedupAssumption DEF Restart, Fault, OnlyFault, TypeOK
<1>6. CASE UNCHANGED allVars
  BY <1>6 DEF allVars
<1>7. QED
  BY <1>1, <1>2, <1>3, <1>4, <1>5, <1>6 DEF GateNext

LEMMA DedupStep == IInv /\ [GateNext]_allVars => IInv'
<1> SUFFICES ASSUME IInv, [GateNext]_allVars
             PROVE  IInv'
  OBVIOUS
<1>1. [Next]_vars \/ OnlyFault
  BY GateStepOfDedup DEF IInv
<1>2. CASE OnlyFault
  BY <1>2 DEF OnlyFault, IInv, TypeOK, StartedBefore, OnlyOverlapsDuplicate, SameKey,
              plaidVars, handlerVars
<1>3. QED
  BY <1>1, <1>2, IInvStep

LEMMA DedupInvariant == GateSpec => []IInv
<1>1. GateInit => IInv
  BY DedupAssumption
     DEF GateInit, Init, IInv, TypeOK, StartedBefore, OnlyOverlapsDuplicate
<1>2. QED
  BY <1>1, DedupStep, PTL DEF GateSpec

(* With the verification before it - requests that arrive late, wait for   *)
(* a key or are refused and come again - tryAcquireWebhook still lets a    *)
(* second request for a key through only if it read the table before the   *)
(* first one's row was inserted.                                           *)
THEOREM VerifiedDuplicatesOverlap == GateSpec => []OnlyOverlapsDuplicate
<1>1. IInv => OnlyOverlapsDuplicate
  BY DEF IInv
<1>2. QED
  BY <1>1, DedupInvariant, PTL

-----------------------------------------------------------------------------
(* The gate.                                                               *)

LEMMA KeysTyped ==
    ASSUME NEW ks \in Seq(Keys)
    PROVE  \A k \in DOMAIN ks : ks[k].from \in Nat /\ ks[k].expiredAt \subseteq Nat
<1>1. \A k \in DOMAIN ks : ks[k] \in Keys
  BY ElementOfSeq, LenProperties
<1>2. QED
  BY <1>1 DEF Keys

LEMMA GateInitInv == GateInit => GateInv
<1> SUFFICES ASSUME GateInit
             PROVE  GateInv
  OBVIOUS
<1>1. keys \in Seq(Keys) /\ keys # <<>>
  BY DEF GateInit, Init, Keys
<1>2. cache \in [kid : Nat, expiredAt : SUBSET Nat, cachedAt : Nat]
  BY DEF GateInit, NoKey
<1>3. gate \in [Handlers -> Gates] /\ \A h \in Handlers : gate[h].pc = "none"
  BY DEF GateInit, Open, Gates
<1>4. \A k \in DOMAIN keys : keys[k].from \in Nat /\ keys[k].expiredAt \subseteq Nat
  BY <1>1, KeysTyped
<1>5. QED
  BY <1>1, <1>2, <1>3, <1>4 DEF GateInv, GateTypeOK

(* One request at the gate goes on.                                        *)
LEMMA Replaced ==
    ASSUME GateInv,
           NEW h \in Handlers,
           NEW new \in Gates,
           gate' = [gate EXCEPT ![h] = new],
           UNCHANGED <<keys, hooks>>,
           cache' \in [kid : Nat, expiredAt : SUBSET Nat, cachedAt : Nat],
           \A g \in Handlers : gate'[g].pc # "none" => pc'[g] = "idle",
           new.pc # "none" => new.hook \in hooks /\ new.kid \in DOMAIN keys,
           new.pc = "verify" => new.key = new.kid
    PROVE  GateInv'
<1>1. gate' \in [Handlers -> Gates]
  BY DEF GateInv
<1>2. \A g \in Handlers : gate'[g] = IF g = h THEN new ELSE gate[g]
  BY DEF GateInv
<1>3. \A g \in Handlers : gate'[g].pc = "verify" => gate'[g].key = gate'[g].kid
  BY <1>2 DEF GateInv
<1>4. GateTypeOK'
  <2>1. \A g \in Handlers : gate'[g].pc \in {"none", "fetch", "verify"}
    BY <1>1 DEF Gates
  <2>2. \A g \in Handlers : gate'[g].pc # "none" =>
           gate'[g].hook \in hooks /\ gate'[g].kid \in DOMAIN keys
    BY <1>2 DEF GateInv, GateTypeOK
  <2>3. cache'.kid \in Nat /\ cache'.expiredAt \subseteq Nat /\ cache'.cachedAt \in Nat
    OBVIOUS
  <2>4. QED
    BY <2>1, <2>2, <2>3 DEF GateInv, GateTypeOK
<1>5. QED
  BY <1>1, <1>3, <1>4 DEF GateInv

(* A handler's own step or Plaid's does not touch a request at the gate.   *)
LEMMA OtherStep ==
    TypeOK /\ GateInv /\ UNCHANGED gateVars
    /\ \/ \E h \in Handlers : HandlerStep(h)
       \/ Tick
       \/ \E i \in Items \cup Unknown, ty \in Types : Change(i, ty)
       \/ UNCHANGED vars
    => GateInv'
<1> SUFFICES ASSUME TypeOK, GateInv, UNCHANGED gateVars,
                    \/ \E h \in Handlers : HandlerStep(h)
                    \/ Tick
                    \/ \E i \in Items \cup Unknown, ty \in Types : Change(i, ty)
                    \/ UNCHANGED vars
             PROVE  GateInv'
  OBVIOUS
<1>1. \A g \in Handlers : pc[g] = "idle" => pc'[g] = "idle"
  <2>1. ASSUME NEW h \in Handlers, HandlerStep(h)
        PROVE  \A g \in Handlers : pc[g] = "idle" => pc'[g] = "idle"
    BY <2>1 DEF HandlerStep, FindRecent, InsertRow, FetchAccounts, SaveAccounts, RequestThrows,
                Respond200, Return, Acquire, Goto, TypeOK
  <2>2. CASE Tick \/ UNCHANGED vars
    BY <2>2 DEF Tick, vars, handlerVars
  <2>3. CASE \E i \in Items \cup Unknown, ty \in Types : Change(i, ty)
    BY <2>3 DEF Change, handlerVars
  <2>4. QED
    BY <2>1, <2>2, <2>3
<1>2. hooks \subseteq hooks'
  BY DEF HandlerStep, FindRecent, InsertRow, FetchAccounts, SaveAccounts, RequestThrows,
         Tick, Change, vars, plaidVars
<1>3. QED
  BY <1>1, <1>2 DEF GateInv, GateTypeOK, gateVars

LEMMA GateInvStep == TypeOK /\ TypeOK' /\ GateInv /\ [GateNext]_allVars => GateInv'
<1> SUFFICES ASSUME TypeOK, TypeOK', GateInv, [GateNext]_allVars
             PROVE  GateInv'
  OBVIOUS
<1> DEFINE Caches == [kid : Nat, expiredAt : SUBSET Nat, cachedAt : Nat]
<1>1. CASE \/ \E h \in Handlers : HandlerStep(h) /\ UNCHANGED gateVars
           \/ Tick /\ UNCHANGED gateVars
           \/ (\E i \in Items \cup Unknown, ty \in Types : Change(i, ty)) /\ UNCHANGED gateVars
           \/ UNCHANGED allVars
  BY <1>1, OtherStep DEF allVars
<1>2. CASE RotateKey
  <2>1. UNCHANGED <<pc, hooks, cache, gate>>
    BY <1>2 DEF RotateKey, vars
  <2>2. now \in Nat
    BY DedupAssumption DEF TypeOK
  <2> DEFINE n == Len(keys)
             old == [keys EXCEPT ![n] = [keys[n] EXCEPT !.expiredAt = {now}]]
  <2>3. keys \in Seq(Keys) /\ n \in 1..n /\ DOMAIN keys = 1..n
    BY LenProperties DEF GateInv
  <2>4. [keys[n] EXCEPT !.expiredAt = {now}] \in Keys
    <3>1. keys[n] \in Keys
      BY <2>3, ElementOfSeq
    <3>2. QED
      BY <2>2, <3>1 DEF Keys
  <2>5. old \in Seq(Keys) /\ Len(old) = n
    BY <2>3, <2>4, ExceptSeq
  <2>6. [from |-> now, expiredAt |-> {}] \in Keys
    BY <2>2 DEF Keys
  <2>7. keys' = Append(old, [from |-> now, expiredAt |-> {}])
    BY <1>2 DEF RotateKey
  <2>8. keys' \in Seq(Keys) /\ keys' # <<>> /\ Len(keys') = n + 1
    BY <2>5, <2>6, <2>7, AppendProperties
  <2>9. DOMAIN keys \subseteq DOMAIN keys'
    <3>1. DOMAIN keys' = 1..(n + 1)
      BY <2>8, LenProperties
    <3>2. n \in Nat
      BY <2>3, LenProperties
    <3>3. QED
      BY <2>3, <3>1, <3>2
  <2>10. \A k \in DOMAIN keys' : keys'[k].from \in Nat /\ keys'[k].expiredAt \subseteq Nat
    BY <2>8, KeysTyped
  <2>11. QED
    BY <2>1, <2>8, <2>9, <2>10 DEF GateInv, GateTypeOK
<1>3. ASSUME NEW h \in Handlers, NEW w \in hooks, NEW kid \in DOMAIN keys, NEW iat \in 0..now,
             Arrive(h, w, kid, iat)
      PROVE  GateInv'
  <2>1. UNCHANGED <<pc, hooks, keys, cache>> /\ pc[h] = "idle"
    BY <1>3 DEF Arrive, vars
  <2>2. now \in Nat /\ iat \in Nat /\ w \in Webhook
    BY DedupAssumption DEF TypeOK
  <2>3. kid \in Nat
    BY LenProperties DEF GateInv
  <2> DEFINE Verified == [pc |-> "verify", hook |-> w, kid |-> kid, iat |-> iat,
                          key |-> kid, at |-> 0]
             Fetching == [pc |-> "fetch", hook |-> w, kid |-> kid, iat |-> iat,
                          key |-> 0, at |-> now]
  <2>4. Verified \in Gates /\ Fetching \in Gates
    BY <2>2, <2>3 DEF Gates
  <2>5. gate' = [gate EXCEPT ![h] = Verified] \/ gate' = [gate EXCEPT ![h] = Fetching]
    <3>1. PICK new : /\ gate' = [gate EXCEPT ![h] = new]
                     /\ \/ /\ new = [[Open EXCEPT !.hook = w, !.kid = kid, !.iat = iat]
                                   EXCEPT !.pc = "verify", !.key = cache.kid]
                           /\ cache.kid = kid
                        \/ new = [[Open EXCEPT !.hook = w, !.kid = kid, !.iat = iat]
                                   EXCEPT !.pc = "fetch", !.at = now]
      BY <1>3 DEF Arrive, Step, Cached
    <3>2. new = Verified \/ new = Fetching
      BY <3>1 DEF Open
    <3>3. QED
      BY <3>1, <3>2
  <2>6. ASSUME NEW new \in {Verified, Fetching}, gate' = [gate EXCEPT ![h] = new]
        PROVE  GateInv'
    <3>1. new \in Gates /\ new.hook = w /\ new.kid = kid /\ (new.pc = "verify" => new.key = kid)
      BY <2>4
    <3>2. \A g \in Handlers : gate'[g].pc # "none" => pc'[g] = "idle"
      BY <2>1, <2>6 DEF GateInv, GateTypeOK
    <3>3. cache' \in Caches
      BY <2>1 DEF GateInv
    <3> HIDE DEF Verified, Fetching
    <3>4. QED
      BY <2>1, <2>6, <3>1, <3>2, <3>3, Replaced
  <2>7. QED
    BY <2>5, <2>6
<1>4. ASSUME NEW h \in Handlers, FetchKey(h)
      PROVE  GateInv'
  <2>1. UNCHANGED <<pc, hooks, keys>>
    BY <1>4 DEF FetchKey, vars
  <2>2. /\ gate[h] \in Gates /\ gate[h].kid \in DOMAIN keys /\ gate[h].pc = "fetch"
        /\ pc[h] = "idle" /\ gate[h].hook \in hooks
    BY <1>4 DEF FetchKey, GateInv, GateTypeOK
  <2>3. cache' \in Caches
    <3>1. keys[gate[h].kid].expiredAt \subseteq Nat
      BY <2>2 DEF GateInv, GateTypeOK
    <3>2. QED
      BY <1>4, <2>2, <3>1 DEF FetchKey, Gates
  <2> DEFINE new == [pc |-> "verify", hook |-> gate[h].hook, kid |-> gate[h].kid,
                     iat |-> gate[h].iat, key |-> gate[h].kid, at |-> 0]
  <2>4. ASSUME NEW g, g = [gate[h] EXCEPT !.pc = "verify", !.key = gate[h].kid, !.at = 0]
        PROVE  g = new
    BY <2>2, <2>4 DEF Gates
  <2>5. new \in Gates
    BY <2>2 DEF Gates
  <2>6. gate' = [gate EXCEPT ![h] = new]
    <3> HIDE DEF new
    <3>1. QED
      BY <1>4, <2>4 DEF FetchKey, Step
  <2>7. new.hook = gate[h].hook /\ new.kid = gate[h].kid /\ new.key = new.kid
    OBVIOUS
  <2> HIDE DEF new
  <2>8. \A g \in Handlers : gate'[g].pc # "none" => pc'[g] = "idle"
    BY <2>1, <2>2, <2>6 DEF GateInv, GateTypeOK
  <2>9. QED
    BY <2>1, <2>2, <2>3, <2>5, <2>6, <2>7, <2>8, Replaced
<1>5. ASSUME NEW h \in Handlers, Accept(h) \/ Refuse(h) \/ VerifyFails(h)
      PROVE  GateInv'
  <2>1. /\ gate' = [gate EXCEPT ![h] = Open]
        /\ UNCHANGED <<keys, cache, hooks>>
        /\ \A g \in Handlers \ {h} : pc'[g] = pc[g]
    BY <1>5 DEF Accept, Refuse, VerifyFails, Deliver, Goto, Step, vars, plaidVars, handlerVars,
                TypeOK
  <2>2. Open \in Gates /\ Open.pc = "none"
    BY DEF Open, Gates
  <2>3. \A g \in Handlers : gate'[g].pc # "none" => pc'[g] = "idle"
    BY <2>1, <2>2 DEF GateInv, GateTypeOK
  <2>4. cache' \in Caches
    BY <2>1 DEF GateInv
  <2>5. QED
    BY <2>1, <2>2, <2>3, <2>4, Replaced
<1>6. CASE Restart
  <2>1. UNCHANGED <<keys, gate, hooks, pc>> /\ cache' = NoKey
    BY <1>6 DEF Restart, plaidVars, handlerVars
  <2>2. cache' \in Caches
    BY <2>1 DEF NoKey
  <2>3. QED
    BY <2>1, <2>2 DEF GateInv, GateTypeOK
<1>7. QED
  BY <1>1, <1>2, <1>3, <1>4, <1>5, <1>6 DEF GateNext, GateStep

LEMMA GateInvariant == GateSpec => [](TypeOK /\ GateInv)
<1>1. GateSpec => []TypeOK
  <2>1. IInv => TypeOK
    BY DEF IInv
  <2>2. QED
    BY <2>1, DedupInvariant, PTL
<1>2. QED
  BY <1>1, GateInitInv, GateInvStep, PTL DEF GateSpec

(* A request at the gate keeps its type, and its handler is not busy.      *)
THEOREM GateTypeCorrect == GateSpec => []GateTypeOK
<1>1. GateInv => GateTypeOK
  BY DEF GateInv
<1>2. QED
  BY <1>1, GateInvariant, PTL

(* For any keys, cache lifetime, restarts and overlaps of requests,        *)
(* verifyWebhook refuses what Plaid signed only for its age.               *)
THEOREM GenuineIsAccepted == GateSpec => GenuineAccepted
<1>1. TypeOK /\ GateInv => \A h \in Handlers : Refuse(h) => now > gate[h].iat + MaxAge
  BY DedupAssumption, VerificationAssumption DEF Refuse, Authentic, GateInv, Gates, TypeOK
<1>2. TypeOK /\ GateInv /\ [GateNext]_allVars =>
        [\A h \in Handlers : Refuse(h) => now > gate[h].iat + MaxAge]_allVars
  BY <1>1
<1>3. QED
  BY <1>2, GateInvariant, PTL DEF GateSpec, GenuineAccepted
=============================================================================
