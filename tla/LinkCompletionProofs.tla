------------------------ MODULE LinkCompletionProofs ------------------------
(***************************************************************************)
(* Invariants of LinkCompletion for any number of sessions, items and      *)
(* overlapping webhook requests, and any number of faults.                 *)
(***************************************************************************)
EXTENDS LinkCompletion, FiniteSetTheorems, TLAPS

-----------------------------------------------------------------------------
(* Type correctness.                                                       *)

LEMMA AddRowType ==
    ASSUME NEW rows \in [Items -> Nat], NEW S
    PROVE  AddRow(rows, S) \in [Items -> Nat]
  BY DEF AddRow

LEMMA AddRowValue ==
    ASSUME NEW rows \in [Items -> Nat], NEW S, NEW i \in Items
    PROVE  /\ i \in S => AddRow(rows, S)[i] = rows[i] + 1
           /\ i \notin S => AddRow(rows, S)[i] = rows[i]
  BY DEF AddRow

LEMMA TypeStep == TypeOK /\ [Next]_vars => TypeOK'
<1> SUFFICES ASSUME TypeOK, [Next]_vars
             PROVE  TypeOK'
  OBVIOUS
<1> USE LinkAssumption DEF TypeOK, dbVars, envVars, handlerVars
<1>1. ASSUME NEW t \in Tokens,
             IssueToken(t) \/ CreatePending(t) \/ InitiationFails(t)
               \/ FinishSession(t) \/ Expire(t)
      PROVE  TypeOK'
  BY <1>1 DEF IssueToken, CreatePending, InitiationFails, FinishSession,
              Expire, Fault, SessionStates, WebhookEventStatus
<1>2. ASSUME NEW t \in Tokens, NEW h \in Handlers, Deliver(h, t)
      PROVE  TypeOK'
  BY <1>2 DEF Deliver, Goto, Steps
<1>3. ASSUME NEW h \in Handlers, FindPending(h)
      PROVE  TypeOK'
  BY <1>3 DEF FindPending, Goto, Respond200, Return, Steps
<1>4. ASSUME NEW h \in Handlers, NEW i \in Items, ExchangeToken(h, i)
      PROVE  TypeOK'
  BY <1>4 DEF ExchangeToken
<1>5. ASSUME NEW h \in Handlers, ExchangeRefused(h)
      PROVE  TypeOK'
  <2>1. tok[h] \in Tokens /\ ItemsOf[tok[h]] \subseteq Items
    BY <1>5 DEF ExchangeRefused
  <2>2. QED
    BY <1>5, <2>1 DEF ExchangeRefused, Fault, Goto, Steps
<1>6. ASSUME NEW h \in Handlers, GetAccounts(h)
      PROVE  TypeOK'
  BY <1>6 DEF GetAccounts, Goto, Steps
<1>7. ASSUME NEW h \in Handlers, SaveBankLinks(h) \/ SaveAccounts(h)
      PROVE  TypeOK'
  BY <1>7, AddRowType DEF SaveBankLinks, SaveAccounts, Goto, Steps
<1>8. ASSUME NEW h \in Handlers, FindForCompletion(h) \/ SaveCompleted(h)
      PROVE  TypeOK'
  BY <1>8 DEF FindForCompletion, SaveCompleted, Goto, Respond200, Return,
              Steps, WebhookEventStatus
<1>9. ASSUME NEW h \in Handlers,
             FindForFailure(h) \/ SaveFailed(h) \/ CallThrows(h)
               \/ RequestThrows(h)
      PROVE  TypeOK'
  BY <1>9 DEF FindForFailure, SaveFailed, CallThrows, RequestThrows, Fault,
              Goto, Return, Steps, WebhookEventStatus
<1>10. CASE Crash
  BY <1>10 DEF Crash, Fault, Steps, SessionStates
<1>11. CASE UNCHANGED vars
  BY <1>11 DEF vars
<1>12. QED
  BY <1>1, <1>2, <1>3, <1>4, <1>5, <1>6, <1>7, <1>8, <1>9, <1>10, <1>11
     DEF Next, HandlerStep

(* Every variable keeps its type: a status is always one the enumeration   *)
(* of types/WebhookEvent.ts has, and a busy handler has a token.           *)
THEOREM TypeCorrect == Spec => []TypeOK
<1>1. Init => TypeOK
  BY LinkAssumption DEF Init, TypeOK, SessionStates, Steps
<1>2. QED
  BY <1>1, TypeStep, PTL DEF Spec

-----------------------------------------------------------------------------
(* What a handler knows.  A request runs only for a finished session, the  *)
(* access tokens it holds are of that session and were exchanged, and by   *)
(* the time it is about to complete the event both saves are behind it.    *)

HandlerInv(h) ==
    /\ pc[h] # "idle" => /\ session[tok[h]] = "finished"
                         /\ got[h] \subseteq ItemsOf[tok[h]]
    /\ pc[h] \in {"idle", "find"} => got[h] = {}
    /\ got[h] \subseteq spent
    /\ pc[h] \in {"saveLinks", "saveAccounts", "completeFind", "completeSave"}
          => got[h] = ItemsOf[tok[h]]
    /\ pc[h] = "saveAccounts" => \A i \in got[h] : linkRows[i] > 0
    /\ pc[h] \in {"completeFind", "completeSave"}
          => \A i \in got[h] : Usable(i)

AckedIsFinished == \A t \in acked : session[t] = "finished"

EventIsOffered ==
    \A t \in Tokens : event[t] = "none" \/ session[t] \in {"offered", "finished"}

SessionFacts == AckedIsFinished /\ AckedIsSettled /\ EventIsOffered

IInv ==
    /\ TypeOK
    /\ \A h \in Handlers : HandlerInv(h)
    /\ SessionFacts
    /\ CompletedMeansUsable

(* With one-use public tokens the tokens a handler holds are its own, and  *)
(* an item gets rows only from the handler that holds its token.           *)
Exclusive ==
    /\ \A g, h \in Handlers : g # h => got[g] \cap got[h] = {}
    /\ \A i \in Items : i \notin spent => linkRows[i] = 0 /\ accountRows[i] = 0
    /\ \A h \in Handlers : \A i \in got[h] :
          /\ pc[h] \in {"exchange", "saveLinks"} =>
                linkRows[i] = 0 /\ accountRows[i] = 0
          /\ pc[h] = "saveAccounts" => linkRows[i] = 1 /\ accountRows[i] = 0

OnceInv == Exclusive /\ AtMostOnce

LEMMA IInvInit == Init => IInv
  BY LinkAssumption DEF Init, IInv, TypeOK, SessionStates, Steps, HandlerInv,
     SessionFacts, AckedIsFinished, AckedIsSettled, EventIsOffered,
     CompletedMeansUsable

(* Rows are only added, so what was usable stays usable. *)
LEMMA RowsGrow ==
    ASSUME TypeOK, [Next]_vars, NEW i \in Items
    PROVE  linkRows'[i] >= linkRows[i] /\ accountRows'[i] >= accountRows[i]
<1> USE DEF TypeOK, dbVars, envVars, handlerVars
<1>1. ASSUME NEW h \in Handlers, SaveBankLinks(h) \/ SaveAccounts(h)
      PROVE  linkRows'[i] >= linkRows[i] /\ accountRows'[i] >= accountRows[i]
  BY <1>1, AddRowValue DEF SaveBankLinks, SaveAccounts
<1>2. ASSUME UNCHANGED <<linkRows, accountRows>>
      PROVE  linkRows'[i] >= linkRows[i] /\ accountRows'[i] >= accountRows[i]
  BY <1>2
<1>3. QED
  BY <1>1, <1>2
     DEF Next, HandlerStep, IssueToken, CreatePending, InitiationFails,
         FinishSession, Expire, Deliver, FindPending, ExchangeToken,
         ExchangeRefused, GetAccounts, FindForCompletion, SaveCompleted,
         CallThrows, FindForFailure, SaveFailed, RequestThrows, Crash, vars

LEMMA UsableStays ==
    ASSUME TypeOK, [Next]_vars, NEW i \in Items, Usable(i)
    PROVE  Usable(i)'
  BY RowsGrow, TypeStep DEF Usable, TypeOK

LEMMA IInvStep == IInv /\ [Next]_vars => IInv'
<1> SUFFICES ASSUME IInv, [Next]_vars
             PROVE  IInv'
  OBVIOUS
<1>1. TypeOK /\ TypeOK'
  BY TypeStep DEF IInv
<1>2. \A t \in Tokens : ItemsOf[t] \subseteq Items
  BY LinkAssumption
<1>3. \A h \in Handlers : HandlerInv(h)'
  <2> SUFFICES ASSUME NEW h \in Handlers
               PROVE  HandlerInv(h)'
    OBVIOUS
  <2> USE <1>1, <1>2 DEF IInv, HandlerInv, TypeOK, dbVars, envVars, handlerVars,
                         Goto, Return, Respond200, Fault
  <2>1. ASSUME NEW t \in Tokens,
               IssueToken(t) \/ CreatePending(t) \/ InitiationFails(t)
                 \/ FinishSession(t) \/ Expire(t)
        PROVE  HandlerInv(h)'
    BY <2>1 DEF IssueToken, CreatePending, InitiationFails, FinishSession,
                Expire, Usable
  <2>2. ASSUME NEW t \in Tokens, NEW g \in Handlers, Deliver(g, t)
        PROVE  HandlerInv(h)'
    BY <2>2 DEF Deliver, Usable
  <2>3. ASSUME NEW g \in Handlers, FindPending(g)
        PROVE  HandlerInv(h)'
    BY <2>3 DEF FindPending, Usable
  <2>4. ASSUME NEW g \in Handlers, NEW i \in Items, ExchangeToken(g, i)
        PROVE  HandlerInv(h)'
    BY <2>4 DEF ExchangeToken, Usable
  <2>5. ASSUME NEW g \in Handlers, ExchangeRefused(g)
        PROVE  HandlerInv(h)'
    BY <2>5 DEF ExchangeRefused, Usable
  <2>6. ASSUME NEW g \in Handlers, GetAccounts(g)
        PROVE  HandlerInv(h)'
    BY <2>6 DEF GetAccounts, Usable
  <2>7. ASSUME NEW g \in Handlers, SaveBankLinks(g)
        PROVE  HandlerInv(h)'
    BY <2>7, AddRowValue DEF SaveBankLinks, Usable
  <2>8. ASSUME NEW g \in Handlers, SaveAccounts(g)
        PROVE  HandlerInv(h)'
    BY <2>8, AddRowValue DEF SaveAccounts, Usable
  <2>9. ASSUME NEW g \in Handlers, FindForCompletion(g) \/ SaveCompleted(g)
        PROVE  HandlerInv(h)'
    BY <2>9 DEF FindForCompletion, SaveCompleted, Usable
  <2>10. ASSUME NEW g \in Handlers,
                CallThrows(g) \/ FindForFailure(g) \/ SaveFailed(g)
                  \/ RequestThrows(g)
         PROVE  HandlerInv(h)'
    BY <2>10 DEF CallThrows, FindForFailure, SaveFailed, RequestThrows, Usable
  <2>11. CASE Crash
    BY <2>11 DEF Crash, Usable
  <2>12. CASE UNCHANGED vars
    BY <2>12 DEF vars, Usable
  <2>13. QED
    BY <2>1, <2>2, <2>3, <2>4, <2>5, <2>6, <2>7, <2>8, <2>9, <2>10, <2>11,
       <2>12 DEF Next, HandlerStep
<1>4. SessionFacts'
  <2> USE <1>1 DEF IInv, HandlerInv, TypeOK, SessionFacts, AckedIsFinished,
                   AckedIsSettled, EventIsOffered, dbVars, envVars, handlerVars,
                   Goto, Return, Respond200, Fault
  <2>1. ASSUME NEW t \in Tokens,
               IssueToken(t) \/ CreatePending(t) \/ InitiationFails(t)
                 \/ FinishSession(t) \/ Expire(t)
                 \/ \E g \in Handlers : Deliver(g, t)
        PROVE  SessionFacts'
    BY <2>1 DEF IssueToken, CreatePending, InitiationFails, FinishSession,
                Expire, Deliver
  <2>2. ASSUME NEW g \in Handlers,
               FindPending(g) \/ FindForCompletion(g) \/ SaveCompleted(g)
        PROVE  SessionFacts'
    BY <2>2 DEF FindPending, FindForCompletion, SaveCompleted
  <2>3. ASSUME NEW g \in Handlers,
               (\E i \in Items : ExchangeToken(g, i)) \/ ExchangeRefused(g)
                 \/ GetAccounts(g) \/ SaveBankLinks(g) \/ SaveAccounts(g)
                 \/ CallThrows(g) \/ FindForFailure(g) \/ SaveFailed(g)
                 \/ RequestThrows(g)
        PROVE  SessionFacts'
    BY <2>3 DEF ExchangeToken, ExchangeRefused, GetAccounts, SaveBankLinks,
                SaveAccounts, CallThrows, FindForFailure, SaveFailed,
                RequestThrows
  <2>4. CASE Crash \/ UNCHANGED vars
    BY <2>4 DEF Crash, vars
  <2>5. QED
    BY <2>1, <2>2, <2>3, <2>4 DEF Next, HandlerStep
<1>5. CompletedMeansUsable'
  <2> SUFFICES ASSUME NEW t \in Tokens, event'[t] = "COMPLETED",
                      NEW i \in ItemsOf[t]
               PROVE  Usable(i)'
    BY DEF CompletedMeansUsable, Usable
  <2>1. CASE event[t] = "COMPLETED"
    BY <2>1, <1>1, <1>2, UsableStays DEF IInv, CompletedMeansUsable
  <2>2. CASE event[t] # "COMPLETED"
    <3>1. PICK h \in Handlers : SaveCompleted(h) /\ tok[h] = t
      BY <2>2, <1>1
         DEF TypeOK, Next, HandlerStep, IssueToken, CreatePending,
             InitiationFails, FinishSession, Expire, Deliver, FindPending,
             ExchangeToken, ExchangeRefused, GetAccounts, SaveBankLinks,
             SaveAccounts, FindForCompletion, SaveCompleted, CallThrows,
             FindForFailure, SaveFailed, RequestThrows, Crash, vars, dbVars
    <3>2. Usable(i)
      BY <3>1 DEF IInv, HandlerInv, SaveCompleted
    <3>3. QED
      BY <3>2, <1>1, <1>2, UsableStays
  <2>3. QED
    BY <2>1, <2>2
<1>6. QED
  BY <1>1, <1>3, <1>4, <1>5 DEF IInv

(* The strengthening is an invariant, without assumptions. *)
LEMMA IInvInvariant == Spec => []IInv
  BY IInvInit, IInvStep, PTL DEF Spec

(* For any number of sessions, overlapping deliveries and faults, a        *)
(* COMPLETED event has every bank link and account of its session stored   *)
(* (handleLinkCompletionWebhook marks the event last).                     *)
THEOREM CompletedIsUsable == Spec => []CompletedMeansUsable
<1>1. IInv => CompletedMeansUsable
  BY DEF IInv
<1>2. QED
  BY <1>1, IInvInvariant, PTL

(* No webhook is answered with a 2xx while its event is pending: every     *)
(* error path of the handler rethrows.                                     *)
THEOREM AnswersAreSettled == Spec => []AckedIsSettled
<1>1. IInv => AckedIsSettled
  BY DEF IInv, SessionFacts
<1>2. QED
  BY <1>1, IInvInvariant, PTL

-----------------------------------------------------------------------------
(* At most once, from public tokens that Plaid exchanges once.             *)

LEMMA OnceInit == Init => OnceInv
  BY DEF Init, OnceInv, Exclusive, AtMostOnce

LEMMA OnceStep == OneUse /\ IInv /\ OnceInv /\ [Next]_vars => OnceInv'
<1> SUFFICES ASSUME OneUse, IInv, OnceInv, [Next]_vars
             PROVE  OnceInv'
  OBVIOUS
<1>1. TypeOK /\ TypeOK'
  BY TypeStep DEF IInv
<1>2. \A t \in Tokens : ItemsOf[t] \subseteq Items
  BY LinkAssumption
<1> USE <1>1, <1>2
    DEF OnceInv, Exclusive, AtMostOnce, TypeOK, dbVars,
        envVars, handlerVars, Goto, Return, Respond200, Fault
<1>3. ASSUME NEW t \in Tokens,
             IssueToken(t) \/ CreatePending(t) \/ InitiationFails(t)
               \/ FinishSession(t) \/ Expire(t)
      PROVE  OnceInv'
  BY <1>3 DEF IssueToken, CreatePending, InitiationFails, FinishSession, Expire
<1>4. ASSUME NEW t \in Tokens, NEW h \in Handlers, Deliver(h, t)
      PROVE  OnceInv'
  BY <1>4 DEF Deliver
<1>5. ASSUME NEW h \in Handlers, FindPending(h)
      PROVE  OnceInv'
  BY <1>5 DEF FindPending, IInv, HandlerInv
<1>6. ASSUME NEW h \in Handlers, NEW i \in Items, ExchangeToken(h, i)
      PROVE  OnceInv'
  <2>1. i \notin spent /\ linkRows[i] = 0 /\ accountRows[i] = 0
    BY <1>6 DEF ExchangeToken
  <2>2. \A g \in Handlers : i \notin got[g]
    BY <2>1 DEF IInv, HandlerInv
  <2>3. QED
    BY <1>6, <2>1, <2>2 DEF ExchangeToken
<1>7. ASSUME NEW h \in Handlers, ExchangeRefused(h)
      PROVE  OnceInv'
  BY <1>7 DEF ExchangeRefused
<1>8. ASSUME NEW h \in Handlers, GetAccounts(h)
      PROVE  OnceInv'
  BY <1>8 DEF GetAccounts
<1>9. ASSUME NEW h \in Handlers, SaveBankLinks(h)
      PROVE  OnceInv'
  <2>1. /\ \A i \in got[h] : linkRows[i] = 0 /\ linkRows'[i] = 1
        /\ \A i \in Items \ got[h] : linkRows'[i] = linkRows[i]
        /\ got[h] \subseteq Items
    BY <1>9, AddRowValue DEF SaveBankLinks
  <2>2. got[h] \subseteq spent
    BY DEF IInv, HandlerInv
  <2>3. QED
    BY <1>9, <2>1, <2>2 DEF SaveBankLinks
<1>10. ASSUME NEW h \in Handlers, SaveAccounts(h)
       PROVE  OnceInv'
  <2>1. /\ \A i \in got[h] : /\ linkRows[i] = 1
                             /\ accountRows[i] = 0
                             /\ accountRows'[i] = 1
        /\ \A i \in Items \ got[h] : accountRows'[i] = accountRows[i]
        /\ got[h] \subseteq Items
    BY <1>10, AddRowValue DEF SaveAccounts
  <2>2. got[h] \subseteq spent
    BY DEF IInv, HandlerInv
  <2>3. QED
    BY <1>10, <2>1, <2>2 DEF SaveAccounts
<1>11. ASSUME NEW h \in Handlers, FindForCompletion(h) \/ SaveCompleted(h)
       PROVE  OnceInv'
  BY <1>11 DEF FindForCompletion, SaveCompleted
<1>12. ASSUME NEW h \in Handlers,
              CallThrows(h) \/ FindForFailure(h) \/ SaveFailed(h)
                \/ RequestThrows(h)
       PROVE  OnceInv'
  BY <1>12 DEF CallThrows, FindForFailure, SaveFailed, RequestThrows
<1>13. CASE Crash
  BY <1>13 DEF Crash
<1>14. CASE UNCHANGED vars
  BY <1>14 DEF vars
<1>15. QED
  BY <1>3, <1>4, <1>5, <1>6, <1>7, <1>8, <1>9, <1>10, <1>11, <1>12, <1>13,
     <1>14 DEF Next, HandlerStep

(* Where Plaid exchanges a public token once, no bank connection is stored *)
(* twice, for any number of overlapping SESSION_FINISHED requests, crashes *)
(* and failed calls.                                                       *)
THEOREM LinkedAtMostOnce == OneUse /\ Spec => []AtMostOnce
<1>1. OnceInv => AtMostOnce
  BY DEF OnceInv
<1>2. CASE OneUse
  <2>1. IInv /\ OnceInv /\ [Next]_vars => OnceInv'
    BY <1>2, OnceStep
  <2>2. QED
    BY <1>1, <2>1, OnceInit, IInvInvariant, PTL DEF Spec
<1>3. QED
  BY <1>2

-----------------------------------------------------------------------------
(* The handlers that have stored the bank link of an item and not yet its  *)
(* accounts.  Each stands for a row of bank_link without accounts, so      *)
(* there are never more of them than such rows, and never infinitely many. *)

Owing(i) == {h \in Handlers : pc[h] = "saveAccounts" /\ i \in got[h]}

CountInv(i) ==
    /\ IsFiniteSet(Owing(i))
    /\ accountRows[i] + Cardinality(Owing(i)) <= linkRows[i]

LEMMA CountInit == Init => \A i \in Items : CountInv(i)
<1> SUFFICES ASSUME Init, NEW i \in Items
             PROVE  CountInv(i)
  OBVIOUS
<1>1. Owing(i) = {}
  BY DEF Init, Owing
<1>2. QED
  BY <1>1, FS_EmptySet DEF Init, CountInv

(* A step that adds no row and lets nobody in keeps the count. *)
LEMMA NobodyJoins ==
    ASSUME TypeOK, NEW i \in Items, CountInv(i),
           UNCHANGED <<linkRows, accountRows>>, Owing(i)' \subseteq Owing(i)
    PROVE  CountInv(i)'
<1>1. /\ IsFiniteSet(Owing(i)')
      /\ Cardinality(Owing(i)') <= Cardinality(Owing(i))
  BY FS_Subset DEF CountInv
<1>2. Cardinality(Owing(i)) \in Nat /\ Cardinality(Owing(i)') \in Nat
  BY <1>1, FS_CardinalityType DEF CountInv
<1>3. QED
  BY <1>1, <1>2 DEF CountInv, TypeOK

LEMMA CountStep ==
    ASSUME TypeOK, [Next]_vars, NEW i \in Items, CountInv(i)
    PROVE  CountInv(i)'
<1> USE DEF TypeOK, dbVars, envVars, handlerVars, Goto, Return, Respond200,
            Fault
<1>1. Cardinality(Owing(i)) \in Nat
  BY FS_CardinalityType DEF CountInv
<1>2. ASSUME NEW h \in Handlers, SaveBankLinks(h)
      PROVE  CountInv(i)'
  <2>1. CASE i \in got[h]
    <3>1. Owing(i)' = Owing(i) \cup {h} /\ h \notin Owing(i)
      BY <1>2, <2>1 DEF SaveBankLinks, Owing
    <3>2. /\ IsFiniteSet(Owing(i)')
          /\ Cardinality(Owing(i)') = Cardinality(Owing(i)) + 1
      BY <3>1, FS_AddElement DEF CountInv
    <3>3. linkRows'[i] = linkRows[i] + 1 /\ accountRows' = accountRows
      BY <1>2, <2>1, AddRowValue DEF SaveBankLinks
    <3>4. QED
      BY <1>1, <3>2, <3>3 DEF CountInv
  <2>2. CASE i \notin got[h]
    <3>1. Owing(i)' = Owing(i)
      BY <1>2, <2>2 DEF SaveBankLinks, Owing
    <3>2. linkRows'[i] = linkRows[i] /\ accountRows' = accountRows
      BY <1>2, <2>2, AddRowValue DEF SaveBankLinks
    <3>3. QED
      BY <3>1, <3>2 DEF CountInv
  <2>3. QED
    BY <2>1, <2>2
<1>3. ASSUME NEW h \in Handlers, SaveAccounts(h)
      PROVE  CountInv(i)'
  <2>1. CASE i \in got[h]
    <3>1. Owing(i)' = Owing(i) \ {h} /\ h \in Owing(i)
      BY <1>3, <2>1 DEF SaveAccounts, Owing
    <3>2. /\ IsFiniteSet(Owing(i)')
          /\ Cardinality(Owing(i)') = Cardinality(Owing(i)) - 1
      BY <3>1, FS_RemoveElement DEF CountInv
    <3>3. accountRows'[i] = accountRows[i] + 1 /\ linkRows' = linkRows
      BY <1>3, <2>1, AddRowValue DEF SaveAccounts
    <3>4. QED
      BY <1>1, <3>2, <3>3 DEF CountInv
  <2>2. CASE i \notin got[h]
    <3>1. Owing(i)' = Owing(i)
      BY <1>3, <2>2 DEF SaveAccounts, Owing
    <3>2. accountRows'[i] = accountRows[i] /\ linkRows' = linkRows
      BY <1>3, <2>2, AddRowValue DEF SaveAccounts
    <3>3. QED
      BY <3>1, <3>2 DEF CountInv
  <2>3. QED
    BY <2>1, <2>2
<1>4. ASSUME NEW t \in Tokens,
             IssueToken(t) \/ CreatePending(t) \/ InitiationFails(t)
               \/ FinishSession(t) \/ Expire(t)
                 \/ \E h \in Handlers : Deliver(h, t)
      PROVE  CountInv(i)'
  <2>1. UNCHANGED <<linkRows, accountRows>> /\ Owing(i)' \subseteq Owing(i)
    BY <1>4 DEF IssueToken, CreatePending, InitiationFails, FinishSession,
                Expire, Deliver, Owing
  <2>2. QED
    BY <2>1, NobodyJoins
<1>5. ASSUME NEW h \in Handlers,
             FindPending(h) \/ (\E j \in Items : ExchangeToken(h, j))
               \/ ExchangeRefused(h) \/ GetAccounts(h)
               \/ FindForCompletion(h) \/ SaveCompleted(h)
               \/ CallThrows(h) \/ FindForFailure(h) \/ SaveFailed(h)
               \/ RequestThrows(h)
      PROVE  CountInv(i)'
  <2>1. UNCHANGED <<linkRows, accountRows>> /\ Owing(i)' \subseteq Owing(i)
    BY <1>5 DEF FindPending, ExchangeToken, ExchangeRefused, GetAccounts,
                FindForCompletion, SaveCompleted, CallThrows, FindForFailure,
                SaveFailed, RequestThrows, Owing
  <2>2. QED
    BY <2>1, NobodyJoins
<1>6. CASE Crash \/ UNCHANGED vars
  <2>1. UNCHANGED <<linkRows, accountRows>> /\ Owing(i)' \subseteq Owing(i)
    BY <1>6 DEF Crash, vars, Owing
  <2>2. QED
    BY <2>1, NobodyJoins
<1>7. QED
  BY <1>2, <1>3, <1>4, <1>5, <1>6 DEF Next, HandlerStep

(* Accounts are never stored for an item without a bank link row of their  *)
(* own, although handleLinkCompletionWebhook saves the bank links and the  *)
(* accounts in two transactions: whatever overlaps, crashes or fails, and  *)
(* also if Plaid exchanges a public token more than once.                  *)
THEOREM AccountsFollowLinks == Spec => []AccountsHaveLinks
<1> DEFINE Inv == TypeOK /\ \A i \in Items : CountInv(i)
<1>1. Init => Inv
  BY IInvInit, CountInit DEF IInv
<1>2. Inv /\ [Next]_vars => Inv'
  BY TypeStep, CountStep
<1>3. Inv => AccountsHaveLinks
  <2> SUFFICES ASSUME Inv, NEW i \in Items
               PROVE  accountRows[i] <= linkRows[i]
    BY DEF AccountsHaveLinks
  <2>1. Cardinality(Owing(i)) \in Nat
    BY FS_CardinalityType DEF CountInv
  <2>2. QED
    BY <2>1 DEF CountInv, TypeOK
<1>4. QED
  <2> HIDE DEF Inv
  <2>1. QED
    BY <1>1, <1>2, <1>3, PTL DEF Spec

-----------------------------------------------------------------------------
(* When requests do not overlap the event a handler works for is pending   *)
(* from the moment it was found until the handler returns, and that is     *)
(* enough for the abstract promise, whatever Plaid does with its tokens.   *)

Serial == \A g, h \in Handlers : g = h

SerialInv ==
    /\ \A h \in Handlers : pc[h] \notin {"idle", "find"}
                              => event[tok[h]] = "PENDING"
    /\ \A t \in Tokens : \A i, j \in ItemsOf[t] :
          accountRows[i] > 0 => accountRows[j] > 0

LEMMA SerialInit == Init => SerialInv
  BY LinkAssumption DEF Init, SerialInv

LEMMA SerialStep == Serial /\ IInv /\ SerialInv /\ [Next]_vars => SerialInv'
<1> SUFFICES ASSUME Serial, IInv, SerialInv, [Next]_vars
             PROVE  SerialInv'
  OBVIOUS
<1>1. TypeOK /\ TypeOK'
  BY TypeStep DEF IInv
<1>2. \A t \in Tokens : ItemsOf[t] \subseteq Items
  BY LinkAssumption
<1> USE <1>1, <1>2
    DEF SerialInv, TypeOK, dbVars, envVars, handlerVars, Goto, Return,
        Respond200, Fault
<1>3. ASSUME NEW t \in Tokens,
             IssueToken(t) \/ CreatePending(t) \/ InitiationFails(t)
               \/ FinishSession(t) \/ Expire(t)
                 \/ \E h \in Handlers : Deliver(h, t)
      PROVE  SerialInv'
  BY <1>3 DEF IssueToken, CreatePending, InitiationFails, FinishSession, Expire,
              Deliver
<1>4. ASSUME NEW h \in Handlers,
             FindPending(h) \/ (\E i \in Items : ExchangeToken(h, i))
               \/ ExchangeRefused(h) \/ GetAccounts(h) \/ SaveBankLinks(h)
               \/ FindForCompletion(h) \/ CallThrows(h) \/ FindForFailure(h)
               \/ RequestThrows(h)
      PROVE  SerialInv'
  BY <1>4 DEF FindPending, ExchangeToken, ExchangeRefused, GetAccounts,
              SaveBankLinks, FindForCompletion, CallThrows, FindForFailure,
              RequestThrows
<1>5. ASSUME NEW h \in Handlers, SaveAccounts(h)
      PROVE  SerialInv'
  <2>1. got[h] = ItemsOf[tok[h]] /\ tok[h] \in Tokens
    BY <1>5 DEF IInv, HandlerInv, SaveAccounts
  <2>2. ASSUME NEW t \in Tokens, NEW i \in ItemsOf[t], NEW j \in ItemsOf[t],
               accountRows'[i] > 0
        PROVE  accountRows'[j] > 0
    <3>1. CASE t = tok[h]
      BY <1>5, <2>1, <3>1, AddRowValue DEF SaveAccounts
    <3>2. CASE t # tok[h]
      <4>1. i \notin got[h] /\ j \notin got[h]
        BY <2>1, <3>2, LinkAssumption
      <4>2. QED
        BY <1>5, <2>2, <4>1, AddRowValue DEF SaveAccounts
    <3>3. QED
      BY <3>1, <3>2
  <2>3. QED
    BY <1>5, <2>2 DEF SaveAccounts
<1>6. ASSUME NEW h \in Handlers, SaveCompleted(h) \/ SaveFailed(h)
      PROVE  SerialInv'
  BY <1>6 DEF SaveCompleted, SaveFailed, Serial
<1>7. CASE Crash
  BY <1>7 DEF Crash
<1>8. CASE UNCHANGED vars
  BY <1>8 DEF vars
<1>9. QED
  BY <1>3, <1>4, <1>5, <1>6, <1>7, <1>8 DEF Next, HandlerStep

(* So is the serial one when webhook requests do not overlap. *)
LEMMA SerialInvariant == Serial /\ Spec => []SerialInv
<1>1. CASE Serial
  <2>1. IInv /\ SerialInv /\ [Next]_vars => SerialInv'
    BY <1>1, SerialStep
  <2>2. QED
    BY <2>1, SerialInit, IInvInvariant, PTL DEF Spec
<1>2. QED
  BY <1>1

LEMMA FinalStep ==
    ASSUME Serial, IInv, SerialInv, [Next]_vars,
           NEW t \in Tokens, event[t] \in {"COMPLETED", "FAILED"}
    PROVE  /\ event'[t] = event[t]
           /\ \A i \in ItemsOf[t] : /\ linkRows'[i] = linkRows[i]
                                    /\ accountRows'[i] = accountRows[i]
<1> DEFINE Final ==
      /\ event'[t] = event[t]
      /\ \A i \in ItemsOf[t] : /\ linkRows'[i] = linkRows[i]
                               /\ accountRows'[i] = accountRows[i]
<1>1. TypeOK /\ ItemsOf[t] \subseteq Items
  BY LinkAssumption DEF IInv
<1>2. ASSUME NEW h \in Handlers, SaveBankLinks(h) \/ SaveAccounts(h)
      PROVE  Final
  <2>1. got[h] = ItemsOf[tok[h]] /\ tok[h] # t /\ tok[h] \in Tokens
    BY <1>2 DEF IInv, HandlerInv, SerialInv, SaveBankLinks, SaveAccounts, TypeOK
  <2>2. \A i \in ItemsOf[t] : i \notin got[h]
    BY <2>1, LinkAssumption
  <2>3. QED
    BY <1>1, <1>2, <2>2, AddRowValue
       DEF SaveBankLinks, SaveAccounts, TypeOK, dbVars
<1>3. ASSUME NEW h \in Handlers, SaveCompleted(h) \/ SaveFailed(h)
      PROVE  Final
  BY <1>1, <1>3 DEF SerialInv, SaveCompleted, SaveFailed, TypeOK
<1>4. ASSUME NEW s \in Tokens, CreatePending(s)
      PROVE  Final
  <2>1. s # t
    BY <1>4 DEF CreatePending, IInv, SessionFacts, EventIsOffered
  <2>2. QED
    BY <1>1, <1>4, <2>1 DEF CreatePending, TypeOK, IInv
<1>5. CASE UNCHANGED dbVars
  BY <1>5 DEF dbVars
<1>6. QED
  BY <1>2, <1>3, <1>4, <1>5
     DEF Next, HandlerStep, IssueToken, InitiationFails, FinishSession, Expire,
         Deliver, FindPending, ExchangeToken, ExchangeRefused, GetAccounts,
         FindForCompletion, CallThrows, FindForFailure, RequestThrows, Crash,
         vars, dbVars

(* When webhook requests do not overlap, a COMPLETED or FAILED event keeps *)
(* its status and no row is added for its session any more, through every  *)
(* redelivery, crash and failed call.                                      *)
THEOREM SettledStays == Serial /\ Spec => SettledIsFinal
<1>1. CASE Serial
  <2>1. IInv /\ SerialInv /\ [Next]_vars =>
          [\A t \in Tokens :
             event[t] \in {"COMPLETED", "FAILED"} =>
               /\ event'[t] = event[t]
               /\ \A i \in ItemsOf[t] :
                    /\ linkRows'[i] = linkRows[i]
                    /\ accountRows'[i] = accountRows[i]]_vars
    BY <1>1, FinalStep
  <2>2. Spec => []SerialInv
    BY <1>1, SerialInvariant
  <2>3. QED
    BY <2>1, <2>2, IInvInvariant, PTL DEF Spec, SettledIsFinal
<1>2. QED
  BY <1>1

-----------------------------------------------------------------------------
(* Refinement.                                                             *)

Linked == {i \in Items : accountRows[i] > 0}

LEMMA PromiseInit == Init => Promise!Init
  BY DEF Init, Promise!Init

LEMMA PromiseStep ==
    ASSUME Serial, IInv, SerialInv, [Next]_vars
    PROVE  [Promise!Next]_Promise!vars
<1>1. TypeOK /\ TypeOK'
  BY TypeStep DEF IInv
<1> USE DEF Promise!vars, Promise!Next
<1>2. ASSUME NEW t \in Tokens, CreatePending(t)
      PROVE  Promise!Open(t)
  BY <1>1, <1>2 DEF CreatePending, Promise!Open, IInv, SessionFacts,
                    EventIsOffered, TypeOK
<1>3. ASSUME NEW h \in Handlers, SaveCompleted(h)
      PROVE  Promise!Complete(tok[h])
  <2>1. /\ event[tok[h]] = "PENDING"
        /\ tok[h] \in Tokens
        /\ \A i \in ItemsOf[tok[h]] : i \in Items /\ accountRows[i] > 0
    BY <1>1, <1>3, LinkAssumption
       DEF SaveCompleted, SerialInv, IInv, HandlerInv, TypeOK, Usable
  <2>2. QED
    BY <1>1, <1>3, <2>1 DEF SaveCompleted, Promise!Complete, TypeOK
<1>4. ASSUME NEW h \in Handlers, SaveFailed(h)
      PROVE  Promise!Fail(tok[h])
  BY <1>1, <1>4 DEF SaveFailed, SerialInv, Promise!Fail, TypeOK
<1>5. ASSUME NEW h \in Handlers, NEW t \in Tokens, t = tok[h], SaveAccounts(h)
      PROVE  Promise!Link(t) \/ UNCHANGED Promise!vars
  <2>1. /\ event[tok[h]] = "PENDING"
        /\ got[h] = ItemsOf[tok[h]]
        /\ got[h] \subseteq Items
        /\ event' = event
    BY <1>1, <1>5 DEF SaveAccounts, SerialInv, IInv, HandlerInv, TypeOK
  <2>2. \A i \in Items : accountRows'[i] =
           IF i \in got[h] THEN accountRows[i] + 1 ELSE accountRows[i]
    BY <1>1, <1>5, AddRowValue DEF SaveAccounts, TypeOK
  <2>3. Linked' = Linked \cup got[h]
    BY <1>1, <2>1, <2>2 DEF Linked, TypeOK
  <2>4. CASE got[h] \cap Linked = {}
    BY <1>5, <2>1, <2>3, <2>4 DEF Promise!Link, Linked
  <2>5. CASE got[h] \cap Linked # {}
    <3>1. got[h] \subseteq Linked
      BY <1>1, <2>1, <2>5, <1>5 DEF SerialInv, Linked, TypeOK, SaveAccounts
    <3>2. QED
      BY <2>1, <2>3, <3>1 DEF Linked
  <2>6. QED
    BY <2>4, <2>5
<1>6. ASSUME UNCHANGED <<event, accountRows>>
      PROVE  UNCHANGED Promise!vars
  BY <1>6
<1>7. \/ \E t \in Tokens : CreatePending(t)
      \/ \E h \in Handlers : SaveCompleted(h) \/ SaveFailed(h) \/ SaveAccounts(h)
      \/ UNCHANGED <<event, accountRows>>
  BY DEF Next, HandlerStep, IssueToken, InitiationFails, FinishSession, Expire,
         Deliver, FindPending, ExchangeToken, ExchangeRefused, GetAccounts,
         SaveBankLinks, FindForCompletion, CallThrows, FindForFailure,
         RequestThrows, Crash, vars, dbVars
<1>8. \A h \in Handlers :
         SaveCompleted(h) \/ SaveFailed(h) \/ SaveAccounts(h) => tok[h] \in Tokens
  BY <1>1 DEF SaveCompleted, SaveFailed, SaveAccounts, TypeOK
<1> HIDE DEF Promise!vars
<1>9. ASSUME NEW t \in Tokens, CreatePending(t)
      PROVE  Promise!Next
  BY <1>2, <1>9
<1>10. ASSUME NEW h \in Handlers, SaveCompleted(h) \/ SaveFailed(h)
       PROVE  Promise!Next
  BY <1>3, <1>4, <1>8, <1>10
<1>11. ASSUME NEW h \in Handlers, SaveAccounts(h)
       PROVE  Promise!Next \/ UNCHANGED Promise!vars
  <2>1. PICK t \in Tokens : t = tok[h]
    BY <1>8, <1>11
  <2>2. Promise!Link(t) \/ UNCHANGED Promise!vars
    BY <1>5, <1>11, <2>1
  <2>3. QED
    BY <2>2
<1>12. QED
  BY <1>6, <1>7, <1>9, <1>10, <1>11

(* When webhook requests do not overlap, the handler as written, with its  *)
(* separate reads and saves, its retries and its crashes, does nothing but *)
(* what LinkSession promises.                                              *)
THEOREM Implementation == Serial /\ Spec => ImplementsLinkSession
<1>1. CASE Serial
  <2>1. IInv /\ SerialInv /\ [Next]_vars => [Promise!Next]_Promise!vars
    BY <1>1, PromiseStep
  <2>2. Spec => []SerialInv
    BY <1>1, SerialInvariant
  <2>3. QED
    BY <2>1, <2>2, IInvInvariant, PromiseInit, PTL
       DEF Spec, ImplementsLinkSession, Promise!Spec
<1>2. QED
  BY <1>1
=============================================================================
