-------------------------- MODULE UserRecordProofs --------------------------
(***************************************************************************)
(* What holds of a user's row for any number of requests, rows, fields and *)
(* values: what a save stores, that a removed row stays away, that whoever *)
(* is registered can log in, that the Plaid user token and the settings    *)
(* are lost to stale saves and failures only, and that the settings page   *)
(* changes what was edited.                                                *)
(***************************************************************************)
EXTENDS SettingsPage, TLAPS

(* The rows of an id                                                       *)
Rows(id) ==
    {row \in [FieldsOf[id] -> UNION {ValuesOf[f] : f \in FieldsOf[id]}] :
       \A f \in FieldsOf[id] : row[f] \in ValuesOf[f]}

Fields == {"pc", "kind", "id", "named", "found", "saved", "seen", "differs",
           "inserts", "next"}

(* Updates go through find, save and write.                                *)
Updating == {"settings", "link", "update"}

NamedOK(q) ==
    \A f \in DOMAIN q.named : f \in FieldsOf[q.id] /\ q.named[f] \in ValuesOf[f]

(* What a request is, by its kind                                          *)
KindOK(q) ==
    \/ /\ q.kind \in {"none", "create", "remove", "login"}
       /\ q.pc \in {"new", "done", "refused"}
    \/ /\ q.kind = "register" /\ q.id = User /\ q.next = "done"
       /\ q.named \in [{"password"} -> Passwords]
       /\ q.pc \in {"email", "write", "done", "refused", "failed"}
       /\ q.pc = "write" => /\ q.inserts = TRUE
                            /\ q.saved = NewUser(q.named["password"])
    \/ /\ q.kind = "settings" /\ q.id = User /\ q.next = "emit"
       /\ DOMAIN q.named \subseteq Settings
       /\ q.pc \in {"find", "save", "write", "emit", "done", "refused", "failed"}
    \/ /\ q.kind = "link" /\ q.id = User /\ q.next = "pending"
       /\ DOMAIN q.named \subseteq {"token"}
       /\ "token" \in DOMAIN q.named => q.named["token"] = Token
       /\ q.pc \in {"find", "save", "write"} => "token" \in DOMAIN q.named
       /\ q.pc \in {"details", "userToken", "linkToken", "find", "save", "write",
                    "pending", "done", "refused", "failed"}
    \/ /\ q.kind = "update" /\ q.id \in Owned /\ q.next = "done"
       /\ q.pc \in {"find", "save", "write", "done", "refused", "failed"}

ReqOK(q) ==
    /\ DOMAIN q = Fields
    /\ KindOK(q)
    /\ q.pc \in {"find", "save"} \/ q.kind \in {"settings", "link"} => q.inserts = FALSE
    /\ q.kind \in Updating => NamedOK(q)

(* A request that saves holds the row it found, with its update; as long   *)
(* as the row was not written since, the table has the row it found.  Here *)
(* row and count are what the table has, and the writes so far.            *)
SavesOK(q, row, count) ==
    /\ q.kind \in Updating /\ q.pc \in {"save", "write", "emit"} =>
          q.found \in Rows(q.id) /\ q.saved = Saved(q.found, q.named)
    /\ q.pc \in {"save", "write"} => q.seen \in Nat /\ q.seen <= count
    /\ q.kind \in Updating /\ q.pc \in {"save", "write"} =>
          /\ q.seen = count => row = q.found
          /\ q.pc = "write" =>
                /\ q.inserts \in BOOLEAN
                /\ q.inserts = TRUE => q.seen < count
                /\ q.inserts = FALSE /\ q.seen = count =>
                      q.differs = Differing(q.found, q.saved)

RecordInv ==
    /\ rows = [id \in Ids |-> rows[id]]
    /\ \A id \in Ids : rows[id] = Absent \/ rows[id] \in Rows(id)
    /\ writes \in [Ids -> Nat]
    /\ stale \in BOOLEAN
    /\ req = [r \in Requests |-> req[r]]
    /\ \A r \in Requests :
          ReqOK(req[r]) /\ SavesOK(req[r], rows[req[r].id], writes[req[r].id])
    /\ \A r \in Requests : req[r].kind \in {"settings", "link"} => Exists

(* A row changes only with its count of writes.                            *)
Advance ==
    /\ rows' = [id \in Ids |-> rows'[id]]
    /\ \A id \in Ids : rows'[id] = Absent \/ rows'[id] \in Rows(id)
    /\ writes' \in [Ids -> Nat]
    /\ \A id \in Ids :
          \/ rows'[id] = rows[id] /\ writes'[id] = writes[id]
          \/ writes'[id] = writes[id] + 1
    /\ Exists => rows'[User] # Absent
    /\ rows'[User] = Absent => writes'[User] = writes[User]

-----------------------------------------------------------------------------
(* Rows.                                                                   *)

LEMMA RowsAreThere == \A id \in Ids : Absent \notin Rows(id)
  BY RecordAssumption DEF Rows

LEMMA NewUserIsRow == ASSUME NEW p \in Passwords PROVE NewUser(p) \in Rows(User)
<1>1. \A f \in FieldsOf[User] : NewUser(p)[f] \in ValuesOf[f]
  BY UserAssumption DEF NewUser
<1>2. QED
  BY <1>1 DEF NewUser, Rows

LEMMA SavedIsRow ==
    ASSUME NEW id \in Ids, NEW row \in Rows(id), NEW named,
           \A f \in DOMAIN named : f \in FieldsOf[id] /\ named[f] \in ValuesOf[f]
    PROVE  /\ Saved(row, named) \in Rows(id)
           /\ \A f \in FieldsOf[id] : Saved(row, named)[f] =
                 IF f \in DOMAIN named /\ (f \in Joins => row[f] = Null) THEN named[f] ELSE row[f]
<1>1. DOMAIN row = FieldsOf[id] /\ \A f \in FieldsOf[id] : row[f] \in ValuesOf[f]
  BY DEF Rows
<1>2. \A f \in FieldsOf[id] : Saved(row, named)[f] =
        IF f \in DOMAIN named /\ (f \in Joins => row[f] = Null) THEN named[f] ELSE row[f]
  BY <1>1 DEF Saved
<1>3. \A f \in FieldsOf[id] : Saved(row, named)[f] \in ValuesOf[f]
  BY <1>1, <1>2
<1>4. Saved(row, named) = [f \in FieldsOf[id] |-> Saved(row, named)[f]]
  BY <1>1 DEF Saved
<1>5. QED
  BY <1>2, <1>3, <1>4 DEF Rows

LEMMA OverwrittenIsRow ==
    ASSUME NEW id \in Ids, NEW row \in Rows(id), NEW q, q.saved \in Rows(id)
    PROVE  /\ Overwritten(row, q) \in Rows(id)
           /\ q.differs = Differing(row, q.saved) => Overwritten(row, q) = q.saved
<1>1. /\ DOMAIN row = FieldsOf[id] /\ \A f \in FieldsOf[id] : row[f] \in ValuesOf[f]
      /\ DOMAIN q.saved = FieldsOf[id] /\ \A f \in FieldsOf[id] : q.saved[f] \in ValuesOf[f]
  BY DEF Rows
<1>2. \A f \in FieldsOf[id] : Overwritten(row, q)[f] =
         IF ColumnOf[f] \in q.differs THEN q.saved[f] ELSE row[f]
  BY <1>1 DEF Overwritten
<1>3. \A f \in FieldsOf[id] : Overwritten(row, q)[f] \in ValuesOf[f]
  BY <1>1, <1>2
<1>4. Overwritten(row, q) = [f \in FieldsOf[id] |-> Overwritten(row, q)[f]]
  BY <1>1 DEF Overwritten
<1>5. Overwritten(row, q) \in Rows(id)
  BY <1>3, <1>4 DEF Rows
<1>6. ASSUME q.differs = Differing(row, q.saved)
      PROVE  Overwritten(row, q) = q.saved
  <2>1. \A f \in FieldsOf[id] : row[f] # q.saved[f] => ColumnOf[f] \in q.differs
    BY <1>1, <1>6 DEF Differing
  <2>2. \A f \in FieldsOf[id] : Overwritten(row, q)[f] = q.saved[f]
    BY <1>2, <2>1
  <2>3. q.saved = [f \in FieldsOf[id] |-> q.saved[f]]
    BY DEF Rows
  <2>4. QED
    BY <1>4, <2>2, <2>3
<1>7. QED
  BY <1>5, <1>6

-----------------------------------------------------------------------------
(* A step of one request.                                                  *)

LEMMA KindsHaveIds ==
    ASSUME NEW q, KindOK(q)
    PROVE  q.pc \in {"save", "write", "emit"} => q.id \in Ids
BY UserAssumption DEF KindOK

(* What another request does to the table is no harm.                      *)
LEMMA SavesFrame ==
    ASSUME NEW q, KindOK(q), NEW row, NEW count, NEW row2, NEW count2,
           SavesOK(q, row, count),
           q.id \in Ids => /\ count \in Nat
                           /\ \/ row2 = row /\ count2 = count
                              \/ count2 = count + 1
    PROVE  SavesOK(q, row2, count2)
<1>1. CASE q.id \in Ids
  <2>1. \/ row2 = row /\ count2 = count
        \/ count \in Nat /\ count2 = count + 1
    BY <1>1
  <2>2. CASE row2 = row /\ count2 = count
    BY <2>2
  <2>3. CASE count \in Nat /\ count2 = count + 1
    <3>1. q.pc \in {"save", "write"} =>
             q.seen \in Nat /\ q.seen <= count2 /\ q.seen < count2 /\ q.seen # count2
      BY <2>3 DEF SavesOK
    <3>2. QED
      BY <3>1 DEF SavesOK
  <2>4. QED
    BY <2>1, <2>2, <2>3
<1>2. CASE q.id \notin Ids
  <2>1. q.pc \notin {"save", "write", "emit"}
    BY <1>2, KindsHaveIds
  <2>2. QED
    BY <2>1 DEF SavesOK
<1>3. QED
  BY <1>1, <1>2

LEMMA StillAdvances ==
    ASSUME RecordInv, UNCHANGED <<rows, writes>>
    PROVE  Advance
<1>1. rows' = [id \in Ids |-> rows'[id]]
  BY DEF RecordInv
<1>2. rows' = rows /\ writes' = writes
  OBVIOUS
<1>3. QED
  BY <1>1, <1>2 DEF RecordInv, Advance, Exists

LEMMA StepKeepsInv ==
    ASSUME RecordInv, Advance, NEW r \in Requests, NEW q,
           req' = [req EXCEPT ![r] = q],
           ReqOK(q), SavesOK(q, rows'[q.id], writes'[q.id]),
           q.kind \in {"settings", "link"} => rows'[User] # Absent,
           stale' \in BOOLEAN
    PROVE  RecordInv'
<1>1. req' = [g \in Requests |-> req'[g]]
  BY DEF RecordInv
<1>2. \A g \in Requests : g # r => req'[g] = req[g]
  BY DEF RecordInv
<1>3. req'[r] = q
  BY DEF RecordInv
<1>4. ASSUME NEW g \in Requests
      PROVE  ReqOK(req'[g]) /\ SavesOK(req'[g], rows'[req'[g].id], writes'[req'[g].id])
  <2>1. CASE g = r
    BY <1>3, <2>1
  <2>2. CASE g # r
    <3>1. ReqOK(req[g]) /\ SavesOK(req[g], rows[req[g].id], writes[req[g].id])
      BY DEF RecordInv
    <3>2. KindOK(req[g])
      BY <3>1 DEF ReqOK
    <3>3. req[g].id \in Ids =>
             /\ writes[req[g].id] \in Nat
             /\ \/ rows'[req[g].id] = rows[req[g].id] /\ writes'[req[g].id] = writes[req[g].id]
                \/ writes'[req[g].id] = writes[req[g].id] + 1
      BY DEF RecordInv, Advance
    <3>4. SavesOK(req[g], rows'[req[g].id], writes'[req[g].id])
      BY <3>1, <3>2, <3>3, SavesFrame
    <3>5. QED
      BY <1>2, <2>2, <3>1, <3>4
  <2>3. QED
    BY <2>1, <2>2
<1>5. \A g \in Requests : req'[g].kind \in {"settings", "link"} => rows'[User] # Absent
  BY <1>2, <1>3 DEF RecordInv, Advance, Exists
<1>6. /\ rows' = [id \in Ids |-> rows'[id]]
      /\ \A id \in Ids : rows'[id] = Absent \/ rows'[id] \in Rows(id)
      /\ writes' \in [Ids -> Nat]
  BY DEF Advance
<1>7. QED
  BY <1>1, <1>4, <1>5, <1>6 DEF RecordInv, Exists, ReqOK, SavesOK, KindOK, NamedOK

(* The others' requests stay as they are.                                  *)
Only(r) == \A g \in Requests : g # r => req'[g] = req[g]

LEMMA BeginsWell ==
    ASSUME RecordInv, NEW r \in Requests,
           NEW kind, NEW id, NEW named, NEW pc, NEW next,
           Begin(r, kind, id, named, pc, next),
           \/ /\ kind = "register" /\ id = User /\ next = "done" /\ pc = "email"
              /\ named \in [{"password"} -> Passwords]
           \/ /\ kind = "settings" /\ id = User /\ next = "emit" /\ pc = "find"
              /\ DOMAIN named \subseteq Settings /\ Exists
              /\ \A f \in DOMAIN named : f \in FieldsOf[id] /\ named[f] \in ValuesOf[f]
           \/ /\ kind = "link" /\ id = User /\ next = "pending" /\ pc = "details"
              /\ named = <<>> /\ Exists
           \/ /\ kind = "update" /\ id \in Owned /\ next = "done" /\ pc = "find"
              /\ \A f \in DOMAIN named : f \in FieldsOf[id] /\ named[f] \in ValuesOf[f]
    PROVE  /\ Advance /\ RecordInv' /\ Only(r)
           /\ req'[r].kind = kind /\ req'[r].named = named /\ req'[r].pc = pc
<1>1. Advance
  BY StillAdvances DEF Begin
<1>2. PICK q : /\ q = [New EXCEPT !.pc = pc, !.kind = kind, !.id = id, !.named = named,
                                  !.next = next]
               /\ req' = [req EXCEPT ![r] = q]
  BY DEF Begin, Go
<1>3. /\ DOMAIN q = Fields /\ q.pc = pc /\ q.kind = kind /\ q.id = id /\ q.named = named
      /\ q.next = next /\ q.inserts = FALSE
  BY <1>2 DEF New, Fields
<1>4. KindOK(q)
  BY <1>3 DEF KindOK
<1>5. q.kind \in Updating => NamedOK(q)
  BY <1>3 DEF Updating, NamedOK
<1>6. SavesOK(q, rows'[q.id], writes'[q.id])
  BY <1>3 DEF SavesOK, Updating
<1>7. q.kind \in {"settings", "link"} => rows'[User] # Absent
  BY <1>3 DEF Begin, Exists
<1>8. stale' \in BOOLEAN
  BY DEF RecordInv, Begin
<1>9. ReqOK(q)
  BY <1>3, <1>4, <1>5 DEF ReqOK
<1>10. RecordInv'
  BY <1>1, <1>2, <1>6, <1>7, <1>8, <1>9, StepKeepsInv
<1>11. Only(r) /\ req'[r] = q
  BY <1>2 DEF Only, RecordInv
<1>12. QED
  BY <1>1, <1>3, <1>10, <1>11

(* Only the point of the request changes: to where the row is neither      *)
(* saved nor told of, or within its own kind.                              *)
LEMMA MovesWell ==
    ASSUME RecordInv, NEW r \in Requests, NEW pc, UNCHANGED <<rows, writes, stale>>,
           req' = [req EXCEPT ![r] = [req[r] EXCEPT !.pc = pc]],
           \/ pc \in {"refused", "failed"} /\ req[r].pc # "new" /\ req[r].kind \in Updating \cup {"register"}
           \/ pc = "done" /\ req[r].kind \in {"register", "settings", "link", "update"}
           \/ pc \in {"userToken", "linkToken", "pending"} /\ req[r].kind = "link"
           \/ pc = "find" /\ req[r].kind = "link" /\ "token" \in DOMAIN req[r].named
           \/ pc = "emit" /\ req[r].kind = "settings" /\ req[r].pc \in {"save", "write"}
    PROVE  /\ Advance /\ RecordInv' /\ Only(r)
           /\ req'[r] = [req[r] EXCEPT !.pc = pc]
           /\ req'[r].pc = pc
           /\ \A f \in Fields \ {"pc"} : req'[r][f] = req[r][f]
<1>1. Advance
  BY StillAdvances
<1>2. PICK q : q = [req[r] EXCEPT !.pc = pc] /\ req' = [req EXCEPT ![r] = q]
  OBVIOUS
<1>3. ReqOK(req[r]) /\ SavesOK(req[r], rows[req[r].id], writes[req[r].id])
  BY DEF RecordInv
<1>4. DOMAIN req[r] = Fields
  BY <1>3 DEF ReqOK
<1>5. DOMAIN q = Fields /\ q.pc = pc /\ \A f \in Fields \ {"pc"} : q[f] = req[r][f]
  BY <1>2, <1>4 DEF Fields
<1>6. /\ q.kind = req[r].kind /\ q.id = req[r].id /\ q.named = req[r].named
      /\ q.next = req[r].next /\ q.inserts = req[r].inserts /\ q.seen = req[r].seen
      /\ q.found = req[r].found /\ q.saved = req[r].saved /\ q.differs = req[r].differs
  BY <1>5 DEF Fields
<1>7. KindOK(q)
  BY <1>3, <1>5, <1>6 DEF KindOK, ReqOK, Updating
<1>8. q.kind \in Updating => NamedOK(q)
  BY <1>3, <1>6 DEF NamedOK, ReqOK
<1>9. ReqOK(q)
  <2>1. q.pc \in {"find", "save"} \/ q.kind \in {"settings", "link"} => q.inserts = FALSE
    BY <1>3, <1>5, <1>6 DEF ReqOK
  <2>2. QED
    BY <1>5, <1>7, <1>8, <2>1 DEF ReqOK
<1>10. SavesOK(q, rows'[q.id], writes'[q.id])
  BY <1>3, <1>5, <1>6 DEF SavesOK
<1>11. q.kind \in {"settings", "link"} => rows'[User] # Absent
  BY <1>6 DEF RecordInv, Exists
<1>12. stale' \in BOOLEAN
  BY DEF RecordInv
<1>13. RecordInv'
  BY <1>1, <1>2, <1>9, <1>10, <1>11, <1>12, StepKeepsInv
<1>14. Only(r) /\ req'[r] = q
  BY <1>2 DEF Only, RecordInv
<1>15. QED
  BY <1>1, <1>2, <1>5, <1>13, <1>14

(* The user's row is there for a request on it; other rows may be gone.    *)
LEMMA FindsWell ==
    ASSUME RecordInv, NEW r \in Requests, Find(r)
    PROVE  /\ Advance /\ RecordInv' /\ Only(r)
           /\ UNCHANGED <<rows, writes, stale>>
           /\ req'[r].kind = req[r].kind /\ req'[r].named = req[r].named
           /\ req[r].kind \in {"settings", "link"} =>
                 req'[r].pc = "save" /\ req'[r].found = rows[User]
           /\ req'[r].pc \in {"save", "refused"} /\ req[r].kind \in Updating
<1>1. ReqOK(req[r])
  BY DEF RecordInv
<1>2. req[r].pc = "find" /\ DOMAIN req[r] = Fields /\ KindOK(req[r])
  BY <1>1 DEF Find, ReqOK
<1>3. req[r].kind \in Updating /\ req[r].id \in Ids
      /\ (req[r].kind \in {"settings", "link"} => req[r].id = User /\ rows[User] # Absent)
  BY <1>2, UserAssumption DEF KindOK, Updating, RecordInv, Exists
<1>4. NamedOK(req[r])
  BY <1>1, <1>3 DEF ReqOK
<1>5. UNCHANGED <<rows, writes, stale>>
  BY DEF Find
<1>6. CASE rows[req[r].id] = Absent
  <2>1. req' = [req EXCEPT ![r] = [req[r] EXCEPT !.pc = "refused"]]
    BY <1>6 DEF Find, Go
  <2>2. /\ Advance /\ RecordInv' /\ Only(r) /\ req'[r].pc = "refused"
        /\ \A f \in Fields \ {"pc"} : req'[r][f] = req[r][f]
    BY <1>2, <1>3, <1>5, <2>1, MovesWell
  <2>3. QED
    BY <1>3, <1>5, <1>6, <2>2 DEF Fields
<1>7. CASE rows[req[r].id] # Absent
  <2>1. PICK q : /\ q = [req[r] EXCEPT !.pc = "save", !.seen = writes[req[r].id],
                                       !.found = rows[req[r].id],
                                       !.saved = Saved(rows[req[r].id], req[r].named)]
                 /\ req' = [req EXCEPT ![r] = q]
    BY <1>7 DEF Find, Go
  <2>2. /\ DOMAIN q = Fields /\ q.pc = "save" /\ q.kind = req[r].kind /\ q.id = req[r].id
        /\ q.named = req[r].named /\ q.next = req[r].next
        /\ q.seen = writes[req[r].id] /\ q.found = rows[req[r].id]
        /\ q.saved = Saved(rows[req[r].id], req[r].named)
        /\ q.inserts = req[r].inserts
    BY <2>1, <1>2 DEF Fields
  <2>3. q.inserts = FALSE
    BY <1>1, <1>2, <2>2 DEF ReqOK
  <2>4. KindOK(q)
    BY <1>2, <1>3, <2>2 DEF KindOK, Updating
  <2>5. ReqOK(q)
    BY <1>4, <2>2, <2>3, <2>4 DEF ReqOK, NamedOK
  <2>6. rows[req[r].id] \in Rows(req[r].id) /\ writes[req[r].id] \in Nat
    BY <1>3, <1>7 DEF RecordInv
  <2>7. SavesOK(q, rows'[q.id], writes'[q.id])
    BY <1>5, <2>2, <2>3, <2>6 DEF SavesOK
  <2>8. Advance
    BY <1>5, StillAdvances
  <2>9. RecordInv'
    BY <1>3, <1>5, <2>1, <2>2, <2>5, <2>7, <2>8, StepKeepsInv DEF RecordInv
  <2>10. Only(r) /\ req'[r] = q
    BY <2>1 DEF Only, RecordInv
  <2>11. QED
    BY <1>3, <1>5, <2>2, <2>8, <2>9, <2>10
<1>8. QED
  BY <1>6, <1>7

(* save's second read: an entity equal to the row is not written.          *)
LEMMA RereadsWell ==
    ASSUME RecordInv, NEW r \in Requests, Reread(r)
    PROVE  /\ Advance /\ RecordInv' /\ Only(r)
           /\ UNCHANGED <<rows, writes, stale>>
           /\ req[r].kind \in Updating
           /\ \A f \in {"kind", "id", "named", "next", "found", "saved"} : req'[r][f] = req[r][f]
           /\ \/ req'[r].pc = "write"
              \/ req'[r].pc = req[r].next /\ rows[req[r].id] = req[r].saved
<1>1. ReqOK(req[r]) /\ SavesOK(req[r], rows[req[r].id], writes[req[r].id])
  BY DEF RecordInv
<1>2. req[r].pc = "save" /\ DOMAIN req[r] = Fields /\ KindOK(req[r]) /\ req[r].inserts = FALSE
  BY <1>1 DEF Reread, ReqOK
<1>3. req[r].kind \in Updating /\ req[r].id \in Ids
      /\ (req[r].kind \in {"settings", "link"} => req[r].id = User /\ rows[User] # Absent)
  BY <1>2, UserAssumption DEF KindOK, Updating, RecordInv, Exists
<1>4. NamedOK(req[r]) /\ req[r].found \in Rows(req[r].id)
      /\ req[r].saved = Saved(req[r].found, req[r].named)
  BY <1>1, <1>2, <1>3 DEF ReqOK, SavesOK
<1>5. UNCHANGED <<rows, writes, stale>>
  BY DEF Reread
<1>6. Advance
  BY <1>5, StillAdvances
<1>7. req[r].seen \in Nat /\ req[r].seen <= writes[req[r].id]
      /\ (req[r].seen = writes[req[r].id] => rows[req[r].id] = req[r].found)
  BY <1>1, <1>2, <1>3 DEF SavesOK
<1>8. req[r].saved \in Rows(req[r].id)
  BY <1>3, <1>4, SavedIsRow DEF NamedOK
<1>9. CASE rows[req[r].id] = Absent
  <2>1. PICK q : q = [req[r] EXCEPT !.pc = "write", !.inserts = TRUE] /\ req' = [req EXCEPT ![r] = q]
    BY <1>9 DEF Reread, Go
  <2>2. /\ DOMAIN q = Fields /\ q.pc = "write" /\ q.kind = req[r].kind /\ q.id = req[r].id
        /\ q.named = req[r].named /\ q.next = req[r].next /\ q.inserts = TRUE
        /\ q.seen = req[r].seen /\ q.found = req[r].found /\ q.saved = req[r].saved
    BY <2>1, <1>2 DEF Fields
  <2>3. KindOK(q) /\ q.kind \notin {"settings", "link"}
    BY <1>2, <1>3, <1>9, <2>2 DEF KindOK, Updating
  <2>4. ReqOK(q)
    BY <1>4, <2>2, <2>3 DEF ReqOK, NamedOK
  <2>5. req[r].seen < writes[req[r].id]
    BY <1>3, <1>4, <1>7, <1>9, RowsAreThere DEF RecordInv
  <2>6. SavesOK(q, rows'[q.id], writes'[q.id])
    BY <1>3, <1>4, <1>5, <1>7, <2>2, <2>5 DEF SavesOK, RecordInv
  <2>7. RecordInv'
    BY <1>6, <1>5, <2>1, <2>3, <2>4, <2>6, StepKeepsInv DEF RecordInv
  <2>8. Only(r) /\ req'[r] = q
    BY <2>1 DEF Only, RecordInv
  <2>9. QED
    BY <1>3, <1>5, <1>6, <2>2, <2>7, <2>8
<1>10. CASE rows[req[r].id] # Absent /\ Differing(rows[req[r].id], req[r].saved) = {}
  <2>1. req' = [req EXCEPT ![r] = [req[r] EXCEPT !.pc = req[r].next]]
    BY <1>10 DEF Reread, Go
  <2>2. \/ req[r].next = "done" /\ req[r].kind = "update"
        \/ req[r].next = "pending" /\ req[r].kind = "link"
        \/ req[r].next = "emit" /\ req[r].kind = "settings" /\ req[r].pc = "save"
    BY <1>2, <1>3 DEF KindOK, Updating
  <2>3. /\ RecordInv' /\ Only(r) /\ req'[r].pc = req[r].next
        /\ \A f \in Fields \ {"pc"} : req'[r][f] = req[r][f]
    BY <1>5, <2>1, <2>2, MovesWell
  <2>4. rows[req[r].id] \in Rows(req[r].id)
    BY <1>3, <1>10 DEF RecordInv
  <2>5. \A f \in FieldsOf[req[r].id] : rows[req[r].id][f] = req[r].saved[f]
    <3>1. DOMAIN req[r].saved = FieldsOf[req[r].id]
      BY <1>8 DEF Rows
    <3>2. ASSUME NEW f \in FieldsOf[req[r].id], rows[req[r].id][f] # req[r].saved[f]
          PROVE  ColumnOf[f] \in Differing(rows[req[r].id], req[r].saved)
      BY <3>1, <3>2 DEF Differing
    <3>3. QED
      BY <1>10, <3>2
  <2>6. rows[req[r].id] = req[r].saved
    BY <1>8, <2>4, <2>5 DEF Rows
  <2>7. QED
    BY <1>3, <1>5, <1>6, <2>3, <2>6 DEF Fields
<1>11. CASE rows[req[r].id] # Absent /\ Differing(rows[req[r].id], req[r].saved) # {}
  <2>1. PICK q : /\ q = [req[r] EXCEPT !.pc = "write",
                                       !.differs = Differing(rows[req[r].id], req[r].saved)]
                 /\ req' = [req EXCEPT ![r] = q]
    BY <1>11 DEF Reread, Go
  <2>2. /\ DOMAIN q = Fields /\ q.pc = "write" /\ q.kind = req[r].kind /\ q.id = req[r].id
        /\ q.named = req[r].named /\ q.next = req[r].next /\ q.inserts = FALSE
        /\ q.seen = req[r].seen /\ q.found = req[r].found /\ q.saved = req[r].saved
        /\ q.differs = Differing(rows[req[r].id], req[r].saved)
    BY <2>1, <1>2 DEF Fields
  <2>3. KindOK(q)
    BY <1>2, <1>3, <2>2 DEF KindOK, Updating
  <2>4. ReqOK(q)
    BY <1>4, <2>2, <2>3 DEF ReqOK, NamedOK
  <2>5. SavesOK(q, rows'[q.id], writes'[q.id])
    BY <1>3, <1>4, <1>5, <1>7, <2>2 DEF SavesOK
  <2>6. RecordInv'
    BY <1>3, <1>6, <1>5, <2>1, <2>2, <2>4, <2>5, StepKeepsInv DEF RecordInv
  <2>7. Only(r) /\ req'[r] = q
    BY <2>1 DEF Only, RecordInv
  <2>8. QED
    BY <1>3, <1>5, <1>6, <2>2, <2>6, <2>7
<1>12. QED
  BY <1>9, <1>10, <1>11

(* A row is written: with the columns that differ, in which it is then the *)
(* entity, or, if it was not there, with the entity.                       *)
LEMMA StoresWell ==
    ASSUME RecordInv, NEW r \in Requests, NEW row \in Rows(req[r].id), Store(r, row),
           req[r].pc = "write"
    PROVE  /\ Advance /\ RecordInv' /\ Only(r)
           /\ req[r].kind \in Updating \cup {"register"} /\ req[r].id \in Ids
           /\ req'[r].pc = req[r].next
           /\ \A f \in Fields \ {"pc"} : req'[r][f] = req[r][f]
           /\ rows'[req[r].id] = row
           /\ \A id \in Ids : id # req[r].id => rows'[id] = rows[id] /\ writes'[id] = writes[id]
           /\ writes'[req[r].id] = writes[req[r].id] + 1
           /\ ~IsStale(r) => UNCHANGED stale
           /\ IsStale(r) => stale'
<1>1. ReqOK(req[r]) /\ SavesOK(req[r], rows[req[r].id], writes[req[r].id])
  BY DEF RecordInv
<1>2. DOMAIN req[r] = Fields /\ KindOK(req[r])
  BY <1>1 DEF ReqOK
<1>3. req[r].kind \in Updating \cup {"register"} /\ req[r].id \in Ids
      /\ (req[r].kind \in {"settings", "link"} => req[r].id = User)
  BY <1>2, UserAssumption DEF KindOK, Updating
<1>4. /\ rows' = [rows EXCEPT ![req[r].id] = row]
      /\ writes' = [writes EXCEPT ![req[r].id] = writes[req[r].id] + 1]
  BY DEF Store
<1>5. /\ rows'[req[r].id] = row
      /\ \A id \in Ids : id # req[r].id => rows'[id] = rows[id] /\ writes'[id] = writes[id]
      /\ writes'[req[r].id] = writes[req[r].id] + 1 /\ writes[req[r].id] \in Nat
      /\ writes' \in [Ids -> Nat]
      /\ rows' = [id \in Ids |-> rows'[id]]
  BY <1>3, <1>4 DEF RecordInv
<1>6. row # Absent
  BY <1>3, RowsAreThere
<1>7. Advance
  BY <1>3, <1>5, <1>6, UserAssumption DEF Advance, RecordInv, Exists
<1>8. PICK q : q = [req[r] EXCEPT !.pc = req[r].next] /\ req' = [req EXCEPT ![r] = q]
  BY DEF Store, Go
<1>9. DOMAIN q = Fields /\ q.pc = req[r].next /\ \A f \in Fields \ {"pc"} : q[f] = req[r][f]
  BY <1>2, <1>8 DEF Fields
<1>10. /\ q.kind = req[r].kind /\ q.id = req[r].id /\ q.named = req[r].named
       /\ q.next = req[r].next /\ q.inserts = req[r].inserts
       /\ q.found = req[r].found /\ q.saved = req[r].saved
  BY <1>9 DEF Fields
<1>11. KindOK(q) /\ q.pc \notin {"find", "save", "write"}
  BY <1>2, <1>3, <1>9, <1>10 DEF KindOK, Updating
<1>12. ReqOK(q)
  <2>1. q.kind \in {"settings", "link"} => q.inserts = FALSE
    BY <1>1, <1>10 DEF ReqOK
  <2>2. q.kind \in Updating => NamedOK(q)
    BY <1>1, <1>10 DEF ReqOK, NamedOK
  <2>3. QED
    BY <1>9, <1>11, <2>1, <2>2 DEF ReqOK
<1>13. SavesOK(q, rows'[q.id], writes'[q.id])
  BY <1>1, <1>10, <1>11 DEF SavesOK
<1>14. q.kind \in {"settings", "link"} => rows'[User] # Absent
  BY <1>3, <1>5, <1>6, <1>10
<1>15. stale' \in BOOLEAN /\ (~IsStale(r) => UNCHANGED stale) /\ (IsStale(r) => stale')
  <2>1. stale' = (stale \/ IsStale(r)) /\ stale \in BOOLEAN
    BY DEF Store, RecordInv
  <2>2. IsStale(r) \in BOOLEAN
    BY DEF IsStale
  <2>3. QED
    BY <2>1, <2>2
<1>16. RecordInv'
  BY <1>7, <1>8, <1>12, <1>13, <1>14, <1>15, StepKeepsInv
<1>17. Only(r) /\ req'[r] = q
  BY <1>8 DEF Only, RecordInv
<1>18. QED
  BY <1>3, <1>5, <1>7, <1>9, <1>15, <1>16, <1>17

LEMMA WritesAreRows ==
    ASSUME RecordInv, NEW r \in Requests, req[r].pc = "write"
    PROVE  /\ req[r].kind \in Updating \cup {"register"} /\ req[r].id \in Ids
           /\ req[r].saved \in Rows(req[r].id)
           /\ req[r].kind \in {"settings", "link"} =>
                 req[r].id = User /\ Exists /\ req[r].inserts = FALSE
           /\ req[r].kind = "register" =>
                 /\ req[r].id = User /\ req[r].inserts = TRUE /\ req[r].next = "done"
                 /\ req[r].named \in [{"password"} -> Passwords]
                 /\ req[r].saved = NewUser(req[r].named["password"])
           /\ req[r].kind = "update" => req[r].id \in Owned /\ req[r].id # User
<1>1. ReqOK(req[r]) /\ SavesOK(req[r], rows[req[r].id], writes[req[r].id])
  BY DEF RecordInv
<1>2. KindOK(req[r])
  BY <1>1 DEF ReqOK
<1>3. /\ req[r].kind \in Updating \cup {"register"} /\ req[r].id \in Ids
      /\ req[r].kind \in {"settings", "link"} => req[r].id = User
      /\ req[r].kind = "update" => req[r].id \in Owned /\ req[r].id # User
  BY <1>2, UserAssumption DEF KindOK, Updating
<1>4. req[r].kind \in {"settings", "link"} => Exists /\ req[r].inserts = FALSE
  BY <1>1 DEF RecordInv, ReqOK
<1>5. req[r].kind = "register" =>
         /\ req[r].id = User /\ req[r].inserts = TRUE /\ req[r].next = "done"
         /\ req[r].named \in [{"password"} -> Passwords]
         /\ req[r].saved = NewUser(req[r].named["password"])
  BY <1>2 DEF KindOK
<1>6. req[r].saved \in Rows(req[r].id)
  <2>1. CASE req[r].kind = "register"
    BY <1>5, <2>1, NewUserIsRow
  <2>2. CASE req[r].kind \in Updating
    <3>1. /\ NamedOK(req[r]) /\ req[r].found \in Rows(req[r].id)
          /\ req[r].saved = Saved(req[r].found, req[r].named)
      BY <1>1, <2>2 DEF ReqOK, SavesOK
    <3>2. QED
      BY <1>3, <3>1, SavedIsRow DEF NamedOK
  <2>3. QED
    BY <1>3, <2>1, <2>2
<1>7. QED
  BY <1>3, <1>4, <1>5, <1>6

LEMMA UpdatesWell ==
    ASSUME RecordInv, NEW r \in Requests, UpdateRow(r)
    PROVE  /\ Advance /\ RecordInv' /\ Only(r)
           /\ req[r].kind \in Updating /\ req[r].id \in Ids
           /\ req'[r].pc = req[r].next
           /\ \A f \in Fields \ {"pc"} : req'[r][f] = req[r][f]
           /\ rows'[req[r].id] = Overwritten(rows[req[r].id], req[r])
           /\ ~IsStale(r) => /\ rows'[req[r].id] = req[r].saved
                             /\ rows[req[r].id] = req[r].found
                             /\ UNCHANGED stale
           /\ IsStale(r) => stale'
           /\ \A id \in Ids : id # req[r].id => rows'[id] = rows[id] /\ writes'[id] = writes[id]
           /\ writes'[req[r].id] = writes[req[r].id] + 1
<1>1. req[r].pc = "write" /\ req[r].inserts # TRUE /\ rows[req[r].id] # Absent
      /\ Store(r, Overwritten(rows[req[r].id], req[r]))
  BY DEF UpdateRow
<1>2. /\ req[r].id \in Ids /\ req[r].saved \in Rows(req[r].id)
      /\ req[r].kind \in Updating
  BY <1>1, WritesAreRows
<1>3. rows[req[r].id] \in Rows(req[r].id)
  BY <1>1, <1>2 DEF RecordInv
<1>4. /\ Overwritten(rows[req[r].id], req[r]) \in Rows(req[r].id)
      /\ req[r].differs = Differing(rows[req[r].id], req[r].saved) =>
            Overwritten(rows[req[r].id], req[r]) = req[r].saved
  BY <1>2, <1>3, OverwrittenIsRow
<1>5. /\ Advance /\ RecordInv' /\ Only(r)
      /\ req'[r].pc = req[r].next
      /\ \A f \in Fields \ {"pc"} : req'[r][f] = req[r][f]
      /\ rows'[req[r].id] = Overwritten(rows[req[r].id], req[r])
      /\ ~IsStale(r) => UNCHANGED stale
      /\ IsStale(r) => stale'
      /\ \A id \in Ids : id # req[r].id => rows'[id] = rows[id] /\ writes'[id] = writes[id]
      /\ writes'[req[r].id] = writes[req[r].id] + 1
  BY <1>1, <1>4, StoresWell
<1>6. ASSUME ~IsStale(r)
      PROVE  /\ rows[req[r].id] = req[r].found
             /\ req[r].differs = Differing(rows[req[r].id], req[r].saved)
  <2>1. SavesOK(req[r], rows[req[r].id], writes[req[r].id])
    BY DEF RecordInv
  <2>2. req[r].seen \in Nat /\ req[r].seen <= writes[req[r].id] /\ writes[req[r].id] \in Nat
    BY <1>1, <1>2, <2>1 DEF SavesOK, RecordInv
  <2>3. req[r].seen = writes[req[r].id]
    BY <1>6, <2>2 DEF IsStale
  <2>4. QED
    BY <1>1, <1>2, <2>1, <2>3 DEF SavesOK
<1>7. QED
  BY <1>2, <1>4, <1>5, <1>6

LEMMA InsertsWell ==
    ASSUME RecordInv, NEW r \in Requests, InsertRow(r)
    PROVE  /\ Advance /\ RecordInv' /\ Only(r)
           /\ req'[r].pc = req[r].next
           /\ \A f \in Fields \ {"pc"} : req'[r][f] = req[r][f]
           /\ rows'[req[r].id] = req[r].saved
           /\ rows[req[r].id] = Absent
           /\ req[r].id \in Ids
           /\ \A id \in Ids : id # req[r].id => rows'[id] = rows[id] /\ writes'[id] = writes[id]
           /\ IsStale(r) => stale'
           /\ ~IsStale(r) => UNCHANGED stale
           /\ \/ /\ req[r].kind = "register" /\ req[r].id = User /\ req[r].next = "done"
                 /\ req[r].named \in [{"password"} -> Passwords]
                 /\ rows'[User] = NewUser(req[r].named["password"])
              \/ /\ req[r].kind = "update" /\ req[r].id \in Owned /\ req[r].id # User
                 /\ IsStale(r)
<1>1. req[r].pc = "write" /\ req[r].inserts /\ rows[req[r].id] = Absent /\ Store(r, req[r].saved)
  BY DEF InsertRow
<1>2. /\ req[r].saved \in Rows(req[r].id) /\ req[r].id \in Ids
      /\ req[r].kind \in Updating \cup {"register"}
      /\ req[r].kind \in {"settings", "link"} => req[r].id = User /\ Exists
      /\ req[r].kind = "register" =>
            /\ req[r].id = User /\ req[r].next = "done"
            /\ req[r].named \in [{"password"} -> Passwords]
            /\ req[r].saved = NewUser(req[r].named["password"])
      /\ req[r].kind = "update" => req[r].id \in Owned /\ req[r].id # User
  BY <1>1, WritesAreRows
<1>3. req[r].kind \in {"register", "update"}
  BY <1>1, <1>2 DEF Exists, Updating
<1>4. /\ Advance /\ RecordInv' /\ Only(r)
      /\ req'[r].pc = req[r].next
      /\ \A f \in Fields \ {"pc"} : req'[r][f] = req[r][f]
      /\ rows'[req[r].id] = req[r].saved
      /\ \A id \in Ids : id # req[r].id => rows'[id] = rows[id] /\ writes'[id] = writes[id]
      /\ IsStale(r) => stale'
      /\ ~IsStale(r) => UNCHANGED stale
  BY <1>1, <1>2, StoresWell
<1>5. req[r].kind = "update" => IsStale(r)
  <2>1. SavesOK(req[r], rows[req[r].id], writes[req[r].id])
    BY DEF RecordInv
  <2>2. req[r].kind = "update" => req[r].inserts = TRUE
    BY <1>1, <2>1 DEF SavesOK, Updating
  <2>3. QED
    BY <1>1, <2>1, <2>2 DEF SavesOK, Updating, IsStale
<1>6. QED
  BY <1>1, <1>2, <1>3, <1>4, <1>5

(* A request ends or goes on without a change of the table.                *)
LEMMA ClashesWell ==
    ASSUME RecordInv, NEW r \in Requests, UpdateNone(r) \/ InsertClash(r)
    PROVE  /\ Advance /\ RecordInv' /\ Only(r)
           /\ UNCHANGED <<rows, writes, stale>>
           /\ req[r].pc = "write"
           /\ req[r].kind \in {"register", "update"}
           /\ \/ UpdateNone(r) /\ req[r].kind = "update" /\ req'[r].pc = "done" /\ rows[req[r].id] = Absent
              \/ InsertClash(r) /\ req'[r].pc = "failed"
           /\ \A f \in Fields \ {"pc"} : req'[r][f] = req[r][f]
<1>1. req[r].pc = "write" /\ UNCHANGED <<rows, writes, stale>>
  BY DEF UpdateNone, InsertClash
<1>2. /\ req[r].kind \in Updating \cup {"register"}
      /\ req[r].kind \in {"settings", "link"} =>
            req[r].id = User /\ Exists /\ req[r].inserts = FALSE
      /\ req[r].kind = "register" => req[r].inserts = TRUE
  BY <1>1, WritesAreRows
<1>3. KindOK(req[r])
  BY DEF RecordInv, ReqOK
<1>4. CASE UpdateNone(r)
  <2>1. req[r].kind = "update" /\ rows[req[r].id] = Absent
    BY <1>2, <1>4 DEF UpdateNone, Exists, Updating
  <2>2. req[r].next = "done"
    BY <1>3, <2>1 DEF KindOK
  <2>3. req' = [req EXCEPT ![r] = [req[r] EXCEPT !.pc = "done"]]
    BY <1>4, <2>2 DEF UpdateNone, Go
  <2>4. /\ Advance /\ RecordInv' /\ Only(r) /\ req'[r].pc = "done"
        /\ \A f \in Fields \ {"pc"} : req'[r][f] = req[r][f]
    BY <1>1, <2>1, <2>3, MovesWell
  <2>5. QED
    BY <1>1, <1>4, <2>1, <2>4
<1>5. CASE InsertClash(r)
  <2>1. req[r].kind \in {"register", "update"}
    BY <1>2, <1>5 DEF InsertClash, Updating
  <2>2. req' = [req EXCEPT ![r] = [req[r] EXCEPT !.pc = "failed"]]
    BY <1>5 DEF InsertClash, Go
  <2>3. /\ Advance /\ RecordInv' /\ Only(r) /\ req'[r].pc = "failed"
        /\ \A f \in Fields \ {"pc"} : req'[r][f] = req[r][f]
    BY <1>1, <1>2, <2>2, MovesWell
  <2>4. QED
    BY <1>1, <1>5, <2>1, <2>3
<1>6. QED
  BY <1>4, <1>5

(* Requests that are over at once.                                         *)
LEMMA AnswersWell ==
    ASSUME RecordInv, NEW r \in Requests, Advance, UNCHANGED stale, NEW q,
           req' = [req EXCEPT ![r] = q],
           DOMAIN q = Fields, q.pc \in {"done", "refused"}, q.kind \in {"login", "create", "remove"}
    PROVE  RecordInv' /\ Only(r) /\ req'[r] = q
<1>1. KindOK(q)
  BY DEF KindOK
<1>2. ReqOK(q)
  BY <1>1 DEF ReqOK, Updating
<1>3. SavesOK(q, rows'[q.id], writes'[q.id])
  BY DEF SavesOK, Updating
<1>4. stale' \in BOOLEAN
  BY DEF RecordInv
<1>5. RecordInv'
  BY <1>2, <1>3, <1>4, StepKeepsInv
<1>6. QED
  BY <1>5 DEF Only, RecordInv

LEMMA LogsInWell ==
    ASSUME RecordInv, NEW r \in Requests, NEW p, Login(r, p)
    PROVE  /\ Advance /\ RecordInv' /\ Only(r)
           /\ UNCHANGED <<rows, writes, stale>>
           /\ req'[r].kind = "login" /\ req[r].pc = "new" /\ req'[r].pc \in {"done", "refused"}
<1>1. UNCHANGED <<rows, writes, stale>> /\ req[r].pc = "new"
  BY DEF Login
<1>2. PICK q : /\ q = [New EXCEPT !.pc = IF Accepts(p) THEN "done" ELSE "refused",
                                  !.kind = "login"]
               /\ req' = [req EXCEPT ![r] = q]
  BY DEF Login, Go
<1>3. DOMAIN q = Fields /\ q.pc \in {"done", "refused"} /\ q.kind = "login"
  BY <1>2 DEF New, Fields
<1>4. Advance
  BY <1>1, StillAdvances
<1>5. RecordInv' /\ Only(r) /\ req'[r] = q
  BY <1>1, <1>2, <1>3, <1>4, AnswersWell
<1>6. QED
  BY <1>1, <1>3, <1>4, <1>5

LEMMA CreatesWell ==
    ASSUME RecordInv, NEW r \in Requests, NEW id \in Owned, NEW row, Create(r, id, row),
           row \in [FieldsOf[id] -> UNION {ValuesOf[f] : f \in FieldsOf[id]}]
    PROVE  /\ Advance /\ RecordInv' /\ Only(r)
           /\ UNCHANGED stale
           /\ rows[id] = Absent /\ writes[id] = 0
           /\ \A i \in Ids : i # id => rows'[i] = rows[i] /\ writes'[i] = writes[i]
           /\ req'[r].kind = "create" /\ req[r].pc = "new" /\ req'[r].pc = "done"
<1>1. id \in Ids /\ id # User
  BY UserAssumption
<1>2. /\ rows' = [rows EXCEPT ![id] = row] /\ writes' = [writes EXCEPT ![id] = 1]
      /\ rows[id] = Absent /\ writes[id] = 0 /\ UNCHANGED stale /\ req[r].pc = "new"
  BY DEF Create
<1>3. /\ rows'[id] = row /\ writes'[id] = 1
      /\ \A i \in Ids : i # id => rows'[i] = rows[i] /\ writes'[i] = writes[i]
      /\ rows' = [i \in Ids |-> rows'[i]] /\ writes' \in [Ids -> Nat]
  BY <1>1, <1>2 DEF RecordInv
<1>4. row \in Rows(id)
  BY DEF Create, IsRow, Rows
<1>5. Advance
  BY <1>1, <1>2, <1>3, <1>4, UserAssumption DEF Advance, RecordInv, Exists
<1>6. PICK q : /\ q = [New EXCEPT !.pc = "done", !.kind = "create", !.id = id]
               /\ req' = [req EXCEPT ![r] = q]
  BY DEF Create, Go
<1>7. DOMAIN q = Fields /\ q.pc = "done" /\ q.kind = "create"
  BY <1>6 DEF New, Fields
<1>8. RecordInv' /\ Only(r) /\ req'[r] = q
  BY <1>2, <1>5, <1>6, <1>7, AnswersWell
<1>9. QED
  BY <1>2, <1>3, <1>5, <1>7, <1>8

LEMMA RemovesWell ==
    ASSUME RecordInv, NEW r \in Requests, NEW id \in Owned, Remove(r, id)
    PROVE  /\ Advance /\ RecordInv' /\ Only(r)
           /\ UNCHANGED stale
           /\ \A i \in Ids : i # id => rows'[i] = rows[i] /\ writes'[i] = writes[i]
           /\ rows'[id] = Absent
           /\ req'[r].kind = "remove" /\ req[r].pc = "new" /\ req'[r].pc \in {"done", "refused"}
<1>1. id \in Ids /\ id # User
  BY UserAssumption
<1>2. UNCHANGED stale /\ req[r].pc = "new"
  BY DEF Remove
<1>3. /\ rows'[id] = Absent
      /\ \A i \in Ids : i # id => rows'[i] = rows[i] /\ writes'[i] = writes[i]
      /\ rows' = [i \in Ids |-> rows'[i]] /\ writes' \in [Ids -> Nat]
      /\ \/ rows'[id] = rows[id] /\ writes'[id] = writes[id]
         \/ writes'[id] = writes[id] + 1
  <2>1. CASE rows[id] = Absent
    BY <1>1, <2>1 DEF Remove, RecordInv
  <2>2. CASE rows[id] # Absent
    <3>1. /\ rows' = [rows EXCEPT ![id] = Absent]
          /\ writes' = [writes EXCEPT ![id] = writes[id] + 1]
      BY <2>2 DEF Remove
    <3>2. QED
      BY <1>1, <3>1 DEF RecordInv
  <2>3. QED
    BY <2>1, <2>2
<1>4. Advance
  BY <1>1, <1>3, UserAssumption DEF Advance, RecordInv, Exists
<1>5. PICK q : /\ q = [New EXCEPT !.pc = IF rows[id] = Absent THEN "refused" ELSE "done",
                                  !.kind = "remove", !.id = id]
               /\ req' = [req EXCEPT ![r] = q]
  BY DEF Remove, Go
<1>6. DOMAIN q = Fields /\ q.pc \in {"done", "refused"} /\ q.kind = "remove"
  BY <1>5 DEF New, Fields
<1>7. RecordInv' /\ Only(r) /\ req'[r] = q
  BY <1>2, <1>4, <1>5, <1>6, AnswersWell
<1>8. QED
  BY <1>2, <1>3, <1>4, <1>6, <1>7

LEMMA LooksUpWell ==
    ASSUME RecordInv, NEW r \in Requests, FindEmail(r)
    PROVE  /\ Advance /\ RecordInv' /\ Only(r)
           /\ UNCHANGED <<rows, writes, stale>>
           /\ req[r].kind = "register" /\ req'[r].kind = "register"
           /\ req[r].pc = "email" /\ req'[r].pc \in {"refused", "write"}
<1>1. UNCHANGED <<rows, writes, stale>> /\ req[r].pc = "email"
  BY DEF FindEmail
<1>2. DOMAIN req[r] = Fields /\ KindOK(req[r])
  BY DEF RecordInv, ReqOK
<1>3. /\ req[r].kind = "register" /\ req[r].id = User /\ req[r].next = "done"
      /\ req[r].named \in [{"password"} -> Passwords]
  BY <1>1, <1>2 DEF KindOK
<1>4. Advance
  BY <1>1, StillAdvances
<1>5. CASE Exists
  <2>1. req' = [req EXCEPT ![r] = [req[r] EXCEPT !.pc = "refused"]]
    BY <1>5 DEF FindEmail, Go
  <2>2. /\ RecordInv' /\ Only(r) /\ req'[r].pc = "refused"
        /\ \A f \in Fields \ {"pc"} : req'[r][f] = req[r][f]
    BY <1>1, <1>3, <2>1, MovesWell
  <2>3. QED
    BY <1>1, <1>3, <1>4, <2>2 DEF Fields
<1>6. CASE ~Exists
  <2>1. PICK q : /\ q = [req[r] EXCEPT !.pc = "write", !.inserts = TRUE,
                                       !.seen = writes[User],
                                       !.saved = NewUser(req[r].named["password"])]
                 /\ req' = [req EXCEPT ![r] = q]
    BY <1>6 DEF FindEmail, Go
  <2>2. /\ DOMAIN q = Fields /\ q.pc = "write" /\ q.kind = req[r].kind /\ q.id = req[r].id
        /\ q.named = req[r].named /\ q.next = req[r].next /\ q.inserts = TRUE
        /\ q.seen = writes[User] /\ q.saved = NewUser(req[r].named["password"])
    BY <2>1, <1>2 DEF Fields
  <2>3. KindOK(q)
    BY <1>3, <2>2 DEF KindOK
  <2>4. ReqOK(q)
    BY <1>3, <2>2, <2>3 DEF ReqOK, Updating
  <2>5. writes[User] \in Nat
    BY UserAssumption DEF RecordInv
  <2>6. SavesOK(q, rows'[q.id], writes'[q.id])
    BY <1>1, <1>3, <2>2, <2>5 DEF SavesOK, Updating
  <2>7. RecordInv'
    BY <1>1, <1>3, <1>4, <2>1, <2>2, <2>4, <2>6, StepKeepsInv DEF RecordInv
  <2>8. Only(r) /\ req'[r] = q
    BY <2>1 DEF Only, RecordInv
  <2>9. QED
    BY <1>1, <1>3, <1>4, <2>2, <2>7, <2>8
<1>7. QED
  BY <1>5, <1>6

LEMMA ReadsOn ==
    ASSUME RecordInv, NEW r \in Requests,
           ReadDetails(r) \/ CreateLinkToken(r) \/ CreatePending(r)
    PROVE  /\ Advance /\ RecordInv' /\ Only(r)
           /\ UNCHANGED <<rows, writes, stale>>
           /\ req[r].kind = "link"
           /\ \A f \in Fields \ {"pc"} : req'[r][f] = req[r][f]
           /\ \/ req[r].pc = "details" /\ req'[r].pc = "userToken"
              \/ req[r].pc = "details" /\ req'[r].pc = "linkToken"
              \/ req[r].pc = "linkToken" /\ req'[r].pc = "find"
              \/ /\ req[r].pc = "linkToken" /\ req'[r].pc = "pending"
                 /\ "token" \notin DOMAIN req[r].named
              \/ req[r].pc = "pending" /\ req'[r].pc = "done"
<1>1. UNCHANGED <<rows, writes, stale>>
  BY DEF ReadDetails, CreateLinkToken, CreatePending
<1>2. KindOK(req[r])
  BY DEF RecordInv, ReqOK
<1>3. req[r].kind = "link"
  BY <1>2 DEF KindOK, ReadDetails, CreateLinkToken, CreatePending
<1>4. PICK pc :
        /\ req' = [req EXCEPT ![r] = [req[r] EXCEPT !.pc = pc]]
        /\ \/ req[r].pc = "details" /\ pc = "userToken"
           \/ req[r].pc = "details" /\ pc = "linkToken"
           \/ req[r].pc = "linkToken" /\ pc = "find" /\ "token" \in DOMAIN req[r].named
           \/ req[r].pc = "linkToken" /\ pc = "pending" /\ "token" \notin DOMAIN req[r].named
           \/ req[r].pc = "pending" /\ pc = "done"
  <2>1. CASE ReadDetails(r)
    BY <2>1 DEF ReadDetails, Go
  <2>2. CASE CreateLinkToken(r)
    BY <2>2 DEF CreateLinkToken, Go
  <2>3. CASE CreatePending(r)
    BY <2>3 DEF CreatePending, Go
  <2>4. QED
    BY <2>1, <2>2, <2>3
<1>5. /\ Advance /\ RecordInv' /\ Only(r) /\ req'[r].pc = pc
      /\ \A f \in Fields \ {"pc"} : req'[r][f] = req[r][f]
  BY <1>1, <1>3, <1>4, MovesWell
<1>6. QED
  BY <1>1, <1>3, <1>4, <1>5

LEMMA FailsWell ==
    ASSUME RecordInv, NEW r \in Requests, Running(r),
           req' = [req EXCEPT ![r] = [req[r] EXCEPT !.pc = "failed"]],
           UNCHANGED <<rows, writes, stale>>
    PROVE  /\ Advance /\ RecordInv' /\ Only(r) /\ req'[r].pc = "failed"
           /\ \A f \in Fields \ {"pc"} : req'[r][f] = req[r][f]
<1>1. KindOK(req[r])
  BY DEF RecordInv, ReqOK
<1>2. req[r].pc # "new" /\ req[r].kind \in Updating \cup {"register"}
  BY <1>1 DEF KindOK, Running, Over, Updating
<1>3. QED
  BY <1>2, MovesWell

LEMMA TokenWell ==
    ASSUME RecordInv, NEW r \in Requests, CreateUserToken(r)
    PROVE  /\ Advance /\ RecordInv' /\ Only(r)
           /\ UNCHANGED <<rows, writes, stale, announced, faults>>
           /\ req[r].kind = "link" /\ req[r].pc = "userToken" /\ req'[r].kind = "link"
           /\ \/ plaid /\ req'[r].pc = "failed"
              \/ ~plaid /\ req'[r].pc = "linkToken" /\ "token" \in DOMAIN req'[r].named
           /\ plaid'
<1>1. /\ UNCHANGED <<rows, writes, stale, announced, faults>> /\ req[r].pc = "userToken"
      /\ plaid' = TRUE
  BY DEF CreateUserToken
<1>2. DOMAIN req[r] = Fields /\ KindOK(req[r])
  BY DEF RecordInv, ReqOK
<1>3. /\ req[r].kind = "link" /\ req[r].id = User /\ req[r].next = "pending"
      /\ req[r].inserts = FALSE /\ rows[User] # Absent
  <2>1. /\ req[r].kind = "link" /\ req[r].id = User /\ req[r].next = "pending"
    BY <1>1, <1>2 DEF KindOK
  <2>2. QED
    BY <2>1 DEF RecordInv, ReqOK, Exists
<1>4. Running(r)
  BY <1>1 DEF Running, Over
<1>5. CASE plaid
  <2>1. req' = [req EXCEPT ![r] = [req[r] EXCEPT !.pc = "failed"]]
    BY <1>5 DEF CreateUserToken, Go
  <2>2. /\ Advance /\ RecordInv' /\ Only(r) /\ req'[r].pc = "failed"
        /\ \A f \in Fields \ {"pc"} : req'[r][f] = req[r][f]
    BY <1>1, <1>4, <2>1, FailsWell
  <2>3. req'[r].kind = "link"
    BY <1>3, <2>2 DEF Fields
  <2>4. QED
    BY <1>1, <1>3, <1>5, <2>2, <2>3
<1>6. CASE ~plaid
  <2>1. PICK q : /\ q = [req[r] EXCEPT !.pc = "linkToken", !.named = [x \in {"token"} |-> Token]]
                 /\ req' = [req EXCEPT ![r] = q]
    BY <1>6 DEF CreateUserToken, WithToken, Go
  <2>2. /\ DOMAIN q = Fields /\ q.pc = "linkToken" /\ q.kind = "link" /\ q.id = User
        /\ q.named = [x \in {"token"} |-> Token] /\ q.next = "pending" /\ q.inserts = FALSE
    BY <2>1, <1>2, <1>3 DEF Fields
  <2>3. DOMAIN q.named = {"token"} /\ q.named["token"] = Token
    BY <2>2
  <2>4. KindOK(q)
    BY <2>2, <2>3 DEF KindOK
  <2>5. NamedOK(q)
    BY <2>2, <2>3, UserAssumption DEF NamedOK
  <2>6. ReqOK(q)
    BY <2>2, <2>4, <2>5 DEF ReqOK
  <2>7. SavesOK(q, rows'[q.id], writes'[q.id])
    BY <2>2 DEF SavesOK
  <2>8. Advance
    BY <1>1, StillAdvances
  <2>9. RecordInv'
    BY <1>1, <1>3, <2>1, <2>6, <2>7, <2>8, StepKeepsInv DEF RecordInv
  <2>10. Only(r) /\ req'[r] = q
    BY <2>1 DEF Only, RecordInv
  <2>11. QED
    BY <1>1, <1>3, <1>6, <2>2, <2>3, <2>8, <2>9, <2>10
<1>7. QED
  BY <1>1, <1>5, <1>6 DEF CreateUserToken

LEMMA EmitsWell ==
    ASSUME RecordInv, NEW r \in Requests, Emit(r)
    PROVE  /\ Advance /\ RecordInv' /\ Only(r)
           /\ UNCHANGED <<rows, writes, stale, plaid, faults>>
           /\ req[r].kind = "settings" /\ req[r].pc = "emit" /\ req'[r].pc = "done"
           /\ \A f \in Fields \ {"pc"} : req'[r][f] = req[r][f]
<1>1. /\ UNCHANGED <<rows, writes, stale, plaid, faults>> /\ req[r].pc = "emit"
      /\ req' = [req EXCEPT ![r] = [req[r] EXCEPT !.pc = "done"]]
  BY DEF Emit, Go
<1>2. KindOK(req[r])
  BY DEF RecordInv, ReqOK
<1>3. req[r].kind = "settings"
  BY <1>1, <1>2 DEF KindOK
<1>4. QED
  BY <1>1, <1>3, MovesWell

LEMMA CrashesWell ==
    ASSUME RecordInv, Crash
    PROVE  /\ Advance /\ RecordInv'
           /\ UNCHANGED <<rows, writes, stale, plaid, announced>>
           /\ \A r \in Requests :
                 /\ \A f \in Fields \ {"pc"} : req'[r][f] = req[r][f]
                 /\ req'[r].pc = IF Running(r) THEN "failed" ELSE req[r].pc
<1>1. /\ UNCHANGED <<rows, writes, stale, plaid, announced>>
      /\ req' = [r \in Requests |->
                   IF Running(r) THEN [req[r] EXCEPT !.pc = "failed"] ELSE req[r]]
  BY DEF Crash
<1>2. Advance
  BY <1>1, StillAdvances
<1>3. ASSUME NEW r \in Requests
      PROVE  /\ \A f \in Fields \ {"pc"} : req'[r][f] = req[r][f]
             /\ req'[r].pc = IF Running(r) THEN "failed" ELSE req[r].pc
             /\ ReqOK(req'[r])
             /\ SavesOK(req'[r], rows[req'[r].id], writes[req'[r].id])
  <2>1. ReqOK(req[r]) /\ SavesOK(req[r], rows[req[r].id], writes[req[r].id])
    BY DEF RecordInv
  <2>2. CASE ~Running(r)
    BY <1>1, <2>1, <2>2
  <2>3. CASE Running(r)
    <3>1. PICK q : q = [req[r] EXCEPT !.pc = "failed"] /\ req'[r] = q
      BY <1>1, <2>3
    <3>2. DOMAIN q = Fields /\ q.pc = "failed" /\ \A f \in Fields \ {"pc"} : q[f] = req[r][f]
      BY <2>1, <3>1 DEF ReqOK, Fields
    <3>3. /\ q.kind = req[r].kind /\ q.id = req[r].id /\ q.named = req[r].named
          /\ q.next = req[r].next /\ q.inserts = req[r].inserts
          /\ q.found = req[r].found /\ q.saved = req[r].saved
      BY <3>2 DEF Fields
    <3>4. KindOK(q)
      BY <2>1, <2>3, <3>2, <3>3 DEF KindOK, ReqOK, Running, Over
    <3>5. NamedOK(req[r]) => NamedOK(q)
      BY <3>3 DEF NamedOK
    <3>6. ReqOK(q)
      BY <2>1, <3>2, <3>3, <3>4, <3>5 DEF ReqOK
    <3>7. SavesOK(q, rows[q.id], writes[q.id])
      BY <3>2 DEF SavesOK
    <3>8. QED
      BY <2>3, <3>1, <3>2, <3>6, <3>7
  <2>4. QED
    BY <2>2, <2>3
<1>4. req' = [r \in Requests |-> req'[r]]
  BY <1>1
<1>5. \A r \in Requests : req'[r].kind = req[r].kind
  BY <1>3 DEF Fields
<1>6. RecordInv'
  <2>1. \A r \in Requests : ReqOK(req'[r]) /\ SavesOK(req'[r], rows'[req'[r].id], writes'[req'[r].id])
    BY <1>1, <1>3
  <2>2. \A r \in Requests : req'[r].kind \in {"settings", "link"} => rows'[User] # Absent
    BY <1>1, <1>5 DEF RecordInv, Exists
  <2>3. /\ rows' = [id \in Ids |-> rows'[id]] /\ writes' \in [Ids -> Nat] /\ stale' \in BOOLEAN
        /\ \A id \in Ids : rows'[id] = Absent \/ rows'[id] \in Rows(id)
    BY <1>1 DEF RecordInv
  <2>4. QED
    BY <1>4, <2>1, <2>2, <2>3 DEF RecordInv, Exists, ReqOK, SavesOK, KindOK, NamedOK
<1>7. QED
  BY <1>1, <1>2, <1>3, <1>6

-----------------------------------------------------------------------------
(* The steps.                                                              *)

PlainOK ==
    /\ plaid \in BOOLEAN
    /\ faults \in 0..MaxFaults
    /\ DOMAIN form = Settings
    /\ \A s \in Settings : form[s] \in ValuesOf[s]

RowInv == RecordInv /\ PlainOK

Starts(r) ==
    /\ Only(r)
    /\ req[r].pc = "new"
    /\ rows'[User] = rows[User] /\ writes'[User] = writes[User]
    /\ Same /\ UNCHANGED stale
    /\ req'[r].kind = "register" => req'[r].pc = "email"
    /\ req'[r].kind = "settings" => req'[r].pc = "find"
    /\ req'[r].kind = "link" => req'[r].pc = "details"
    /\ \A id \in Ids :
          /\ rows[id] # Absent /\ rows'[id] = Absent => req'[r].kind = "remove"
          /\ rows[id] = Absent /\ rows'[id] # Absent => writes[id] = 0

Breaks(r) ==
    /\ Running(r)
    /\ Only(r)
    /\ req'[r].pc = "failed" /\ \A f \in Fields \ {"pc"} : req'[r][f] = req[r][f]
    /\ faults' # 0
    /\ UNCHANGED <<rows, writes, stale, announced>>

(* What a step is                                                          *)
Kinds ==
    \/ UNCHANGED vars
    \/ Crash /\ faults' # 0
    \/ \E r \in Requests :
          \/ Starts(r)
          \/ Breaks(r)
          \/ Same /\ \/ FindEmail(r) \/ Find(r) \/ Reread(r) \/ UpdateRow(r) \/ InsertRow(r)
                     \/ UpdateNone(r) \/ InsertClash(r)
                     \/ ReadDetails(r) \/ CreateLinkToken(r) \/ CreatePending(r)
          \/ CreateUserToken(r)
          \/ Emit(r)

LEMMA StartsWell ==
    ASSUME RowInv, NEW r \in Requests, Same,
           \/ \E p \in Passwords : BeginRegister(r, p) \/ Login(r, p)
           \/ \E u \in UpdatesOf[User] : BeginSettings(r, u)
           \/ BeginSettings(r, form)
           \/ BeginLink(r)
           \/ OwnedStep(r)
    PROVE  Advance /\ RecordInv' /\ Starts(r)
<1>1. User \in Ids /\ Owned \subseteq Ids \ {User}
  BY UserAssumption
<1>2. ASSUME UNCHANGED <<rows, writes, stale>>
      PROVE  /\ rows'[User] = rows[User] /\ writes'[User] = writes[User] /\ UNCHANGED stale
             /\ \A id \in Ids :
                   /\ rows[id] # Absent /\ rows'[id] = Absent => req'[r].kind = "remove"
                   /\ rows[id] = Absent /\ rows'[id] # Absent => writes[id] = 0
  BY <1>2
<1>3. CASE \E p \in Passwords : BeginRegister(r, p)
  <2>1. PICK p \in Passwords : BeginRegister(r, p)
    BY <1>3
  <2>2. [x \in {"password"} |-> p] \in [{"password"} -> Passwords]
    OBVIOUS
  <2>3. Begin(r, "register", User, [x \in {"password"} |-> p], "email", "done")
    BY <2>1 DEF BeginRegister
  <2>4. /\ Advance /\ RecordInv' /\ Only(r)
        /\ req'[r].kind = "register" /\ req'[r].pc = "email"
    BY <2>2, <2>3, BeginsWell DEF RowInv
  <2>5. req[r].pc = "new" /\ UNCHANGED <<rows, writes, stale>>
    BY <2>3 DEF Begin
  <2>6. QED
    BY <1>2, <2>4, <2>5 DEF Starts
<1>4. CASE \E p \in Passwords : Login(r, p)
  <2>1. PICK p \in Passwords : Login(r, p)
    BY <1>4
  <2>2. /\ Advance /\ RecordInv' /\ Only(r)
        /\ UNCHANGED <<rows, writes, stale>>
        /\ req'[r].kind = "login" /\ req[r].pc = "new"
    BY <2>1, LogsInWell DEF RowInv
  <2>3. QED
    BY <1>2, <2>2 DEF Starts
<1>5. ASSUME NEW u, BeginSettings(r, u), DOMAIN u \subseteq Settings,
             \A f \in DOMAIN u : u[f] \in ValuesOf[f]
      PROVE  Advance /\ RecordInv' /\ Starts(r)
  <2>1. Exists /\ Begin(r, "settings", User, u, "find", "emit")
    BY <1>5 DEF BeginSettings
  <2>2. \A f \in DOMAIN u : f \in FieldsOf[User] /\ u[f] \in ValuesOf[f]
    BY <1>5, UserAssumption
  <2>3. /\ Advance /\ RecordInv' /\ Only(r)
        /\ req'[r].kind = "settings" /\ req'[r].pc = "find"
    BY <1>5, <2>1, <2>2, BeginsWell DEF RowInv
  <2>4. req[r].pc = "new" /\ UNCHANGED <<rows, writes, stale>>
    BY <2>1 DEF Begin
  <2>5. QED
    BY <1>2, <2>3, <2>4 DEF Starts
<1>6. CASE \E u \in UpdatesOf[User] : BeginSettings(r, u)
  <2>1. PICK u \in UpdatesOf[User] : BeginSettings(r, u)
    BY <1>6
  <2>2. DOMAIN u \subseteq Settings /\ \A f \in DOMAIN u : u[f] \in ValuesOf[f]
    BY <1>1, UserAssumption, RecordAssumption
  <2>3. QED
    BY <1>5, <2>1, <2>2
<1>7. CASE BeginSettings(r, form)
  BY <1>5, <1>7 DEF RowInv, PlainOK
<1>8. CASE BeginLink(r)
  <2>1. Exists /\ Begin(r, "link", User, <<>>, "details", "pending")
    BY <1>8 DEF BeginLink
  <2>2. /\ Advance /\ RecordInv' /\ Only(r)
        /\ req'[r].kind = "link" /\ req'[r].pc = "details"
    BY <2>1, BeginsWell DEF RowInv
  <2>3. req[r].pc = "new" /\ UNCHANGED <<rows, writes, stale>>
    BY <2>1 DEF Begin
  <2>4. QED
    BY <1>2, <2>2, <2>3 DEF Starts
<1>9. CASE OwnedStep(r)
  <2>1. PICK id \in Owned :
           \/ \E u \in UpdatesOf[id] : BeginUpdate(r, id, u)
           \/ \E row \in [FieldsOf[id] -> UNION {ValuesOf[f] : f \in FieldsOf[id]}] :
                 Create(r, id, row)
           \/ Remove(r, id)
    BY <1>9 DEF OwnedStep
  <2>2. CASE \E u \in UpdatesOf[id] : BeginUpdate(r, id, u)
    <3>1. PICK u \in UpdatesOf[id] : Begin(r, "update", id, u, "find", "done")
      BY <2>2 DEF BeginUpdate
    <3>2. \A f \in DOMAIN u : f \in FieldsOf[id] /\ u[f] \in ValuesOf[f]
      BY <1>1, RecordAssumption
    <3>3. /\ Advance /\ RecordInv' /\ Only(r)
          /\ req'[r].kind = "update" /\ req'[r].pc = "find"
      BY <3>1, <3>2, BeginsWell DEF RowInv
    <3>4. req[r].pc = "new" /\ UNCHANGED <<rows, writes, stale>>
      BY <3>1 DEF Begin
    <3>5. QED
      BY <1>2, <3>3, <3>4 DEF Starts
  <2>3. CASE \E row \in [FieldsOf[id] -> UNION {ValuesOf[f] : f \in FieldsOf[id]}] :
                 Create(r, id, row)
    <3>1. PICK row \in [FieldsOf[id] -> UNION {ValuesOf[f] : f \in FieldsOf[id]}] :
                 Create(r, id, row)
      BY <2>3
    <3>2. /\ Advance /\ RecordInv' /\ Only(r)
          /\ UNCHANGED stale
          /\ rows[id] = Absent /\ writes[id] = 0
          /\ \A i \in Ids : i # id => rows'[i] = rows[i] /\ writes'[i] = writes[i]
          /\ req'[r].kind = "create" /\ req[r].pc = "new"
      BY <3>1, CreatesWell DEF RowInv
    <3>3. QED
      BY <1>1, <3>2 DEF Starts
  <2>4. CASE Remove(r, id)
    <3>1. /\ Advance /\ RecordInv' /\ Only(r)
          /\ UNCHANGED stale
          /\ \A i \in Ids : i # id => rows'[i] = rows[i] /\ writes'[i] = writes[i]
          /\ rows'[id] = Absent
          /\ req'[r].kind = "remove" /\ req[r].pc = "new"
      BY <2>4, RemovesWell DEF RowInv
    <3>2. QED
      BY <1>1, <3>1 DEF Starts
  <2>5. QED
    BY <2>1, <2>2, <2>3, <2>4
<1>10. QED
  BY <1>3, <1>4, <1>6, <1>7, <1>8, <1>9

LEMMA FormKept ==
    ASSUME RowInv, [PageNext]_allVars
    PROVE  DOMAIN form' = Settings /\ \A s \in Settings : form'[s] \in ValuesOf[s]
<1> USE DEF RowInv, PlainOK
<1>1. CASE ReadMe
  <2>1. rows[User] \in Rows(User)
    BY <1>1, UserAssumption DEF ReadMe, Exists, RecordInv
  <2>2. /\ DOMAIN SettingsOf(rows[User]) = Settings
        /\ \A s \in Settings : SettingsOf(rows[User])[s] \in ValuesOf[s]
    BY <2>1, UserAssumption DEF Rows, SettingsOf
  <2>3. form' = form \/ form' = SettingsOf(rows[User])
    BY <1>1 DEF ReadMe, Fill
  <2>4. QED
    BY <2>2, <2>3
<1>2. CASE \E s \in Settings : \E v \in ValuesOf[s] : Edit(s, v)
  <2>1. PICK s \in Settings : \E v \in ValuesOf[s] : form' = [form EXCEPT ![s] = v]
    BY <1>2 DEF Edit
  <2>2. QED
    BY <2>1
<1>3. CASE form' = form
  BY <1>3
<1>4. QED
  BY <1>1, <1>2, <1>3 DEF PageNext, pageVars, allVars, Save, Saves

LEMMA Steps ==
    ASSUME RowInv, [PageNext]_allVars
    PROVE  RowInv' /\ Advance /\ Kinds
<1>1. DOMAIN form' = Settings /\ \A s \in Settings : form'[s] \in ValuesOf[s]
  BY FormKept
<1>2. plaid \in BOOLEAN /\ faults \in 0..MaxFaults /\ MaxFaults \in Nat /\ RecordInv
  BY UserAssumption DEF RowInv, PlainOK
<1>3. ASSUME NEW r \in Requests, Fault, Running(r),
             req' = [req EXCEPT ![r] = [req[r] EXCEPT !.pc = "failed"]],
             UNCHANGED <<rows, writes, stale, announced>>
      PROVE  /\ RecordInv' /\ Advance /\ Breaks(r)
             /\ faults' \in 0..MaxFaults
  <2>1. faults' # 0 /\ faults' \in 0..MaxFaults
    BY <1>2, <1>3 DEF Fault
  <2>2. /\ Advance /\ RecordInv' /\ Only(r) /\ req'[r].pc = "failed"
        /\ \A f \in Fields \ {"pc"} : req'[r][f] = req[r][f]
    BY <1>2, <1>3, FailsWell
  <2>3. QED
    BY <1>3, <2>1, <2>2 DEF Breaks
<1>4. CASE UNCHANGED vars
  <2>1. UNCHANGED <<rows, writes, stale, plaid, faults>> /\ req' = req
    BY <1>4 DEF vars, recordVars
  <2>2. Advance
    BY <1>2, <2>1, StillAdvances
  <2>3. RecordInv'
    BY <1>2, <2>1 DEF RecordInv, Exists, ReqOK, SavesOK, KindOK, NamedOK
  <2>4. QED
    BY <1>1, <1>2, <1>4, <2>1, <2>2, <2>3 DEF RowInv, PlainOK, Kinds
<1>5. CASE Crash
  <2>1. faults' # 0 /\ faults' \in 0..MaxFaults /\ UNCHANGED plaid
    BY <1>2, <1>5 DEF Crash, Fault
  <2>2. Advance /\ RecordInv'
    BY <1>2, <1>5, CrashesWell
  <2>3. QED
    BY <1>1, <1>2, <1>5, <2>1, <2>2 DEF RowInv, PlainOK, Kinds
<1>6. ASSUME NEW r \in Requests, Same,
             \/ \E p \in Passwords : BeginRegister(r, p) \/ Login(r, p)
             \/ \E u \in UpdatesOf[User] : BeginSettings(r, u)
             \/ BeginSettings(r, form)
             \/ BeginLink(r)
             \/ OwnedStep(r)
      PROVE  RowInv' /\ Advance /\ Kinds
  <2>1. Advance /\ RecordInv' /\ Starts(r)
    BY <1>6, StartsWell
  <2>2. plaid' = plaid /\ faults' = faults
    BY <1>6 DEF Same
  <2>3. QED
    BY <1>1, <1>2, <2>1, <2>2 DEF RowInv, PlainOK, Kinds
<1>7. ASSUME NEW r \in Requests, Same,
             \/ FindEmail(r) \/ Find(r) \/ Reread(r) \/ UpdateRow(r) \/ InsertRow(r)
             \/ UpdateNone(r) \/ InsertClash(r)
             \/ ReadDetails(r) \/ CreateLinkToken(r) \/ CreatePending(r)
      PROVE  RowInv' /\ Advance /\ Kinds
  <2>1. Advance /\ RecordInv'
    BY <1>2, <1>7, LooksUpWell, FindsWell, RereadsWell, UpdatesWell, InsertsWell,
       ClashesWell, ReadsOn
  <2>2. plaid' = plaid /\ faults' = faults
    BY <1>7 DEF Same
  <2>3. RowInv'
    BY <1>1, <1>2, <2>1, <2>2 DEF RowInv, PlainOK
  <2>4. Kinds
    BY <1>7 DEF Kinds
  <2>5. QED
    BY <2>1, <2>3, <2>4
<1>8. ASSUME NEW r \in Requests, CreateUserToken(r) \/ Emit(r)
      PROVE  RowInv' /\ Advance /\ Kinds
  <2>1. Advance /\ RecordInv' /\ faults' = faults
    BY <1>2, <1>8, TokenWell, EmitsWell
  <2>2. plaid' \in BOOLEAN
    BY <1>2, <1>8 DEF CreateUserToken, Emit
  <2>3. RowInv'
    BY <1>1, <1>2, <2>1, <2>2 DEF RowInv, PlainOK
  <2>4. QED
    BY <1>8, <2>1, <2>3 DEF Kinds
<1>9. ASSUME NEW r \in Requests, LoseUserToken(r) \/ Fail(r)
      PROVE  RowInv' /\ Advance /\ Kinds
  <2>1. /\ Fault /\ Running(r)
        /\ req' = [req EXCEPT ![r] = [req[r] EXCEPT !.pc = "failed"]]
        /\ UNCHANGED <<rows, writes, stale, announced>>
    BY <1>9 DEF LoseUserToken, Fail, Go, Running, Over
  <2>2. RecordInv' /\ Advance /\ Breaks(r) /\ faults' \in 0..MaxFaults
    BY <1>3, <2>1
  <2>3. plaid' \in BOOLEAN
    BY <1>2, <1>9 DEF LoseUserToken, Fail
  <2>4. RowInv'
    BY <1>1, <2>2, <2>3 DEF RowInv, PlainOK
  <2>5. QED
    BY <2>2, <2>4 DEF Kinds
<1>10. CASE Next
  <2>1. CASE \E r \in Requests : SaveStep(r) /\ Same
    BY <1>7, <2>1 DEF SaveStep
  <2>2. CASE \E r \in Requests : UserStep(r) /\ Same
    BY <1>6, <1>7, <2>2 DEF UserStep
  <2>3. CASE \E r \in Requests : OwnedStep(r) /\ Same
    BY <1>6, <2>3
  <2>4. QED
    BY <1>5, <1>8, <1>9, <1>10, <2>1, <2>2, <2>3 DEF Next
<1>11. CASE \E r \in Requests : Save(r)
  BY <1>6, <1>11 DEF Save, Same
<1>12. CASE ReadMe \/ (\E s \in Settings : \E v \in ValuesOf[s] : Edit(s, v)) \/ Saves
  BY <1>4, <1>12 DEF ReadMe, Edit, Saves
<1>13. CASE UNCHANGED allVars
  BY <1>4, <1>13 DEF allVars
<1>14. QED
  BY <1>10, <1>11, <1>12, <1>13 DEF PageNext

LEMMA RowInvStarts ==
    ASSUME PageInit
    PROVE  RowInv
<1>1. /\ Init /\ form = Defaults
  BY DEF PageInit
<1>2. /\ plaid = FALSE /\ faults = 0 /\ stale = FALSE /\ writes = [id \in Ids |-> 0]
      /\ req = [r \in Requests |-> New]
  BY <1>1 DEF Init, RecordInit
<1>3. PICK user \in {Absent} \cup {NewUser(p) : p \in Passwords} :
         rows = [id \in Ids |-> IF id = User THEN user ELSE Absent]
  BY <1>1 DEF Init
<1>4. \A id \in Ids : rows[id] = Absent \/ rows[id] \in Rows(id)
  BY <1>3, NewUserIsRow
<1>5. ASSUME NEW r \in Requests
      PROVE  /\ ReqOK(req[r]) /\ SavesOK(req[r], rows[req[r].id], writes[req[r].id])
             /\ req[r].kind = "none"
  <2>1. DOMAIN req[r] = Fields /\ req[r].pc = "new" /\ req[r].kind = "none"
    BY <1>2 DEF New, Fields
  <2>2. KindOK(req[r])
    BY <2>1 DEF KindOK
  <2>3. QED
    BY <2>1, <2>2 DEF ReqOK, SavesOK, Updating
<1>6. DOMAIN form = Settings /\ \A s \in Settings : form[s] \in ValuesOf[s]
  BY <1>1, UserAssumption
<1>7. RecordInv
  BY <1>2, <1>3, <1>4, <1>5 DEF RecordInv
<1>8. 0 \in 0..MaxFaults
  BY UserAssumption
<1>9. QED
  BY <1>2, <1>6, <1>7, <1>8 DEF RowInv, PlainOK

-----------------------------------------------------------------------------
(* What a save stores and which rows come and go.                          *)

LEMMA FreshStep ==
    ASSUME RowInv, Kinds, NEW r \in Requests, Finishes(r), ~req[r].inserts, ~IsStale(r)
    PROVE  UpdateRow(r) /\ RecordInv
<1> USE DEF RowInv
<1>1. ReqOK(req[r]) /\ SavesOK(req[r], rows[req[r].id], writes[req[r].id])
  BY DEF RecordInv
<1>2. req[r].pc = "write" /\ req'[r].pc = req[r].next
  BY DEF Finishes
<1>3. /\ req[r].kind \in Updating \cup {"register"} /\ req[r].id \in Ids
      /\ req[r].kind = "register" => req[r].inserts = TRUE
  BY <1>2, WritesAreRows
<1>4. req[r].next \in {"done", "emit", "pending"}
  BY <1>1, <1>3 DEF ReqOK, KindOK, Updating
<1>5. rows[req[r].id] # Absent
  <2>1. req[r].kind \in Updating
    BY <1>3
  <2>2. req[r].seen \in Nat /\ req[r].seen <= writes[req[r].id] /\ writes[req[r].id] \in Nat
    BY <1>1, <1>2, <1>3 DEF SavesOK, RecordInv
  <2>3. req[r].seen = writes[req[r].id]
    BY <2>2 DEF IsStale
  <2>4. rows[req[r].id] \in Rows(req[r].id)
    BY <1>1, <1>2, <2>1, <2>3 DEF SavesOK
  <2>5. QED
    BY <1>3, <2>4, RowsAreThere
<1>6. \A g \in Requests : Only(g) => g = r
  BY <1>2, <1>4 DEF Only
<1>7. ~(UNCHANGED vars)
  BY <1>2, <1>4 DEF vars, recordVars
<1>8. ~Crash
  BY <1>2, <1>4, CrashesWell
<1>9. PICK g \in Requests :
          \/ Starts(g)
          \/ Breaks(g)
          \/ Same /\ \/ FindEmail(g) \/ Find(g) \/ Reread(g) \/ UpdateRow(g) \/ InsertRow(g)
                     \/ UpdateNone(g) \/ InsertClash(g)
                     \/ ReadDetails(g) \/ CreateLinkToken(g) \/ CreatePending(g)
          \/ CreateUserToken(g)
          \/ Emit(g)
  BY <1>7, <1>8 DEF Kinds
<1>10. g = r
  <2>1. CASE Starts(g) \/ Breaks(g)
    BY <1>6, <2>1 DEF Starts, Breaks
  <2>2. CASE FindEmail(g) \/ Find(g) \/ Reread(g) \/ UpdateRow(g) \/ InsertRow(g)
    BY <1>6, <2>2, LooksUpWell, FindsWell, RereadsWell, UpdatesWell, InsertsWell
  <2>3. CASE \/ UpdateNone(g) \/ InsertClash(g)
             \/ ReadDetails(g) \/ CreateLinkToken(g) \/ CreatePending(g)
             \/ CreateUserToken(g) \/ Emit(g)
    BY <1>6, <2>3, ClashesWell, ReadsOn, TokenWell, EmitsWell
  <2>4. QED
    BY <1>9, <2>1, <2>2, <2>3
<1>11. ~Starts(r) /\ ~Breaks(r)
  BY <1>2, <1>4 DEF Starts, Breaks
<1>12. ~FindEmail(r) /\ ~Find(r) /\ ~Reread(r) /\ ~CreateUserToken(r) /\ ~Emit(r)
       /\ ~ReadDetails(r) /\ ~CreateLinkToken(r) /\ ~CreatePending(r)
  BY <1>2 DEF FindEmail, Find, Reread, CreateUserToken, Emit, ReadDetails, CreateLinkToken,
     CreatePending
<1>13. ~InsertRow(r) /\ ~InsertClash(r) /\ ~UpdateNone(r)
  BY <1>5 DEF InsertRow, InsertClash, UpdateNone
<1>14. QED
  BY <1>9, <1>10, <1>11, <1>12, <1>13

LEMMA FreshSaves ==
    ASSUME RowInv, Kinds
    PROVE  [\A r \in Requests :
              LET id == req[r].id
                  q == req[r]
              IN  Finishes(r) /\ ~q.inserts /\ ~IsStale(r) =>
                    /\ rows'[id] # Absent
                    /\ \A f \in FieldsOf[id] :
                          rows'[id][f] = IF f \in DOMAIN q.named /\ (f \in Joins => rows[id][f] = Null)
                                           THEN q.named[f] ELSE rows[id][f]]_recordVars
<1> SUFFICES ASSUME NEW r \in Requests, Finishes(r), ~req[r].inserts, ~IsStale(r)
             PROVE  /\ rows'[req[r].id] # Absent
                    /\ \A f \in FieldsOf[req[r].id] :
                          rows'[req[r].id][f] =
                            IF f \in DOMAIN req[r].named /\ (f \in Joins => rows[req[r].id][f] = Null)
                              THEN req[r].named[f] ELSE rows[req[r].id][f]
  OBVIOUS
<1>1. UpdateRow(r) /\ RecordInv
  BY FreshStep
<1>2. /\ req[r].kind \in Updating /\ req[r].id \in Ids
      /\ rows'[req[r].id] = req[r].saved /\ rows[req[r].id] = req[r].found
  BY <1>1, UpdatesWell
<1>3. /\ NamedOK(req[r]) /\ req[r].found \in Rows(req[r].id)
      /\ req[r].saved = Saved(req[r].found, req[r].named)
  <2>1. ReqOK(req[r]) /\ SavesOK(req[r], rows[req[r].id], writes[req[r].id])
    BY DEF RowInv, RecordInv
  <2>2. req[r].pc = "write"
    BY DEF Finishes
  <2>3. QED
    BY <1>2, <2>1, <2>2 DEF ReqOK, SavesOK
<1>4. /\ Saved(req[r].found, req[r].named) \in Rows(req[r].id)
      /\ \A f \in FieldsOf[req[r].id] : Saved(req[r].found, req[r].named)[f] =
            IF f \in DOMAIN req[r].named /\ (f \in Joins => req[r].found[f] = Null)
              THEN req[r].named[f] ELSE req[r].found[f]
  BY <1>2, <1>3, SavedIsRow DEF NamedOK
<1>5. QED
  BY <1>2, <1>3, <1>4, RowsAreThere

(* The user's row, once it is there, stays.                                *)
UnwrittenIfGone == rows[User] = Absent => writes[User] = 0

LEMMA RowsStay ==
    ASSUME RowInv, UnwrittenIfGone, Kinds, NEW id \in Ids
    PROVE  /\ rows[id] = Absent /\ writes[id] > 0 /\ rows'[id] # Absent =>
                \E r \in Requests : req[r].id = id /\ Finishes(r) /\ IsStale(r)
           /\ rows[id] # Absent /\ rows'[id] = Absent =>
                \E r \in Requests : req[r].pc = "new" /\ req'[r].kind = "remove"
<1> USE DEF RowInv
<1>1. CASE rows'[id] = rows[id]
  BY <1>1
<1>2. CASE \E r \in Requests : Starts(r)
  <2>1. PICK r \in Requests : Starts(r)
    BY <1>2
  <2>2. rows[id] = Absent /\ rows'[id] # Absent => ~(writes[id] > 0)
    BY <2>1 DEF Starts
  <2>3. QED
    BY <2>1, <2>2 DEF Starts
<1>3. ASSUME NEW r \in Requests, UpdateRow(r)
      PROVE  rows'[id] = rows[id] \/ (rows[id] # Absent /\ rows'[id] # Absent)
  <2>1. /\ req[r].id \in Ids
        /\ id # req[r].id => rows'[id] = rows[id]
        /\ RecordInv' /\ rows[req[r].id] # Absent
        /\ rows'[req[r].id] = Overwritten(rows[req[r].id], req[r])
    BY <1>3, UpdatesWell DEF UpdateRow
  <2>2. req[r].pc = "write"
    BY <1>3 DEF UpdateRow
  <2>3. req[r].saved \in Rows(req[r].id) /\ rows[req[r].id] \in Rows(req[r].id)
    BY <2>1, <2>2, WritesAreRows DEF RecordInv
  <2>4. Overwritten(rows[req[r].id], req[r]) # Absent
    BY <2>1, <2>3, OverwrittenIsRow, RowsAreThere
  <2>5. QED
    BY <2>1, <2>4
<1>4. ASSUME NEW r \in Requests, InsertRow(r)
      PROVE  \/ rows'[id] = rows[id]
             \/ /\ rows[id] = Absent /\ rows'[id] # Absent
                /\ ~(writes[id] > 0) \/ (req[r].id = id /\ Finishes(r) /\ IsStale(r))
  <2>1. /\ rows[req[r].id] = Absent /\ rows'[req[r].id] = req[r].saved
        /\ id # req[r].id => rows'[id] = rows[id]
        /\ req'[r].pc = req[r].next
        /\ \/ req[r].kind = "register" /\ req[r].id = User
           \/ req[r].kind = "update" /\ IsStale(r)
    BY <1>4, InsertsWell
  <2>2. req[r].pc = "write"
    BY <1>4 DEF InsertRow
  <2>3. req[r].saved # Absent
    BY <2>2, WritesAreRows, RowsAreThere
  <2>4. Finishes(r)
    BY <2>1, <2>2 DEF Finishes
  <2>5. rows[User] = Absent => ~(writes[User] > 0)
    BY DEF UnwrittenIfGone
  <2>6. QED
    BY <2>1, <2>3, <2>4, <2>5
<1>5. CASE \E r \in Requests : UpdateRow(r) \/ InsertRow(r)
  BY <1>3, <1>4, <1>5
<1>6. CASE UNCHANGED rows
  BY <1>1, <1>6
<1>7. QED
  <2>1. CASE UNCHANGED vars
    BY <1>6, <2>1 DEF vars, recordVars
  <2>2. CASE Crash
    BY <1>6, <2>2 DEF Crash
  <2>3. ASSUME NEW r \in Requests,
               \/ Breaks(r)
               \/ FindEmail(r) \/ Find(r) \/ Reread(r) \/ UpdateNone(r) \/ InsertClash(r)
               \/ ReadDetails(r) \/ CreateLinkToken(r) \/ CreatePending(r)
               \/ CreateUserToken(r) \/ Emit(r)
        PROVE  UNCHANGED rows
    BY <2>3 DEF Breaks, FindEmail, Find, Reread, UpdateNone, InsertClash, ReadDetails,
       CreateLinkToken, CreatePending, CreateUserToken, Emit
  <2>4. QED
    BY <1>2, <1>5, <1>6, <2>1, <2>2, <2>3 DEF Kinds

(* Rows are rows, requests are what their kind says and hold what they     *)
(* found, and the user's row is never removed.                             *)
THEOREM RowInvHolds == PageSpec => [](RowInv /\ UnwrittenIfGone)
<1>1. PageInit => RowInv /\ UnwrittenIfGone
  <2>1. PageInit => writes[User] = 0
    BY UserAssumption DEF PageInit, Init
  <2>2. QED
    BY <2>1, RowInvStarts DEF UnwrittenIfGone
<1>2. RowInv /\ UnwrittenIfGone /\ [PageNext]_allVars => (RowInv /\ UnwrittenIfGone)'
  <2> SUFFICES ASSUME RowInv, UnwrittenIfGone, [PageNext]_allVars
               PROVE  RowInv' /\ UnwrittenIfGone'
    OBVIOUS
  <2>1. RowInv' /\ Advance
    BY Steps
  <2>2. UnwrittenIfGone'
    BY <2>1 DEF Advance, UnwrittenIfGone, Exists
  <2>3. QED
    BY <2>1, <2>2
<1>3. QED
  BY <1>1, <1>2, PTL DEF PageSpec

(* A save does what the update says and nothing else, unless the row was   *)
(* written after it was found: applyUpdate and the ORM's save, second read *)
(* and write by columns included, for any fields that share any columns.   *)
THEOREM SavesStoreUpdates == PageSpec => FreshSavesUpdate
<1>1. RowInv /\ [PageNext]_allVars =>
        [\A r \in Requests :
           LET id == req[r].id
               q == req[r]
           IN  Finishes(r) /\ ~q.inserts /\ ~IsStale(r) =>
                 /\ rows'[id] # Absent
                 /\ \A f \in FieldsOf[id] :
                       rows'[id][f] = IF f \in DOMAIN q.named /\ (f \in Joins => rows[id][f] = Null)
                                        THEN q.named[f] ELSE rows[id][f]]_recordVars
  BY Steps, FreshSaves
<1>2. QED
  BY <1>1, RowInvHolds, PTL DEF PageSpec, FreshSavesUpdate

(* A removed row comes back only by an update that had found it, a row     *)
(* goes only by a remove: owned-crud's update and remove side by side.     *)
THEOREM RemovedRowsStay == PageSpec => RemovedStays
<1>1. RowInv /\ UnwrittenIfGone /\ [PageNext]_allVars =>
        [\A id \in Ids :
           /\ rows[id] = Absent /\ writes[id] > 0 /\ rows'[id] # Absent =>
                \E r \in Requests : req[r].id = id /\ Finishes(r) /\ IsStale(r)
           /\ rows[id] # Absent /\ rows'[id] = Absent =>
                \E r \in Requests : req[r].pc = "new" /\ req'[r].kind = "remove"]_recordVars
  BY Steps, RowsStay
<1>2. QED
  BY <1>1, RowInvHolds, PTL DEF PageSpec, RemovedStays

-----------------------------------------------------------------------------
(* Passwords, the token and the announced settings.                        *)

(* What becomes of one request                                             *)
LEMMA Moves ==
    ASSUME RowInv, Kinds, NEW h \in Requests
    PROVE  \/ req'[h] = req[h]
           \/ req'[h].pc = "failed" /\ \A f \in Fields \ {"pc"} : req'[h][f] = req[h][f]
           \/ Starts(h)
           \/ Same /\ \/ FindEmail(h) \/ Find(h) \/ Reread(h) \/ UpdateRow(h) \/ InsertRow(h)
                      \/ UpdateNone(h) \/ InsertClash(h)
                      \/ ReadDetails(h) \/ CreateLinkToken(h) \/ CreatePending(h)
           \/ CreateUserToken(h)
           \/ Emit(h)
<1> USE DEF RowInv
<1>1. CASE UNCHANGED vars
  BY <1>1 DEF vars, recordVars
<1>2. CASE Crash
  <2>1. req'[h] = IF Running(h) THEN [req[h] EXCEPT !.pc = "failed"] ELSE req[h]
    BY <1>2 DEF Crash
  <2>2. QED
    BY <1>2, <2>1, CrashesWell
<1>3. ASSUME NEW r \in Requests, r # h,
             \/ Starts(r) \/ Breaks(r)
             \/ FindEmail(r) \/ Find(r) \/ Reread(r) \/ UpdateRow(r) \/ InsertRow(r)
             \/ UpdateNone(r) \/ InsertClash(r)
             \/ ReadDetails(r) \/ CreateLinkToken(r) \/ CreatePending(r)
             \/ CreateUserToken(r) \/ Emit(r)
      PROVE  req'[h] = req[h]
  <2>1. Only(r)
    BY <1>3, LooksUpWell, FindsWell, RereadsWell, UpdatesWell, InsertsWell,
       ClashesWell, ReadsOn, TokenWell, EmitsWell DEF Starts, Breaks
  <2>2. QED
    BY <1>3, <2>1 DEF Only
<1>4. Breaks(h) => req'[h].pc = "failed" /\ \A f \in Fields \ {"pc"} : req'[h][f] = req[h][f]
  BY DEF Breaks
<1>5. QED
  BY <1>1, <1>2, <1>3, <1>4 DEF Kinds

(* What becomes of the user's row                                          *)
LEMMA RowMoves ==
    ASSUME RowInv, Kinds
    PROVE  \/ rows'[User] = rows[User]
           \/ /\ rows[User] = Absent
              /\ \E r \in Requests : InsertRow(r) /\ Same /\ req[r].kind = "register"
           \/ /\ Exists
              /\ \E r \in Requests :
                    /\ UpdateRow(r) /\ Same
                    /\ req[r].kind \in {"settings", "link"} /\ req[r].id = User
<1> USE DEF RowInv
<1>1. CASE UNCHANGED vars \/ Crash
  BY <1>1 DEF vars, recordVars, Crash
<1>2. ASSUME NEW r \in Requests,
             \/ Starts(r) \/ Breaks(r)
             \/ FindEmail(r) \/ Find(r) \/ Reread(r)
             \/ UpdateNone(r) \/ InsertClash(r)
             \/ ReadDetails(r) \/ CreateLinkToken(r) \/ CreatePending(r)
             \/ CreateUserToken(r) \/ Emit(r)
      PROVE  rows'[User] = rows[User]
  BY <1>2 DEF Starts, Breaks, FindEmail, Find, Reread, UpdateNone, InsertClash, ReadDetails,
     CreateLinkToken, CreatePending, CreateUserToken, Emit
<1>3. ASSUME NEW r \in Requests, UpdateRow(r), rows'[User] # rows[User]
      PROVE  Exists /\ req[r].kind \in {"settings", "link"} /\ req[r].id = User
  <2>1. /\ req[r].kind \in Updating
        /\ User # req[r].id => rows'[User] = rows[User]
        /\ req[r].pc = "write"
    BY <1>3, UpdatesWell, UserAssumption DEF UpdateRow
  <2>2. QED
    BY <1>3, <2>1, WritesAreRows DEF Updating, RecordInv
<1>4. ASSUME NEW r \in Requests, InsertRow(r), rows'[User] # rows[User]
      PROVE  rows[User] = Absent /\ req[r].kind = "register"
  BY <1>4, InsertsWell, UserAssumption
<1>5. QED
  BY <1>1, <1>2, <1>3, <1>4 DEF Kinds

PasswordsOK ==
    \A r \in Requests :
       /\ req[r].kind = "register" /\ req[r].pc = "done" =>
             Exists /\ rows[User]["password"] = req[r].named["password"]
       /\ req[r].kind \in {"settings", "link"} /\ req[r].pc \in {"save", "write"} =>
             req[r].found["password"] = rows[User]["password"]

(* A save does not change a password: neither a setting nor the token is   *)
(* one.                                                                    *)
LEMMA PasswordStays ==
    ASSUME RowInv, PasswordsOK, Kinds, Exists
    PROVE  rows'[User]["password"] = rows[User]["password"]
<1> USE DEF RowInv
<1>1. ASSUME NEW r \in Requests, UpdateRow(r), req[r].kind \in {"settings", "link"},
             req[r].id = User
      PROVE  rows'[User]["password"] = rows[User]["password"]
  <2>1. /\ req[r].pc = "write"
        /\ rows'[User] = Overwritten(rows[User], req[r])
    BY <1>1, UpdatesWell DEF UpdateRow
  <2>2. /\ req[r].found \in Rows(User) /\ NamedOK(req[r])
        /\ req[r].saved = Saved(req[r].found, req[r].named)
        /\ DOMAIN req[r].named \subseteq Settings \cup {"token"}
    <3>1. ReqOK(req[r]) /\ SavesOK(req[r], rows[req[r].id], writes[req[r].id])
      BY DEF RecordInv
    <3>2. QED
      BY <1>1, <2>1, <3>1 DEF ReqOK, SavesOK, KindOK, Updating
  <2>3. "password" \in FieldsOf[User] /\ "password" \notin Settings \cup {"token"}
    BY UserAssumption
  <2>4. req[r].saved["password"] = req[r].found["password"]
    BY <2>2, <2>3 DEF Saved, Rows
  <2>5. req[r].found["password"] = rows[User]["password"]
    BY <1>1, <2>1 DEF PasswordsOK
  <2>6. "password" \in DOMAIN rows[User]
    BY <2>3, UserAssumption DEF RecordInv, Exists, Rows
  <2>7. QED
    BY <2>1, <2>4, <2>5, <2>6 DEF Overwritten
<1>2. QED
  BY <1>1, RowMoves DEF Exists

LEMMA PasswordsKept ==
    ASSUME RowInv, PasswordsOK, Kinds, Advance, RowInv'
    PROVE  PasswordsOK'
<1> USE DEF RowInv
<1>1. Exists => rows'[User] # Absent /\ rows'[User]["password"] = rows[User]["password"]
  BY PasswordStays DEF Advance
<1>2. ASSUME NEW h \in Requests, req'[h].kind = "register", req'[h].pc = "done"
      PROVE  rows'[User] # Absent /\ rows'[User]["password"] = req'[h].named["password"]
  <2>1. CASE req'[h] = req[h]
    BY <1>1, <1>2, <2>1 DEF PasswordsOK
  <2>2. CASE InsertRow(h)
    <3>1. /\ req'[h].kind = req[h].kind /\ req'[h].named = req[h].named
          /\ req[h].named \in [{"password"} -> Passwords]
          /\ rows'[User] = NewUser(req[h].named["password"])
      BY <1>2, <2>2, InsertsWell DEF Fields
    <3>2. NewUser(req[h].named["password"]) \in Rows(User)
      BY <3>1, NewUserIsRow
    <3>3. "password" \in FieldsOf[User]
      BY UserAssumption
    <3>4. NewUser(req[h].named["password"])["password"] = req[h].named["password"]
      BY <3>3 DEF NewUser
    <3>5. QED
      BY <3>1, <3>2, <3>4, RowsAreThere, UserAssumption
  <2>3. ~Starts(h)
    BY <1>2 DEF Starts
  <2>4. ~(Find(h) \/ Reread(h) \/ UpdateRow(h))
    BY <1>2, FindsWell, RereadsWell, UpdatesWell DEF Updating, Fields
  <2>5. ~(UpdateNone(h) \/ InsertClash(h) \/ FindEmail(h))
    BY <1>2, ClashesWell, LooksUpWell DEF Fields
  <2>6. ~(ReadDetails(h) \/ CreateLinkToken(h) \/ CreatePending(h) \/ CreateUserToken(h) \/ Emit(h))
    BY <1>2, ReadsOn, TokenWell, EmitsWell DEF Fields
  <2>7. QED
    BY <1>2, <2>1, <2>2, <2>3, <2>4, <2>5, <2>6, Moves
<1>3. ASSUME NEW h \in Requests, req'[h].kind \in {"settings", "link"}, req'[h].pc \in {"save", "write"}
      PROVE  req'[h].found["password"] = rows'[User]["password"]
  <2>1. CASE req'[h] = req[h]
    <3>1. Exists
      BY <1>3, <2>1 DEF RecordInv
    <3>2. QED
      BY <1>1, <1>3, <2>1, <3>1 DEF PasswordsOK
  <2>2. CASE Find(h)
    <3>1. req'[h].found = rows[User] /\ UNCHANGED rows
      BY <1>3, <2>2, FindsWell
    <3>2. QED
      BY <3>1
  <2>3. CASE Reread(h)
    <3>1. /\ req'[h].found = req[h].found /\ req'[h].kind = req[h].kind /\ UNCHANGED rows
      BY <2>3, RereadsWell
    <3>2. req[h].pc = "save"
      BY <2>3 DEF Reread
    <3>3. QED
      BY <1>3, <3>1, <3>2 DEF PasswordsOK
  <2>4. ~Starts(h)
    BY <1>3 DEF Starts
  <2>5. ~(UpdateRow(h) \/ InsertRow(h))
    <3>1. req'[h].pc \in {"done", "emit", "pending"} \/ ~(UpdateRow(h) \/ InsertRow(h))
      <4>1. KindOK(req[h])
        BY DEF RecordInv, ReqOK
      <4>2. UpdateRow(h) \/ InsertRow(h) => req[h].pc = "write" /\ req'[h].pc = req[h].next
        BY UpdatesWell, InsertsWell DEF UpdateRow, InsertRow
      <4>3. req[h].pc = "write" => req[h].next \in {"done", "emit", "pending"}
        BY <4>1 DEF KindOK
      <4>4. QED
        BY <4>2, <4>3
    <3>2. QED
      BY <1>3, <3>1
  <2>6. ~(UpdateNone(h) \/ InsertClash(h) \/ FindEmail(h))
    BY <1>3, ClashesWell, LooksUpWell DEF Fields
  <2>7. ~(ReadDetails(h) \/ CreateLinkToken(h) \/ CreatePending(h) \/ CreateUserToken(h) \/ Emit(h))
    BY <1>3, ReadsOn, TokenWell, EmitsWell DEF Fields
  <2>8. QED
    BY <1>3, <2>1, <2>2, <2>3, <2>4, <2>5, <2>6, <2>7, Moves
<1>4. QED
  BY <1>2, <1>3 DEF PasswordsOK, Exists

(* Whoever was told to be registered can log in: any number of             *)
(* registrations, saves of the row, failures and removals of other rows.   *)
THEOREM RegisteredLogIn == PageSpec => []RegisteredCanLogin
<1>1. PageInit => RowInv /\ PasswordsOK
  <2>1. PageInit => \A r \in Requests : req[r].kind = "none"
    BY DEF PageInit, Init, RecordInit, New
  <2>2. QED
    BY <2>1, RowInvStarts DEF PasswordsOK
<1>2. (RowInv /\ PasswordsOK) /\ [PageNext]_allVars => (RowInv /\ PasswordsOK)'
  BY Steps, PasswordsKept
<1>3. RowInv /\ PasswordsOK => RegisteredCanLogin
  BY DEF PasswordsOK, RegisteredCanLogin, Accepts
<1>4. QED
  BY <1>1, <1>2, <1>3, PTL DEF PageSpec

(* A request that has Plaid's token and has yet to store it                *)
Carrying(r) ==
    /\ req[r].kind = "link"
    /\ req[r].pc \in {"linkToken", "find", "save", "write"}
    /\ "token" \in DOMAIN req[r].named

TokenSafe ==
    faults = 0 /\ stale = FALSE /\ plaid = TRUE =>
        Exists /\ (rows[User]["token"] = Token \/ \E r \in Requests : Carrying(r))

(* What is stored is the update of the row that was there.                 *)
LEMMA FreshUserSave ==
    ASSUME RowInv, NEW r \in Requests, UpdateRow(r), ~IsStale(r), req[r].id = User
    PROVE  /\ rows'[User] = req[r].saved /\ rows[User] = req[r].found
           /\ req[r].kind = "settings" => rows'[User]["token"] = rows[User]["token"]
           /\ req[r].kind = "link" =>
                 /\ rows'[User]["token"] = Token
                 /\ \A s \in Settings : rows'[User][s] = rows[User][s]
<1> USE DEF RowInv
<1>1. /\ rows'[User] = req[r].saved /\ rows[User] = req[r].found
      /\ req[r].kind \in Updating /\ req[r].pc = "write"
  BY UpdatesWell DEF UpdateRow
<1>2. ReqOK(req[r]) /\ SavesOK(req[r], rows[req[r].id], writes[req[r].id])
  BY DEF RecordInv
<1>3. /\ req[r].found \in Rows(User) /\ NamedOK(req[r]) /\ KindOK(req[r])
      /\ req[r].saved = Saved(req[r].found, req[r].named)
  BY <1>1, <1>2 DEF ReqOK, SavesOK
<1>4. User \in Ids /\ FieldsOf[User] = {"password", "token"} \cup Settings
      /\ "token" \notin Settings /\ "token" \notin Joins
  BY UserAssumption
<1>5. \A f \in FieldsOf[User] : req[r].saved[f] =
         IF f \in DOMAIN req[r].named /\ (f \in Joins => req[r].found[f] = Null)
           THEN req[r].named[f] ELSE req[r].found[f]
  BY <1>3, <1>4, SavedIsRow DEF NamedOK
<1>6. req[r].kind = "settings" => DOMAIN req[r].named \subseteq Settings
  BY <1>3 DEF KindOK
<1>7. req[r].kind = "link" =>
         /\ DOMAIN req[r].named \subseteq {"token"} /\ "token" \in DOMAIN req[r].named
         /\ req[r].named["token"] = Token
  BY <1>1, <1>3 DEF KindOK
<1>8. QED
  BY <1>1, <1>4, <1>5, <1>6, <1>7

LEMMA TokenStaysSafe ==
    ASSUME RowInv, TokenSafe, Kinds, Advance, RowInv'
    PROVE  TokenSafe'
<1> USE DEF RowInv
<1> SUFFICES ASSUME faults' = 0, stale' = FALSE, plaid' = TRUE
             PROVE  /\ rows'[User] # Absent
                    /\ \/ rows'[User]["token"] = Token
                       \/ \E r \in Requests : /\ req'[r].kind = "link"
                                              /\ req'[r].pc \in {"linkToken", "find", "save", "write"}
                                              /\ "token" \in DOMAIN req'[r].named
  BY DEF TokenSafe, Carrying, Exists
<1>1. CASE UNCHANGED vars
  BY <1>1 DEF vars, recordVars, TokenSafe, Carrying, Exists
<1>2. ASSUME NEW r \in Requests, Only(r), ~Carrying(r), rows'[User] = rows[User],
             plaid' = plaid, faults' = faults, stale' = stale
      PROVE  /\ rows'[User] # Absent
             /\ \/ rows'[User]["token"] = Token
                \/ \E g \in Requests : /\ req'[g].kind = "link"
                                       /\ req'[g].pc \in {"linkToken", "find", "save", "write"}
                                       /\ "token" \in DOMAIN req'[g].named
  <2>1. Exists /\ (rows[User]["token"] = Token \/ \E g \in Requests : Carrying(g))
    BY <1>2 DEF TokenSafe
  <2>2. \A g \in Requests : Carrying(g) => req'[g] = req[g]
    BY <1>2 DEF Only
  <2>3. QED
    BY <1>2, <2>1, <2>2 DEF Carrying, Exists
<1>3. ASSUME NEW r \in Requests, Only(r), UNCHANGED <<rows, plaid, faults, stale>>,
             Carrying(r) => rows[User]["token"] = Token \/
                            /\ req'[r].kind = "link"
                            /\ req'[r].pc \in {"linkToken", "find", "save", "write"}
                            /\ "token" \in DOMAIN req'[r].named
      PROVE  /\ rows'[User] # Absent
             /\ \/ rows'[User]["token"] = Token
                \/ \E g \in Requests : /\ req'[g].kind = "link"
                                       /\ req'[g].pc \in {"linkToken", "find", "save", "write"}
                                       /\ "token" \in DOMAIN req'[g].named
  <2>1. Exists /\ (rows[User]["token"] = Token \/ \E g \in Requests : Carrying(g))
    BY <1>3 DEF TokenSafe
  <2>2. \A g \in Requests : Carrying(g) => g = r \/ req'[g] = req[g]
    BY <1>3 DEF Only
  <2>3. QED
    BY <1>3, <2>1, <2>2 DEF Carrying, Exists
<1>4. ASSUME NEW r \in Requests, Starts(r)
      PROVE  Only(r) /\ ~Carrying(r) /\ rows'[User] = rows[User]
             /\ plaid' = plaid /\ faults' = faults /\ stale' = stale
  BY <1>4 DEF Starts, Carrying, Same
<1>5. ASSUME NEW r \in Requests, Same, FindEmail(r) \/ UpdateNone(r) \/ InsertClash(r)
      PROVE  Only(r) /\ ~Carrying(r) /\ rows'[User] = rows[User]
             /\ plaid' = plaid /\ faults' = faults /\ stale' = stale
  BY <1>5, LooksUpWell, ClashesWell DEF Carrying, Same
<1>6. ASSUME NEW r \in Requests, Emit(r)
      PROVE  Only(r) /\ ~Carrying(r) /\ rows'[User] = rows[User]
             /\ plaid' = plaid /\ faults' = faults /\ stale' = stale
  BY <1>6, EmitsWell DEF Carrying
<1>7. ASSUME NEW r \in Requests, Same,
             Find(r) \/ ReadDetails(r) \/ CreateLinkToken(r) \/ CreatePending(r)
      PROVE  /\ Only(r) /\ UNCHANGED <<rows, plaid, faults, stale>>
             /\ Carrying(r) => /\ req'[r].kind = "link"
                               /\ req'[r].pc \in {"linkToken", "find", "save", "write"}
                               /\ "token" \in DOMAIN req'[r].named
  BY <1>7, FindsWell, ReadsOn DEF Carrying, Same, Fields
<1>8. ASSUME NEW r \in Requests, Same, Reread(r)
      PROVE  /\ Only(r) /\ UNCHANGED <<rows, plaid, faults, stale>>
             /\ Carrying(r) => rows[User]["token"] = Token \/
                               /\ req'[r].kind = "link"
                               /\ req'[r].pc \in {"linkToken", "find", "save", "write"}
                               /\ "token" \in DOMAIN req'[r].named
  <2>1. /\ Only(r) /\ UNCHANGED <<rows, writes, stale>>
        /\ req[r].kind \in Updating
        /\ req'[r].kind = req[r].kind /\ req'[r].named = req[r].named
        /\ req'[r].pc = "write" \/ rows[req[r].id] = req[r].saved
    BY <1>8, RereadsWell
  <2>2. ASSUME Carrying(r), rows[req[r].id] = req[r].saved
        PROVE  rows[User]["token"] = Token
    <3>1. ReqOK(req[r]) /\ SavesOK(req[r], rows[req[r].id], writes[req[r].id])
      BY DEF RecordInv
    <3>2. req[r].pc = "save"
      BY <1>8 DEF Reread
    <3>3. /\ req[r].found \in Rows(req[r].id) /\ NamedOK(req[r])
          /\ req[r].saved = Saved(req[r].found, req[r].named)
          /\ req[r].id = User /\ req[r].named["token"] = Token
      BY <2>1, <2>2, <3>1, <3>2 DEF ReqOK, SavesOK, KindOK, Carrying
    <3>4. User \in Ids /\ "token" \in FieldsOf[User] /\ "token" \notin Joins
      BY UserAssumption
    <3>5. Saved(req[r].found, req[r].named)["token"] = req[r].named["token"]
      BY <2>2, <3>3, <3>4, SavedIsRow DEF NamedOK, Carrying
    <3>6. QED
      BY <2>2, <3>3, <3>5
  <2>3. QED
    BY <1>8, <2>1, <2>2 DEF Carrying, Same
<1>9. ASSUME NEW r \in Requests, CreateUserToken(r)
      PROVE  /\ rows'[User] # Absent
             /\ \/ rows'[User]["token"] = Token
                \/ \E g \in Requests : /\ req'[g].kind = "link"
                                       /\ req'[g].pc \in {"linkToken", "find", "save", "write"}
                                       /\ "token" \in DOMAIN req'[g].named
  <2>1. /\ Only(r) /\ UNCHANGED <<rows, writes, stale, announced, faults>>
        /\ req[r].kind = "link" /\ req[r].pc = "userToken" /\ req'[r].kind = "link"
        /\ \/ plaid /\ req'[r].pc = "failed"
           \/ ~plaid /\ req'[r].pc = "linkToken" /\ "token" \in DOMAIN req'[r].named
    BY <1>9, TokenWell
  <2>2. CASE plaid
    <3>1. plaid = TRUE /\ ~Carrying(r)
      BY <2>1, <2>2 DEF PlainOK, Carrying
    <3>2. QED
      BY <1>2, <2>1, <3>1
  <2>3. CASE ~plaid
    BY <2>1, <2>3 DEF RecordInv, Exists
  <2>4. QED
    BY <2>2, <2>3
<1>10. ASSUME NEW r \in Requests, Same, UpdateRow(r)
       PROVE  /\ rows'[User] # Absent
              /\ \/ rows'[User]["token"] = Token
                 \/ \E g \in Requests : /\ req'[g].kind = "link"
                                        /\ req'[g].pc \in {"linkToken", "find", "save", "write"}
                                        /\ "token" \in DOMAIN req'[g].named
  <2>1. /\ Only(r) /\ req[r].id \in Ids /\ req[r].pc = "write"
        /\ User # req[r].id => rows'[User] = rows[User]
        /\ IsStale(r) => stale'
        /\ ~IsStale(r) => UNCHANGED stale
    BY <1>10, UpdatesWell, UserAssumption DEF UpdateRow
  <2>2. ~IsStale(r) /\ stale = FALSE
    BY <2>1
  <2>3. plaid = TRUE /\ faults = 0
    BY <1>10 DEF Same
  <2>4. Exists /\ (rows[User]["token"] = Token \/ \E g \in Requests : Carrying(g))
    BY <2>2, <2>3 DEF TokenSafe
  <2>5. CASE req[r].kind = "link"
    <3>1. req[r].id = User
      BY <2>1, <2>5, WritesAreRows
    <3>2. QED
      BY <1>10, <2>2, <2>4, <2>5, <3>1, FreshUserSave DEF Advance
  <2>6. CASE req[r].kind # "link"
    <3>1. rows'[User]["token"] = rows[User]["token"]
      <4>1. CASE req[r].id = User
        <5>1. req[r].kind = "settings"
          BY <1>10, <2>1, <2>6, <4>1, WritesAreRows, UpdatesWell DEF Updating
        <5>2. QED
          BY <1>10, <2>2, <4>1, <5>1, FreshUserSave
      <4>2. CASE req[r].id # User
        BY <2>1, <4>2
      <4>3. QED
        BY <4>1, <4>2
    <3>2. \A g \in Requests : Carrying(g) => req'[g] = req[g]
      BY <2>1, <2>6 DEF Only, Carrying
    <3>3. QED
      BY <2>4, <3>1, <3>2 DEF Carrying, Advance
  <2>7. QED
    BY <2>5, <2>6
<1>11. ASSUME NEW r \in Requests, Same, InsertRow(r)
       PROVE  FALSE
  <2>1. /\ rows[req[r].id] = Absent
        /\ IsStale(r) => stale'
        /\ ~IsStale(r) => UNCHANGED stale
        /\ req[r].id = User \/ IsStale(r)
    BY <1>11, InsertsWell
  <2>2. stale = FALSE /\ rows[User] = Absent
    BY <2>1
  <2>3. plaid = TRUE /\ faults = 0
    BY <1>11 DEF Same
  <2>4. QED
    BY <2>2, <2>3 DEF TokenSafe, Exists
<1>12. QED
  <2>1. ~(\E r \in Requests : Breaks(r))
    BY DEF Breaks
  <2>2. CASE \E r \in Requests : Starts(r) \/ Emit(r)
    BY <1>2, <1>4, <1>6, <2>2
  <2>3. CASE \E r \in Requests : Same /\ (FindEmail(r) \/ UpdateNone(r) \/ InsertClash(r))
    BY <1>2, <1>5, <2>3
  <2>4. CASE \E r \in Requests :
               Same /\ (Find(r) \/ ReadDetails(r) \/ CreateLinkToken(r) \/ CreatePending(r) \/ Reread(r))
    BY <1>3, <1>7, <1>8, <2>4
  <2>5. QED
    BY <1>1, <1>9, <1>10, <1>11, <2>1, <2>2, <2>3, <2>4 DEF Kinds

(* Plaid's token of the user is lost by a failure or by the save of a row  *)
(* that was written since it was found, and by nothing else, for any       *)
(* number of requests for links, of saves of settings and registrations.   *)
THEOREM TokenIsKept == PageSpec => []TokenKept
<1>1. PageInit => RowInv /\ TokenSafe
  <2>1. PageInit => plaid = FALSE
    BY DEF PageInit, Init
  <2>2. QED
    BY <2>1, RowInvStarts DEF TokenSafe
<1>2. (RowInv /\ TokenSafe) /\ [PageNext]_allVars => (RowInv /\ TokenSafe)'
  BY Steps, TokenStaysSafe
<1>3. RowInv /\ TokenSafe => TokenKept
  <2> SUFFICES ASSUME RowInv, TokenSafe, Quiet, faults = 0, ~stale, plaid
               PROVE  rows[User]["token"] = Token
    BY DEF TokenKept
  <2>1. stale = FALSE /\ plaid = TRUE
    BY DEF RowInv, RecordInv, PlainOK
  <2>2. rows[User]["token"] = Token \/ \E r \in Requests : Carrying(r)
    BY <2>1 DEF TokenSafe
  <2>3. \A r \in Requests : ~Carrying(r)
    BY DEF Quiet, Running, Over, Carrying
  <2>4. QED
    BY <2>2, <2>3
<1>4. QED
  BY <1>1, <1>2, <1>3, PTL DEF PageSpec

(* A request that has changed the settings and has yet to tell of them     *)
Telling(r) ==
    /\ req[r].kind = "settings" /\ req[r].pc = "emit"
    /\ SettingsOf(req[r].saved) = SettingsOf(rows[User])
    /\ \E s \in DOMAIN req[r].named : req[r].found[s] # req[r].saved[s]

SettingsTold ==
    faults = 0 /\ stale = FALSE /\ Exists =>
        \/ SettingsOf(rows[User]) \in announced \cup {Defaults}
        \/ \E r \in Requests : Telling(r)

LEMMA NewSettings ==
    ASSUME NEW p \in Passwords
    PROVE  SettingsOf(NewUser(p)) = Defaults
<1>1. /\ FieldsOf[User] = {"password", "token"} \cup Settings
      /\ "password" \notin Settings /\ "token" \notin Settings
      /\ Defaults \in [Settings -> UNION {ValuesOf[s] : s \in Settings}]
  BY UserAssumption
<1>2. \A s \in Settings : NewUser(p)[s] = Defaults[s]
  BY <1>1 DEF NewUser
<1>3. SettingsOf(NewUser(p)) = [s \in Settings |-> Defaults[s]]
  BY <1>2 DEF SettingsOf
<1>4. QED
  BY <1>1, <1>3

LEMMA SettingsStayTold ==
    ASSUME RowInv, SettingsTold, Kinds, Advance, RowInv'
    PROVE  SettingsTold'
<1> USE DEF RowInv
<1> DEFINE Told ==
      \/ SettingsOf(rows[User])' \in announced' \cup {Defaults}
      \/ \E r \in Requests :
            /\ req'[r].kind = "settings" /\ req'[r].pc = "emit"
            /\ SettingsOf(req[r].saved)' = SettingsOf(rows[User])'
            /\ \E s \in DOMAIN req'[r].named : req'[r].found[s] # req'[r].saved[s]
<1> SUFFICES ASSUME faults' = 0, stale' = FALSE, rows'[User] # Absent
             PROVE  Told
  BY DEF SettingsTold, Telling, Exists
<1>1. CASE UNCHANGED vars
  BY <1>1 DEF vars, recordVars, SettingsTold, Telling, Exists, SettingsOf
<1>2. ASSUME NEW r \in Requests, Only(r), ~Telling(r),
             SettingsOf(rows[User])' = SettingsOf(rows[User]), Exists,
             announced \subseteq announced', faults' = faults, stale' = stale
      PROVE  Told
  <2>1. \/ SettingsOf(rows[User]) \in announced \cup {Defaults}
        \/ \E g \in Requests : Telling(g)
    BY <1>2 DEF SettingsTold
  <2>2. \A g \in Requests : Telling(g) => req'[g] = req[g]
    BY <1>2 DEF Only
  <2>3. \A g \in Requests : Telling(g) => SettingsOf(req[g].saved)' = SettingsOf(rows[User])'
    BY <1>2, <2>2 DEF Telling, SettingsOf
  <2>4. QED
    BY <1>2, <2>1, <2>2, <2>3 DEF Telling
<1>3. rows'[User] = rows[User] =>
         SettingsOf(rows[User])' = SettingsOf(rows[User]) /\ Exists
  BY DEF SettingsOf, Exists
<1>4. ASSUME NEW r \in Requests, Starts(r)
      PROVE  /\ Only(r) /\ ~Telling(r) /\ rows'[User] = rows[User]
             /\ announced' = announced /\ faults' = faults /\ stale' = stale
  BY <1>4 DEF Starts, Telling, Same
<1>5. ASSUME NEW r \in Requests, Same,
             \/ FindEmail(r) \/ Find(r) \/ Reread(r) \/ UpdateNone(r) \/ InsertClash(r)
             \/ ReadDetails(r) \/ CreateLinkToken(r) \/ CreatePending(r)
      PROVE  /\ Only(r) /\ ~Telling(r) /\ rows'[User] = rows[User]
             /\ announced' = announced /\ faults' = faults /\ stale' = stale
  <2>1. Only(r) /\ UNCHANGED <<rows, stale>>
    BY <1>5, LooksUpWell, FindsWell, RereadsWell, ClashesWell, ReadsOn
  <2>2. req[r].pc # "emit"
    BY <1>5 DEF FindEmail, Find, Reread, UpdateNone, InsertClash, ReadDetails, CreateLinkToken,
       CreatePending
  <2>3. QED
    BY <1>5, <2>1, <2>2 DEF Telling, Same
<1>6. ASSUME NEW r \in Requests, CreateUserToken(r)
      PROVE  /\ Only(r) /\ ~Telling(r) /\ rows'[User] = rows[User]
             /\ announced' = announced /\ faults' = faults /\ stale' = stale
  BY <1>6, TokenWell DEF Telling
<1>7. ASSUME NEW r \in Requests, Emit(r)
      PROVE  Told
  <2>1. /\ Only(r) /\ UNCHANGED <<rows, writes, stale, plaid, faults>>
    BY <1>7, EmitsWell
  <2>2. announced \subseteq announced'
    BY <1>7 DEF Emit
  <2>3. CASE Telling(r)
    <3>1. announced' = announced \cup {SettingsOf(req[r].saved)}
      BY <1>7, <2>3 DEF Emit, Telling
    <3>2. SettingsOf(rows[User])' = SettingsOf(req[r].saved)
      BY <2>1, <2>3 DEF Telling, SettingsOf
    <3>3. QED
      BY <3>1, <3>2
  <2>4. CASE ~Telling(r)
    BY <1>2, <1>3, <2>1, <2>2, <2>4
  <2>5. QED
    BY <2>3, <2>4
<1>8. ASSUME NEW r \in Requests, Same, UpdateRow(r)
      PROVE  Told
  <2>1. /\ Only(r) /\ req[r].id \in Ids /\ req[r].pc = "write" /\ req[r].kind \in Updating
        /\ User # req[r].id => rows'[User] = rows[User]
        /\ IsStale(r) => stale'
        /\ ~IsStale(r) => UNCHANGED stale
        /\ req'[r].pc = req[r].next
        /\ \A f \in Fields \ {"pc"} : req'[r][f] = req[r][f]
    BY <1>8, UpdatesWell, UserAssumption DEF UpdateRow
  <2>2. /\ ~IsStale(r) /\ stale' = stale /\ faults' = faults /\ announced' = announced
    BY <1>8, <2>1 DEF Same
  <2>3. ~Telling(r)
    BY <2>1 DEF Telling
  <2>4. CASE req[r].id # User
    BY <1>2, <1>3, <2>1, <2>2, <2>3, <2>4
  <2>5. CASE req[r].id = User
    <3>1. Exists /\ req[r].kind \in {"settings", "link"}
      BY <1>8, <2>1, <2>5, WritesAreRows DEF UpdateRow, Exists, Updating
    <3>2. rows'[User] = req[r].saved /\ rows[User] = req[r].found
      BY <1>8, <2>2, <2>5, FreshUserSave
    <3>3. CASE SettingsOf(rows[User])' = SettingsOf(rows[User])
      BY <1>2, <2>1, <2>2, <2>3, <3>1, <3>3
    <3>4. CASE SettingsOf(rows[User])' # SettingsOf(rows[User])
      <4>1. PICK s \in Settings : rows'[User][s] # rows[User][s]
        BY <3>4 DEF SettingsOf
      <4>2. req[r].kind = "settings"
        BY <1>8, <2>2, <2>5, <3>1, <4>1, FreshUserSave
      <4>3. ReqOK(req[r]) /\ SavesOK(req[r], rows[req[r].id], writes[req[r].id])
        BY DEF RecordInv
      <4>4. /\ req[r].found \in Rows(User) /\ NamedOK(req[r]) /\ req[r].next = "emit"
            /\ req[r].saved = Saved(req[r].found, req[r].named)
        BY <2>1, <2>5, <4>2, <4>3 DEF ReqOK, SavesOK, KindOK
      <4>5. s \in FieldsOf[User] /\ User \in Ids
        BY UserAssumption
      <4>6. s \in DOMAIN req[r].named /\ req[r].found[s] # req[r].saved[s]
        BY <2>5, <3>2, <4>1, <4>4, <4>5, SavedIsRow DEF NamedOK
      <4>7. /\ req'[r].kind = "settings" /\ req'[r].pc = "emit"
            /\ req'[r].named = req[r].named /\ req'[r].found = req[r].found
            /\ req'[r].saved = req[r].saved
        BY <2>1, <4>2, <4>4 DEF Fields
      <4>8. SettingsOf(req[r].saved)' = SettingsOf(rows[User])'
        BY <3>2, <4>7 DEF SettingsOf
      <4>9. QED
        BY <4>6, <4>7, <4>8
    <3>5. QED
      BY <3>3, <3>4
  <2>6. QED
    BY <2>4, <2>5
<1>9. ASSUME NEW r \in Requests, Same, InsertRow(r)
      PROVE  Told
  <2>1. /\ IsStale(r) => stale'
        /\ \/ /\ req[r].kind = "register" /\ req[r].named \in [{"password"} -> Passwords]
              /\ rows'[User] = NewUser(req[r].named["password"])
           \/ IsStale(r)
    BY <1>9, InsertsWell
  <2>2. PICK p \in Passwords : rows'[User] = NewUser(p)
    BY <2>1
  <2>3. SettingsOf(rows[User])' = Defaults
    BY <2>2, NewSettings DEF SettingsOf
  <2>4. QED
    BY <2>3
<1>10. QED
  <2>1. ~(\E r \in Requests : Breaks(r))
    BY DEF Breaks
  <2>2. CASE \E r \in Requests :
               \/ Starts(r) \/ CreateUserToken(r)
               \/ Same /\ \/ FindEmail(r) \/ Find(r) \/ Reread(r) \/ UpdateNone(r) \/ InsertClash(r)
                          \/ ReadDetails(r) \/ CreateLinkToken(r) \/ CreatePending(r)
    BY <1>2, <1>3, <1>4, <1>5, <1>6, <2>2
  <2>3. QED
    BY <1>1, <1>7, <1>8, <1>9, <2>1, <2>2 DEF Kinds

(* Settings in effect were announced in an event or are the default,       *)
(* unless there was a failure or a save of a row written in the meantime.  *)
THEOREM SettingsAreAnnounced == PageSpec => []SettingsAnnounced
<1>1. PageInit => RowInv /\ SettingsTold
  <2> SUFFICES ASSUME PageInit, Exists
               PROVE  SettingsOf(rows[User]) = Defaults
    BY RowInvStarts DEF SettingsTold
  <2>1. PICK p \in Passwords : rows[User] = NewUser(p)
    BY UserAssumption DEF PageInit, Init, Exists
  <2>2. QED
    BY <2>1, NewSettings
<1>2. (RowInv /\ SettingsTold) /\ [PageNext]_allVars => (RowInv /\ SettingsTold)'
  BY Steps, SettingsStayTold
<1>3. RowInv /\ SettingsTold => SettingsAnnounced
  <2> SUFFICES ASSUME RowInv, SettingsTold, Quiet, faults = 0, ~stale, Exists
               PROVE  SettingsOf(rows[User]) \in announced \cup {Defaults}
    BY DEF SettingsAnnounced
  <2>1. stale = FALSE
    BY DEF RowInv, RecordInv
  <2>2. \A r \in Requests : ~Telling(r)
    BY DEF Quiet, Running, Over, Telling
  <2>3. QED
    BY <2>1, <2>2 DEF SettingsTold
<1>4. QED
  BY <1>1, <1>2, <1>3, PTL DEF PageSpec

-----------------------------------------------------------------------------
(* The settings page.                                                      *)

PageOK ==
    /\ DOMAIN page = {"edited", "edits", "read"}
    /\ page.read \in Nat /\ page.read <= writes[User]
    /\ \A m \in me : me = {m} /\ \A s \in Settings \ page.edited : form[s] = m[s]
    /\ me # {} /\ page.read = writes[User] => me = {SettingsOf(rows[User])}
    /\ changed => me # {}

SavingOK ==
    \A save \in saving :
       /\ save.request \in Requests /\ req[save.request].kind = "settings"
       /\ save.page.read \in Nat /\ save.page.read <= writes[User]
       /\ save.page.read = writes[User] =>
             \A s \in Settings \ save.page.edited : req[save.request].named[s] = rows[User][s]

(* What a request for settings asks for stays.                             *)
LEMMA NamedStays ==
    ASSUME RowInv, Kinds, NEW h \in Requests, req[h].kind = "settings"
    PROVE  req'[h].kind = "settings" /\ req'[h].named = req[h].named
<1> USE DEF RowInv
<1>1. KindOK(req[h])
  BY DEF RecordInv, ReqOK
<1>2. ~Starts(h)
  BY <1>1 DEF KindOK, Starts
<1>3. CASE Find(h) \/ Reread(h) \/ UpdateRow(h) \/ InsertRow(h) \/ UpdateNone(h) \/ InsertClash(h)
  BY <1>3, FindsWell, RereadsWell, UpdatesWell, InsertsWell, ClashesWell DEF Fields
<1>4. CASE Emit(h)
  BY <1>4, EmitsWell DEF Fields
<1>5. ~(FindEmail(h) \/ ReadDetails(h) \/ CreateLinkToken(h) \/ CreatePending(h) \/ CreateUserToken(h))
  BY LooksUpWell, ReadsOn, TokenWell
<1>6. CASE req'[h].pc = "failed" /\ \A f \in Fields \ {"pc"} : req'[h][f] = req[h][f]
  BY <1>6 DEF Fields
<1>7. QED
  BY <1>2, <1>3, <1>4, <1>5, <1>6, Moves

(* The row may change under the page.                                      *)
LEMMA PageUnderStep ==
    ASSUME RowInv, PageOK, SavingOK, Kinds, Advance, UNCHANGED pageVars
    PROVE  PageOK' /\ SavingOK'
<1>1. /\ me' = me /\ form' = form /\ changed' = changed /\ saving' = saving /\ page' = page
  BY DEF pageVars
<1>2. /\ writes[User] \in Nat
      /\ \/ rows'[User] = rows[User] /\ writes'[User] = writes[User]
         \/ writes'[User] = writes[User] + 1
  BY UserAssumption DEF RowInv, RecordInv, Advance
<1>3. /\ page.read \in Nat /\ page.read <= writes'[User]
      /\ page.read = writes'[User] => page.read = writes[User] /\ rows'[User] = rows[User]
  BY <1>2 DEF PageOK
<1>4. me # {} /\ page.read = writes'[User] => me = {SettingsOf(rows'[User])}
  BY <1>3 DEF PageOK, SettingsOf
<1>5. PageOK'
  BY <1>1, <1>3, <1>4 DEF PageOK, SettingsOf
<1>6. ASSUME NEW save \in saving
      PROVE  /\ save.request \in Requests /\ req'[save.request].kind = "settings"
             /\ save.page.read \in Nat /\ save.page.read <= writes'[User]
             /\ save.page.read = writes'[User] =>
                   \A s \in Settings \ save.page.edited : req'[save.request].named[s] = rows'[User][s]
  <2>1. /\ save.request \in Requests /\ req[save.request].kind = "settings"
        /\ save.page.read \in Nat /\ save.page.read <= writes[User]
    BY DEF SavingOK
  <2>2. req'[save.request].kind = "settings" /\ req'[save.request].named = req[save.request].named
    BY <2>1, NamedStays
  <2>3. /\ save.page.read <= writes'[User]
        /\ save.page.read = writes'[User] => save.page.read = writes[User] /\ rows'[User] = rows[User]
    BY <1>2, <2>1
  <2>4. QED
    BY <2>1, <2>2, <2>3 DEF SavingOK
<1>7. QED
  BY <1>1, <1>5, <1>6 DEF SavingOK

LEMMA PageReads ==
    ASSUME RowInv, PageOK, SavingOK, ReadMe
    PROVE  PageOK' /\ SavingOK'
<1> DEFINE S == SettingsOf(rows[User])
<1>1. /\ UNCHANGED <<rows, writes, req, saving>> /\ me' = {S} /\ Fill(S)
  BY DEF ReadMe, vars, recordVars
<1>2. writes[User] \in Nat
  BY UserAssumption DEF RowInv, RecordInv
<1>3. /\ DOMAIN page' = {"edited", "edits", "read"}
      /\ page'.read = writes[User]
      /\ \A s \in Settings \ page'.edited : form'[s] = S[s]
  <2>1. CASE S \in me
    <3>1. form' = form /\ page' = [page EXCEPT !.read = writes[User]]
      BY <1>1, <2>1 DEF Fill
    <3>2. QED
      BY <2>1, <3>1 DEF PageOK
  <2>2. CASE S \notin me
    <3>1. form' = S /\ page' = [page EXCEPT !.edited = {}, !.read = writes[User]]
      BY <1>1, <2>2 DEF Fill
    <3>2. QED
      BY <3>1 DEF PageOK
  <2>3. QED
    BY <2>1, <2>2
<1>4. SettingsOf(rows[User])' = S
  BY <1>1 DEF SettingsOf
<1>5. PageOK'
  BY <1>1, <1>2, <1>3, <1>4 DEF PageOK
<1>6. SavingOK'
  BY <1>1 DEF SavingOK
<1>7. QED
  BY <1>5, <1>6

LEMMA PageEdits ==
    ASSUME RowInv, PageOK, SavingOK, NEW s \in Settings, NEW v \in ValuesOf[s], Edit(s, v)
    PROVE  PageOK' /\ SavingOK'
<1>1. /\ UNCHANGED <<rows, writes, req, saving, me>> /\ me # {}
      /\ form' = [form EXCEPT ![s] = v]
      /\ page' = [page EXCEPT !.edited = page.edited \cup {s}, !.edits = page.edits + 1]
  BY DEF Edit, vars, recordVars
<1>2. /\ DOMAIN page' = {"edited", "edits", "read"}
      /\ page'.read = page.read /\ page'.edited = page.edited \cup {s}
  BY <1>1 DEF PageOK
<1>3. \A x \in Settings \ page'.edited : form'[x] = form[x]
  BY <1>1, <1>2 DEF RowInv, PlainOK
<1>4. SettingsOf(rows[User])' = SettingsOf(rows[User])
  BY <1>1 DEF SettingsOf
<1>5. PageOK'
  BY <1>1, <1>2, <1>3, <1>4 DEF PageOK
<1>6. SavingOK'
  BY <1>1 DEF SavingOK
<1>7. QED
  BY <1>5, <1>6

LEMMA PageSaves ==
    ASSUME RowInv, PageOK, SavingOK, NEW r \in Requests, Save(r)
    PROVE  PageOK' /\ SavingOK'
<1>1. /\ UNCHANGED <<me, form, changed, page>> /\ changed
      /\ saving' = {[request |-> r, page |-> page]}
      /\ Begin(r, "settings", User, form, "find", "emit") /\ Exists
  BY DEF Save, BeginSettings
<1>2. UNCHANGED <<rows, writes>>
  BY <1>1 DEF Begin
<1>3. req'[r].kind = "settings" /\ req'[r].named = form
  <2>1. \A f \in DOMAIN form : f \in FieldsOf[User] /\ form[f] \in ValuesOf[f]
    BY UserAssumption DEF RowInv, PlainOK
  <2>2. QED
    BY <1>1, <2>1, BeginsWell DEF RowInv, PlainOK
<1>4. /\ me # {} /\ page.read \in Nat /\ page.read <= writes[User]
      /\ page.read = writes[User] =>
            \A s \in Settings \ page.edited : form[s] = rows[User][s]
  <2>1. me # {} /\ page.read \in Nat /\ page.read <= writes[User]
    BY <1>1 DEF PageOK
  <2>2. ASSUME page.read = writes[User], NEW s \in Settings \ page.edited
        PROVE  form[s] = rows[User][s]
    <3>1. form[s] = SettingsOf(rows[User])[s]
      BY <2>1, <2>2 DEF PageOK
    <3>2. QED
      BY <3>1 DEF SettingsOf
  <2>3. QED
    BY <2>1, <2>2
<1>5. PageOK'
  BY <1>1, <1>2 DEF PageOK, SettingsOf
<1>6. \A save \in saving' : save.request = r /\ save.page = page
  BY <1>1
<1>7. SavingOK'
  BY <1>2, <1>3, <1>4, <1>6 DEF SavingOK
<1>8. QED
  BY <1>5, <1>7

(* The form differs from the settings last read only in what was edited,   *)
(* and so does what a save asks for.                                       *)
THEOREM PageInvHolds == PageSpec => [](RowInv /\ PageOK /\ SavingOK)
<1>1. PageInit => RowInv /\ PageOK /\ SavingOK
  <2> SUFFICES ASSUME PageInit
               PROVE  PageOK /\ SavingOK
    BY RowInvStarts
  <2>1. /\ me = {} /\ changed = FALSE /\ saving = {} /\ writes[User] = 0
        /\ page = [edited |-> {}, edits |-> 0, read |-> 0]
    BY UserAssumption DEF PageInit, Init
  <2>2. QED
    BY <2>1 DEF PageOK, SavingOK
<1>2. (RowInv /\ PageOK /\ SavingOK) /\ [PageNext]_allVars => (RowInv /\ PageOK /\ SavingOK)'
  <2> SUFFICES ASSUME RowInv, PageOK, SavingOK, [PageNext]_allVars
               PROVE  RowInv' /\ PageOK' /\ SavingOK'
    OBVIOUS
  <2>1. RowInv' /\ Advance /\ Kinds
    BY Steps
  <2>2. CASE UNCHANGED pageVars
    BY <2>1, <2>2, PageUnderStep
  <2>3. CASE ReadMe
    BY <2>1, <2>3, PageReads
  <2>4. CASE \E s \in Settings : \E v \in ValuesOf[s] : Edit(s, v)
    BY <2>1, <2>4, PageEdits
  <2>5. CASE \E r \in Requests : Save(r)
    BY <2>1, <2>5, PageSaves
  <2>6. CASE Saves
    <3>1. /\ UNCHANGED <<rows, writes, req, me, form, page>> /\ saving' = {} /\ (changed' => changed)
      BY <2>6 DEF Saves, vars, recordVars
    <3>2. PageOK' /\ SavingOK'
      BY <3>1 DEF PageOK, SavingOK, SettingsOf
    <3>3. QED
      BY <2>1, <3>2
  <2>7. QED
    BY <2>1, <2>2, <2>3, <2>4, <2>5, <2>6 DEF PageNext, allVars
<1>3. QED
  BY <1>1, <1>2, PTL DEF PageSpec

(* A setting changes only to what was asked for, and by the page's save of *)
(* the whole form only if it was edited, unless the row was written after  *)
(* the request had found it or the page had read it.                       *)
THEOREM OnlyEditsChangeSettings == PageSpec => OnlyEditsChange
<1>1. (RowInv /\ PageOK /\ SavingOK) /\ [PageNext]_allVars =>
        [\A r \in Requests, s \in Settings :
           Finishes(r) /\ req[r].id = User /\ ~req[r].inserts /\ ~IsStale(r)
           /\ rows'[User][s] # rows[User][s] =>
              /\ s \in DOMAIN req[r].named /\ rows'[User][s] = req[r].named[s]
              /\ \A save \in saving :
                    save.request = r => s \in save.page.edited \/ save.page.read < writes[User]]_allVars
  <2> SUFFICES ASSUME RowInv, SavingOK, [PageNext]_allVars,
                      NEW r \in Requests, NEW s \in Settings,
                      Finishes(r), req[r].id = User, ~req[r].inserts, ~IsStale(r),
                      rows'[User][s] # rows[User][s]
               PROVE  /\ s \in DOMAIN req[r].named /\ rows'[User][s] = req[r].named[s]
                      /\ \A save \in saving :
                            save.request = r =>
                               s \in save.page.edited \/ save.page.read < writes[User]
    OBVIOUS
  <2>1. Kinds
    BY Steps
  <2>2. UpdateRow(r) /\ RecordInv
    BY <2>1, FreshStep
  <2>3. rows'[User] = req[r].saved /\ rows[User] = req[r].found /\ req[r].pc = "write"
        /\ req[r].kind \in Updating
    BY <2>2, UpdatesWell DEF UpdateRow
  <2>4. ReqOK(req[r]) /\ SavesOK(req[r], rows[req[r].id], writes[req[r].id])
    BY <2>2 DEF RecordInv
  <2>5. /\ req[r].found \in Rows(User) /\ NamedOK(req[r])
        /\ req[r].saved = Saved(req[r].found, req[r].named)
    BY <2>3, <2>4 DEF ReqOK, SavesOK
  <2>6. s \in FieldsOf[User] /\ User \in Ids
    BY UserAssumption
  <2>7. s \in DOMAIN req[r].named /\ rows'[User][s] = req[r].named[s]
    BY <2>3, <2>5, <2>6, SavedIsRow DEF NamedOK
  <2>8. ASSUME NEW save \in saving, save.request = r, s \notin save.page.edited
        PROVE  save.page.read < writes[User]
    <3>1. /\ save.page.read \in Nat /\ save.page.read <= writes[User]
          /\ save.page.read = writes[User] => req[r].named[s] = rows[User][s]
      BY <2>8 DEF SavingOK
    <3>2. writes[User] \in Nat
      BY <2>2, <2>6 DEF RecordInv
    <3>3. QED
      BY <2>7, <3>1, <3>2
  <2>9. QED
    BY <2>7, <2>8
<1>2. QED
  BY <1>1, PageInvHolds, PTL DEF PageSpec, OnlyEditsChange

-----------------------------------------------------------------------------
(* Types.                                                                  *)

AnnouncedOK == announced \subseteq [Settings -> UNION {ValuesOf[s] : s \in Settings}]

(* Every variable of the row and of the requests has its type, and a       *)
(* request that saves has a row of its id and has not read the future.     *)
THEOREM UserTypeCorrect == PageSpec => []TypeOK
<1>1. PageInit => RowInv /\ AnnouncedOK
  BY RowInvStarts DEF PageInit, Init, AnnouncedOK
<1>2. (RowInv /\ AnnouncedOK) /\ [PageNext]_allVars => (RowInv /\ AnnouncedOK)'
  <2> SUFFICES ASSUME RowInv, AnnouncedOK, [PageNext]_allVars
               PROVE  RowInv' /\ AnnouncedOK'
    OBVIOUS
  <2>1. RowInv' /\ Kinds
    BY Steps
  <2>2. ASSUME NEW r \in Requests, Emit(r)
        PROVE  AnnouncedOK'
    <3>1. ReqOK(req[r]) /\ SavesOK(req[r], rows[req[r].id], writes[req[r].id])
      BY DEF RowInv, RecordInv
    <3>2. req[r].pc = "emit" /\ KindOK(req[r])
      BY <2>2, <3>1 DEF Emit, ReqOK
    <3>3. req[r].kind = "settings" /\ req[r].id = User
      BY <3>2 DEF KindOK
    <3>4. /\ req[r].found \in Rows(User) /\ NamedOK(req[r])
          /\ req[r].saved = Saved(req[r].found, req[r].named)
      BY <3>1, <3>2, <3>3 DEF ReqOK, SavesOK, Updating
    <3>5. User \in Ids /\ Settings \subseteq FieldsOf[User]
      BY UserAssumption
    <3>6. req[r].saved \in Rows(User)
      BY <3>3, <3>4, <3>5, SavedIsRow DEF NamedOK
    <3>7. \A s \in Settings : req[r].saved[s] \in ValuesOf[s]
      BY <3>5, <3>6 DEF Rows
    <3>8. SettingsOf(req[r].saved) \in [Settings -> UNION {ValuesOf[s] : s \in Settings}]
      BY <3>7 DEF SettingsOf
    <3>9. announced' = announced \/ announced' = announced \cup {SettingsOf(req[r].saved)}
      BY <2>2 DEF Emit
    <3>10. QED
      BY <3>8, <3>9 DEF AnnouncedOK
  <2>3. ASSUME announced' = announced
        PROVE  AnnouncedOK'
    BY <2>3 DEF AnnouncedOK
  <2>4. QED
    BY <2>1, <2>2, <2>3 DEF Kinds, vars, Crash, Starts, Breaks, Same, CreateUserToken
<1>3. RowInv /\ AnnouncedOK => TypeOK
  <2> SUFFICES ASSUME RowInv, AnnouncedOK
               PROVE  TypeOK
    OBVIOUS
  <2>1. \A id \in Ids : rows[id] = Absent \/ IsRow(id, rows[id])
    BY DEF RowInv, RecordInv, Rows, IsRow
  <2>2. ASSUME NEW r \in Requests
        PROVE  /\ req[r].pc \in Points
               /\ req[r].pc \in {"find", "save", "write"} => req[r].id \in Ids
               /\ req[r].pc = "save" \/ req[r].pc = "write" =>
                     IsRow(req[r].id, req[r].saved) /\ req[r].seen <= writes[req[r].id]
               /\ req[r].pc = "emit" => IsRow(User, req[r].found) /\ IsRow(User, req[r].saved)
    <3>1. ReqOK(req[r]) /\ SavesOK(req[r], rows[req[r].id], writes[req[r].id])
      BY DEF RowInv, RecordInv
    <3>2. KindOK(req[r])
      BY <3>1 DEF ReqOK
    <3>3. req[r].pc \in Points /\ (req[r].pc \in {"find", "save", "write"} => req[r].id \in Ids)
      BY <3>2, UserAssumption DEF KindOK, Points
    <3>4. /\ req[r].kind \in Updating /\ req[r].pc \in {"save", "write", "emit"} =>
                req[r].found \in Rows(req[r].id) /\ req[r].saved \in Rows(req[r].id)
          /\ req[r].kind = "register" /\ req[r].pc = "write" => req[r].saved \in Rows(req[r].id)
      <4>1. req[r].kind \in Updating /\ req[r].pc \in {"save", "write", "emit"} =>
               /\ req[r].found \in Rows(req[r].id) /\ NamedOK(req[r])
               /\ req[r].saved = Saved(req[r].found, req[r].named) /\ req[r].id \in Ids
        BY <3>1, <3>2, KindsHaveIds DEF ReqOK, SavesOK
      <4>2. req[r].kind \in Updating /\ req[r].pc \in {"save", "write", "emit"} =>
               req[r].saved \in Rows(req[r].id)
        BY <4>1, SavedIsRow DEF NamedOK
      <4>3. QED
        BY <4>1, <4>2, WritesAreRows DEF RowInv
    <3>5. /\ req[r].pc \in {"save", "write"} => req[r].kind \in Updating \/
                                                (req[r].kind = "register" /\ req[r].pc = "write")
          /\ req[r].pc = "emit" => req[r].kind \in Updating /\ req[r].id = User
      BY <3>2 DEF KindOK, Updating
    <3>6. req[r].pc \in {"save", "write"} => req[r].seen <= writes[req[r].id]
      BY <3>1 DEF SavesOK
    <3>7. QED
      BY <3>3, <3>4, <3>5, <3>6 DEF Rows, IsRow
  <2>3. /\ writes \in [Ids -> Nat] /\ stale \in BOOLEAN /\ plaid \in BOOLEAN
        /\ faults \in 0..MaxFaults
    BY DEF RowInv, RecordInv, PlainOK
  <2>4. QED
    BY <2>1, <2>2, <2>3 DEF TypeOK, AnnouncedOK
<1>4. QED
  BY <1>1, <1>2, <1>3, PTL DEF PageSpec
=============================================================================
