---------------------------- MODULE RecordUpdates ----------------------------
(***************************************************************************)
(* Rows that requests update (common/owned-crud.service.ts, through which  *)
(* the transactions and accounts go, and the same find - change - save of  *)
(* user.service.ts).                                                       *)
(*                                                                         *)
(* An update finds the row, changes the named fields of the entity and     *)
(* saves the entity whole.  The ORM's save reads the row again and writes  *)
(* the columns in which the entity differs from it, and inserts the entity *)
(* if the row is gone.  The value it takes for a foreign key is that of    *)
(* the relation loaded with the entity, if one is.                         *)
(***************************************************************************)
EXTENDS Naturals, FiniteSets

CONSTANTS
    Requests,  \* requests to the API, each used once
    Ids,       \* rows' ids
    FieldsOf,  \* what a row of an id consists of
    ColumnOf,  \* fields' columns: those of a jsonb column share it
    Joins,     \* foreign keys whose relation is loaded
    ValuesOf,  \* fields' values
    UpdatesOf, \* updates of a row: functions on some of its fields
    Null, Absent

ASSUME RecordAssumption ==
    /\ \A id \in Ids : Absent \notin [FieldsOf[id] -> UNION {ValuesOf[f] : f \in FieldsOf[id]}]
    /\ \A id \in Ids : \A u \in UpdatesOf[id] :
          DOMAIN u \subseteq FieldsOf[id] /\ \A f \in DOMAIN u : u[f] \in ValuesOf[f]

VARIABLES
    rows,
    writes,  \* of a row so far, the deletion included
    req,
    stale    \* has a row been saved that was written since it was found?

recordVars == <<rows, writes, req, stale>>

(* next is the point after the save; inserts says whether save found no    *)
(* row to update.                                                          *)
New == [pc |-> "new", kind |-> "none", id |-> Null, named |-> <<>>,
        found |-> Absent, saved |-> Absent, seen |-> 0, differs |-> {}, inserts |-> FALSE, next |-> "done"]

Over == {"done", "refused", "failed"}
Running(r) == req[r].pc \notin Over \cup {"new"}
Quiet == \A r \in Requests : ~Running(r)

IsRow(id, row) ==
    DOMAIN row = FieldsOf[id] /\ \A f \in FieldsOf[id] : row[f] \in ValuesOf[f]

RecordInit ==
    /\ req = [r \in Requests |-> New]
    /\ stale = FALSE

Go(r, record) == req' = [req EXCEPT ![r] = record]

Begin(r, kind, id, named, pc, next) ==
    /\ req[r].pc = "new"
    /\ Go(r, [New EXCEPT !.pc = pc, !.kind = kind, !.id = id, !.named = named,
                         !.next = next])
    /\ UNCHANGED <<rows, writes, stale>>

-----------------------------------------------------------------------------
(* update                                                                  *)

(* Mutant: fields that are not named are left out                          *)
SavedNamed(row, named) ==
    [f \in DOMAIN row |-> IF f \in DOMAIN named THEN named[f] ELSE Null]

(* What save takes for the fields of the entity, after applyUpdate: named  *)
(* foreign keys give way to the relation that was loaded.                  *)
Saved(row, named) ==
    [f \in DOMAIN row |->
       IF f \in DOMAIN named /\ (f \in Joins => row[f] = Null) THEN named[f]
       ELSE row[f]]

(* Mutant: takes up an entity that is not there                            *)
FindOrNew(r) ==
    /\ req[r].pc = "find"
    /\ LET id == req[r].id
           row == IF rows[id] = Absent THEN [f \in FieldsOf[id] |-> Null] ELSE rows[id]
       IN  Go(r, [req[r] EXCEPT !.pc = "save", !.seen = writes[id], !.found = row,
                                !.saved = Saved(row, req[r].named)])
    /\ UNCHANGED <<rows, writes, stale>>

(* findOne of the id and the user: none is refused with 404.               *)
Find(r) ==
    /\ req[r].pc = "find"
    /\ LET id == req[r].id IN
       Go(r, IF rows[id] = Absent THEN [req[r] EXCEPT !.pc = "refused"]
             ELSE [req[r] EXCEPT !.pc = "save", !.seen = writes[id], !.found = rows[id],
                                 !.saved = Saved(rows[id], req[r].named)])
    /\ UNCHANGED <<rows, writes, stale>>

Differing(row, saved) == {ColumnOf[f] : f \in {g \in DOMAIN saved : row[g] # saved[g]}}

(* save: the row is read again; nothing is written if nothing differs.     *)
Reread(r) ==
    /\ req[r].pc = "save"
    /\ LET row == rows[req[r].id]
           differs == Differing(row, req[r].saved)
       IN  Go(r, IF row = Absent THEN [req[r] EXCEPT !.pc = "write", !.inserts = TRUE]
                 ELSE IF differs = {} THEN [req[r] EXCEPT !.pc = req[r].next]
                 ELSE [req[r] EXCEPT !.pc = "write", !.differs = differs])
    /\ UNCHANGED <<rows, writes, stale>>

Overwritten(row, q) ==
    [f \in DOMAIN row |-> IF ColumnOf[f] \in q.differs THEN q.saved[f] ELSE row[f]]

IsStale(r) == req[r].seen < writes[req[r].id]

Store(r, row) ==
    /\ rows' = [rows EXCEPT ![req[r].id] = row]
    /\ writes' = [writes EXCEPT ![req[r].id] = @ + 1]
    /\ stale' = (stale \/ IsStale(r))
    /\ Go(r, [req[r] EXCEPT !.pc = req[r].next])

UpdateRow(r) ==
    /\ req[r].pc = "write" /\ ~req[r].inserts
    /\ rows[req[r].id] # Absent
    /\ Store(r, Overwritten(rows[req[r].id], req[r]))

(* An UPDATE of a row that is gone changes none and is no error.           *)
UpdateNone(r) ==
    /\ req[r].pc = "write" /\ ~req[r].inserts
    /\ rows[req[r].id] = Absent
    /\ Go(r, [req[r] EXCEPT !.pc = req[r].next])
    /\ UNCHANGED <<rows, writes, stale>>

(* Mutant: replaces a row there is                                         *)
InsertAlways(r) ==
    /\ req[r].pc = "write" /\ req[r].inserts
    /\ Store(r, req[r].saved)

InsertRow(r) ==
    /\ req[r].pc = "write" /\ req[r].inserts
    /\ rows[req[r].id] = Absent
    /\ Store(r, req[r].saved)

(* The key is taken: the id, or the email.                                 *)
InsertClash(r) ==
    /\ req[r].pc = "write" /\ req[r].inserts
    /\ rows[req[r].id] # Absent
    /\ Go(r, [req[r] EXCEPT !.pc = "failed"])
    /\ UNCHANGED <<rows, writes, stale>>

SaveStep(r) ==
    \/ Find(r)
    \/ Reread(r)
    \/ UpdateRow(r)
    \/ UpdateNone(r)
    \/ InsertRow(r)
    \/ InsertClash(r)

-----------------------------------------------------------------------------
(* The other operations.                                                   *)

BeginUpdate(r, id, named) == Begin(r, "update", id, named, "find", "done")

(* create: an id that was never there, the fields of fromDto               *)
Create(r, id, row) ==
    /\ req[r].pc = "new"
    /\ rows[id] = Absent /\ writes[id] = 0
    /\ IsRow(id, row)
    /\ rows' = [rows EXCEPT ![id] = row]
    /\ writes' = [writes EXCEPT ![id] = 1]
    /\ Go(r, [New EXCEPT !.pc = "done", !.kind = "create", !.id = id])
    /\ UNCHANGED stale

(* remove: one DELETE of the id and the user                               *)
Remove(r, id) ==
    /\ req[r].pc = "new"
    /\ IF rows[id] = Absent
         THEN UNCHANGED <<rows, writes>>
         ELSE /\ rows' = [rows EXCEPT ![id] = Absent]
              /\ writes' = [writes EXCEPT ![id] = @ + 1]
    /\ Go(r, [New EXCEPT !.pc = IF rows[id] = Absent THEN "refused" ELSE "done",
                         !.kind = "remove", !.id = id])
    /\ UNCHANGED stale

-----------------------------------------------------------------------------
(* Properties.                                                             *)

Finishes(r) == req[r].pc = "write" /\ req'[r].pc = req[r].next

(* A save does what the update says and nothing else, unless the row was   *)
(* written after it was found: the named fields have their values, but for *)
(* foreign keys with a loaded relation, and no other field changes.        *)
FreshSavesUpdate ==
    [][\A r \in Requests :
         LET id == req[r].id
             q == req[r]
         IN  Finishes(r) /\ ~q.inserts /\ ~IsStale(r) =>
               /\ rows'[id] # Absent
               /\ \A f \in FieldsOf[id] :
                     rows'[id][f] = IF f \in DOMAIN q.named /\ (f \in Joins => rows[id][f] = Null)
                                      THEN q.named[f] ELSE rows[id][f]]_recordVars

(* A row that was removed comes back only by an update that found it       *)
(* before; a row that is there goes only by a remove.                      *)
RemovedStays ==
    [][\A id \in Ids :
         /\ rows[id] = Absent /\ writes[id] > 0 /\ rows'[id] # Absent =>
              \E r \in Requests : req[r].id = id /\ Finishes(r) /\ IsStale(r)
         /\ rows[id] # Absent /\ rows'[id] = Absent =>
              \E r \in Requests : req[r].pc = "new" /\ req'[r].kind = "remove"]_recordVars
=============================================================================
