---------------------------- MODULE SettingsPage ----------------------------
(***************************************************************************)
(* The settings page of the web client (routes/_authed/settings.tsx)       *)
(* beside the other requests on the user's row, UserRecord.                *)
(*                                                                         *)
(* The page fills its form from the user it has read and saves the whole   *)
(* form.  The user is read again now and then - when the window gets the   *)
(* focus, after a save - and the form filled again if the settings have    *)
(* changed.                                                                *)
(***************************************************************************)
EXTENDS UserRecord

CONSTANT MaxEdits  \* bound on the edits of the form

ASSUME PageAssumption == MaxEdits \in Nat

VARIABLES
    me,       \* the settings last read, if any were
    form,
    changed,  \* hasChanges
    saving,   \* the save in progress, if one is: its request, and the page's history
    page      \* history: what was edited, how often, and which row was read

pageVars == <<me, form, changed, saving, page>>
allVars == <<vars, pageVars>>

PageInit ==
    /\ Init
    /\ me = {}
    /\ form = Defaults
    /\ changed = FALSE
    /\ saving = {}
    /\ page = [edited |-> {}, edits |-> 0, read |-> 0]

(* Mutant: fills the form once                                             *)
FillOnce(settings) ==
    IF me = {} THEN form' = settings /\ page' = [page EXCEPT !.edited = {}, !.read = writes[User]]
    ELSE form' = form /\ page' = [page EXCEPT !.read = writes[User]]

(* The effect on the settings: an answer equal to the last one keeps the   *)
(* object, and the form.                                                   *)
Fill(settings) ==
    IF settings \in me THEN form' = form /\ page' = [page EXCEPT !.read = writes[User]]
    ELSE form' = settings /\ page' = [page EXCEPT !.edited = {}, !.read = writes[User]]

(* The user is read.                                                       *)
ReadMe ==
    /\ Exists
    /\ page.read # writes[User] \/ me = {}
    /\ Fill(SettingsOf(rows[User]))
    /\ me' = {SettingsOf(rows[User])}
    /\ changed' = (form' # SettingsOf(rows[User]))
    /\ UNCHANGED <<vars, saving>>

(* One of the selections, or the browser's timezone                        *)
Edit(s, v) ==
    /\ page.edits < MaxEdits
    /\ v # form[s]
    /\ form' = [form EXCEPT ![s] = v]
    /\ changed' = ({form'} # me)
    /\ page' = [page EXCEPT !.edited = @ \cup {s}, !.edits = @ + 1]
    /\ me # {}
    /\ UNCHANGED <<vars, me, saving>>

(* handleSave; the button is disabled without changes and during a save.   *)
Save(r) ==
    /\ changed
    /\ saving = {}
    /\ BeginSettings(r, form)
    /\ saving' = {[request |-> r, page |-> page]}
    /\ UNCHANGED <<plaid, announced, faults, me, form, changed, page>>

(* The answer: on success nothing counts as changed, until the user is     *)
(* read again or the form edited.                                          *)
Saves ==
    \E s \in saving :
        /\ ~Running(s.request)
        /\ saving' = {}
        /\ changed' = (changed /\ req[s.request].pc # "done")
        /\ UNCHANGED <<vars, me, form, page>>

PageNext ==
    \/ Next /\ UNCHANGED pageVars
    \/ ReadMe
    \/ \E s \in Settings : \E v \in ValuesOf[s] : Edit(s, v)
    \/ \E r \in Requests : Save(r)
    \/ Saves

PageSpec == PageInit /\ [][PageNext]_allVars

-----------------------------------------------------------------------------
(* Properties.                                                             *)

(* A setting changes only to what a request asks for, and when the form is *)
(* saved only by an edit, although the whole form is sent: otherwise the   *)
(* row was written after the request found it, or after the page had read  *)
(* it.                                                                     *)
OnlyEditsChange ==
    [][\A r \in Requests, s \in Settings :
         Finishes(r) /\ req[r].id = User /\ ~req[r].inserts /\ ~IsStale(r)
         /\ rows'[User][s] # rows[User][s] =>
            /\ s \in DOMAIN req[r].named /\ rows'[User][s] = req[r].named[s]
            /\ \A save \in saving :
                  save.request = r => s \in save.page.edited \/ save.page.read < writes[User]]_allVars
=============================================================================
