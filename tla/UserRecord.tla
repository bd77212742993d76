----------------------------- MODULE UserRecord -----------------------------
(***************************************************************************)
(* A user's row (user.service.ts, user.controller.ts) beside the rows the  *)
(* user owns, and the request for a link that stores the Plaid user token  *)
(* in it (bank-link.service.ts initiateLinking, plaid.provider.ts          *)
(* initiateLinking and createUserToken).                                   *)
(*                                                                         *)
(* Plaid gives the token of a user once.  Settings and tokens are columns  *)
(* of the row: requests for both read and save it whole.                   *)
(***************************************************************************)
EXTENDS RecordUpdates

CONSTANTS
    User,       \* the id of the user's row
    Passwords,
    Settings,   \* fields of the settings
    Defaults,   \* DEFAULT_USER_SETTINGS
    Token,      \* Plaid's token of the user
    Owned,      \* rows that may be created
    MaxFaults   \* bound on the failures

ASSUME UserAssumption ==
    /\ User \in Ids
    /\ FieldsOf[User] = {"password", "token"} \cup Settings
    /\ {"password", "token"} \cap (Settings \cup Joins) = {}
    /\ \A s \in Settings : ColumnOf[s] \notin {ColumnOf["password"], ColumnOf["token"]}
    /\ Token # Null /\ {Token, Null} \subseteq ValuesOf["token"]
    /\ ValuesOf["password"] = Passwords
    /\ Defaults \in [Settings -> UNION {ValuesOf[s] : s \in Settings}]
    /\ \A s \in Settings : Defaults[s] \in ValuesOf[s]
    /\ \A u \in UpdatesOf[User] : DOMAIN u \subseteq Settings
    /\ Owned \subseteq Ids \ {User}
    /\ MaxFaults \in Nat

VARIABLES
    plaid,      \* has Plaid created its user?
    announced,  \* settings of the SETTINGS_UPDATED events
    faults

vars == <<recordVars, plaid, announced, faults>>

NewUser(password) ==
    [f \in FieldsOf[User] |->
       IF f = "password" THEN password ELSE IF f = "token" THEN Null ELSE Defaults[f]]

SettingsOf(row) == [s \in Settings |-> row[s]]

Points == {"new", "find", "save", "write", "done", "refused", "failed",
           "email", "emit", "details", "userToken", "linkToken", "pending"}

TypeOK ==
    /\ \A id \in Ids : rows[id] = Absent \/ IsRow(id, rows[id])
    /\ writes \in [Ids -> Nat]
    /\ \A r \in Requests :
          /\ req[r].pc \in Points
          /\ req[r].pc \in {"find", "save", "write"} => req[r].id \in Ids
          /\ req[r].pc = "save" \/ req[r].pc = "write" =>
                IsRow(req[r].id, req[r].saved) /\ req[r].seen <= writes[req[r].id]
          /\ req[r].pc = "emit" => IsRow(User, req[r].found) /\ IsRow(User, req[r].saved)
    /\ stale \in BOOLEAN
    /\ plaid \in BOOLEAN
    /\ announced \subseteq [Settings -> UNION {ValuesOf[s] : s \in Settings}]
    /\ faults \in 0..MaxFaults

Init ==
    /\ RecordInit
    /\ rows \in {[id \in Ids |-> IF id = User THEN user ELSE Absent] :
                   user \in {Absent} \cup {NewUser(p) : p \in Passwords}}
    /\ writes = [id \in Ids |-> 0]
    /\ plaid = FALSE
    /\ announced = {}
    /\ faults = 0

Same == UNCHANGED <<plaid, announced, faults>>
Fault == faults < MaxFaults /\ faults' = faults + 1
Exists == rows[User] # Absent

-----------------------------------------------------------------------------
(* Registration and login                                                  *)

BeginRegister(r, password) ==
    Begin(r, "register", User, [x \in {"password"} |-> password], "email", "done")

(* create: the email is looked up, the password hashed, the row inserted.  *)
FindEmail(r) ==
    /\ req[r].pc = "email"
    /\ Go(r, IF Exists THEN [req[r] EXCEPT !.pc = "refused"]
             ELSE [req[r] EXCEPT !.pc = "write", !.inserts = TRUE,
                                 !.seen = writes[User],
                                 !.saved = NewUser(req[r].named["password"])])
    /\ UNCHANGED <<rows, writes, stale>>

(* login: the row is read, then the password compared with its hash.       *)
Accepts(password) == Exists /\ rows[User]["password"] = password

Login(r, password) ==
    /\ req[r].pc = "new"
    /\ Go(r, [New EXCEPT !.pc = IF Accepts(password) THEN "done" ELSE "refused",
                         !.kind = "login"])
    /\ UNCHANGED <<rows, writes, stale>>

-----------------------------------------------------------------------------
(* Settings                                                                *)

(* updateSettings, of a user that is logged in                             *)
BeginSettings(r, update) ==
    /\ Exists
    /\ Begin(r, "settings", User, update, "find", "emit")

(* Mutant: tells only of a new currency                                    *)
EmitCurrency(r) ==
    /\ req[r].pc = "emit"
    /\ announced' = announced \cup
          IF "currency" \in DOMAIN req[r].named THEN {SettingsOf(req[r].saved)} ELSE {}
    /\ Go(r, [req[r] EXCEPT !.pc = "done"])
    /\ UNCHANGED <<rows, writes, stale, plaid, faults>>

(* The event, if the settings are other than the ones that were found      *)
Emit(r) ==
    /\ req[r].pc = "emit"
    /\ announced' = announced \cup
          IF \E s \in DOMAIN req[r].named : req[r].found[s] # req[r].saved[s]
            THEN {SettingsOf(req[r].saved)} ELSE {}
    /\ Go(r, [req[r] EXCEPT !.pc = "done"])
    /\ UNCHANGED <<rows, writes, stale, plaid, faults>>

-----------------------------------------------------------------------------
(* A request for a link                                                    *)

BeginLink(r) ==
    /\ Exists
    /\ Begin(r, "link", User, <<>>, "details", "pending")

(* getProviderDetails: a token there is is used again.                     *)
ReadDetails(r) ==
    /\ req[r].pc = "details"
    /\ Go(r, [req[r] EXCEPT !.pc =
                IF rows[User]["token"] = Null THEN "userToken" ELSE "linkToken"])
    /\ UNCHANGED <<rows, writes, stale>>

WithToken(q) == [q EXCEPT !.pc = "linkToken", !.named = [x \in {"token"} |-> Token]]

(* Plaid creates the user of a client_user_id once, and fails after that.  *)
CreateUserToken(r) ==
    /\ req[r].pc = "userToken"
    /\ plaid' = TRUE
    /\ Go(r, IF plaid THEN [req[r] EXCEPT !.pc = "failed"] ELSE WithToken(req[r]))
    /\ UNCHANGED <<rows, writes, stale, announced, faults>>

(* The user is created and the answer lost.                                *)
LoseUserToken(r) ==
    /\ req[r].pc = "userToken"
    /\ Fault
    /\ plaid' = TRUE
    /\ Go(r, [req[r] EXCEPT !.pc = "failed"])
    /\ UNCHANGED <<rows, writes, stale, announced>>

(* Mutant: the new token is not handed on                                  *)
CreateOnlyLinkToken(r) ==
    /\ req[r].pc = "linkToken"
    /\ Go(r, [req[r] EXCEPT !.pc = "pending"])
    /\ UNCHANGED <<rows, writes, stale>>

(* linkTokenCreate; then updateProviderDetails stores a new token.         *)
CreateLinkToken(r) ==
    /\ req[r].pc = "linkToken"
    /\ Go(r, [req[r] EXCEPT !.pc =
                IF "token" \in DOMAIN req[r].named THEN "find" ELSE "pending"])
    /\ UNCHANGED <<rows, writes, stale>>

(* createPending, and the answer                                           *)
CreatePending(r) ==
    /\ req[r].pc = "pending"
    /\ Go(r, [req[r] EXCEPT !.pc = "done"])
    /\ UNCHANGED <<rows, writes, stale>>

-----------------------------------------------------------------------------
(* A call of the request fails, before or after its effect.                *)
Fail(r) ==
    /\ Running(r)
    /\ Fault
    /\ Go(r, [req[r] EXCEPT !.pc = "failed"])
    /\ UNCHANGED <<rows, writes, stale, plaid, announced>>

Crash ==
    /\ ~Quiet
    /\ Fault
    /\ req' = [r \in Requests |->
                 IF Running(r) THEN [req[r] EXCEPT !.pc = "failed"] ELSE req[r]]
    /\ UNCHANGED <<rows, writes, stale, plaid, announced>>

UserStep(r) ==
    \/ \E p \in Passwords : BeginRegister(r, p) \/ Login(r, p)
    \/ FindEmail(r)
    \/ \E u \in UpdatesOf[User] : BeginSettings(r, u)
    \/ BeginLink(r)
    \/ ReadDetails(r)
    \/ CreateLinkToken(r)
    \/ CreatePending(r)

OwnedStep(r) ==
    \E id \in Owned :
       \/ \E u \in UpdatesOf[id] : BeginUpdate(r, id, u)
       \/ \E row \in [FieldsOf[id] -> UNION {ValuesOf[f] : f \in FieldsOf[id]}] :
             Create(r, id, row)
       \/ Remove(r, id)

Next ==
    \/ \E r \in Requests :
          \/ (SaveStep(r) \/ UserStep(r) \/ OwnedStep(r)) /\ Same
          \/ Emit(r)
          \/ CreateUserToken(r)
          \/ LoseUserToken(r)
          \/ Fail(r)
    \/ Crash

Spec == Init /\ [][Next]_vars

-----------------------------------------------------------------------------
(* Properties.                                                             *)

(* Whoever was told to be registered can log in with the password of that  *)
(* request, whatever else registers, fails or is saved at the same time    *)
(* (the look-up and the insert of create are a hash apart).                *)
RegisteredCanLogin ==
    \A r \in Requests :
        req[r].kind = "register" /\ req[r].pc = "done" => Accepts(req[r].named["password"])

(* The token is lost by a failure, or by the save of a row that was        *)
(* written since it was found, and by nothing else: two requests at once   *)
(* for a first link do not lose it.  Lost means that the user can never    *)
(* link again, for Plaid does not give it twice.                           *)
TokenKept ==
    Quiet /\ faults = 0 /\ ~stale /\ plaid => rows[User]["token"] = Token

(* Settings in effect were announced in an event or are the default,       *)
(* unless there was a failure or such a save.                              *)
SettingsAnnounced ==
    Quiet /\ faults = 0 /\ ~stale /\ Exists =>
        SettingsOf(rows[User]) \in announced \cup {Defaults}
=============================================================================
