--------------------------- MODULE RefreshTokens ---------------------------
(***************************************************************************)
(* The server's refresh tokens (auth.service.ts, user.service.ts).         *)
(*                                                                         *)
(* Logging in inserts a refresh_token row.  A rotation looks the token up, *)
(* saves it as revoked, inserts a new row for the same user and reads the  *)
(* user, each in a query of its own.  Logging out revokes one row, logging *)
(* out everywhere all live ones, each in a single UPDATE.  Access tokens   *)
(* are signed, not stored.                                                 *)
(*                                                                         *)
(* owner is history only: the login a row descends from.  The calls are    *)
(* started, and their answers taken, by BrowserSession.                    *)
(***************************************************************************)
EXTENDS Naturals, Sequences, FiniteSets

CONSTANTS
    Logins,       \* login calls, each made once
    Rotations,    \* refresh calls the server can have in progress
    MaxFaults,    \* bound on failed queries and lost answers
    MaxEndings    \* bound on the uses of "log out everywhere" and the refresh
                  \* tokens that get 30 days old

ASSUME TokenAssumption ==
    /\ Logins \cap Rotations = {}
    /\ MaxFaults \in Nat
    /\ MaxEndings \in Nat

VARIABLES
    tokens,     \* refresh_token rows, in the order they were inserted
    closed,     \* logins that logging out or 30 days have put to an end
    pc,         \* the await a call is at, or its answer
    old,        \* the row a rotation was given, 0: none
    new,        \* the row a call inserted, 0: none
    endings,
    faults

serverVars == <<tokens, closed, pc, old, new, endings, faults>>

Calls == Logins \cup Rotations

Token == [owner : Logins, revoked : BOOLEAN, expired : BOOLEAN]

Live(i) == ~tokens[i].revoked

ServerTypeOK ==
    /\ tokens \in Seq(Token)
    /\ closed \subseteq Logins
    /\ pc \in [Calls -> {"idle", "find", "revoke", "insert", "user",
                         "granted", "refused", "done"}]
    /\ old \in [Calls -> 0..Len(tokens)]
    /\ new \in [Calls -> 0..Len(tokens)]
    /\ \A l \in Logins : pc[l] \notin {"find", "revoke", "user"}
    /\ \A c \in Rotations :
          pc[c] \in {"find", "revoke", "insert", "user"} => old[c] # 0
    /\ \A c \in Calls : pc[c] \in {"user", "granted"} => new[c] # 0
    /\ endings \in 0..MaxEndings
    /\ faults \in 0..MaxFaults

ServerInit ==
    /\ tokens = <<>>
    /\ closed = {}
    /\ pc = [c \in Calls |-> "idle"]
    /\ old = [c \in Calls |-> 0]
    /\ new = [c \in Calls |-> 0]
    /\ endings = 0
    /\ faults = 0

Goto(c, step) == pc' = [pc EXCEPT ![c] = step]

(* login: the password was right *)
StartLogin(l) ==
    /\ pc[l] = "idle"
    /\ Goto(l, "insert")
    /\ UNCHANGED <<tokens, closed, old, new, endings, faults>>

(* refreshTokens with the given token; without one the answer is a 400 *)
StartRotation(c, i) ==
    /\ pc[c] = "idle"
    /\ old' = [old EXCEPT ![c] = i]
    /\ Goto(c, IF i = 0 THEN "refused" ELSE "find")
    /\ UNCHANGED <<tokens, closed, new, endings, faults>>

(* The answer reaches the browser. *)
End(c) ==
    /\ Goto(c, IF c \in Logins THEN "done" ELSE "idle")
    /\ old' = [old EXCEPT ![c] = 0]
    /\ new' = [new EXCEPT ![c] = 0]
    /\ UNCHANGED <<tokens, closed, endings, faults>>

(* rotateRefreshToken: a live row that has not expired, or a 401 *)
FindToken(c) ==
    /\ pc[c] = "find"
    /\ Goto(c, IF Live(old[c]) /\ ~tokens[old[c]].expired
                 THEN "revoke" ELSE "refused")
    /\ UNCHANGED <<tokens, closed, old, new, endings, faults>>

(* Mutant: the old row is left as it was *)
SaveUnchanged(c) ==
    /\ pc[c] = "revoke"
    /\ Goto(c, "insert")
    /\ UNCHANGED <<tokens, closed, old, new, endings, faults>>

SaveRevoked(c) ==
    /\ pc[c] = "revoke"
    /\ tokens' = [tokens EXCEPT ![old[c]].revoked = TRUE]
    /\ Goto(c, "insert")
    /\ UNCHANGED <<closed, old, new, endings, faults>>

Owner(c) == IF c \in Logins THEN c ELSE tokens[old[c]].owner

(* generateRefreshToken *)
InsertToken(c) ==
    /\ pc[c] = "insert"
    /\ tokens' = Append(tokens, [owner |-> Owner(c), revoked |-> FALSE,
                                 expired |-> FALSE])
    /\ new' = [new EXCEPT ![c] = Len(tokens) + 1]
    /\ Goto(c, IF c \in Logins THEN "granted" ELSE "user")
    /\ UNCHANGED <<closed, old, endings, faults>>

(* refreshTokens: the user, for the new access token *)
FindUser(c) ==
    /\ pc[c] = "user"
    /\ Goto(c, "granted")
    /\ UNCHANGED <<tokens, closed, old, new, endings, faults>>

(* A query throws, the process dies, or the answer is lost. *)
Fails(c) ==
    /\ pc[c] \in {"find", "revoke", "insert", "user", "granted"}
    /\ faults < MaxFaults
    /\ faults' = faults + 1
    /\ Goto(c, "refused")
    /\ UNCHANGED <<tokens, closed, old, new, endings>>

(* revokeToken *)
RevokeToken(i) ==
    /\ tokens' = [tokens EXCEPT ![i].revoked = TRUE]
    /\ closed' = closed \cup {tokens[i].owner}
    /\ UNCHANGED <<pc, old, new, endings, faults>>

(* revokeAllUserTokens, from another device *)
RevokeAll ==
    /\ endings < MaxEndings
    /\ endings' = endings + 1
    /\ tokens' = [i \in DOMAIN tokens |-> [tokens[i] EXCEPT !.revoked = TRUE]]
    /\ closed' = closed \cup {tokens[i].owner : i \in {j \in DOMAIN tokens : Live(j)}}
    /\ UNCHANGED <<pc, old, new, faults>>

(* expiresAt passes. *)
Expire(i) ==
    /\ ~tokens[i].expired
    /\ endings < MaxEndings
    /\ endings' = endings + 1
    /\ tokens' = [tokens EXCEPT ![i].expired = TRUE]
    /\ closed' = closed \cup {tokens[i].owner}
    /\ UNCHANGED <<pc, old, new, faults>>

CallStep(c) ==
    \/ FindToken(c)
    \/ SaveRevoked(c)
    \/ InsertToken(c)
    \/ FindUser(c)

ServerStep ==
    \/ \E c \in Calls : CallStep(c) \/ Fails(c)
    \/ RevokeAll
    \/ \E i \in DOMAIN tokens : Expire(i)

-----------------------------------------------------------------------------
(* Properties.                                                             *)

(* Rotation hands a session on: of the rows that descend from one login at *)
(* most one is live.  Holds while the rotations of a browser do not        *)
(* overlap.                                                                *)
OneLivePerLogin ==
    \A i, j \in DOMAIN tokens :
        Live(i) /\ Live(j) /\ tokens[i].owner = tokens[j].owner => i = j
=============================================================================
