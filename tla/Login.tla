------------------------------- MODULE Login -------------------------------
(***************************************************************************)
(* How one user logs in, and how the user's signing key is rotated on the  *)
(* way: LoginController.Login (POST /v1/auth/login),                       *)
(* TwoFaController.TwoFALoginConfirm (POST /v1/auth/twofa/login/confirm)   *)
(* and GetUserKeyPair and GenerateKeyPair, which both call.                *)
(*                                                                         *)
(* Nothing here runs in a database transaction: every SELECT, UPDATE,      *)
(* INSERT and Redis command commits on its own, so the steps of several    *)
(* logins of the same user interleave at each of them.                     *)
(*                                                                         *)
(* A login generates one key at most; the key is named after the login.    *)
(***************************************************************************)
EXTENDS Integers, FiniteSets

CONSTANTS Passwords,  \* requests to /login
          Strangers,  \* those with an email no account has
          Confirms,   \* requests to /twofa/login/confirm
          NoKey,      \* no row in Keys
          Failing     \* bound: the requests that meet errors during a run

Requests == Passwords \cup Confirms
Keys == Requests

ASSUME LoginAssumption ==
    /\ Passwords \cap Confirms = {}
    /\ Strangers \subseteq Passwords
    /\ NoKey \notin Requests
    /\ Failing \subseteq Requests

VARIABLES
    \* PostgreSQL
    verified,   \* Users.is_verified
    secondFactor, \* Users.two_factor_auth: NULL, a secret, or "" once disabled
    active,     \* the row of Keys with active = TRUE
    retired,    \* the row of Keys with active = FALSE
    \* Redis
    tokens,     \* two_fa_temp_*, named after the login that set them
    sessions,   \* session_*, named after the request that set them
    \* the clock
    aged,       \* the keys older than KEY_VALIDITY_TIME_HOURS
    \* the goroutine of each request
    pc,         \* what it does next
    token,      \* the temp_session cookie a confirmation came with
    chosen,     \* keyPair: the key it is going to certify
    answer,     \* the HTTP answer
    \* history
    interrupted \* the requests that ended between UPDATE and INSERT in this gap

userVars == <<verified, secondFactor>>
keyVars == <<active, retired, interrupted>>
redisVars == <<tokens, sessions>>
vars == <<userVars, keyVars, redisVars, aged, pc, token, chosen, answer>>

-----------------------------------------------------------------------------
(* Values *)

Steps == {"idle", "query", "issueToken", "getToken", "fetch", "deactivate", "insert",
          "session", "dropToken", "done"}

\* "empty" is an answer without a body, which the phone cannot decode.
Statuses == {"none", "202", "2fa", "401", "403", "500", "empty"}
Answers == [status : Statuses, key : Keys \cup {NoKey}, primary : BOOLEAN]
Unanswered == [status |-> "none", key |-> NoKey, primary |-> FALSE]

Stored == {active, retired} \ {NoKey}

TypeOK ==
    /\ verified \in BOOLEAN
    /\ secondFactor \in {"null", "secret", "empty"}
    /\ active \in Keys \cup {NoKey}
    /\ retired \in Keys \cup {NoKey}
    /\ tokens \subseteq Passwords
    /\ sessions \subseteq Requests
    /\ aged \subseteq Keys
    /\ pc \in [Requests -> Steps]
    /\ token \in [Confirms -> Requests]
    /\ chosen \in [Requests -> Keys \cup {NoKey}]
    /\ answer \in [Requests -> Answers]
    /\ interrupted \subseteq Failing

-----------------------------------------------------------------------------

Init ==
    /\ verified = FALSE
    /\ secondFactor = "null"
    /\ active = NoKey
    /\ retired = NoKey
    /\ tokens = {}
    /\ sessions = {}
    /\ aged = {}
    /\ pc = [r \in Requests |-> "idle"]
    /\ token = [c \in Confirms |-> c]
    /\ chosen = [r \in Requests |-> NoKey]
    /\ answer = [r \in Requests |-> Unanswered]
    /\ interrupted = {}

Goto(r, from, to) ==
    /\ pc[r] = from
    /\ pc' = [pc EXCEPT ![r] = to]

\* The requests of S end where they are: those that were about to insert a key
\* leave the user without one.
Interrupted(S) ==
    IF active = NoKey THEN interrupted \cup {r \in S : pc[r] = "insert"} ELSE interrupted

\* AbortWithStatusJSON and `return`.
Refuse(r, status) ==
    /\ pc' = [pc EXCEPT ![r] = "done"]
    /\ answer' = [answer EXCEPT ![r].status = status]
    /\ interrupted' = Interrupted({r})
    /\ UNCHANGED <<userVars, active, retired, redisVars, aged, token, chosen>>

-----------------------------------------------------------------------------
(* Login: the password *)

ReceivePassword(r) ==
    /\ r \in Passwords
    /\ Goto(r, "idle", "query")
    /\ UNCHANGED <<userVars, keyVars, redisVars, aged, token, chosen, answer>>

\* SELECT the user by email, VerifyPassword, is_verified, two_factor_auth.
CheckPassword(r) ==
    /\ r \in Passwords \ Strangers
    /\ verified
    /\ Goto(r, "query", IF secondFactor = "secret" THEN "issueToken" ELSE "fetch")
    /\ UNCHANGED <<userVars, keyVars, redisVars, aged, token, chosen, answer>>

\* The driver reports pgx.ErrNoRows, which is not the sql.ErrNoRows that the
\* 401 branch compares with: the next test of the error answers.
UnknownEmail(r) ==
    /\ r \in Strangers
    /\ pc[r] = "query"
    /\ Refuse(r, "500")

WrongPassword(r) ==
    /\ r \in Passwords \ Strangers
    /\ pc[r] = "query"
    /\ Refuse(r, "401")

NotVerified(r) ==
    /\ r \in Passwords \ Strangers
    /\ pc[r] = "query"
    /\ ~verified
    /\ Refuse(r, "403")

\* CreateTwoFATempToken.
IssueToken(r) ==
    /\ r \in Passwords
    /\ Goto(r, "issueToken", "done")
    /\ tokens' = tokens \cup {r}
    /\ answer' = [answer EXCEPT ![r].status = "2fa"]
    /\ UNCHANGED <<userVars, keyVars, sessions, aged, token, chosen>>

-----------------------------------------------------------------------------
(* TwoFALoginConfirm: the second factor *)

\* The phone presents a token some login answered with.
ReceiveConfirm(c) ==
    /\ c \in Confirms
    /\ Goto(c, "idle", "getToken")
    /\ \E l \in Passwords : /\ answer[l].status = "2fa"
                            /\ token' = [token EXCEPT ![c] = l]
    /\ UNCHANGED <<userVars, keyVars, redisVars, aged, chosen, answer>>

GetToken(c) ==
    /\ c \in Confirms
    /\ Goto(c, "getToken", "query")
    /\ token[c] \in tokens
    /\ UNCHANGED <<userVars, keyVars, redisVars, aged, token, chosen, answer>>

TokenGone(c) ==
    /\ pc[c] = "getToken"
    /\ token[c] \notin tokens
    /\ Refuse(c, "500")

\* SELECT the user by id and validate the passcode.
CheckPasscode(c) ==
    /\ c \in Confirms
    /\ secondFactor # "null"
    /\ Goto(c, "query", "fetch")
    /\ UNCHANGED <<userVars, keyVars, redisVars, aged, token, chosen, answer>>

WrongPasscode(c) ==
    /\ c \in Confirms
    /\ pc[c] = "query"
    /\ Refuse(c, "401")

-----------------------------------------------------------------------------
(* The key: GetUserKeyPair, then GenerateKeyPair if there is none in time *)

Usable(k) == k # NoKey /\ k \notin aged

FetchKey(r) ==
    /\ Goto(r, "fetch", IF Usable(active) THEN "session" ELSE "deactivate")
    /\ chosen' = [chosen EXCEPT ![r] = IF Usable(active) THEN active ELSE NoKey]
    /\ UNCHANGED <<userVars, keyVars, redisVars, aged, token, answer>>

\* UPDATE keys SET active = false WHERE ... AND active = true: no row, or one.
Deactivate(r) ==
    /\ Goto(r, "deactivate", "insert")
    /\ active = NoKey \/ retired = NoKey
    /\ retired' = IF active = NoKey THEN retired ELSE active
    /\ active' = NoKey
    /\ UNCHANGED <<userVars, interrupted, redisVars, aged, token, chosen, answer>>

\* Mutant of DeactivateViolates: the UPDATE is retried until it succeeds.
DeactivateRetried(r) ==
    /\ pc[r] = "deactivate"
    /\ active # NoKey /\ retired # NoKey
    /\ UNCHANGED vars

\* The row would become the second inactive one: UNIQUE (associated_user, active).
DeactivateViolates(r) ==
    /\ pc[r] = "deactivate"
    /\ active # NoKey /\ retired # NoKey
    /\ Refuse(r, "500")

\* Mutant of InsertKey: an upsert, which takes the row another login inserted.
UpsertKey(r) ==
    /\ Goto(r, "insert", "session")
    /\ active' = r
    /\ chosen' = [chosen EXCEPT ![r] = r]
    /\ interrupted' = {}
    /\ UNCHANGED <<userVars, retired, redisVars, aged, token, answer>>

\* Mutant of InsertKey: the column list without `active`, whose default is FALSE.
InsertInactive(r) ==
    /\ pc[r] = "insert"
    /\ active = NoKey
    /\ retired = NoKey => retired' = r /\ Goto(r, "insert", "session")
    /\ retired # NoKey => retired' = retired /\ Goto(r, "insert", "done")
    /\ chosen' = [chosen EXCEPT ![r] = r]
    /\ UNCHANGED <<userVars, active, interrupted, redisVars, aged, token, answer>>

\* INSERT INTO keys ... VALUES (_, true, _)
InsertKey(r) ==
    /\ Goto(r, "insert", "session")
    /\ active = NoKey
    /\ active' = r
    /\ chosen' = [chosen EXCEPT ![r] = r]
    /\ interrupted' = {}
    /\ UNCHANGED <<userVars, retired, redisVars, aged, token, answer>>

\* Mutant of InsertViolates: the error of the INSERT is not looked at, so the
\* key that was not stored is certified.
InsertUnchecked(r) ==
    /\ Goto(r, "insert", "session")
    /\ active # NoKey
    /\ chosen' = [chosen EXCEPT ![r] = r]
    /\ UNCHANGED <<userVars, keyVars, redisVars, aged, token, answer>>

\* Another login has inserted its key since this one deactivated.
InsertViolates(r) ==
    /\ pc[r] = "insert"
    /\ active # NoKey
    /\ Refuse(r, "500")

-----------------------------------------------------------------------------
(* The session and the answer *)

\* Mutant of Success: StatusOK in the place of StatusAccepted.
SuccessPlain(r) == [status |-> "200", key |-> chosen[r], primary |-> chosen[r] = r]

\* Mutant of Success: sendOnlyPub is never reset.
SuccessPublicOnly(r) == [status |-> "202", key |-> chosen[r], primary |-> FALSE]

\* sendOnlyPub is false exactly when GenerateKeyPair was called.
Success(r) == [status |-> "202", key |-> chosen[r], primary |-> chosen[r] = r]

GenerateSession(r) ==
    /\ pc[r] = "session"
    /\ sessions' = sessions \cup {r}
    /\ IF r \in Confirms
       THEN /\ pc' = [pc EXCEPT ![r] = "dropToken"]
            /\ UNCHANGED answer
       ELSE /\ pc' = [pc EXCEPT ![r] = "done"]
            /\ answer' = [answer EXCEPT ![r] = Success(r)]
    /\ UNCHANGED <<userVars, keyVars, tokens, aged, token, chosen>>

DropToken(c) ==
    /\ Goto(c, "dropToken", "done")
    /\ tokens' = tokens \ {token[c]}
    /\ answer' = [answer EXCEPT ![c] = Success(c)]
    /\ UNCHANGED <<userVars, keyVars, sessions, aged, token, chosen>>

-----------------------------------------------------------------------------
(* What fails, and what happens meanwhile *)

\* A confirmation does not look at the error of its SELECT and finds no
\* second factor; a failed DEL returns without a body.  A statement that took
\* effect before its connection broke is the step followed by this one.
StatementFails(r) ==
    /\ pc[r] \notin {"idle", "done"}
    /\ Refuse(r, CASE pc[r] = "dropToken" -> "empty"
                   [] pc[r] = "query" /\ r \in Confirms -> "401"
                   [] OTHER -> "500")

\* The API process dies: nobody is answered.
ServerCrash ==
    /\ \E r \in Requests : pc[r] \notin {"idle", "done"}
    /\ \A r \in Requests : pc[r] \notin {"idle", "done"} => r \in Failing
    /\ pc' = [r \in Requests |-> IF pc[r] = "idle" THEN "idle" ELSE "done"]
    /\ interrupted' = Interrupted(Requests)
    /\ UNCHANGED <<userVars, active, retired, redisVars, aged, token, chosen, answer>>

Verify ==
    /\ ~verified
    /\ verified' = TRUE
    /\ UNCHANGED <<secondFactor, keyVars, redisVars, aged, pc, token, chosen, answer>>

EnableSecondFactor ==
    /\ verified
    /\ secondFactor # "secret"
    /\ secondFactor' = "secret"
    /\ UNCHANGED <<verified, keyVars, redisVars, aged, pc, token, chosen, answer>>

DisableSecondFactor ==
    /\ verified
    /\ secondFactor' = "empty"
    /\ UNCHANGED <<verified, keyVars, redisVars, aged, pc, token, chosen, answer>>

TokenExpires(l) ==
    /\ l \in tokens
    /\ tokens' = tokens \ {l}
    /\ UNCHANGED <<userVars, keyVars, sessions, aged, pc, token, chosen, answer>>

KeyAges ==
    /\ active # NoKey
    /\ active \notin aged
    /\ aged' = aged \cup {active}
    /\ UNCHANGED <<userVars, keyVars, redisVars, pc, token, chosen, answer>>

-----------------------------------------------------------------------------
(* The specification *)

Handle(r) ==
    \/ CheckPassword(r) \/ UnknownEmail(r) \/ WrongPassword(r) \/ NotVerified(r) \/ IssueToken(r)
    \/ GetToken(r) \/ TokenGone(r) \/ CheckPasscode(r) \/ WrongPasscode(r)
    \/ FetchKey(r) \/ Deactivate(r) \/ DeactivateViolates(r)
    \/ InsertKey(r) \/ InsertViolates(r)
    \/ GenerateSession(r) \/ DropToken(r)

Environment ==
    \/ Verify \/ EnableSecondFactor \/ DisableSecondFactor
    \/ \E l \in Passwords : TokenExpires(l)
    \/ KeyAges

Next ==
    \/ \E r \in Requests : ReceivePassword(r) \/ ReceiveConfirm(r) \/ Handle(r)
    \/ \E r \in Failing : StatementFails(r)
    \/ ServerCrash
    \/ Environment

Spec == Init /\ [][Next]_vars

LiveSpec == Spec /\ \A r \in Requests : WF_vars(Handle(r))

-----------------------------------------------------------------------------
(* Properties *)

\* An error or a crash may have ended the request: it ended without success.
Fell(r) == r \in Failing /\ pc[r] = "done" /\ answer[r].status # "202"

\* The key a login is about to certify, or has certified, is a row of Keys: a
\* TAM signed with it can later be matched with what the server stored.
CertifiedKeysAreStored ==
    \A r \in Requests :
        pc[r] \in {"session", "dropToken"} \/ answer[r].status = "202" =>
            chosen[r] \in Stored

\* GenerateKeyPair retires the old key in one commit and inserts the new one in
\* another.  In between the user has no active key, and every payment of the
\* user fails to settle; such a gap lasts only while some login is between
\* the two statements, or because an error or a crash ended one right there,
\* in this gap and not in an earlier one: a login that failed anywhere else
\* (wrong password, another statement) leaves no gap.
KeyGapsAreRotations ==
    active = NoKey /\ Stored # {} =>
        interrupted # {} \/ \E r \in Requests : pc[r] = "insert"

\* The server gives a private key away once, in the answer of the login that
\* generated it.  A key whose login did not get that far would lock every
\* phone of the user out of paying until it ages: with concurrent logins that
\* refuse each other's rows, only an error that ends the very login that
\* inserted the key, after its INSERT, strands it.
NoKeyIsStranded ==
    \A k \in Stored :
        \/ pc[k] \in {"session", "dropToken"}
        \/ answer[k] = [status |-> "202", key |-> k, primary |-> TRUE]
        \/ Fell(k)

\* The two keys of a user only move forward, whatever overlaps.
Registry == INSTANCE KeyRegistry
RegistrySpec == Registry!Spec

\* Concurrent logins cannot leave each other without an answer.
EveryLoginAnswered == \A r \in Requests : pc[r] # "idle" ~> pc[r] = "done"

\* A user whose key was retired gets a new one, unless errors or a crash end
\* every login that is between its UPDATE and its INSERT: whatever becomes of
\* the other logins, one of these is enough.
KeyComesBack ==
    active = NoKey /\ retired # NoKey ~>
        \/ active # NoKey
        \/ interrupted # {} /\ \A r \in Requests : pc[r] # "insert"

\* "Make the previous active key inactive" (keys.go): once GenerateKeyPair is
\* past its UPDATE, the key that was active when it started is not any more.
PreviousKeyMadeInactive ==
    [][\A r \in Requests :
          pc[r] = "deactivate" /\ pc'[r] # "deactivate" => active' = NoKey]_vars
=============================================================================
