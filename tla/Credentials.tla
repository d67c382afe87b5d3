---------------------------- MODULE Credentials ----------------------------
(***************************************************************************)
(* The life of one email address on the server: registration, the codes    *)
(* mailed to it, its password, its second factor and its session.          *)
(*                                                                         *)
(* RegisterController, ResendVerificationController, VerifyController,     *)
(* PasswordRecoveryController, PasswordChangeController, the enabling and  *)
(* disabling half of TwoFaController and LogoutController, with the Redis  *)
(* helpers of tokens.go.  Registration has a database transaction; every   *)
(* other SELECT, UPDATE and Redis command commits by itself, so the        *)
(* requests interleave at each of them.                                    *)
(*                                                                         *)
(* A code is named after the request that generated it and a second-factor *)
(* secret after the request to enable it: the 6 digits of two codes differ *)
(* here, and nobody guesses them.                                          *)
(***************************************************************************)
EXTENDS FiniteSets

CONSTANTS Registers, Resends, Verifies,   \* the requests of each kind
          Recovers, Resets, Changes,
          Enables, Confirms, Disables, Logouts,
          Passwords,  \* what the user may choose
          None,       \* no row, no key, no code
          Failing,    \* bound: the requests that meet errors during a run
          Mixes       \* bound: the requests that come, one of these sets

Verifying == Registers \cup Resends
Codes == Verifying \cup Recovers
Guarded == Changes \cup Enables \cup Confirms \cup Disables \cup Logouts
Requests == Codes \cup Verifies \cup Resets \cup Guarded

\* Each kind has requests of its own.
ASSUME CredentialsAssumption ==
    /\ Registers \cap (Resends \cup Recovers \cup Verifies \cup Resets \cup Guarded) = {}
    /\ Resends \cap (Recovers \cup Verifies \cup Resets \cup Guarded) = {}
    /\ Recovers \cap (Verifies \cup Resets \cup Guarded) = {}
    /\ Verifies \cap (Resets \cup Guarded) = {}
    /\ Resets \cap Guarded = {}
    /\ Changes \cap (Enables \cup Confirms \cup Disables \cup Logouts) = {}
    /\ Enables \cap (Confirms \cup Disables \cup Logouts) = {}
    /\ Confirms \cap (Disables \cup Logouts) = {}
    /\ Disables \cap Logouts = {}
    /\ None \notin Requests \cup Passwords
    /\ Failing \subseteq Requests
    /\ Mixes \subseteq SUBSET Requests

VARIABLES
    \* PostgreSQL
    user,      \* the registration whose Users row is committed
    account,   \* the registration whose Accounts row is committed
    password,  \* Users.password
    verified,  \* Users.is_verified
    secondFactor, \* Users.two_factor_auth; None for NULL and for ""
    \* Redis
    code,      \* verification_* and reset_*
    enabling,  \* two_fa_enable_temp_*
    session,   \* session_*, the one whose cookie the requests carry
    \* the mailbox
    mailed,    \* the codes that have been delivered
    spent,     \* the codes some request has used and deleted
    \* the goroutine of each request
    pc,        \* what it does next
    shown,     \* the code or the secret it came with
    chosen,    \* the new password it came with
    answer     \* the HTTP answer

row == <<user, account, password, verified, secondFactor>>
redis == <<code, enabling, session>>
mailbox == <<mailed, spent>>
input == <<shown, chosen>>
vars == <<row, redis, mailbox, pc, input, answer>>

-----------------------------------------------------------------------------
(* Values *)

Purposes == {"verify", "reset"}
Purpose(r) == IF r \in Verifying \cup Verifies THEN "verify" ELSE "reset"

Steps == {"idle", "query", "insert", "account", "commit", "store", "mail",
          "session", "read", "get", "drop", "write", "done"}
\* "empty" is an answer without a body.
Statuses == {"none", "200", "201", "202", "401", "409", "500", "empty"}
Succeeded(r) == answer[r] \in {"200", "201", "202"}

TypeOK ==
    /\ user \in Registers \cup {None}
    /\ account \in Registers \cup {None}
    /\ password \in Passwords \cup {None}
    /\ verified \in BOOLEAN
    /\ secondFactor \in Enables \cup {None}
    /\ code \in [Purposes -> Codes \cup {None}]
    /\ enabling \in Enables \cup {None}
    /\ session \in BOOLEAN
    /\ mailed \subseteq Codes
    /\ spent \subseteq Codes
    /\ pc \in [Requests -> Steps]
    /\ shown \in [Requests -> Codes \cup Enables \cup Passwords \cup {None}]
    /\ chosen \in [Requests -> Passwords \cup {None}]
    /\ answer \in [Requests -> Statuses]

-----------------------------------------------------------------------------

Init ==
    /\ user = None /\ account = None
    /\ password = None
    /\ verified = FALSE
    /\ secondFactor = None
    /\ code = [p \in Purposes |-> None]
    /\ enabling = None
    /\ session = FALSE
    /\ mailed = {} /\ spent = {}
    /\ \E mix \in Mixes : pc = [r \in Requests |-> IF r \in mix THEN "idle" ELSE "done"]
    /\ shown = [r \in Requests |-> None]
    /\ chosen = [r \in Requests |-> None]
    /\ answer = [r \in Requests |-> "none"]

Goto(r, from, to) ==
    /\ pc[r] = from
    /\ pc' = [pc EXCEPT ![r] = to]

\* The answer and the `return` after it.
Finish(r, from, status) ==
    /\ Goto(r, from, "done")
    /\ answer' = [answer EXCEPT ![r] = status]

\* An answer that changes nothing.
Refuse(r, from, status) ==
    /\ Finish(r, from, status)
    /\ UNCHANGED <<row, redis, mailbox, input>>

\* A read that the handler goes on after.
Pass(r, from, to) ==
    /\ Goto(r, from, to)
    /\ UNCHANGED <<row, redis, mailbox, input, answer>>

-----------------------------------------------------------------------------
(* What the requests come with *)

FirstStep(r) ==
    IF r \in Codes THEN "query" ELSE IF r \in Guarded THEN "session" ELSE "get"

\* Codes are read in the mail, secrets in the answer that showed them; both may
\* be stale, or None when mistyped.
Presentable(r) ==
    IF r \in Verifies \cup Resets THEN mailed \cup {None}
    ELSE IF r \in Confirms THEN {e \in Enables : answer[e] = "202"} \cup {None}
    ELSE IF r \in Changes THEN Passwords
    ELSE {None}

\* Only registration and recovery work with the email alone.
Receive(r) ==
    /\ r \notin Registers \cup Recovers => user # None
    /\ Goto(r, "idle", FirstStep(r))
    /\ \E s \in Presentable(r) : shown' = [shown EXCEPT ![r] = s]
    /\ \E p \in IF r \in Registers \cup Resets \cup Changes THEN Passwords ELSE {None} :
           chosen' = [chosen EXCEPT ![r] = p]
    /\ UNCHANGED <<row, redis, mailbox, answer>>

-----------------------------------------------------------------------------
(* Registration *)

EmailTaken(r) ==
    /\ r \in Registers
    /\ user # None
    /\ Refuse(r, "query", "409")

EmailFree(r) ==
    /\ r \in Registers
    /\ user = None
    /\ Pass(r, "query", "insert")

\* INSERT waits while another open transaction has inserted the email.
EmailUnlocked(r) == \A s \in Registers \ {r} : pc[s] \notin {"account", "commit"}

\* Mutant of InsertUser: through the pool, not through tx.
InsertOutsideTransaction(r) ==
    /\ Goto(r, "insert", "account")
    /\ EmailUnlocked(r)
    /\ user = None
    /\ user' = r
    /\ password' = chosen[r]
    /\ UNCHANGED <<account, verified, secondFactor, redis, mailbox, input, answer>>

InsertUser(r) ==
    /\ EmailUnlocked(r)
    /\ user = None
    /\ Pass(r, "insert", "account")

InsertViolates(r) ==
    /\ EmailUnlocked(r)
    /\ user # None
    /\ Refuse(r, "insert", "500")

InsertAccount(r) == Pass(r, "account", "commit")

Commit(r) ==
    /\ Goto(r, "commit", "store")
    /\ user' = r
    /\ account' = r
    /\ password' = chosen[r]
    /\ UNCHANGED <<verified, secondFactor, redis, mailbox, input, answer>>

-----------------------------------------------------------------------------
(* Sending a code: ResendVerification, PasswordRecovery, end of Register *)

FindUser(r) ==
    /\ r \in Resends \cup Recovers
    /\ user # None
    /\ Pass(r, "query", "store")

\* pgx.ErrNoRows is not the sql.ErrNoRows that is asked for; it is 500 anyway.
NoUser(r) ==
    /\ r \in Recovers
    /\ user = None
    /\ Refuse(r, "query", "500")

\* SETEX replaces a code that was sent before.
StoreCode(r) ==
    /\ r \in Codes
    /\ Goto(r, "store", "mail")
    /\ code' = [code EXCEPT ![Purpose(r)] = r]
    /\ UNCHANGED <<row, enabling, session, mailbox, input, answer>>

\* With email enabled in the configuration.
Mail(r) ==
    /\ Finish(r, "mail", IF r \in Registers THEN "201" ELSE "202")
    /\ mailed' = mailed \cup {r}
    /\ UNCHANGED <<row, redis, spent, input>>

\* Mutant of MailFails: the handler does not look at the result.
MailUnchecked(r) ==
    /\ Finish(r, "mail", "202")
    /\ UNCHANGED <<row, redis, mailbox, input>>

\* SendEmail fails, perhaps after the mail has gone out.
MailFails(r) ==
    /\ Finish(r, "mail", "500")
    /\ mailed' \in {mailed, mailed \cup {r}}
    /\ UNCHANGED <<row, redis, spent, input>>

-----------------------------------------------------------------------------
(* Using a code: VerifyVerificationToken, VerifyResetToken *)

\* GET and compare.
ReadCode(r) ==
    /\ r \in Verifies \cup Resets
    /\ shown[r] # None
    /\ code[Purpose(r)] = shown[r]
    /\ Pass(r, "get", "drop")

WrongCode(r) ==
    /\ r \in Verifies \cup Resets
    /\ shown[r] = None \/ code[Purpose(r)] # shown[r]
    /\ Refuse(r, "get", "401")

\* Mutant of DropCode: the key of the other helper.
DropOtherCode(r) ==
    /\ r \in Verifies \cup Resets
    /\ Goto(r, "drop", "write")
    /\ code' = [p \in Purposes |-> IF p = Purpose(r) THEN code[p] ELSE None]
    /\ spent' = spent \cup {shown[r]}
    /\ UNCHANGED <<row, enabling, session, mailed, input, answer>>

\* Mutant of DropCode: SET to "" in the place of DEL.
BlankCode(r) ==
    /\ r \in Verifies \cup Resets
    /\ Goto(r, "drop", "write")
    /\ code' = [code EXCEPT ![Purpose(r)] = ""]
    /\ spent' = spent \cup {shown[r]}
    /\ UNCHANGED <<row, enabling, session, mailed, input, answer>>

\* DEL takes whatever code is there now.
DropCode(r) ==
    /\ r \in Verifies \cup Resets
    /\ Goto(r, "drop", "write")
    /\ code' = [code EXCEPT ![Purpose(r)] = None]
    /\ spent' = spent \cup {shown[r]}
    /\ UNCHANGED <<row, enabling, session, mailed, input, answer>>

-----------------------------------------------------------------------------
(* Requests with a session *)

\* GetActiveUser, or GetUser to log out.  A user who has a session has been
\* verified and stays so.
Authorize(r) ==
    /\ session
    /\ Pass(r, "session", IF r \in Disables \cup Logouts THEN "write" ELSE "read")

NotAuthorized(r) ==
    /\ ~session
    /\ Refuse(r, "session", "401")

\* SELECT the password, and VerifyPassword with the old and the new one.
ReadPassword(r) ==
    /\ r \in Changes
    /\ shown[r] = password
    /\ chosen[r] # password
    /\ Pass(r, "read", "write")

WrongPassword(r) ==
    /\ r \in Changes
    /\ shown[r] # password
    /\ Refuse(r, "read", "401")

SamePassword(r) ==
    /\ r \in Changes
    /\ shown[r] = password /\ chosen[r] = password
    /\ Refuse(r, "read", "409")

NotEnabled(r) ==
    /\ r \in Enables \cup Confirms
    /\ secondFactor = None
    /\ Pass(r, "read", IF r \in Enables THEN "store" ELSE "get")

AlreadyEnabled(r) ==
    /\ r \in Enables \cup Confirms
    /\ secondFactor # None
    /\ Refuse(r, "read", "409")

\* The secret goes into Redis and into the answer.
StoreSecret(r) ==
    /\ r \in Enables
    /\ Finish(r, "store", "202")
    /\ enabling' = r
    /\ UNCHANGED <<row, code, session, mailbox, input>>

\* GET and totp.Validate.
ReadSecret(r) ==
    /\ r \in Confirms
    /\ enabling # None /\ shown[r] = enabling
    /\ Pass(r, "get", "write")

WrongPasscode(r) ==
    /\ r \in Confirms
    /\ enabling # None /\ shown[r] # enabling
    /\ Refuse(r, "get", "401")

SecretGone(r) ==
    /\ r \in Confirms
    /\ enabling = None
    /\ Refuse(r, "get", "empty")

-----------------------------------------------------------------------------
(* What the requests are for *)

\* Mutant of NewSecret: the secret is read again for the UPDATE.
NewSecretReread(r) == IF r \in Confirms THEN enabling ELSE None

\* The second factor a request stores: the secret it validated, or "".
NewSecret(r) == IF r \in Confirms THEN shown[r] ELSE None

\* The UPDATE of each kind, and the DEL of the session.
Update(r) ==
    /\ UNCHANGED <<user, account, code, enabling, mailbox, input>>
    /\ \/ /\ r \in Verifies
          /\ verified' = TRUE
          /\ UNCHANGED <<password, secondFactor, session>>
       \/ /\ r \in Resets \cup Changes
          /\ password' = chosen[r]
          /\ UNCHANGED <<verified, secondFactor, session>>
       \/ /\ r \in Confirms \cup Disables
          /\ secondFactor' = NewSecret(r)
          /\ UNCHANGED <<password, verified, session>>
       \/ /\ r \in Logouts
          /\ session' = FALSE
          /\ UNCHANGED <<password, verified, secondFactor>>

Write(r) ==
    /\ Update(r)
    /\ IF r \in Confirms
       THEN Goto(r, "write", "drop") /\ UNCHANGED answer
       ELSE Finish(r, "write", IF r \in Logouts THEN "200" ELSE "202")

DropSecret(r) ==
    /\ r \in Confirms
    /\ Finish(r, "drop", "202")
    /\ enabling' = None
    /\ UNCHANGED <<row, code, session, mailbox, input>>

-----------------------------------------------------------------------------
(* What fails, and what happens meanwhile *)

\* An error of one statement.  Register does not look at the error of its
\* SELECT, the two Verify...Token helpers only log that of DEL, and
\* TwoFAEnableRequest ignores that of SETEX.
StatementFails(r) ==
    \/ /\ r \in Registers
       /\ Pass(r, "query", "insert")
    \/ /\ r \in Verifies \cup Resets
       /\ Pass(r, "drop", "write")
    \/ /\ pc[r] \notin {"idle", "mail", "done"}
       /\ ~(r \in Registers /\ pc[r] = "query")
       /\ ~(r \in Verifies \cup Resets /\ pc[r] = "drop")
       /\ Refuse(r, pc[r],
            CASE pc[r] = "session" -> "401"
              [] r \in Verifies \cup Resets /\ pc[r] = "get" -> "401"
              [] r \in Enables /\ pc[r] = "store" -> "202"
              [] r \in Confirms /\ pc[r] \in {"get", "drop"} -> "empty"
              [] OTHER -> "500")

\* The connection breaks after the UPDATE or DEL took effect.
WriteUnconfirmed(r) ==
    /\ Update(r)
    /\ Finish(r, "write", "500")

ServerCrash ==
    /\ \E r \in Requests : pc[r] \notin {"idle", "done"}
    /\ \A r \in Requests : pc[r] \notin {"idle", "done"} => r \in Failing
    /\ pc' = [r \in Requests |-> IF pc[r] = "idle" THEN "idle" ELSE "done"]
    /\ UNCHANGED <<row, redis, mailbox, input, answer>>

\* A login, as the module Login has it.  A request that was sent with the cookie
\* of an earlier session goes on as if it had the new one.
LogIn ==
    /\ verified /\ ~session
    /\ session' = TRUE
    /\ UNCHANGED <<row, code, enabling, mailbox, pc, input, answer>>

SessionExpires ==
    /\ session
    /\ session' = FALSE
    /\ UNCHANGED <<row, code, enabling, mailbox, pc, input, answer>>

CodeExpires(p) ==
    /\ code[p] # None
    /\ code' = [code EXCEPT ![p] = None]
    /\ UNCHANGED <<row, enabling, session, mailbox, pc, input, answer>>

SecretExpires ==
    /\ enabling # None
    /\ enabling' = None
    /\ UNCHANGED <<row, code, session, mailbox, pc, input, answer>>

-----------------------------------------------------------------------------
(* The specification *)

Handle(r) ==
    \/ EmailTaken(r) \/ EmailFree(r) \/ InsertUser(r) \/ InsertViolates(r)
    \/ InsertAccount(r) \/ Commit(r)
    \/ FindUser(r) \/ NoUser(r) \/ StoreCode(r) \/ Mail(r)
    \/ ReadCode(r) \/ WrongCode(r) \/ DropCode(r)
    \/ Authorize(r) \/ NotAuthorized(r)
    \/ ReadPassword(r) \/ WrongPassword(r) \/ SamePassword(r)
    \/ NotEnabled(r) \/ AlreadyEnabled(r) \/ StoreSecret(r)
    \/ ReadSecret(r) \/ WrongPasscode(r) \/ SecretGone(r)
    \/ Write(r) \/ DropSecret(r)

Fault(r) == StatementFails(r) \/ WriteUnconfirmed(r) \/ MailFails(r)

Environment ==
    \/ LogIn \/ SessionExpires \/ SecretExpires
    \/ \E p \in Purposes : CodeExpires(p)

Next ==
    \/ \E r \in Requests : Receive(r) \/ Handle(r)
    \/ \E r \in Failing : Fault(r)
    \/ ServerCrash
    \/ Environment

Spec == Init /\ [][Next]_vars

-----------------------------------------------------------------------------
(* Properties *)

\* A request an error or a crash ended.
Fell(r) == r \in Failing /\ pc[r] = "done" /\ ~Succeeded(r)

\* Two registrations of an email may both find it free.  Whoever is told 201 is
\* the user, has an account to pay from and a code in the mail; and nobody is
\* registered without an account, whatever fails on the way.
CreatedIsRegistered ==
    /\ account = user
    /\ \A r \in Registers : Succeeded(r) => user = r /\ r \in mailed

\* The code that Redis holds is one the user has been sent, or is being sent,
\* unless sending it failed: overlapping requests for a code never leave one
\* behind that nobody was sent while they report success.
LiveCodeIsMailed ==
    \A p \in Purposes : code[p] # None =>
        code[p] \in mailed \/ pc[code[p]] = "mail" \/ Fell(code[p])

\* GET, comparison and DEL are three steps, so requests that overlap can use a
\* code together; but once one of them has deleted it, nobody who starts to
\* check it later gets past the check.
SpentCodesStaySpent ==
    [][\A r \in Verifies \cup Resets :
          pc[r] = "get" /\ pc'[r] = "drop" => shown[r] \notin spent]_vars

\* However requests to enable the second factor overlap, the secret that is
\* stored is one a confirmation proved the user has: logins can be confirmed.
EnabledSecretIsConfirmed ==
    secondFactor # None =>
        /\ answer[secondFactor] = "202"
        /\ \E c \in Confirms : /\ shown[c] = secondFactor
                               /\ \/ pc[c] = "drop"
                                  \/ pc[c] = "done" /\ answer[c] \notin {"401", "409"}

=============================================================================
