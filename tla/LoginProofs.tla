---------------------------- MODULE LoginProofs ----------------------------
(***************************************************************************)
(* Proofs about Login: for any number of logins and confirmations of a     *)
(* user, overlapping and failing at any statement.                         *)
(***************************************************************************)
EXTENDS Login, TLAPS

\* Where a request is before it has inserted a key.
Early == {"idle", "query", "issueToken", "getToken", "fetch", "deactivate", "insert"}

\* What a request holds, by the statement it is at.
Consistent(r) ==
    /\ pc[r] # "done" => answer[r] = Unanswered
    /\ pc[r] \in Early => r \notin Stored
    /\ answer[r].status = "202" =>
          answer[r] = [status |-> "202", key |-> chosen[r], primary |-> chosen[r] = r]
    /\ chosen[r] = r \/ r \notin Stored \/ Fell(r)

RequestsConsistent == \A r \in Requests : Consistent(r)

IInv ==
    /\ TypeOK
    /\ active # NoKey => active # retired
    /\ RequestsConsistent
    /\ CertifiedKeysAreStored
    /\ KeyGapsAreRotations
    /\ NoKeyIsStranded

-----------------------------------------------------------------------------
(* The steps that leave the Keys table alone *)

LEMMA StoredRequests == TypeOK => Stored \subseteq Requests
  BY DEF TypeOK, Stored, Keys

LEMMA AnswerShape ==
    ASSUME TypeOK, NEW r \in Requests, NEW status \in Statuses,
           answer' = [answer EXCEPT ![r].status = status]
    PROVE  /\ answer' \in [Requests -> Answers]
           /\ answer'[r].status = status
           /\ \A q \in Requests \ {r} : answer'[q] = answer[q]
  BY DEF TypeOK, Answers

\* A request ends without success: Refuse, or a second factor is asked for.
Ends(r, status) ==
    /\ pc' = [pc EXCEPT ![r] = "done"]
    /\ answer' = [answer EXCEPT ![r].status = status]
    /\ tokens' \subseteq Passwords
    /\ interrupted' = Interrupted({r})
    /\ UNCHANGED <<userVars, active, retired, sessions, aged, token, chosen>>

LEMMA EndsKeeps ==
    ASSUME IInv, NEW r \in Requests, NEW status \in Statuses \ {"202"},
           pc[r] \in Early \/ r \in Failing, pc[r] \notin {"idle", "done"},
           pc[r] = "insert" => active # NoKey \/ r \in Failing,
           Ends(r, status)
    PROVE  IInv'
<1> USE DEF IInv
<1>1. /\ answer' \in [Requests -> Answers]
      /\ answer'[r].status = status
      /\ \A q \in Requests \ {r} : answer'[q] = answer[q]
  BY AnswerShape DEF Ends
<1>2. /\ pc' \in [Requests -> Steps]
      /\ pc'[r] = "done"
      /\ \A q \in Requests \ {r} : pc'[q] = pc[q]
  BY DEF Ends, TypeOK, Steps
<1>3. Stored' = Stored /\ chosen' = chosen /\ active' = active /\ retired' = retired
  BY DEF Ends, Stored
<1>4. TypeOK'
  <2>1. interrupted' \subseteq Failing
    BY DEF Ends, Interrupted, TypeOK
  <2> QED
    BY <1>1, <1>2, <2>1 DEF Ends, TypeOK, userVars
<1>5. \A q \in Requests : Fell(q) => Fell(q)'
  BY <1>1, <1>2 DEF Fell
<1>6. r \in Stored => Fell(r)'
  BY <1>1, <1>2 DEF Fell, RequestsConsistent, Consistent
<1>7. RequestsConsistent'
  BY <1>1, <1>2, <1>3, <1>5 DEF RequestsConsistent, Consistent, Early
<1>8. CertifiedKeysAreStored'
  BY <1>1, <1>2, <1>3 DEF CertifiedKeysAreStored
<1>9. KeyGapsAreRotations'
  <2>1. /\ interrupted \subseteq interrupted'
        /\ pc[r] = "insert" /\ active = NoKey => r \in interrupted'
    BY DEF Ends, Interrupted
  <2> QED
    BY <1>2, <1>3, <2>1 DEF KeyGapsAreRotations
<1>10. NoKeyIsStranded'
  BY <1>1, <1>2, <1>3, <1>5, <1>6, StoredRequests DEF NoKeyIsStranded
<1> QED
  BY <1>3, <1>4, <1>7, <1>8, <1>9, <1>10

LEMMA RefuseKeeps ==
    ASSUME IInv, NEW r \in Requests, NEW status \in Statuses \ {"202"},
           pc[r] \in Early \/ r \in Failing, pc[r] \notin {"idle", "done"},
           pc[r] = "insert" => active # NoKey \/ r \in Failing,
           Refuse(r, status)
    PROVE  IInv'
<1>1. Ends(r, status)
  BY DEF Refuse, Ends, IInv, TypeOK, redisVars
<1> QED
  BY <1>1, EndsKeeps

\* A request goes on to a statement before the session.
LEMMA MoveKeeps ==
    ASSUME IInv, NEW r \in Requests, NEW to \in Early,
           pc[r] \in Early \ {"insert"},
           pc' = [pc EXCEPT ![r] = to],
           token' \in [Confirms -> Requests],
           UNCHANGED <<userVars, keyVars, redisVars, aged, chosen, answer>>
    PROVE  IInv'
<1> USE DEF IInv
<1>1. /\ pc' \in [Requests -> Steps]
      /\ pc'[r] = to
      /\ \A q \in Requests \ {r} : pc'[q] = pc[q]
  BY DEF TypeOK, Steps, Early
<1>2. Stored' = Stored /\ UNCHANGED <<active, retired, interrupted, chosen, answer>>
  BY DEF keyVars, Stored
<1>3. TypeOK'
  BY <1>1 DEF TypeOK, userVars, keyVars, redisVars
<1>4. \A q \in Requests : Fell(q)' <=> Fell(q)
  BY <1>1, <1>2 DEF Fell, Early
<1>5. RequestsConsistent'
  BY <1>1, <1>2, <1>4 DEF RequestsConsistent, Consistent, Early
<1>6. CertifiedKeysAreStored'
  BY <1>1, <1>2 DEF CertifiedKeysAreStored, Early
<1>7. KeyGapsAreRotations'
  BY <1>1, <1>2, <1>4 DEF KeyGapsAreRotations
<1>8. NoKeyIsStranded'
  BY <1>1, <1>2, <1>4, StoredRequests DEF NoKeyIsStranded, Early
<1> QED
  BY <1>2, <1>3, <1>5, <1>6, <1>7, <1>8

\* The users, the tokens and the clock change: no request or key does.
LEMMA EnvironmentKeeps ==
    ASSUME IInv, TypeOK', UNCHANGED <<keyVars, pc, chosen, answer>>
    PROVE  IInv'
<1>1. Stored' = Stored /\ UNCHANGED <<active, retired, interrupted>>
  BY DEF keyVars, Stored
<1>2. \A q \in Requests : Fell(q)' <=> Fell(q)
  BY DEF Fell
<1> QED
  BY <1>1, <1>2, StoredRequests DEF IInv, RequestsConsistent, Consistent, CertifiedKeysAreStored,
     KeyGapsAreRotations, NoKeyIsStranded

-----------------------------------------------------------------------------
(* The steps that certify *)

LEMMA FetchKeeps == ASSUME IInv, NEW r \in Requests, FetchKey(r) PROVE IInv'
<1> USE DEF IInv
<1> DEFINE k == IF Usable(active) THEN active ELSE NoKey
           to == IF Usable(active) THEN "session" ELSE "deactivate"
<1>1. /\ pc' \in [Requests -> Steps]
      /\ pc[r] = "fetch"
      /\ pc'[r] = to
      /\ \A q \in Requests \ {r} : pc'[q] = pc[q]
  BY DEF FetchKey, Goto, TypeOK, Steps
<1>2. Stored' = Stored /\ UNCHANGED <<active, retired, interrupted, answer>>
  BY DEF FetchKey, keyVars, Stored
<1>3. /\ chosen' \in [Requests -> Keys \cup {NoKey}]
      /\ chosen'[r] = k
      /\ \A q \in Requests \ {r} : chosen'[q] = chosen[q]
  BY DEF FetchKey, TypeOK
<1>4. TypeOK'
  BY <1>1, <1>3 DEF FetchKey, TypeOK, userVars, keyVars, redisVars
<1>5. \A q \in Requests : Fell(q)' <=> Fell(q)
  BY <1>1, <1>2 DEF Fell
<1>6. r \notin Stored /\ answer[r] = Unanswered
  BY <1>1 DEF RequestsConsistent, Consistent, Early
<1>7. RequestsConsistent'
  <2>1. answer'[r] = Unanswered /\ answer'[r].status # "202" /\ r \notin Stored'
    BY <1>2, <1>6 DEF Unanswered
  <2>2. ASSUME NEW q \in Requests \ {r} PROVE Consistent(q)'
    BY <1>1, <1>2, <1>3, <1>5 DEF RequestsConsistent, Consistent, Early
  <2> QED
    BY <2>1, <2>2 DEF RequestsConsistent, Consistent
<1>8. CertifiedKeysAreStored'
  BY <1>1, <1>2, <1>3, <1>6 DEF CertifiedKeysAreStored, Unanswered, Usable, Stored
<1>9. KeyGapsAreRotations'
  BY <1>1, <1>2, <1>5 DEF KeyGapsAreRotations
<1>10. NoKeyIsStranded'
  BY <1>1, <1>2, <1>5, <1>6, StoredRequests DEF NoKeyIsStranded
<1> QED
  BY <1>2, <1>4, <1>7, <1>8, <1>9, <1>10

LEMMA DeactivateKeeps == ASSUME IInv, NEW r \in Requests, Deactivate(r) PROVE IInv'
<1> USE DEF IInv
<1>1. /\ pc' \in [Requests -> Steps]
      /\ pc[r] = "deactivate"
      /\ pc'[r] = "insert"
      /\ \A q \in Requests \ {r} : pc'[q] = pc[q]
  BY DEF Deactivate, Goto, TypeOK, Steps
<1>2. Stored' = Stored /\ active' = NoKey /\ UNCHANGED <<chosen, answer>>
  BY DEF Deactivate, Stored
<1>3. TypeOK'
  BY <1>1 DEF Deactivate, TypeOK, userVars, redisVars
<1>4. \A q \in Requests : Fell(q)' <=> Fell(q)
  BY <1>1, <1>2 DEF Fell
<1>5. r \notin Stored
  BY <1>1 DEF RequestsConsistent, Consistent, Early
<1>6. RequestsConsistent'
  BY <1>1, <1>2, <1>4 DEF RequestsConsistent, Consistent, Early
<1>7. CertifiedKeysAreStored'
  BY <1>1, <1>2 DEF CertifiedKeysAreStored
<1>8. KeyGapsAreRotations'
  BY <1>1 DEF KeyGapsAreRotations
<1>9. NoKeyIsStranded'
  BY <1>1, <1>2, <1>4, <1>5, StoredRequests DEF NoKeyIsStranded
<1> QED
  BY <1>2, <1>3, <1>6, <1>7, <1>8, <1>9

LEMMA InsertKeeps == ASSUME IInv, NEW r \in Requests, InsertKey(r) PROVE IInv'
<1> USE DEF IInv
<1>1. /\ pc' \in [Requests -> Steps]
      /\ pc[r] = "insert"
      /\ pc'[r] = "session"
      /\ \A q \in Requests \ {r} : pc'[q] = pc[q]
  BY DEF InsertKey, Goto, TypeOK, Steps
<1>2. r # NoKey /\ r \in Keys
  BY LoginAssumption DEF Keys
<1>3. /\ Stored' = Stored \cup {r}
      /\ active = NoKey /\ active' = r
      /\ UNCHANGED <<retired, answer>>
  BY <1>2 DEF InsertKey, Stored
<1>4. /\ chosen' \in [Requests -> Keys \cup {NoKey}]
      /\ chosen'[r] = r
      /\ \A q \in Requests \ {r} : chosen'[q] = chosen[q]
  BY <1>2 DEF InsertKey, TypeOK
<1>5. TypeOK'
  BY <1>1, <1>2, <1>3, <1>4 DEF InsertKey, TypeOK, userVars, redisVars
<1>6. \A q \in Requests : Fell(q)' <=> Fell(q)
  BY <1>1, <1>3 DEF Fell
<1>7. r \notin Stored /\ answer[r] = Unanswered
  BY <1>1 DEF RequestsConsistent, Consistent, Early
<1>8. active' # retired'
  BY <1>2, <1>3, <1>7 DEF Stored
<1>9. RequestsConsistent'
  <2>1. answer'[r] = Unanswered /\ answer'[r].status # "202" /\ pc'[r] \notin Early
    BY <1>1, <1>3, <1>7 DEF Unanswered, Early
  <2>2. ASSUME NEW q \in Requests \ {r} PROVE Consistent(q)'
    BY <1>1, <1>3, <1>4, <1>6 DEF RequestsConsistent, Consistent, Early
  <2> QED
    BY <1>4, <2>1, <2>2 DEF RequestsConsistent, Consistent
<1>10. CertifiedKeysAreStored'
  BY <1>1, <1>3, <1>4 DEF CertifiedKeysAreStored
<1>11. KeyGapsAreRotations'
  BY <1>2, <1>3 DEF KeyGapsAreRotations
<1>12. NoKeyIsStranded'
  BY <1>1, <1>3, <1>6, StoredRequests DEF NoKeyIsStranded
<1> QED
  BY <1>5, <1>8, <1>9, <1>10, <1>11, <1>12

\* The answer with the certificate.
LEMMA SucceedKeeps ==
    ASSUME IInv, NEW r \in Requests, pc[r] \in {"session", "dropToken"},
           pc' = [pc EXCEPT ![r] = "done"],
           answer' = [answer EXCEPT ![r] = Success(r)],
           sessions' \subseteq Requests, tokens' \subseteq Passwords,
           UNCHANGED <<userVars, keyVars, aged, token, chosen>>
    PROVE  IInv'
<1> USE DEF IInv
<1>1. Success(r) \in Answers
  BY DEF Success, Answers, Statuses, TypeOK
<1>2. /\ pc' \in [Requests -> Steps]
      /\ pc'[r] = "done"
      /\ \A q \in Requests \ {r} : pc'[q] = pc[q]
  BY DEF TypeOK, Steps
<1>3. /\ answer' \in [Requests -> Answers]
      /\ answer'[r] = Success(r)
      /\ \A q \in Requests \ {r} : answer'[q] = answer[q]
  BY <1>1 DEF TypeOK
<1>4. Stored' = Stored /\ UNCHANGED <<active, retired, interrupted, chosen>>
  BY DEF keyVars, Stored
<1>5. TypeOK'
  BY <1>2, <1>3 DEF TypeOK, userVars, keyVars
<1>6. \A q \in Requests : Fell(q)' <=> Fell(q)
  BY <1>2, <1>3 DEF Fell, Success
<1>7. ~Fell(r)
  BY DEF Fell
<1>8. RequestsConsistent'
  <2>1. Consistent(r)'
    BY <1>2, <1>3, <1>4, <1>7 DEF RequestsConsistent, Consistent, Early, Success
  <2> QED
    BY <1>2, <1>3, <1>4, <1>6, <1>7 DEF RequestsConsistent, Consistent, Early, Success
<1>9. CertifiedKeysAreStored'
  BY <1>2, <1>3, <1>4 DEF CertifiedKeysAreStored
<1>10. KeyGapsAreRotations'
  BY <1>2, <1>4, <1>6 DEF KeyGapsAreRotations
<1>11. NoKeyIsStranded'
  BY <1>2, <1>3, <1>4, <1>6, <1>7, StoredRequests DEF NoKeyIsStranded, RequestsConsistent, Consistent, Success
<1> QED
  BY <1>4, <1>5, <1>8, <1>9, <1>10, <1>11

\* The session of a confirmation, which still has to drop its token.
LEMMA SessionKeeps ==
    ASSUME IInv, NEW r \in Requests, pc[r] = "session",
           pc' = [pc EXCEPT ![r] = "dropToken"],
           sessions' \subseteq Requests, tokens' \subseteq Passwords,
           UNCHANGED <<userVars, keyVars, aged, token, chosen, answer>>
    PROVE  IInv'
<1> USE DEF IInv
<1>1. /\ pc' \in [Requests -> Steps]
      /\ pc'[r] = "dropToken"
      /\ \A q \in Requests \ {r} : pc'[q] = pc[q]
  BY DEF TypeOK, Steps
<1>2. Stored' = Stored /\ UNCHANGED <<active, retired, interrupted, chosen, answer>>
  BY DEF keyVars, Stored
<1>3. TypeOK'
  BY <1>1 DEF TypeOK, userVars, keyVars
<1>4. \A q \in Requests : Fell(q)' <=> Fell(q)
  BY <1>1, <1>2 DEF Fell
<1>5. RequestsConsistent'
  BY <1>1, <1>2, <1>4 DEF RequestsConsistent, Consistent, Early
<1>6. CertifiedKeysAreStored' /\ KeyGapsAreRotations'
  BY <1>1, <1>2, <1>4 DEF CertifiedKeysAreStored, KeyGapsAreRotations
<1>7. NoKeyIsStranded'
  BY <1>1, <1>2, <1>4, StoredRequests DEF NoKeyIsStranded
<1> QED
  BY <1>2, <1>3, <1>5, <1>6, <1>7

LEMMA CrashKeeps == ASSUME IInv, ServerCrash PROVE IInv'
<1> USE DEF IInv
<1>1. /\ pc' \in [Requests -> Steps]
      /\ \A r \in Requests : pc'[r] = IF pc[r] = "idle" THEN "idle" ELSE "done"
  BY DEF ServerCrash, TypeOK, Steps
<1>2. /\ Stored' = Stored
      /\ UNCHANGED <<active, retired, chosen, answer>>
  BY DEF ServerCrash, Stored
<1>3. TypeOK'
  <2>1. interrupted' \subseteq Failing
    BY DEF ServerCrash, Interrupted, TypeOK
  <2> QED
    BY <1>1, <2>1 DEF ServerCrash, TypeOK, userVars, redisVars
<1>4. \A r \in Requests : pc[r] \notin {"idle", "done"} => Fell(r)'
  <2> SUFFICES ASSUME NEW r \in Requests, pc[r] \notin {"idle", "done"} PROVE Fell(r)'
    OBVIOUS
  <2>1. answer'[r] = Unanswered
    BY <1>2 DEF RequestsConsistent, Consistent
  <2>2. r \in Failing /\ pc'[r] = "done"
    BY <1>1 DEF ServerCrash
  <2> QED
    BY <2>1, <2>2 DEF Fell, Unanswered
<1>5. \A r \in Requests : Fell(r) => Fell(r)'
  BY <1>1, <1>2 DEF Fell
<1>6. RequestsConsistent'
  BY <1>1, <1>2, <1>5 DEF RequestsConsistent, Consistent, Early
<1>7. CertifiedKeysAreStored'
  BY <1>1, <1>2 DEF CertifiedKeysAreStored, TypeOK
<1>8. KeyGapsAreRotations'
  <2>1. /\ interrupted \subseteq interrupted'
        /\ \A r \in Requests : pc[r] = "insert" /\ active = NoKey => r \in interrupted'
    BY DEF ServerCrash, Interrupted
  <2> QED
    BY <1>2, <2>1 DEF KeyGapsAreRotations
<1>9. NoKeyIsStranded'
  BY <1>2, <1>4, <1>5, StoredRequests DEF NoKeyIsStranded
<1> QED
  BY <1>2, <1>3, <1>6, <1>7, <1>8, <1>9

-----------------------------------------------------------------------------
(* Every step *)

LEMMA InitInvariant == Init => IInv
<1> SUFFICES ASSUME Init PROVE IInv
  OBVIOUS
<1>1. Stored = {}
  BY DEF Init, Stored
<1>2. TypeOK
  BY DEF Init, TypeOK, Requests, Steps, Answers, Statuses, Unanswered
<1>3. RequestsConsistent
  BY <1>1 DEF Init, RequestsConsistent, Consistent, Unanswered
<1>4. CertifiedKeysAreStored
  BY DEF Init, CertifiedKeysAreStored, Unanswered
<1> QED
  BY <1>1, <1>2, <1>3, <1>4 DEF Init, IInv, KeyGapsAreRotations, NoKeyIsStranded

LEMMA HandleKeeps ==
    ASSUME IInv, NEW r \in Requests,
           ReceivePassword(r) \/ ReceiveConfirm(r) \/ Handle(r)
    PROVE  IInv'
<1> USE DEF Early, Goto
<1>1. CASE ReceivePassword(r)
  BY <1>1, MoveKeeps DEF ReceivePassword, IInv, TypeOK
<1>2. CASE CheckPassword(r)
  BY <1>2, MoveKeeps DEF CheckPassword, IInv, TypeOK
<1>18. CASE UnknownEmail(r)
  BY <1>18, RefuseKeeps DEF UnknownEmail, Statuses
<1>3. CASE WrongPassword(r)
  BY <1>3, RefuseKeeps DEF WrongPassword, Statuses
<1>4. CASE NotVerified(r)
  BY <1>4, RefuseKeeps DEF NotVerified, Statuses
<1>5. CASE IssueToken(r)
  <2>1. Ends(r, "2fa")
    <3>1. interrupted = Interrupted({r})
      BY <1>5 DEF IssueToken, Interrupted
    <3> QED
      BY <1>5, <3>1 DEF IssueToken, Ends, IInv, TypeOK, keyVars
  <2> QED
    BY <1>5, <2>1, EndsKeeps DEF IssueToken, Statuses
<1>6. CASE ReceiveConfirm(r)
  <2>1. token' \in [Confirms -> Requests]
    BY <1>6 DEF ReceiveConfirm, IInv, TypeOK, Requests
  <2> QED
    BY <1>6, <2>1, MoveKeeps DEF ReceiveConfirm
<1>7. CASE GetToken(r)
  BY <1>7, MoveKeeps DEF GetToken, IInv, TypeOK
<1>8. CASE TokenGone(r)
  BY <1>8, RefuseKeeps DEF TokenGone, Statuses
<1>9. CASE CheckPasscode(r)
  BY <1>9, MoveKeeps DEF CheckPasscode, IInv, TypeOK
<1>10. CASE WrongPasscode(r)
  BY <1>10, RefuseKeeps DEF WrongPasscode, Statuses
<1>11. CASE FetchKey(r)
  BY <1>11, FetchKeeps
<1>12. CASE Deactivate(r)
  BY <1>12, DeactivateKeeps
<1>13. CASE DeactivateViolates(r)
  BY <1>13, RefuseKeeps DEF DeactivateViolates, Statuses
<1>14. CASE InsertKey(r)
  BY <1>14, InsertKeeps
<1>15. CASE InsertViolates(r)
  BY <1>15, RefuseKeeps DEF InsertViolates, Statuses
<1>16. CASE GenerateSession(r)
  <2>1. tokens' \subseteq Passwords /\ sessions' \subseteq Requests
    BY <1>16 DEF GenerateSession, IInv, TypeOK
  <2>2. CASE r \in Confirms
    BY <1>16, <2>1, <2>2, SessionKeeps DEF GenerateSession
  <2>3. CASE r \notin Confirms
    BY <1>16, <2>1, <2>3, SucceedKeeps DEF GenerateSession
  <2> QED
    BY <2>2, <2>3
<1>17. CASE DropToken(r)
  <2>1. tokens' \subseteq Passwords /\ sessions' \subseteq Requests
    BY <1>17 DEF DropToken, IInv, TypeOK
  <2> QED
    BY <1>17, <2>1, SucceedKeeps DEF DropToken
<1> QED
  BY <1>1, <1>2, <1>3, <1>4, <1>5, <1>6, <1>7, <1>8, <1>9, <1>10, <1>11, <1>12,
     <1>13, <1>14, <1>15, <1>16, <1>17, <1>18 DEF Handle

\* Every step of a login, a confirmation or the surroundings keeps the inductive
\* invariant.
THEOREM StepInvariant == IInv /\ [Next]_vars => IInv'
<1> SUFFICES ASSUME IInv, [Next]_vars PROVE IInv'
  OBVIOUS
<1>1. CASE \E r \in Requests : ReceivePassword(r) \/ ReceiveConfirm(r) \/ Handle(r)
  BY <1>1, HandleKeeps
<1>2. CASE \E r \in Failing : StatementFails(r)
  <2>1. PICK r \in Failing : StatementFails(r)
    BY <1>2
  <2>2. r \in Requests
    BY LoginAssumption
  <2>3. PICK status \in Statuses \ {"202"} : Refuse(r, status)
    BY <2>1 DEF StatementFails, Statuses
  <2> QED
    BY <2>1, <2>2, <2>3, RefuseKeeps DEF StatementFails
<1>3. CASE ServerCrash
  BY <1>3, CrashKeeps
<1>4. CASE Environment
  <2>1. TypeOK' /\ UNCHANGED <<keyVars, pc, chosen, answer>>
    BY <1>4 DEF Environment, Verify, EnableSecondFactor, DisableSecondFactor, TokenExpires,
       KeyAges, IInv, TypeOK, userVars, keyVars, redisVars
  <2> QED
    BY <2>1, EnvironmentKeeps
<1>5. CASE UNCHANGED vars
  <2>1. TypeOK' /\ UNCHANGED <<keyVars, pc, chosen, answer>>
    BY <1>5 DEF vars, IInv, TypeOK, userVars, keyVars, redisVars
  <2> QED
    BY <2>1, EnvironmentKeeps
<1> QED
  BY <1>1, <1>2, <1>3, <1>4, <1>5 DEF Next

\* The inductive invariant holds in every reachable state.
THEOREM Invariance == Spec => []IInv
  BY InitInvariant, StepInvariant, PTL DEF Spec

\* Rows, tokens, answers and what a login carries to its next statement have
\* their types.
THEOREM TypeCorrect == Spec => []TypeOK
<1>1. IInv => TypeOK
  BY DEF IInv
<1> QED
  BY <1>1, Invariance, PTL

\* What a login certifies, it has stored: TLC checks it for two logins and
\* two confirmations, this is for any number.
THEOREM CertifiedStored == Spec => []CertifiedKeysAreStored
<1>1. IInv => CertifiedKeysAreStored
  BY DEF IInv
<1> QED
  BY <1>1, Invariance, PTL

\* The user is without an active key only while GenerateKeyPair is between its
\* UPDATE and its INSERT, or after it was ended there.
THEOREM GapsAreRotations == Spec => []KeyGapsAreRotations
<1>1. IInv => KeyGapsAreRotations
  BY DEF IInv
<1> QED
  BY <1>1, Invariance, PTL

\* Refused and overlapping logins never leave a key that no phone holds.
THEOREM NoneStranded == Spec => []NoKeyIsStranded
<1>1. IInv => NoKeyIsStranded
  BY DEF IInv
<1> QED
  BY <1>1, Invariance, PTL

\* Every step of the logins is a step of the key registry or a stutter.
THEOREM ImplementsRegistry == Spec => RegistrySpec
<1>1. Init => Registry!Init
  BY DEF Init, Registry!Init
<1>2. IInv /\ [Next]_vars => [Registry!Next]_(Registry!vars)
  <2> SUFFICES ASSUME IInv, [Next]_vars
               PROVE  Registry!Next \/ UNCHANGED <<active, retired>>
    BY DEF Registry!vars
  <2>1. ASSUME NEW r \in Requests, InsertKey(r) PROVE Registry!Next
    <3>1. r \notin Stored
      BY <2>1 DEF InsertKey, Goto, IInv, RequestsConsistent, Consistent, Early
    <3>2. r # retired
      BY <3>1, LoginAssumption DEF Stored
    <3> QED
      BY <2>1, <3>2 DEF InsertKey, Registry!Next, Registry!Activate, Keys
  <2>2. ASSUME NEW r \in Requests, Deactivate(r)
        PROVE  Registry!Next \/ UNCHANGED <<active, retired>>
    BY <2>2 DEF Deactivate, Registry!Next, Registry!Retire
  <2>3. ASSUME NEW r \in Requests, Handle(r), ~InsertKey(r), ~Deactivate(r)
        PROVE  UNCHANGED <<active, retired>>
    BY <2>3 DEF Handle, CheckPassword, UnknownEmail, WrongPassword, NotVerified, IssueToken, GetToken,
       TokenGone, CheckPasscode, WrongPasscode, FetchKey, DeactivateViolates, InsertViolates,
       GenerateSession, DropToken, Refuse, keyVars
  <2>4. ASSUME NEW r \in Requests, ReceivePassword(r) \/ ReceiveConfirm(r) \/ StatementFails(r)
        PROVE  UNCHANGED <<active, retired>>
    BY <2>4 DEF ReceivePassword, ReceiveConfirm, StatementFails, Refuse, keyVars
  <2>5. ASSUME ServerCrash \/ Environment \/ UNCHANGED vars
        PROVE  UNCHANGED <<active, retired>>
    BY <2>5 DEF ServerCrash, Environment, Verify, EnableSecondFactor, DisableSecondFactor,
       TokenExpires, KeyAges, keyVars, vars
  <2> QED
    BY <2>1, <2>2, <2>3, <2>4, <2>5, LoginAssumption DEF Next
<1> QED
  BY <1>1, <1>2, Invariance, PTL DEF Spec, RegistrySpec, Registry!Spec
=============================================================================
