------------------------- MODULE CredentialsProofs -------------------------
(***************************************************************************)
(* Proofs about Credentials: for any number of requests of each kind,      *)
(* overlapping and failing at any statement.                               *)
(***************************************************************************)
EXTENDS Credentials, TLAPS

\* What a request holds, by the statement it is at.
Sane(r) ==
    /\ pc[r] # "done" => answer[r] = "none"
    /\ pc[r] \in {"insert", "account", "commit"} => r \in Registers
    /\ pc[r] \in {"account", "commit"} => user = None
    /\ pc[r] = "mail" => r \in Codes
    /\ r \in Registers /\ (pc[r] \in {"store", "mail"} \/ Succeeded(r)) => user = r
    /\ r \in Registers /\ Succeeded(r) => r \in mailed
    /\ r \in mailed => pc[r] = "done"
    /\ r \in Verifies \cup Resets => shown[r] \in mailed \cup {None}
    /\ r \in Verifies \cup Resets /\ pc[r] = "drop" =>
          shown[r] # None /\ Purpose(shown[r]) = Purpose(r)
    /\ r \in Confirms => shown[r] \in {e \in Enables : answer[e] = "202"} \cup {None}

\* One open registration at a time has inserted the email.
OneInserts ==
    \A r, s \in Registers :
        pc[r] \in {"account", "commit"} /\ pc[s] \in {"account", "commit"} => r = s

\* A code in Redis is of the right purpose and has not been used up.
LiveCodesFresh ==
    \A p \in Purposes : code[p] # None => Purpose(code[p]) = p /\ code[p] \notin spent

Shared ==
    /\ account = user
    /\ OneInserts
    /\ LiveCodesFresh
    /\ spent \subseteq mailed
    /\ LiveCodeIsMailed
    /\ EnabledSecretIsConfirmed

IInv ==
    /\ TypeOK
    /\ \A r \in Requests : Sane(r)
    /\ Shared

-----------------------------------------------------------------------------
(* The kinds of requests *)

\* The facts about the kinds that the proofs use.
LEMMA Kinds ==
    /\ \A r \in Registers : r \notin Verifies \cup Resets \cup Guarded \cup Resends \cup Recovers
    /\ \A r \in Codes : r \notin Verifies \cup Resets \cup Guarded
    /\ \A r \in Verifies \cup Resets : r \notin Guarded
    /\ \A r \in Confirms : r \notin Enables \cup Disables \cup Logouts \cup Changes
    /\ \A r \in Enables : r \notin Confirms \cup Disables \cup Logouts \cup Changes
    /\ Registers \subseteq Requests /\ Codes \subseteq Requests /\ Enables \subseteq Requests
    /\ Confirms \subseteq Requests
    /\ Verifies \cup Resets \subseteq Requests /\ Registers \subseteq Codes
    /\ None \notin Requests
  BY CredentialsAssumption DEF Codes, Verifying, Guarded, Requests

LEMMA PurposeType == \A r : Purpose(r) \in Purposes
  BY DEF Purpose, Purposes

LEMMA InitInv == Init => IInv
<1> SUFFICES ASSUME Init PROVE IInv
  OBVIOUS
<1>1. TypeOK
  BY DEF Init, TypeOK, Steps, Statuses
<1>2. \A r \in Requests : Sane(r)
  BY DEF Init, Sane, Succeeded
<1>3. Shared
  BY Kinds DEF Init, Shared, OneInserts, LiveCodesFresh, LiveCodeIsMailed,
               EnabledSecretIsConfirmed
<1> QED
  BY <1>1, <1>2, <1>3 DEF IInv

-----------------------------------------------------------------------------
(* The two ways a handler moves without an effect *)

\* An answer without an effect: not a success unless it shows a secret, and not
\* of a request that is sending a mail or has enabled a second factor.
LEMMA RefuseKeeps ==
    ASSUME IInv, NEW r \in Requests, NEW from, NEW status \in Statuses,
           Refuse(r, from, status), from \notin {"mail", "done"},
           status \in {"200", "201", "202"} => r \in Enables,
           r \in Confirms /\ from = "drop" => status \notin {"401", "409"}
    PROVE  IInv'
<1> USE DEF Refuse, Finish, Goto, row, redis, mailbox, input
<1>1. TypeOK'
  BY DEF IInv, TypeOK, Steps
<1>2. ASSUME NEW s \in Requests PROVE Sane(s)'
  <2>1. Sane(s)
    BY DEF IInv
  <2>2. \A e \in Enables : answer[e] = "202" => answer'[e] = "202"
    <3> TAKE e \in Enables
    <3>1. e = r => answer[e] = "none"
      BY DEF IInv, Sane
    <3> QED
      BY <3>1, Kinds DEF IInv, TypeOK
  <2>3. s # r => pc'[s] = pc[s] /\ answer'[s] = answer[s]
    BY Kinds DEF IInv, TypeOK
  <2>4. CASE s # r
    BY <2>1, <2>2, <2>3, <2>4 DEF Sane, Succeeded
  <2>5. CASE s = r
    <3>1. pc'[s] = "done" /\ answer'[s] = status
      BY <2>5 DEF IInv, TypeOK
    <3>2. s \in Registers => ~Succeeded(s)'
      BY <3>1, <2>5, Kinds DEF Succeeded, Guarded
    <3> QED
      BY <2>1, <2>2, <3>1, <3>2 DEF Sane
  <2> QED
    BY <2>4, <2>5
<1>3. Shared'
  <2>1. OneInserts'
    BY Kinds DEF IInv, TypeOK, Shared, OneInserts
  <2>2. LiveCodesFresh' /\ (spent \subseteq mailed)' /\ (account = user)'
    BY DEF IInv, Shared, LiveCodesFresh
  <2>3. LiveCodeIsMailed'
    BY Kinds DEF IInv, TypeOK, Shared, LiveCodeIsMailed, Fell, Succeeded
  <2>4. EnabledSecretIsConfirmed'
    <3> SUFFICES ASSUME secondFactor # None PROVE EnabledSecretIsConfirmed'
      BY DEF EnabledSecretIsConfirmed
    <3>1. PICK c \in Confirms :
             /\ shown[c] = secondFactor
             /\ \/ pc[c] = "drop"
                \/ pc[c] = "done" /\ answer[c] \notin {"401", "409"}
      BY DEF IInv, Shared, EnabledSecretIsConfirmed
    <3>2. answer[secondFactor] = "202" /\ secondFactor \in Enables
      BY DEF IInv, Shared, EnabledSecretIsConfirmed, TypeOK
    <3>3. secondFactor # r
      BY <3>2 DEF IInv, Sane
    <3>4. \/ pc'[c] = "drop"
          \/ pc'[c] = "done" /\ answer'[c] \notin {"401", "409"}
      BY <3>1, Kinds DEF IInv, TypeOK
    <3> QED
      BY <3>1, <3>2, <3>3, <3>4, Kinds DEF EnabledSecretIsConfirmed, IInv, TypeOK
  <2> QED
    BY <2>1, <2>2, <2>3, <2>4 DEF Shared
<1> QED
  BY <1>1, <1>2, <1>3 DEF IInv

\* The next statement, when the request has what it needs there.
LEMMA PassKeeps ==
    ASSUME IInv, NEW r \in Requests, NEW from, NEW to \in Steps \ {"mail", "done"},
           Pass(r, from, to), from \notin {"mail", "done"},
           from = "drop" => r \notin Confirms,
           to \in {"insert", "account", "commit"} => r \in Registers,
           to \in {"account", "commit"} => user = None /\ EmailUnlocked(r),
           to = "store" => r \notin Registers,
           to = "drop" => shown[r] # None /\ Purpose(shown[r]) = Purpose(r)
    PROVE  IInv'
<1> USE DEF Pass, Goto, row, redis, mailbox, input
<1>1. TypeOK'
  BY DEF IInv, TypeOK
<1>2. ASSUME NEW s \in Requests PROVE Sane(s)'
  <2>1. Sane(s)
    BY DEF IInv
  <2>2. CASE s # r
    BY <2>1, <2>2 DEF Sane, Succeeded, IInv, TypeOK
  <2>3. CASE s = r
    BY <2>1, <2>3 DEF Sane, Succeeded, IInv, TypeOK, Purpose
  <2> QED
    BY <2>2, <2>3
<1>3. Shared'
  <2>1. OneInserts'
    BY Kinds DEF IInv, TypeOK, Shared, OneInserts, EmailUnlocked
  <2>2. LiveCodesFresh' /\ (spent \subseteq mailed)' /\ (account = user)'
    BY DEF IInv, Shared, LiveCodesFresh
  <2>3. LiveCodeIsMailed'
    BY Kinds DEF IInv, TypeOK, Shared, LiveCodeIsMailed, Fell, Succeeded
  <2>4. EnabledSecretIsConfirmed'
    BY Kinds DEF IInv, TypeOK, Shared, EnabledSecretIsConfirmed
  <2> QED
    BY <2>1, <2>2, <2>3, <2>4 DEF Shared
<1> QED
  BY <1>1, <1>2, <1>3 DEF IInv

-----------------------------------------------------------------------------
(* Steps with an effect *)

\* An answer that was given stays.
LEMMA AnsweredStays ==
    ASSUME IInv, NEW r \in Requests, NEW st, pc[r] # "done",
           answer' \in {answer, [answer EXCEPT ![r] = st]}
    PROVE  /\ \A e \in Enables : answer[e] = "202" => answer'[e] = "202"
           /\ \A s \in Requests : s # r => answer'[s] = answer[s]
<1>1. answer[r] = "none"
  BY DEF IInv, Sane
<1>2. \A s \in Requests : s # r => answer'[s] = answer[s]
  BY DEF IInv, TypeOK
<1> QED
  BY <1>1, <1>2, Kinds

\* A step of one request, seen by the others.
LEMMA OtherSane ==
    ASSUME IInv, NEW r \in Requests, NEW s \in Requests \ {r},
           pc'[s] = pc[s], answer'[s] = answer[s], shown'[s] = shown[s],
           mailed \subseteq mailed', s \in mailed' => s \in mailed,
           user' = user \/ (user = None /\ r \in Registers /\ pc[r] = "commit"),
           \A e \in Enables : answer[e] = "202" => answer'[e] = "202"
    PROVE  Sane(s)'
<1>1. Sane(s)
  BY DEF IInv
<1>2. s \in Registers /\ user' # user => pc[s] \notin {"account", "commit"} /\ user = None
  BY DEF IInv, Shared, OneInserts
<1>3. \A t \in Registers : t # None
  BY Kinds
<1> QED
  BY <1>1, <1>2, <1>3 DEF Sane, Succeeded

\* What the others see of Shared: the secret stays confirmed.
LEMMA FactorStays ==
    ASSUME IInv, NEW r \in Requests, pc[r] # "done", secondFactor' = secondFactor,
           shown' = shown,
           \A s \in Requests \ {r} : pc'[s] = pc[s] /\ answer'[s] = answer[s],
           r \in Confirms /\ pc[r] = "drop" =>
               \/ pc'[r] = "drop"
               \/ pc'[r] = "done" /\ answer'[r] \notin {"401", "409"}
    PROVE  EnabledSecretIsConfirmed'
<1>1. \A e \in Enables : answer[e] = "202" => answer'[e] = "202"
  <2>1. answer[r] = "none"
    BY DEF IInv, Sane
  <2> QED
    BY <2>1, Kinds
<1> SUFFICES ASSUME secondFactor # None PROVE EnabledSecretIsConfirmed'
  BY DEF EnabledSecretIsConfirmed
<1>2. PICK c \in Confirms :
         /\ shown[c] = secondFactor
         /\ \/ pc[c] = "drop"
            \/ pc[c] = "done" /\ answer[c] \notin {"401", "409"}
  BY DEF IInv, Shared, EnabledSecretIsConfirmed
<1>3. answer[secondFactor] = "202" /\ secondFactor \in Enables
  BY DEF IInv, Shared, EnabledSecretIsConfirmed, TypeOK
<1>4. \/ pc'[c] = "drop"
      \/ pc'[c] = "done" /\ answer'[c] \notin {"401", "409"}
  BY <1>1, <1>2, Kinds
<1> QED
  BY <1>1, <1>2, <1>3, <1>4 DEF EnabledSecretIsConfirmed

LEMMA ReceiveKeeps == ASSUME IInv, NEW r \in Requests, Receive(r) PROVE IInv'
<1> USE DEF Goto, row, redis, mailbox
<1>1. pc[r] = "idle" /\ pc' = [pc EXCEPT ![r] = pc'[r]] /\ pc'[r] \in {"query", "get", "session"}
  BY DEF Receive, FirstStep, IInv, TypeOK
<1>2. /\ \A s \in Requests \ {r} : shown'[s] = shown[s]
      /\ shown' \in [Requests -> Codes \cup Enables \cup Passwords \cup {None}]
      /\ r \in Verifies \cup Resets => shown'[r] \in mailed \cup {None}
      /\ r \in Confirms => shown'[r] \in {e \in Enables : answer[e] = "202"} \cup {None}
  <2>1. PICK s \in Presentable(r) : shown' = [shown EXCEPT ![r] = s]
    BY DEF Receive
  <2>2. s \in Codes \cup Enables \cup Passwords \cup {None}
    BY DEF Presentable, IInv, TypeOK
  <2>3. shown'[r] = s
    BY <2>1 DEF IInv, TypeOK
  <2> QED
    BY <2>1, <2>2, <2>3, Kinds DEF Presentable, IInv, TypeOK, Guarded
<1>3. UNCHANGED <<user, account, password, verified, secondFactor, code, enabling, session,
                  mailed, spent, answer>>
  BY DEF Receive
<1>4. TypeOK'
  <2>1. chosen' \in [Requests -> Passwords \cup {None}]
    BY DEF Receive, IInv, TypeOK
  <2>2. pc' \in [Requests -> Steps]
    BY <1>1 DEF IInv, TypeOK, Steps
  <2> QED
    BY <1>2, <1>3, <2>1, <2>2 DEF IInv, TypeOK
<1>5. ASSUME NEW s \in Requests PROVE Sane(s)'
  <2>1. CASE s # r
    BY <2>1, <1>1, <1>2, <1>3, OtherSane DEF IInv, TypeOK
  <2>2. CASE s = r
    <3>1. Sane(r) /\ answer[r] = "none" /\ r \notin mailed
      BY <1>1 DEF IInv, Sane
    <3> QED
      BY <2>2, <3>1, <1>1, <1>2, <1>3 DEF Sane, Succeeded
  <2> QED
    BY <2>1, <2>2
<1>6. Shared'
  <2>1. OneInserts'
    BY <1>1, Kinds DEF IInv, TypeOK, Shared, OneInserts
  <2>2. LiveCodesFresh' /\ (spent \subseteq mailed)' /\ (account = user)'
    BY <1>3 DEF IInv, Shared, LiveCodesFresh
  <2>3. LiveCodeIsMailed'
    BY <1>1, <1>3, Kinds DEF IInv, TypeOK, Shared, LiveCodeIsMailed, Fell, Succeeded
  <2>4. EnabledSecretIsConfirmed'
    BY <1>1, <1>2, <1>3, Kinds DEF IInv, TypeOK, Shared, EnabledSecretIsConfirmed
  <2> QED
    BY <2>1, <2>2, <2>3, <2>4 DEF Shared
<1> QED
  BY <1>4, <1>5, <1>6 DEF IInv

LEMMA CommitKeeps == ASSUME IInv, NEW r \in Requests, Commit(r) PROVE IInv'
<1> USE DEF Commit, Goto, redis, mailbox, input
<1>1. r \in Registers /\ user = None /\ pc[r] = "commit"
  BY DEF IInv, Sane
<1>2. TypeOK'
  BY <1>1, Kinds DEF IInv, TypeOK, Steps
<1>3. ASSUME NEW s \in Requests PROVE Sane(s)'
  <2>1. CASE s # r
    BY <2>1, <1>1, OtherSane DEF IInv, TypeOK
  <2>2. CASE s = r
    <3>1. Sane(r) /\ answer[r] = "none" /\ r \notin mailed
      BY <1>1 DEF IInv, Sane
    <3>2. pc'[r] = "store"
      BY DEF IInv, TypeOK
    <3> QED
      BY <2>2, <1>1, <3>1, <3>2, Kinds DEF Sane, Succeeded, Guarded
  <2> QED
    BY <2>1, <2>2
<1>4. Shared'
  <2>1. OneInserts'
    BY Kinds DEF IInv, TypeOK, Shared, OneInserts
  <2>2. LiveCodesFresh' /\ (spent \subseteq mailed)' /\ (account = user)'
    BY DEF IInv, Shared, LiveCodesFresh
  <2>3. LiveCodeIsMailed'
    BY <1>1, Kinds DEF IInv, TypeOK, Shared, LiveCodeIsMailed, Fell, Succeeded
  <2>4. EnabledSecretIsConfirmed'
    BY <1>1, FactorStays DEF IInv, TypeOK
  <2> QED
    BY <2>1, <2>2, <2>3, <2>4 DEF Shared
<1> QED
  BY <1>2, <1>3, <1>4 DEF IInv

LEMMA StoreCodeKeeps == ASSUME IInv, NEW r \in Requests, StoreCode(r) PROVE IInv'
<1> USE DEF StoreCode, Goto, row, mailbox, input
<1>1. TypeOK'
  BY PurposeType DEF IInv, TypeOK, Steps
<1>2. ASSUME NEW s \in Requests PROVE Sane(s)'
  <2>1. CASE s # r
    BY <2>1, OtherSane DEF IInv, TypeOK
  <2>2. CASE s = r
    <3>1. Sane(r) /\ pc'[r] = "mail"
      BY DEF IInv, TypeOK
    <3> QED
      BY <2>2, <3>1, Kinds DEF Sane, Succeeded, Guarded
  <2> QED
    BY <2>1, <2>2
<1>3. Shared'
  <2>1. OneInserts'
    BY Kinds DEF IInv, TypeOK, Shared, OneInserts
  <2>2. r \notin spent /\ r \in Codes
    BY DEF IInv, Sane, Shared
  <2>3. \A p \in Purposes : code'[p] = IF p = Purpose(r) THEN r ELSE code[p]
    BY DEF IInv, TypeOK
  <2>4. LiveCodesFresh' /\ (spent \subseteq mailed)' /\ (account = user)'
    BY <2>2, <2>3 DEF IInv, Shared, LiveCodesFresh
  <2>5. LiveCodeIsMailed'
    BY <2>3, Kinds DEF IInv, TypeOK, Shared, LiveCodeIsMailed, Fell, Succeeded
  <2>6. EnabledSecretIsConfirmed'
    BY <2>2, FactorStays, Kinds DEF IInv, TypeOK, Guarded
  <2> QED
    BY <2>1, <2>4, <2>5, <2>6 DEF Shared
<1> QED
  BY <1>1, <1>2, <1>3 DEF IInv

\* The end of a request that mails a code, with or without success.
LEMMA MailingKeeps ==
    ASSUME IInv, NEW r \in Requests, NEW status \in Statuses, Finish(r, "mail", status),
           mailed' \in {mailed, mailed \cup {r}},
           status \in {"200", "201", "202"} => r \in mailed',
           status \notin {"200", "201", "202"} => r \in Failing,
           UNCHANGED <<row, redis, spent, input>>
    PROVE  IInv'
<1> USE DEF Finish, Goto, row, redis, input
<1>1. r \in Codes /\ pc[r] = "mail" /\ Sane(r)
  BY DEF IInv, Sane
<1>2. pc'[r] = "done" /\ answer'[r] = status /\ \A s \in Requests \ {r} : pc'[s] = pc[s]
  BY DEF IInv, TypeOK
<1>3. /\ \A e \in Enables : answer[e] = "202" => answer'[e] = "202"
      /\ \A s \in Requests : s # r => answer'[s] = answer[s]
  BY <1>1, AnsweredStays
<1>4. TypeOK'
  BY <1>1 DEF IInv, TypeOK, Steps
<1>5. ASSUME NEW s \in Requests PROVE Sane(s)'
  <2>1. CASE s # r
    BY <2>1, <1>2, <1>3, OtherSane
  <2>2. CASE s = r
    BY <2>2, <1>1, <1>2, Kinds DEF Sane, Succeeded, Guarded
  <2> QED
    BY <2>1, <2>2
<1>6. Shared'
  <2>1. OneInserts'
    BY <1>2, Kinds DEF IInv, Shared, OneInserts
  <2>2. LiveCodesFresh' /\ (spent \subseteq mailed)' /\ (account = user)'
    BY DEF IInv, Shared, LiveCodesFresh
  <2>3. LiveCodeIsMailed'
    <3> SUFFICES ASSUME NEW p \in Purposes, code[p] # None
                 PROVE  code[p] \in mailed' \/ pc'[code[p]] = "mail" \/ Fell(code[p])'
      BY DEF LiveCodeIsMailed
    <3>1. code[p] \in Requests
      BY Kinds DEF IInv, TypeOK
    <3>2. code[p] \in mailed \/ pc[code[p]] = "mail" \/ Fell(code[p])
      BY DEF IInv, Shared, LiveCodeIsMailed
    <3> QED
      BY <3>1, <3>2, <1>2, <1>3 DEF Fell, Succeeded
  <2>4. EnabledSecretIsConfirmed'
    <3>1. r \notin Confirms /\ pc[r] # "done"
      BY <1>1, Kinds DEF Guarded
    <3> QED
      BY <1>2, <1>3, <3>1, FactorStays
  <2> QED
    BY <2>1, <2>2, <2>3, <2>4 DEF Shared
<1> QED
  BY <1>4, <1>5, <1>6 DEF IInv

LEMMA DropCodeKeeps == ASSUME IInv, NEW r \in Requests, DropCode(r) PROVE IInv'
<1> USE DEF DropCode, Goto, row, input
<1>1. /\ pc[r] = "drop" /\ Sane(r) /\ shown[r] \in mailed
      /\ Purpose(shown[r]) = Purpose(r)
  BY DEF IInv, Sane
<1>2. pc'[r] = "write" /\ \A s \in Requests \ {r} : pc'[s] = pc[s]
  BY DEF IInv, TypeOK
<1>3. \A p \in Purposes : code'[p] = IF p = Purpose(r) THEN None ELSE code[p]
  BY DEF IInv, TypeOK
<1>4. TypeOK'
  BY <1>1, PurposeType DEF IInv, TypeOK, Steps
<1>5. ASSUME NEW s \in Requests PROVE Sane(s)'
  <2>1. CASE s # r
    BY <2>1, <1>2, OtherSane
  <2>2. CASE s = r
    BY <2>2, <1>1, <1>2, Kinds DEF Sane, Succeeded
  <2> QED
    BY <2>1, <2>2
<1>6. Shared'
  <2>1. OneInserts'
    BY <1>2, Kinds DEF IInv, Shared, OneInserts
  <2>2. LiveCodesFresh' /\ (spent \subseteq mailed)' /\ (account = user)'
    BY <1>1, <1>3 DEF IInv, Shared, LiveCodesFresh
  <2>3. LiveCodeIsMailed'
    BY <1>2, <1>3, Kinds DEF IInv, TypeOK, Shared, LiveCodeIsMailed, Fell, Succeeded
  <2>4. EnabledSecretIsConfirmed'
    BY <1>1, <1>2, FactorStays, Kinds DEF Guarded
  <2> QED
    BY <2>1, <2>2, <2>3, <2>4 DEF Shared
<1> QED
  BY <1>4, <1>5, <1>6 DEF IInv

LEMMA StoreSecretKeeps == ASSUME IInv, NEW r \in Requests, StoreSecret(r) PROVE IInv'
<1> USE DEF StoreSecret, Finish, Goto, row, mailbox, input
<1>1. pc[r] = "store" /\ Sane(r) /\ r \in Enables /\ r \notin Codes /\ r \notin Confirms
  BY Kinds DEF IInv, Guarded
<1>2. /\ pc'[r] = "done" /\ answer'[r] = "202"
      /\ \A s \in Requests \ {r} : pc'[s] = pc[s] /\ answer'[s] = answer[s]
  BY DEF IInv, TypeOK
<1>3. \A e \in Enables : answer[e] = "202" => answer'[e] = "202"
  BY <1>2, Kinds
<1>4. TypeOK'
  BY <1>1 DEF IInv, TypeOK, Steps, Statuses
<1>5. ASSUME NEW s \in Requests PROVE Sane(s)'
  <2>1. CASE s # r
    BY <2>1, <1>2, <1>3, OtherSane
  <2>2. CASE s = r
    BY <2>2, <1>1, <1>2, <1>3, Kinds DEF Sane, Succeeded, Guarded
  <2> QED
    BY <2>1, <2>2
<1>6. Shared'
  <2>1. OneInserts'
    BY <1>2, Kinds DEF IInv, Shared, OneInserts
  <2>2. LiveCodesFresh' /\ (spent \subseteq mailed)' /\ (account = user)'
    BY DEF IInv, Shared, LiveCodesFresh
  <2>3. LiveCodeIsMailed'
    BY <1>1, <1>2, Kinds DEF IInv, TypeOK, Shared, LiveCodeIsMailed, Fell, Succeeded
  <2>4. EnabledSecretIsConfirmed'
    BY <1>1, <1>2, FactorStays
  <2> QED
    BY <2>1, <2>2, <2>3, <2>4 DEF Shared
<1> QED
  BY <1>4, <1>5, <1>6 DEF IInv

\* The UPDATE, or the DEL of the session, with whatever answer follows it.
LEMMA UpdateKeeps ==
    ASSUME IInv, NEW r \in Requests, Update(r), NEW st \in Statuses \ {"401", "409"},
           \/ r \in Confirms /\ Goto(r, "write", "drop") /\ UNCHANGED answer
           \/ Finish(r, "write", st)
    PROVE  IInv'
<1> USE DEF mailbox, input
<1>1. /\ pc[r] = "write" /\ Sane(r) /\ answer[r] = "none"
      /\ r \notin Codes /\ r \notin Registers /\ r \notin Enables
  BY Kinds DEF IInv, Sane, Finish, Goto, Update, Guarded
<1>2. /\ pc' \in [Requests -> Steps] /\ answer' \in [Requests -> Statuses]
      /\ \A s \in Requests \ {r} : pc'[s] = pc[s] /\ answer'[s] = answer[s]
  BY DEF IInv, TypeOK, Finish, Goto, Steps
<1>3. \/ r \in Confirms /\ pc'[r] = "drop" /\ answer'[r] = answer[r]
      \/ pc'[r] = "done" /\ answer'[r] = st
  BY DEF IInv, TypeOK, Finish, Goto
<1>4. \A e \in Enables : answer[e] = "202" => answer'[e] = "202"
  BY <1>1, <1>2, Kinds
<1>5. UNCHANGED <<user, account, code, enabling, mailed, spent, shown, chosen>>
  BY DEF Update
<1>6. TypeOK'
  <2>1. password' \in Passwords \cup {None}
    BY DEF Update, IInv, TypeOK
  <2>2. verified' \in BOOLEAN /\ session' \in BOOLEAN
    BY DEF Update, IInv, TypeOK
  <2>3. secondFactor' \in Enables \cup {None}
    BY <1>1 DEF Update, NewSecret, IInv, TypeOK, Sane
  <2> QED
    BY <1>2, <1>5, <2>1, <2>2, <2>3 DEF IInv, TypeOK
<1>7. ASSUME NEW s \in Requests PROVE Sane(s)'
  <2>1. CASE s # r
    BY <2>1, <1>2, <1>4, <1>5, OtherSane
  <2>2. CASE s = r
    <3>1. r \in Confirms => r \notin Verifies \cup Resets
      BY Kinds DEF Guarded
    <3> QED
      BY <2>2, <3>1, <1>1, <1>3, <1>4, <1>5 DEF Sane, Succeeded
  <2> QED
    BY <2>1, <2>2
<1>8. Shared'
  <2>1. OneInserts'
    BY <1>1, <1>2, Kinds DEF IInv, Shared, OneInserts
  <2>2. LiveCodesFresh' /\ (spent \subseteq mailed)' /\ (account = user)'
    BY <1>5 DEF IInv, Shared, LiveCodesFresh
  <2>3. LiveCodeIsMailed'
    BY <1>1, <1>2, <1>5, Kinds DEF IInv, TypeOK, Shared, LiveCodeIsMailed, Fell, Succeeded
  <2>4. EnabledSecretIsConfirmed'
    <3>1. CASE secondFactor' = secondFactor
      BY <3>1, <1>1, <1>2, <1>5, FactorStays
    <3>2. CASE secondFactor' = NewSecret(r) /\ r \in Confirms
      BY <3>2, <1>1, <1>3, <1>4, <1>5 DEF NewSecret, EnabledSecretIsConfirmed, Sane
    <3>3. CASE secondFactor' = NewSecret(r) /\ r \notin Confirms
      BY <3>3 DEF NewSecret, EnabledSecretIsConfirmed
    <3> QED
      BY <3>1, <3>2, <3>3 DEF Update
  <2> QED
    BY <2>1, <2>2, <2>3, <2>4 DEF Shared
<1> QED
  BY <1>6, <1>7, <1>8 DEF IInv

LEMMA DropSecretKeeps == ASSUME IInv, NEW r \in Requests, DropSecret(r) PROVE IInv'
<1> USE DEF DropSecret, Finish, Goto, row, mailbox, input
<1>1. pc[r] = "drop" /\ Sane(r) /\ r \in Confirms
  BY DEF IInv
<1>2. r \notin Enables /\ r \notin Codes /\ r \notin Registers /\ r \notin Verifies \cup Resets
  BY <1>1, Kinds DEF Guarded
<1>3. /\ pc'[r] = "done" /\ answer'[r] = "202"
      /\ \A s \in Requests \ {r} : pc'[s] = pc[s] /\ answer'[s] = answer[s]
  BY DEF IInv, TypeOK
<1>4. \A e \in Enables : answer[e] = "202" => answer'[e] = "202"
  BY <1>3, Kinds
<1>5. TypeOK'
  BY DEF IInv, TypeOK, Steps, Statuses
<1>6. ASSUME NEW s \in Requests PROVE Sane(s)'
  <2>1. CASE s # r
    BY <2>1, <1>3, <1>4, OtherSane
  <2>2. CASE s = r
    BY <2>2, <1>1, <1>2, <1>3, <1>4 DEF Sane, Succeeded
  <2> QED
    BY <2>1, <2>2
<1>7. Shared'
  <2>1. OneInserts'
    BY <1>3, Kinds DEF IInv, Shared, OneInserts
  <2>2. LiveCodesFresh' /\ (spent \subseteq mailed)' /\ (account = user)'
    BY DEF IInv, Shared, LiveCodesFresh
  <2>3. LiveCodeIsMailed'
    BY <1>2, <1>3, Kinds DEF IInv, TypeOK, Shared, LiveCodeIsMailed, Fell, Succeeded
  <2>4. EnabledSecretIsConfirmed'
    BY <1>1, <1>3, FactorStays
  <2> QED
    BY <2>1, <2>2, <2>3, <2>4 DEF Shared
<1> QED
  BY <1>5, <1>6, <1>7 DEF IInv

-----------------------------------------------------------------------------
(* Errors, crashes and the environment *)

LEMMA FaultKeeps == ASSUME IInv, NEW r \in Failing, Fault(r) PROVE IInv'
<1>0. r \in Requests
  BY CredentialsAssumption
<1>1. CASE r \in Registers /\ Pass(r, "query", "insert")
  BY <1>0, <1>1, PassKeeps DEF Steps
<1>2. CASE r \in Verifies \cup Resets /\ Pass(r, "drop", "write")
  <2>1. r \notin Confirms
    BY <1>2, Kinds DEF Guarded
  <2> QED
    BY <1>0, <1>2, <2>1, PassKeeps DEF Steps
<1>3. ASSUME NEW st \in Statuses, Refuse(r, pc[r], st),
             pc[r] \notin {"idle", "mail", "done"},
             st \in {"200", "201", "202"} => r \in Enables,
             r \in Confirms /\ pc[r] = "drop" => st \notin {"401", "409"}
      PROVE  IInv'
  BY <1>0, <1>3, RefuseKeeps
<1>4. CASE StatementFails(r)
  <2> DEFINE st == CASE pc[r] = "session" -> "401"
                     [] r \in Verifies \cup Resets /\ pc[r] = "get" -> "401"
                     [] r \in Enables /\ pc[r] = "store" -> "202"
                     [] r \in Confirms /\ pc[r] \in {"get", "drop"} -> "empty"
                     [] OTHER -> "500"
  <2>1. r \in Enables => r \notin Confirms /\ r \notin Verifies \cup Resets
    BY Kinds DEF Guarded
  <2>2. r \in Confirms => r \notin Verifies \cup Resets
    BY Kinds DEF Guarded
  <2>3. /\ st \in {"401", "202", "empty", "500"}
        /\ st = "202" => r \in Enables
        /\ r \in Confirms /\ pc[r] = "drop" => st # "401"
    BY <2>1, <2>2
  <2>4. CASE pc[r] \notin {"idle", "mail", "done"} /\ Refuse(r, pc[r], st)
    <3> HIDE DEF st
    <3>1. st \in Statuses
      BY <2>3 DEF Statuses
    <3> QED
      BY <2>3, <2>4, <3>1, <1>3
  <2> QED
    BY <1>4, <1>1, <1>2, <2>4 DEF StatementFails
<1>5. CASE WriteUnconfirmed(r)
  <2>1. "500" \in Statuses \ {"401", "409"}
    BY DEF Statuses
  <2> QED
    BY <1>0, <1>5, <2>1, UpdateKeeps DEF WriteUnconfirmed
<1>6. CASE MailFails(r)
  <2>1. "500" \in Statuses
    BY DEF Statuses
  <2> QED
    BY <1>0, <1>6, <2>1, MailingKeeps DEF MailFails
<1> QED
  BY <1>4, <1>5, <1>6 DEF Fault

LEMMA CrashKeeps == ASSUME IInv, ServerCrash PROVE IInv'
<1> USE DEF row, redis, mailbox, input
<1>1. /\ \A r \in Requests : pc'[r] = IF pc[r] = "idle" THEN "idle" ELSE "done"
      /\ \A r \in Requests : pc[r] \notin {"idle", "done"} => r \in Failing
      /\ UNCHANGED <<user, account, password, verified, secondFactor, code, enabling,
                     session, mailed, spent, shown, chosen, answer>>
  BY DEF ServerCrash
<1>2. TypeOK'
  BY DEF ServerCrash, IInv, TypeOK, Steps
<1>3. ASSUME NEW r \in Requests PROVE Sane(r)'
  <2>1. Sane(r)
    BY DEF IInv
  <2> QED
    BY <2>1, <1>1 DEF Sane, Succeeded
<1>4. Shared'
  <2>1. OneInserts'
    BY <1>1, Kinds DEF OneInserts
  <2>2. LiveCodesFresh' /\ (spent \subseteq mailed)' /\ (account = user)'
    BY <1>1 DEF IInv, Shared, LiveCodesFresh
  <2>3. LiveCodeIsMailed'
    <3> SUFFICES ASSUME NEW p \in Purposes, code[p] # None
                 PROVE  code[p] \in mailed \/ Fell(code[p])'
      BY <1>1 DEF LiveCodeIsMailed
    <3>1. code[p] \in Requests
      BY Kinds DEF IInv, TypeOK
    <3>2. code[p] \in mailed \/ pc[code[p]] = "mail" \/ Fell(code[p])
      BY DEF IInv, Shared, LiveCodeIsMailed
    <3>3. Sane(code[p])
      BY <3>1 DEF IInv
    <3> QED
      BY <3>1, <3>2, <3>3, <1>1 DEF Fell, Succeeded, Sane
  <2>4. EnabledSecretIsConfirmed'
    <3> SUFFICES ASSUME secondFactor # None PROVE EnabledSecretIsConfirmed'
      BY <1>1 DEF EnabledSecretIsConfirmed
    <3>1. PICK c \in Confirms :
             /\ shown[c] = secondFactor
             /\ \/ pc[c] = "drop"
                \/ pc[c] = "done" /\ answer[c] \notin {"401", "409"}
      BY DEF IInv, Shared, EnabledSecretIsConfirmed
    <3>2. answer[secondFactor] = "202"
      BY DEF IInv, Shared, EnabledSecretIsConfirmed
    <3>3. c \in Requests /\ Sane(c)
      BY Kinds DEF IInv
    <3>4. pc'[c] = "done" /\ answer'[c] \notin {"401", "409"}
      BY <3>1, <3>3, <1>1 DEF Sane
    <3> QED
      BY <3>1, <3>2, <3>4, <1>1 DEF EnabledSecretIsConfirmed
  <2> QED
    BY <2>1, <2>2, <2>3, <2>4 DEF Shared
<1> QED
  BY <1>2, <1>3, <1>4 DEF IInv

\* What changes without a request disturbs at most which codes are live.
LEMMA EnvironmentKeeps == ASSUME IInv, Environment PROVE IInv'
<1> USE DEF row, mailbox, input
<1>1. /\ UNCHANGED <<user, account, password, verified, secondFactor, mailed, spent,
                     pc, shown, chosen, answer>>
      /\ enabling' \in {enabling, None}
      /\ session' \in BOOLEAN
      /\ \/ code' = code
         \/ \E p \in Purposes : code' = [code EXCEPT ![p] = None]
  BY DEF IInv, TypeOK, Environment, LogIn, SessionExpires, SecretExpires, CodeExpires
<1>2. \A p \in Purposes : code'[p] \in {code[p], None}
  BY <1>1 DEF IInv, TypeOK
<1>3. TypeOK'
  BY <1>1 DEF IInv, TypeOK
<1>4. ASSUME NEW r \in Requests PROVE Sane(r)'
  <2>1. Sane(r)
    BY DEF IInv
  <2> QED
    BY <2>1, <1>1 DEF Sane, Succeeded
<1>5. Shared'
  BY <1>1, <1>2 DEF IInv, Shared, OneInserts, LiveCodesFresh, LiveCodeIsMailed, Fell,
                    Succeeded, EnabledSecretIsConfirmed
<1> QED
  BY <1>3, <1>4, <1>5 DEF IInv

-----------------------------------------------------------------------------
(* Every statement of a handler *)

LEMMA HandleKeeps == ASSUME IInv, NEW r \in Requests, Handle(r) PROVE IInv'
<1> USE DEF Statuses, Steps
<1>1. CASE EmailTaken(r) \/ NoUser(r) \/ WrongCode(r) \/ NotAuthorized(r)
           \/ WrongPassword(r) \/ SamePassword(r) \/ AlreadyEnabled(r)
           \/ WrongPasscode(r) \/ SecretGone(r) \/ InsertViolates(r)
  BY <1>1, RefuseKeeps
     DEF EmailTaken, NoUser, WrongCode, NotAuthorized, WrongPassword, SamePassword,
         AlreadyEnabled, WrongPasscode, SecretGone, InsertViolates
<1>2. CASE EmailFree(r) \/ FindUser(r) \/ ReadPassword(r) \/ ReadSecret(r)
  <2>1. r \in Resends \cup Recovers => r \notin Registers
    BY Kinds
  <2> QED
    BY <1>2, <2>1, PassKeeps DEF EmailFree, FindUser, ReadPassword, ReadSecret
<1>3. CASE InsertUser(r)
  <2>1. r \in Registers
    BY <1>3 DEF InsertUser, Pass, Goto, IInv, Sane
  <2> QED
    BY <1>3, <2>1, PassKeeps DEF InsertUser
<1>4. CASE InsertAccount(r)
  <2>1. pc[r] = "account" /\ r \in Registers /\ user = None
    BY <1>4 DEF InsertAccount, Pass, Goto, IInv, Sane
  <2>2. EmailUnlocked(r)
    BY <2>1 DEF EmailUnlocked, IInv, Shared, OneInserts
  <2> QED
    BY <1>4, <2>1, <2>2, PassKeeps DEF InsertAccount
<1>5. CASE ReadCode(r)
  <2>1. shown[r] # None /\ Purpose(shown[r]) = Purpose(r)
    BY <1>5, PurposeType DEF ReadCode, IInv, Shared, LiveCodesFresh
  <2> QED
    BY <1>5, <2>1, PassKeeps DEF ReadCode
<1>6. CASE Authorize(r)
  BY <1>6, PassKeeps DEF Authorize
<1>7. CASE NotEnabled(r)
  <2>1. r \notin Registers
    BY <1>7, Kinds DEF NotEnabled, Guarded
  <2> QED
    BY <1>7, <2>1, PassKeeps DEF NotEnabled
<1>8. CASE Mail(r)
  BY <1>8, MailingKeeps DEF Mail
<1>9. CASE Write(r)
  <2>1. "200" \in Statuses \ {"401", "409"} /\ "202" \in Statuses \ {"401", "409"}
    OBVIOUS
  <2> QED
    BY <1>9, <2>1, UpdateKeeps DEF Write
<1> QED
  BY <1>1, <1>2, <1>3, <1>4, <1>5, <1>6, <1>7, <1>8, <1>9, CommitKeeps, StoreCodeKeeps,
     DropCodeKeeps, StoreSecretKeeps, DropSecretKeeps DEF Handle

LEMMA StepKeeps == IInv /\ [Next]_vars => IInv'
<1> SUFFICES ASSUME IInv, [Next]_vars PROVE IInv'
  OBVIOUS
<1>1. CASE \E r \in Requests : Receive(r) \/ Handle(r)
  BY <1>1, ReceiveKeeps, HandleKeeps
<1>2. CASE \E r \in Failing : Fault(r)
  BY <1>2, FaultKeeps
<1>3. CASE UNCHANGED vars
  BY <1>3 DEF vars, row, redis, mailbox, input, IInv, TypeOK, Sane, Succeeded, Shared, OneInserts,
              LiveCodesFresh, LiveCodeIsMailed, Fell, EnabledSecretIsConfirmed
<1> QED
  BY <1>1, <1>2, <1>3, CrashKeeps, EnvironmentKeeps DEF Next

LEMMA Invariance == Spec => []IInv
  BY InitInv, StepKeeps, PTL DEF Spec

-----------------------------------------------------------------------------
(* Theorems *)

\* The state stays well-typed: what a handler carries from one statement to the
\* next is what its last statements expect.
THEOREM TypeCorrect == Spec => []TypeOK
<1>1. IInv => TypeOK
  BY DEF IInv
<1> QED
  BY <1>1, Invariance, PTL

\* A registration that is answered 201 owns the row of the email, with its
\* account and its mail, however many registrations overlap and fail.
THEOREM Registered == Spec => []CreatedIsRegistered
<1>1. IInv => CreatedIsRegistered
  BY Kinds DEF IInv, Shared, Sane, CreatedIsRegistered
<1> QED
  BY <1>1, Invariance, PTL

\* A code in Redis is one the user has been sent or is being sent, unless an
\* error kept it from being sent.
THEOREM LiveCodes == Spec => []LiveCodeIsMailed
<1>1. IInv => LiveCodeIsMailed
  BY DEF IInv, Shared
<1> QED
  BY <1>1, Invariance, PTL

\* The second factor that is stored is one some request confirmed.
THEOREM SecretConfirmed == Spec => []EnabledSecretIsConfirmed
<1>1. IInv => EnabledSecretIsConfirmed
  BY DEF IInv, Shared
<1> QED
  BY <1>1, Invariance, PTL

\* No step but ReadCode takes a request past the check of its code.
LEMMA OnlyReadCode ==
    ASSUME IInv, Next, NEW r \in Verifies \cup Resets, pc[r] = "get", pc'[r] = "drop"
    PROVE  ReadCode(r)
<1>1. r \in Requests /\ r \notin Confirms
  BY Kinds DEF Guarded
<1>2. ASSUME NEW t \in Requests, NEW from, NEW to, Goto(t, from, to)
      PROVE  t = r /\ from = "get" /\ to = "drop"
  BY <1>1, <1>2 DEF Goto, IInv, TypeOK
<1>3. ASSUME NEW t \in Requests, Receive(t) PROVE FALSE
  BY <1>2, <1>3 DEF Receive
<1>4. ASSUME NEW t \in Requests, Handle(t) PROVE ReadCode(r)
  <2>1. \A from, to : Pass(t, from, to) => t = r /\ from = "get" /\ to = "drop"
    BY <1>2 DEF Pass
  <2>2. \A from, status : ~Finish(t, from, status) /\ ~Refuse(t, from, status)
    BY <1>2 DEF Refuse, Finish
  <2>3. CASE EmailTaken(t) \/ EmailFree(t) \/ InsertUser(t) \/ InsertViolates(t)
             \/ InsertAccount(t) \/ Commit(t) \/ FindUser(t) \/ NoUser(t)
             \/ StoreCode(t) \/ Mail(t)
    BY <1>2, <2>1, <2>2, <2>3
       DEF EmailTaken, EmailFree, InsertUser, InsertViolates, InsertAccount, Commit,
           FindUser, NoUser, StoreCode, Mail
  <2>4. CASE Authorize(t) \/ NotAuthorized(t) \/ ReadPassword(t) \/ WrongPassword(t)
             \/ SamePassword(t) \/ NotEnabled(t) \/ AlreadyEnabled(t)
    BY <2>1, <2>2, <2>4
       DEF Authorize, NotAuthorized, ReadPassword, WrongPassword, SamePassword,
           NotEnabled, AlreadyEnabled
  <2>5. CASE StoreSecret(t) \/ ReadSecret(t) \/ WrongPasscode(t) \/ SecretGone(t)
             \/ Write(t) \/ DropSecret(t) \/ WrongCode(t) \/ DropCode(t)
    BY <1>2, <2>1, <2>2, <2>5
       DEF StoreSecret, ReadSecret, WrongPasscode, SecretGone, Write, DropSecret,
           WrongCode, DropCode
  <2>6. CASE ReadCode(t)
    BY <2>1, <2>6 DEF ReadCode
  <2> QED
    BY <1>4, <2>3, <2>4, <2>5, <2>6 DEF Handle
<1>5. ASSUME NEW t \in Failing, Fault(t) PROVE FALSE
  <2>1. t \in Requests
    BY CredentialsAssumption
  <2>2. \A from, to : Pass(t, from, to) => from = "get" /\ to = "drop"
    BY <1>2, <2>1 DEF Pass
  <2>3. \A from, status : ~Finish(t, from, status) /\ ~Refuse(t, from, status)
    BY <1>2, <2>1 DEF Refuse, Finish
  <2> QED
    BY <1>5, <2>2, <2>3 DEF Fault, StatementFails, WriteUnconfirmed, MailFails
<1>6. ~ServerCrash
  BY <1>1 DEF ServerCrash
<1>7. ~Environment
  BY DEF Environment, LogIn, SessionExpires, SecretExpires, CodeExpires
<1> QED
  BY <1>3, <1>4, <1>5, <1>6, <1>7 DEF Next

\* Once a request has deleted a code, no request gets past the check with it.
THEOREM CodesSpentOnce == Spec => SpentCodesStaySpent
<1>1. ASSUME IInv, [Next]_vars, NEW r \in Verifies \cup Resets,
             pc[r] = "get", pc'[r] = "drop"
      PROVE  shown[r] \notin spent
  <2>1. Next
    BY <1>1 DEF vars
  <2>2. ReadCode(r)
    BY <1>1, <2>1, OnlyReadCode
  <2> QED
    BY <1>1, <2>2, PurposeType DEF ReadCode, IInv, Shared, LiveCodesFresh
<1>2. IInv /\ [Next]_vars =>
        [\A r \in Verifies \cup Resets :
            pc[r] = "get" /\ pc'[r] = "drop" => shown[r] \notin spent]_vars
  BY <1>1
<1> QED
  BY <1>2, Invariance, PTL DEF Spec, SpentCodesStaySpent

=============================================================================
