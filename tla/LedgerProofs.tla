---------------------------- MODULE LedgerProofs ----------------------------
(***************************************************************************)
(* Proofs about Ledger, for any users, TAMs, requests, batches and pool.   *)
(***************************************************************************)
EXTENDS Ledger, FiniteSetTheorems, TLAPS

-----------------------------------------------------------------------------
(* Types *)

LEMMA CurrentType ==
    ASSUME TypeOK, NEW r \in Requests, todo[r] # <<>>
    PROVE  /\ Current(r) \in Tams
           /\ Tail(todo[r]) \in Seq(Tams)
<1>1. todo[r] \in Seq(Tams)
  BY DEF TypeOK
<1> QED
  BY <1>1 DEF Current

\* What TypeOK says of the variables of the goroutines.
HandlersTyped ==
    /\ expired \subseteq Tams
    /\ keyed \subseteq Users
    /\ pc \in [Requests -> {"idle", "next", "account", "history", "done"} \cup InTransaction]
    /\ todo \in [Requests -> Seq(Tams)]
    /\ \A r \in Requests : pc[r] \in InTransaction => todo[r] # <<>>
    /\ replies \in [Requests -> Seq(Replies)]
    /\ hasError \in [Requests -> BOOLEAN]
    /\ answer \in [Requests -> Answers]

\* What it says of the committed tables.
TablesTyped ==
    /\ balance \in [Users -> Int]
    /\ ledger \in Seq(Rows)

\* What it says of the connections and the open transactions.
TransactionsTyped ==
    /\ free \in Nat
    /\ draft = [r \in Requests |-> draft[r]]
    /\ \A r \in Requests : /\ DOMAIN draft[r] \subseteq Users
                           /\ draft[r] \in [DOMAIN draft[r] -> Int]
    /\ stamp \in [Requests -> Nat]
    /\ certs \in [Requests -> [sender : Int, receiver : Int]]

LEMMA TypeParts == TypeOK <=> HandlersTyped /\ TablesTyped /\ TransactionsTyped
  BY DEF TypeOK, HandlersTyped, TablesTyped, TransactionsTyped

LEMMA InitTyped == Init => TypeOK
<1> SUFFICES ASSUME Init PROVE TypeOK
  OBVIOUS
<1>1. HandlersTyped
  BY DEF Init, HandlersTyped, InTransaction, Answers, Unanswered
<1>2. TablesTyped
  BY PaymentsAssumption DEF Init, TablesTyped
<1>3. TransactionsTyped
  BY LedgerAssumption DEF Init, TransactionsTyped, NoRows
<1> QED
  BY <1>1, <1>2, <1>3, TypeParts

\* What a balance is rounded to is a number of cents.
LEMMA RoundedToCents ==
    ASSUME NEW cents \in Int, NEW halves \in Int
    PROVE  Debited(cents, halves) \in Int /\ Credited(cents, halves) \in Int
<1>1. ASSUME NEW n \in Int PROVE Cents(n) \in Int
  BY DEF Cents
<1> QED
  BY <1>1 DEF Debited, Credited

\* Moving on to the next statement.
LEMMA AdvanceTyped ==
    ASSUME TypeOK, NEW r \in Requests, NEW from, NEW to \in InTransaction,
           Advance(r, from, to), todo[r] # <<>>
    PROVE  HandlersTyped'
  BY DEF TypeOK, Advance, HandlersTyped, InTransaction

LEMMA ReportTyped ==
    ASSUME TypeOK, NEW r \in Requests, NEW outcome \in Outcomes,
           Report(r, outcome), todo[r] # <<>>
    PROVE  HandlersTyped'
<1>1. Current(r) \in Tams /\ Tail(todo[r]) \in Seq(Tams)
  BY CurrentType
<1>2. [tam |-> Current(r), outcome |-> outcome] \in Replies
  BY <1>1 DEF Replies
<1>3. Append(replies[r], [tam |-> Current(r), outcome |-> outcome]) \in Seq(Replies)
  BY <1>2 DEF TypeOK
<1>4. replies' \in [Requests -> Seq(Replies)]
  BY <1>3 DEF TypeOK, Report
<1>5. todo' \in [Requests -> Seq(Tams)]
  BY <1>1 DEF TypeOK, Report
<1>6. /\ pc' \in [Requests -> {"idle", "next", "account", "history", "done"} \cup InTransaction]
      /\ \A s \in Requests : pc'[s] \in InTransaction => todo'[s] # <<>>
  BY DEF TypeOK, Report, InTransaction
<1>7. hasError' \in [Requests -> BOOLEAN]
  BY DEF TypeOK, Report
<1> QED
  BY <1>4, <1>5, <1>6, <1>7 DEF TypeOK, Report, HandlersTyped

LEMMA CloseTyped ==
    ASSUME TypeOK, NEW r \in Requests, CloseTransaction(r)
    PROVE  TransactionsTyped'
<1>1. free' \in Nat /\ stamp' \in [Requests -> Nat]
  BY DEF TypeOK, CloseTransaction
<1>2. certs' \in [Requests -> [sender : Int, receiver : Int]]
  BY DEF TypeOK, CloseTransaction
<1>3. /\ draft' = [s \in Requests |-> draft'[s]]
      /\ \A s \in Requests : /\ DOMAIN draft'[s] \subseteq Users
                             /\ draft'[s] \in [DOMAIN draft'[s] -> Int]
  <2>1. DOMAIN draft = Requests
    BY DEF TypeOK
  <2>2. \A s \in Requests : draft'[s] = IF s = r THEN NoRows ELSE draft[s]
    BY <2>1 DEF CloseTransaction
  <2>3. DOMAIN NoRows = {} /\ NoRows \in [{} -> Int]
    BY DEF NoRows
  <2> QED
    BY <2>1, <2>2, <2>3 DEF TypeOK, CloseTransaction
<1> QED
  BY <1>1, <1>2, <1>3 DEF TransactionsTyped

LEMMA RollBackTyped ==
    ASSUME TypeOK, NEW r \in Requests, NEW outcome \in Outcomes,
           RollBack(r, outcome), todo[r] # <<>>
    PROVE  TypeOK'
<1>1. HandlersTyped'
  BY ReportTyped DEF RollBack
<1>2. TransactionsTyped'
  BY CloseTyped DEF RollBack
<1>3. TablesTyped'
  BY DEF TypeOK, RollBack, TablesTyped
<1> QED
  BY <1>1, <1>2, <1>3 DEF TypeOK, HandlersTyped, TablesTyped, TransactionsTyped

LEMMA WriteTyped ==
    ASSUME TypeOK, NEW r \in Requests, NEW u \in Users, NEW value \in Int,
           Write(r, u, value)
    PROVE  /\ draft' = [s \in Requests |-> draft'[s]]
           /\ \A s \in Requests : /\ DOMAIN draft'[s] \subseteq Users
                                  /\ draft'[s] \in [DOMAIN draft'[s] -> Int]
<1> DEFINE row == [v \in DOMAIN draft[r] \cup {u} |-> IF v = u THEN value ELSE draft[r][v]]
<1>1. DOMAIN draft = Requests
  BY DEF TypeOK
<1>2. draft' = [draft EXCEPT ![r] = row]
  BY DEF Write
<1>3. \A s \in Requests : draft'[s] = IF s = r THEN row ELSE draft[s]
  BY <1>1, <1>2
<1>4. DOMAIN row = DOMAIN draft[r] \cup {u} /\ DOMAIN row \subseteq Users
  BY DEF TypeOK
<1>5. row \in [DOMAIN row -> Int]
  BY <1>4 DEF TypeOK
<1>6. draft' = [s \in Requests |-> draft'[s]]
  BY <1>1, <1>2
<1> HIDE DEF row
<1> QED
  BY <1>3, <1>4, <1>5, <1>6 DEF TypeOK

LEMMA ViewType ==
    ASSUME TypeOK, NEW r \in Requests, NEW u \in Users
    PROVE  View(r, u) \in Int
  BY DEF TypeOK, View

LEMMA PublishTyped ==
    ASSUME TypeOK, NEW r \in Requests, Publish(r), todo[r] # <<>>
    PROVE  TablesTyped'
<1>1. balance' \in [Users -> Int]
  BY ViewType DEF Publish
<1>2. [tam |-> Current(r), sender |-> certs[r].sender,
       receiver |-> certs[r].receiver, stamp |-> stamp[r]] \in Rows
  BY CurrentType DEF TypeOK, Rows
<1>3. ledger' \in Seq(Rows)
  BY <1>2 DEF TypeOK, Publish
<1> QED
  BY <1>1, <1>3 DEF TablesTyped

LEMMA AnswerTyped ==
    ASSUME TypeOK, NEW r \in Requests, NEW to \in {"account", "history", "done"},
           NEW reply \in Answers, Answer(r, to, reply)
    PROVE  TypeOK'
<1>1. HandlersTyped'
  BY DEF TypeOK, Answer, HandlersTyped, InTransaction, dbVars
<1>2. TablesTyped' /\ TransactionsTyped'
  BY DEF TypeOK, Answer, TablesTyped, TransactionsTyped, dbVars, txVars
<1> QED
  BY <1>1, <1>2 DEF TypeOK, HandlersTyped, TablesTyped, TransactionsTyped

LEMMA UnansweredType == Unanswered \in Answers
  BY DEF Unanswered, Answers

\* The loop over the batch keeps the types.
LEMMA LoopTyped ==
    ASSUME TypeOK, NEW r \in Requests,
           \/ Reject(r) \/ Begin(r) \/ AlreadySubmitted(r) \/ NotSubmitted(r)
           \/ Insert(r) \/ InsertViolates(r) \/ Debit(r) \/ Credit(r)
           \/ CertifySender(r) \/ SenderHasNoKey(r)
           \/ CertifyReceiver(r) \/ ReceiverHasNoKey(r)
           \/ Attach(r) \/ Commit(r) \/ CommitUnconfirmed(r)
           \/ StatementFails(r) \/ DeadlockVictim(r)
    PROVE  TypeOK'
<1> USE DEF Outcomes
<1>0. todo[r] # <<>>
  <2>1. DeadlockVictim(r) => pc[r] \in InTransaction
    BY DEF DeadlockVictim, Deadlocked, Waits, InTransaction
  <2>2. CASE HasNext(r)
    BY <2>2 DEF HasNext
  <2>3. CASE pc[r] \in InTransaction
    BY <2>3 DEF TypeOK
  <2>4. HasNext(r) \/ pc[r] \in InTransaction
    BY <2>1 DEF Reject, Begin, AlreadySubmitted, NotSubmitted, Insert, InsertViolates,
       Debit, Credit, CertifySender, SenderHasNoKey, CertifyReceiver, ReceiverHasNoKey,
       Attach, Commit, CommitUnconfirmed, StatementFails, Advance, InTransaction
  <2> QED
    BY <2>2, <2>3, <2>4
<1>a. Current(r) \in Tams
  BY <1>0, CurrentType
<1>b. Sender[Current(r)] \in Users /\ Receiver[Current(r)] \in Users /\ Amount[Current(r)] \in Int
  BY <1>a, PaymentsAssumption
<1>1. CASE \/ AlreadySubmitted(r) \/ InsertViolates(r) \/ SenderHasNoKey(r)
           \/ ReceiverHasNoKey(r) \/ StatementFails(r) \/ DeadlockVictim(r)
  <2>1. \E outcome \in Outcomes : RollBack(r, outcome)
    BY <1>1 DEF AlreadySubmitted, InsertViolates, SenderHasNoKey, ReceiverHasNoKey,
       StatementFails, DeadlockVictim
  <2> QED
    BY <1>0, <2>1, RollBackTyped
<1>2. CASE Reject(r)
  <2>1. HandlersTyped'
    BY <1>0, <1>2, ReportTyped DEF Reject
  <2>2. TablesTyped' /\ TransactionsTyped'
    BY <1>2 DEF TypeOK, Reject, TablesTyped, TransactionsTyped, txVars
  <2> QED
    BY <2>1, <2>2 DEF TypeOK, HandlersTyped, TablesTyped, TransactionsTyped
<1>3. CASE Commit(r) \/ CommitUnconfirmed(r)
  <2>1. \E outcome \in Outcomes : Publish(r) /\ Report(r, outcome) /\ CloseTransaction(r)
    BY <1>3 DEF Commit, CommitUnconfirmed
  <2>2. HandlersTyped' /\ TransactionsTyped' /\ TablesTyped'
    BY <1>0, <2>1, ReportTyped, CloseTyped, PublishTyped
  <2> QED
    BY <2>2 DEF TypeOK, HandlersTyped, TablesTyped, TransactionsTyped
<1>4. CASE Debit(r) \/ Credit(r)
  <2>1. PICK u \in Users, value \in Int, from, to \in InTransaction :
           Advance(r, from, to) /\ Write(r, u, value)
    <3>1. CASE Debit(r)
      BY <1>b, <3>1, ViewType, RoundedToCents DEF Debit, InTransaction
    <3>2. CASE Credit(r)
      BY <1>b, <3>2, ViewType, RoundedToCents DEF Credit, InTransaction
    <3> QED
      BY <1>4, <3>1, <3>2
  <2>2. HandlersTyped'
    BY <1>0, <2>1, AdvanceTyped
  <2>3. TablesTyped' /\ TransactionsTyped'
    BY <1>4, <2>1, WriteTyped DEF TypeOK, Debit, Credit, TablesTyped, TransactionsTyped
  <2> QED
    BY <2>2, <2>3 DEF TypeOK, HandlersTyped, TablesTyped, TransactionsTyped
<1>5. CASE \/ Begin(r) \/ NotSubmitted(r) \/ Insert(r) \/ CertifySender(r)
           \/ CertifyReceiver(r) \/ Attach(r)
  <2>1. \E from : \E to \in InTransaction : Advance(r, from, to)
    BY <1>5 DEF Begin, NotSubmitted, Insert, CertifySender, CertifyReceiver, Attach,
       InTransaction
  <2>2. HandlersTyped'
    BY <1>0, <2>1, AdvanceTyped
  <2>3. TablesTyped' /\ draft' = draft
    BY <1>5 DEF TypeOK, TablesTyped, Begin, NotSubmitted, Insert, CertifySender,
       CertifyReceiver, Attach, txVars
  <2>4. free' \in Nat /\ stamp' \in [Requests -> Nat]
    BY <1>5 DEF TypeOK, TablesTyped, Begin, NotSubmitted, Insert, CertifySender,
       CertifyReceiver, Attach, txVars
  <2>5. certs' \in [Requests -> [sender : Int, receiver : Int]]
    <3>1. CASE CertifySender(r)
      <4>1. View(r, Sender[Current(r)]) \in Int
        BY <1>b, ViewType
      <4> QED
        BY <3>1, <4>1 DEF TypeOK, CertifySender
    <3>2. CASE CertifyReceiver(r)
      <4>1. View(r, Receiver[Current(r)]) \in Int
        BY <1>b, ViewType
      <4> QED
        BY <3>2, <4>1 DEF TypeOK, CertifyReceiver
    <3>3. CASE Begin(r) \/ NotSubmitted(r) \/ Insert(r) \/ Attach(r)
      BY <3>3 DEF TypeOK, Begin, NotSubmitted, Insert, Attach, txVars
    <3> QED
      BY <1>5, <3>1, <3>2, <3>3
  <2> QED
    BY <2>2, <2>3, <2>4, <2>5 DEF TypeOK, HandlersTyped, TablesTyped
<1> QED
  BY <1>1, <1>2, <1>3, <1>4, <1>5

\* The history is answered whole, or without some of the settled TAMs.
LEMMA HistoryReads ==
    ASSUME ledger \in Seq(Rows), NEW r \in Requests, ReadHistory(r) \/ ReadHistoryCut(r)
    PROVE  \E lost \in SUBSET Tams : AnswerWithHistory(r, lost) /\ lost \subseteq Settled
<1>1. Settled \subseteq Tams
  <2> SUFFICES ASSUME NEW i \in DOMAIN ledger PROVE ledger[i].tam \in Tams
    BY DEF Settled
  <2>1. ledger[i] \in Rows
    OBVIOUS
  <2> QED
    BY <2>1 DEF Rows
<1>2. CASE ReadHistory(r)
  <2>1. {} \in SUBSET Tams /\ {} \subseteq Settled /\ AnswerWithHistory(r, {})
    BY <1>2 DEF ReadHistory
  <2> QED
    BY <2>1
<1>3. CASE ReadHistoryCut(r)
  <2>1. PICK lost \in (SUBSET Settled) \ {{}} : AnswerWithHistory(r, lost)
    BY <1>3 DEF ReadHistoryCut
  <2> QED
    BY <1>1, <2>1
<1> QED
  BY <1>2, <1>3

\* The answer, and the panic of a failed DB.Begin.
LEMMA AnsweringTyped ==
    ASSUME TypeOK, NEW r \in Requests,
           \/ AnswerAnonymous(r) \/ FindSession(r) \/ ReadAccount(r) \/ NoAccount(r) \/ AccountUnavailable(r)
           \/ ReadHistory(r) \/ ReadHistoryCut(r) \/ HistoryUnavailable(r)
    PROVE  TypeOK'
<1>1. [Unanswered EXCEPT !.status = "207"] \in Answers
      /\ [Unanswered EXCEPT !.status = Status(r)] \in Answers
  BY DEF Unanswered, Answers, Status
<1>2. CASE AnswerAnonymous(r) \/ NoAccount(r) \/ AccountUnavailable(r) \/ HistoryUnavailable(r)
  BY <1>1, <1>2, AnswerTyped
     DEF AnswerAnonymous, NoAccount, AccountUnavailable, HistoryUnavailable
<1>5. CASE FindSession(r)
  BY <1>5, UnansweredType, AnswerTyped DEF FindSession
<1>3. CASE ReadAccount(r)
  <2>1. Caller[r] \in Users /\ Len(ledger) \in Nat /\ balance[Caller[r]] \in Int
    BY LedgerAssumption DEF TypeOK
  <2>2. [answer[r] EXCEPT !.user = Caller[r], !.balance = balance[Caller[r]],
                          !.bkvcAt = Len(ledger)] \in Answers
    BY <2>1 DEF TypeOK, Answers
  <2> QED
    BY <1>3, <2>2, AnswerTyped DEF ReadAccount
<1>4. CASE ReadHistory(r) \/ ReadHistoryCut(r)
  <2>1. PICK lost \in SUBSET Tams : AnswerWithHistory(r, lost)
    BY <1>4, HistoryReads DEF TypeOK
  <2>2. [answer[r] EXCEPT !.status = Status(r), !.historyAt = Len(ledger),
                          !.unread = lost] \in Answers
    <3>1. Len(ledger) \in Nat /\ Status(r) \in {"202", "207"} /\ answer[r] \in Answers
      BY DEF TypeOK, Status
    <3> QED
      BY <3>1 DEF Answers
  <2> QED
    BY <2>1, <2>2, AnswerTyped DEF AnswerWithHistory
<1> QED
  BY <1>2, <1>3, <1>4, <1>5

LEMMA ReceiveTyped ==
    ASSUME TypeOK, NEW r \in Requests, Receive(r)
    PROVE  TypeOK'
<1>1. PICK batch \in Batches[r] : todo' = [todo EXCEPT ![r] = batch]
  BY DEF Receive
<1>2. batch \in Seq(Tams)
  BY LedgerAssumption
<1>3. HandlersTyped'
  BY <1>1, <1>2 DEF TypeOK, Receive, HandlersTyped, InTransaction, dbVars
<1>4. TablesTyped' /\ TransactionsTyped'
  BY DEF TypeOK, Receive, TablesTyped, TransactionsTyped, dbVars, txVars
<1> QED
  BY <1>3, <1>4 DEF TypeOK, HandlersTyped, TablesTyped, TransactionsTyped

LEMMA BeginPanicsTyped ==
    ASSUME TypeOK, NEW r \in Requests, BeginPanics(r)
    PROVE  TypeOK'
<1>1. [answer[r] EXCEPT !.status = "500"] \in Answers
  BY DEF TypeOK, Answers
<1>2. answer' \in [Requests -> Answers]
  BY <1>1 DEF TypeOK, BeginPanics
<1>3. HandlersTyped'
  BY <1>2 DEF TypeOK, BeginPanics, HandlersTyped, InTransaction, dbVars
<1>4. TablesTyped' /\ TransactionsTyped'
  BY DEF TypeOK, BeginPanics, TablesTyped, TransactionsTyped, dbVars, txVars
<1> QED
  BY <1>3, <1>4 DEF TypeOK, HandlersTyped, TablesTyped, TransactionsTyped

LEMMA EnvironmentTyped ==
    ASSUME TypeOK, Environment
    PROVE  TypeOK'
<1>1. CASE ServerCrash
  <2>1. HandlersTyped'
    <3>1. /\ pc' \in [Requests -> {"idle", "next", "account", "history", "done"} \cup InTransaction]
          /\ \A r \in Requests : pc'[r] \notin InTransaction
      BY <1>1 DEF TypeOK, ServerCrash, InTransaction
    <3>2. todo' \in [Requests -> Seq(Tams)] /\ replies' \in [Requests -> Seq(Replies)]
      BY <1>1 DEF TypeOK, ServerCrash
    <3>3. hasError' \in [Requests -> BOOLEAN]
      BY <1>1 DEF TypeOK, ServerCrash
    <3>4. answer' \in [Requests -> Answers]
      BY <1>1, UnansweredType DEF TypeOK, ServerCrash
    <3> QED
      BY <1>1, <3>1, <3>2, <3>3, <3>4 DEF TypeOK, ServerCrash, HandlersTyped, dbVars
  <2>2. TablesTyped'
    BY <1>1 DEF TypeOK, ServerCrash, TablesTyped, dbVars
  <2>3. TransactionsTyped'
    BY <1>1, LedgerAssumption DEF TypeOK, ServerCrash, TransactionsTyped, NoRows
  <2> QED
    BY <2>1, <2>2, <2>3 DEF TypeOK, HandlersTyped, TablesTyped, TransactionsTyped
<1>2. CASE \E u \in Rotating : DeactivateKey(u) \/ InsertKey(u)
  BY <1>2, LedgerAssumption DEF TypeOK, DeactivateKey, InsertKey, txVars
<1>3. CASE \E t \in Ageing : Expire(t)
  BY <1>3, LedgerAssumption DEF TypeOK, Expire, dbVars, txVars
<1> QED
  BY <1>1, <1>2, <1>3 DEF Environment

LEMMA StepTyped == TypeOK /\ [Next]_vars => TypeOK'
<1> SUFFICES ASSUME TypeOK, [Next]_vars PROVE TypeOK'
  OBVIOUS
<1>1. CASE UNCHANGED vars
  BY <1>1 DEF TypeOK, vars
<1>2. CASE Environment
  BY <1>2, EnvironmentTyped
<1>3. ASSUME NEW r \in Requests, Receive(r) \/ Handle(r) \/ Fault(r) \/ DeadlockVictim(r)
      PROVE  TypeOK'
  BY <1>3, LoopTyped, AnsweringTyped, ReceiveTyped, BeginPanicsTyped DEF Handle, Fault
<1> QED
  BY <1>1, <1>2, <1>3, LedgerAssumption DEF Next

\* Every variable keeps its type, whatever the interleaving and the faults.
THEOREM TypeCorrect == Spec => []TypeOK
<1> QED
  BY InitTyped, StepTyped, PTL DEF Spec

-----------------------------------------------------------------------------
(* Isolation: the inductive invariant *)

IInv == TypeOK /\ TransactionsIsolated /\ SettledOnce

LEMMA TransferAt ==
    ASSUME NEW t \in Tams, ~SelfPayment(t), NEW b \in [Users -> Int], NEW u \in Users
    PROVE  Transfer(b, t)[u] = IF u = Sender[t] THEN Debited(b[u], Amount[t])
                               ELSE IF u = Receiver[t] THEN Credited(b[u], Amount[t])
                               ELSE b[u]
  BY PaymentsAssumption DEF Transfer, SelfPayment

LEMMA TransferType ==
    ASSUME NEW t \in Tams, NEW b \in [Users -> Int]
    PROVE  Transfer(b, t) \in [Users -> Int]
  BY PaymentsAssumption, RoundedToCents DEF Transfer

\* The parties of the TAM a transaction is about.
LEMMA Parties ==
    ASSUME TypeOK, NEW r \in Requests, pc[r] \in InTransaction
    PROVE  /\ Current(r) \in Tams
           /\ Sender[Current(r)] \in Users
           /\ Receiver[Current(r)] \in Users
           /\ Amount[Current(r)] \in Int
<1>1. Current(r) \in Tams
  BY CurrentType DEF TypeOK
<1> QED
  BY <1>1, PaymentsAssumption

LEMMA WrittenRowsType ==
    ASSUME TypeOK, NEW r \in Requests
    PROVE  WrittenRows(r) \subseteq Users
  BY Parties DEF WrittenRows, HasInserted, InTransaction

\* The goroutine of r moves; the other goroutines and transactions do not.
OthersKeep(r) ==
    \A s \in Requests \ {r} : /\ pc'[s] = pc[s]
                              /\ todo'[s] = todo[s]
                              /\ draft'[s] = draft[s]
                              /\ certs'[s] = certs[s]

\* While the tables do not change, what holds of the others goes on holding.
LEMMA OthersIsolated ==
    ASSUME IInv, NEW r \in Requests, OthersKeep(r), balance' = balance, ledger' = ledger,
           NEW s \in Requests \ {r}
    PROVE  /\ Current(s)' = Current(s)
           /\ WrittenRows(s)' = WrittenRows(s)
           /\ pc'[s] \in HasInserted => Current(s)' \notin Settled' /\ ~SelfPayment(Current(s)')
           /\ draft'[s] = [u \in WrittenRows(s)' |-> Transfer(balance', Current(s)')[u]]
           /\ pc'[s] \in {"certifyReceiver", "attach", "commit"} =>
                 certs'[s].sender = draft'[s][Sender[Current(s)']]
           /\ pc'[s] \in {"attach", "commit"} =>
                 certs'[s].receiver = draft'[s][Receiver[Current(s)']]
<1>1. Current(s)' = Current(s) /\ Settled' = Settled
  BY DEF OthersKeep, Current, Settled
<1>2. WrittenRows(s)' = WrittenRows(s)
  BY <1>1 DEF OthersKeep, WrittenRows
<1> QED
  BY <1>1, <1>2 DEF IInv, TransactionsIsolated, SignaturesExclusive, DraftsAreTransfers,
     CertsMatchDrafts, OthersKeep

\* r ends its transaction without committing, or is before its INSERT.
LEMMA OutsideIsolated ==
    ASSUME IInv, NEW r \in Requests, OthersKeep(r), balance' = balance, ledger' = ledger,
           pc'[r] \notin HasInserted, draft'[r] = NoRows
    PROVE  TransactionsIsolated' /\ SettledOnce'
<1>1. SignaturesExclusive'
  <2>1. \A s \in Requests \ {r} : Current(s)' = Current(s) /\ pc'[s] = pc[s]
    BY OthersIsolated DEF OthersKeep
  <2>2. \A s \in Requests \ {r} : pc'[s] \in HasInserted =>
            Current(s)' \notin Settled' /\ ~SelfPayment(Current(s)')
    BY OthersIsolated
  <2>3. \A s \in Requests : pc'[s] \in HasInserted => SignatureFree(s, Current(s))'
    <3> SUFFICES ASSUME NEW s \in Requests, pc'[s] \in HasInserted,
                        NEW q \in Requests \ {s}, pc'[q] \in HasInserted
                 PROVE  Current(q)' # Current(s)'
      BY DEF SignatureFree
    <3>1. s # r /\ q # r
      OBVIOUS
    <3> QED
      BY <2>1, <3>1 DEF IInv, TransactionsIsolated, SignaturesExclusive, SignatureFree
  <2> QED
    BY <2>2, <2>3 DEF SignaturesExclusive
<1>2. RowsExclusive'
  <2>1. DOMAIN draft'[r] = {}
    BY DEF NoRows
  <2> QED
    BY <2>1 DEF IInv, TransactionsIsolated, RowsExclusive, OthersKeep
<1>3. DraftsAreTransfers'
  <2>1. WrittenRows(r)' = {}
    BY DEF WrittenRows, HasInserted, InTransaction
  <2>2. draft'[r] = [u \in WrittenRows(r)' |-> Transfer(balance', Current(r)')[u]]
    BY <2>1 DEF NoRows
  <2> QED
    BY <2>2, OthersIsolated DEF DraftsAreTransfers
<1>4. CertsMatchDrafts'
  BY OthersIsolated DEF CertsMatchDrafts, HasInserted, InTransaction
<1>5. SettledOnce'
  BY DEF IInv, SettledOnce
<1> QED
  BY <1>1, <1>2, <1>3, <1>4, <1>5 DEF TransactionsIsolated

LEMMA OutsideHasNoRows ==
    ASSUME IInv, NEW r \in Requests, pc[r] \notin HasInserted \ {"debit"}
    PROVE  draft[r] = NoRows
<1>1. WrittenRows(r) = {}
  BY DEF WrittenRows, HasInserted, InTransaction
<1> QED
  BY <1>1 DEF IInv, TransactionsIsolated, DraftsAreTransfers, NoRows

LEMMA RollBackIsolated ==
    ASSUME IInv, NEW r \in Requests, NEW outcome, RollBack(r, outcome)
    PROVE  TransactionsIsolated' /\ SettledOnce'
<1>1. OthersKeep(r)
  BY DEF IInv, TypeOK, RollBack, Report, CloseTransaction, OthersKeep
<1>2. pc'[r] \notin HasInserted /\ draft'[r] = NoRows
  <2>1. DOMAIN draft = Requests
    BY DEF IInv, TypeOK
  <2> QED
    BY <2>1 DEF IInv, TypeOK, RollBack, Report, CloseTransaction, HasInserted, InTransaction
<1> QED
  BY <1>1, <1>2, OutsideIsolated DEF RollBack

\* Steps of r that keep its row versions and stay before the INSERT, or outside.
LEMMA OutsideStepIsolated ==
    ASSUME IInv, NEW r \in Requests,
           \/ Receive(r) \/ Reject(r) \/ Begin(r) \/ BeginPanics(r) \/ NotSubmitted(r)
           \/ AnswerAnonymous(r) \/ FindSession(r) \/ ReadAccount(r) \/ NoAccount(r) \/ AccountUnavailable(r)
           \/ ReadHistory(r) \/ ReadHistoryCut(r) \/ HistoryUnavailable(r)
    PROVE  TransactionsIsolated' /\ SettledOnce'
<1>1. /\ OthersKeep(r) /\ balance' = balance /\ ledger' = ledger
      /\ draft' = draft /\ pc[r] \notin HasInserted /\ pc'[r] \notin HasInserted
  BY DEF IInv, TypeOK, Receive, Reject, Begin, BeginPanics, NotSubmitted, AnswerAnonymous,
     FindSession, ReadAccount, NoAccount, AccountUnavailable, ReadHistory,
     ReadHistoryCut, AnswerWithHistory, HistoryUnavailable, Answer,
     Advance, Report, HasNext, LoopDone, OthersKeep, HasInserted, InTransaction, dbVars, txVars
<1> QED
  BY <1>1, OutsideIsolated, OutsideHasNoRows

\* r is between its INSERT and its COMMIT: what it must maintain itself.
LEMMA InsideIsolated ==
    ASSUME IInv, NEW r \in Requests, OthersKeep(r), balance' = balance, ledger' = ledger,
           todo' = todo, pc'[r] \in HasInserted,
           Current(r) \notin Settled, ~SelfPayment(Current(r)), SignatureFree(r, Current(r)),
           draft'[r] = [u \in WrittenRows(r)' |-> Transfer(balance, Current(r))[u]],
           \A s \in Requests \ {r} : DOMAIN draft'[r] \cap DOMAIN draft[s] = {},
           pc'[r] \in {"certifyReceiver", "attach", "commit"} =>
               certs'[r].sender = draft'[r][Sender[Current(r)]],
           pc'[r] \in {"attach", "commit"} =>
               certs'[r].receiver = draft'[r][Receiver[Current(r)]]
    PROVE  TransactionsIsolated' /\ SettledOnce'
<1>1. /\ \A s \in Requests : Current(s)' = Current(s)
      /\ \A s \in Requests \ {r} : pc'[s] = pc[s]
      /\ Settled' = Settled
  BY DEF Current, OthersKeep, Settled
<1>2. SignaturesExclusive'
  <2>1. \A s \in Requests : pc'[s] \in HasInserted => SignatureFree(s, Current(s))'
    <3> SUFFICES ASSUME NEW s \in Requests, pc'[s] \in HasInserted,
                        NEW q \in Requests \ {s}, pc'[q] \in HasInserted
                 PROVE  Current(q) # Current(s)
      BY <1>1 DEF SignatureFree
    <3>1. CASE s = r
      BY <1>1, <3>1 DEF SignatureFree
    <3>2. CASE s # r /\ q = r
      BY <1>1, <3>2 DEF SignatureFree
    <3>3. CASE s # r /\ q # r
      BY <1>1, <3>3 DEF IInv, TransactionsIsolated, SignaturesExclusive, SignatureFree
    <3> QED
      BY <3>1, <3>2, <3>3
  <2> QED
    BY <1>1, <2>1, OthersIsolated DEF SignaturesExclusive
<1>3. RowsExclusive'
  BY DEF IInv, TransactionsIsolated, RowsExclusive, OthersKeep
<1>4. DraftsAreTransfers'
  BY <1>1, OthersIsolated DEF DraftsAreTransfers
<1>5. CertsMatchDrafts'
  BY <1>1, OthersIsolated DEF CertsMatchDrafts
<1>6. SettledOnce'
  BY DEF IInv, SettledOnce
<1> QED
  BY <1>2, <1>3, <1>4, <1>5, <1>6 DEF TransactionsIsolated

LEMMA InsertIsolated ==
    ASSUME IInv, NEW r \in Requests, Insert(r)
    PROVE  TransactionsIsolated' /\ SettledOnce'
<1>1. OthersKeep(r) /\ balance' = balance /\ ledger' = ledger /\ todo' = todo
  BY DEF IInv, TypeOK, Insert, Advance, OthersKeep, txVars
<1>2. pc[r] = "insert" /\ pc'[r] = "debit" /\ draft' = draft
  BY DEF IInv, TypeOK, Insert, Advance, txVars
<1>3. draft'[r] = NoRows /\ DOMAIN draft'[r] = {}
  BY <1>2, OutsideHasNoRows DEF NoRows, HasInserted, InTransaction
<1>4. WrittenRows(r)' = {}
  BY <1>2 DEF WrittenRows
<1>5. draft'[r] = [u \in WrittenRows(r)' |-> Transfer(balance, Current(r))[u]]
  BY <1>3, <1>4 DEF NoRows
<1>6. pc'[r] \in HasInserted
  BY <1>2 DEF HasInserted, InTransaction
<1> QED
  BY <1>1, <1>2, <1>3, <1>5, <1>6, InsideIsolated DEF Insert

\* What r knows from its INSERT on.
LEMMA InsideKnows ==
    ASSUME IInv, NEW r \in Requests, pc[r] \in HasInserted
    PROVE  /\ Current(r) \in Tams
           /\ Sender[Current(r)] \in Users
           /\ Receiver[Current(r)] \in Users
           /\ Current(r) \notin Settled
           /\ ~SelfPayment(Current(r))
           /\ SignatureFree(r, Current(r))
           /\ draft[r] = [u \in WrittenRows(r) |-> Transfer(balance, Current(r))[u]]
  BY Parties DEF IInv, TransactionsIsolated, SignaturesExclusive, DraftsAreTransfers,
     HasInserted

LEMMA DebitIsolated ==
    ASSUME IInv, NEW r \in Requests, Debit(r)
    PROVE  TransactionsIsolated' /\ SettledOnce'
<1> DEFINE t == Current(r)
<1>1. /\ OthersKeep(r) /\ balance' = balance /\ ledger' = ledger /\ todo' = todo
      /\ pc[r] = "debit" /\ pc'[r] = "credit" /\ DOMAIN draft = Requests
  BY DEF IInv, TypeOK, Debit, Advance, Write, OthersKeep
<1>2. pc[r] \in HasInserted /\ pc'[r] \in HasInserted
  BY <1>1 DEF HasInserted, InTransaction
<1>3. draft[r] = NoRows /\ DOMAIN draft[r] = {}
  BY <1>1, OutsideHasNoRows DEF NoRows
<1>4. WrittenRows(r)' = {Sender[t]}
  BY <1>1 DEF WrittenRows, Current
<1>5. Debited(View(r, Sender[t]), Amount[t]) = Transfer(balance, t)[Sender[t]]
  BY <1>2, <1>3, InsideKnows, TransferAt DEF IInv, TypeOK, View
<1>6. draft'[r] = [u \in {Sender[t]} |-> Transfer(balance, t)[u]]
  BY <1>1, <1>3, <1>5 DEF Debit, Write
<1>7. \A s \in Requests \ {r} : DOMAIN draft'[r] \cap DOMAIN draft[s] = {}
  BY <1>6 DEF Debit, RowFree
<1> QED
  BY <1>1, <1>2, <1>4, <1>6, <1>7, InsideKnows, InsideIsolated

LEMMA CreditIsolated ==
    ASSUME IInv, NEW r \in Requests, Credit(r)
    PROVE  TransactionsIsolated' /\ SettledOnce'
<1> DEFINE t == Current(r)
<1>1. /\ OthersKeep(r) /\ balance' = balance /\ ledger' = ledger /\ todo' = todo
      /\ pc[r] = "credit" /\ pc'[r] = "certifySender" /\ DOMAIN draft = Requests
  BY DEF IInv, TypeOK, Credit, Advance, Write, OthersKeep
<1>2. pc[r] \in HasInserted /\ pc'[r] \in HasInserted
  BY <1>1 DEF HasInserted, InTransaction
<1>3. WrittenRows(r) = {Sender[t]} /\ WrittenRows(r)' = {Sender[t], Receiver[t]}
  BY <1>1 DEF WrittenRows, Current, HasInserted, InTransaction
<1>4. draft[r] = [u \in {Sender[t]} |-> Transfer(balance, t)[u]] /\ Sender[t] # Receiver[t]
  BY <1>2, <1>3, InsideKnows DEF SelfPayment
<1>5. Credited(View(r, Receiver[t]), Amount[t]) = Transfer(balance, t)[Receiver[t]]
  BY <1>2, <1>4, InsideKnows, TransferAt DEF IInv, TypeOK, View
<1>6. draft'[r] = [u \in {Sender[t], Receiver[t]} |-> Transfer(balance, t)[u]]
  BY <1>1, <1>4, <1>5 DEF Credit, Write
<1>7. \A s \in Requests \ {r} : DOMAIN draft'[r] \cap DOMAIN draft[s] = {}
  <2>1. \A s \in Requests \ {r} : DOMAIN draft[r] \cap DOMAIN draft[s] = {}
    BY DEF IInv, TransactionsIsolated, RowsExclusive
  <2> QED
    BY <1>4, <1>6, <2>1 DEF Credit, RowFree
<1> QED
  BY <1>1, <1>2, <1>3, <1>6, <1>7, InsideKnows, InsideIsolated

\* Reading the two balances and attaching the TVCs.
LEMMA CertifyIsolated ==
    ASSUME IInv, NEW r \in Requests, CertifySender(r) \/ CertifyReceiver(r) \/ Attach(r)
    PROVE  TransactionsIsolated' /\ SettledOnce'
<1> DEFINE t == Current(r)
<1>1. /\ OthersKeep(r) /\ balance' = balance /\ ledger' = ledger /\ todo' = todo
      /\ draft' = draft
  BY DEF IInv, TypeOK, CertifySender, CertifyReceiver, Attach, Advance, OthersKeep, txVars
<1>2. /\ pc[r] \in {"certifySender", "certifyReceiver", "attach"}
      /\ pc'[r] \in {"certifyReceiver", "attach", "commit"}
  BY DEF IInv, TypeOK, CertifySender, CertifyReceiver, Attach, Advance
<1>3. pc[r] \in HasInserted /\ pc'[r] \in HasInserted
  BY <1>2 DEF HasInserted, InTransaction
<1>4. WrittenRows(r) = {Sender[t], Receiver[t]} /\ WrittenRows(r)' = {Sender[t], Receiver[t]}
  BY <1>1, <1>2 DEF WrittenRows, Current, HasInserted, InTransaction
<1>5. draft[r] = [u \in {Sender[t], Receiver[t]} |-> Transfer(balance, t)[u]]
  BY <1>3, <1>4, InsideKnows
<1>6. /\ View(r, Sender[t]) = draft[r][Sender[t]]
      /\ View(r, Receiver[t]) = draft[r][Receiver[t]]
  BY <1>5 DEF View
<1>7. \A s \in Requests \ {r} : DOMAIN draft'[r] \cap DOMAIN draft[s] = {}
  BY <1>1 DEF IInv, TransactionsIsolated, RowsExclusive
<1>8. certs \in [Requests -> [sender : Int, receiver : Int]]
  BY DEF IInv, TypeOK
<1>9. CASE CertifySender(r)
  <2>1. certs'[r].sender = draft'[r][Sender[t]] /\ pc'[r] = "certifyReceiver"
    BY <1>1, <1>6, <1>8, <1>9 DEF IInv, TypeOK, CertifySender, Advance
  <2> QED
    BY <1>1, <1>3, <1>4, <1>5, <1>7, <2>1, InsideKnows, InsideIsolated
<1>10. CASE CertifyReceiver(r)
  <2>1. certs[r].sender = draft[r][Sender[t]]
    BY <1>10 DEF IInv, TransactionsIsolated, CertsMatchDrafts, CertifyReceiver, Advance
  <2>2. /\ certs'[r].sender = certs[r].sender
        /\ certs'[r].receiver = draft'[r][Receiver[t]]
    BY <1>1, <1>6, <1>8, <1>10 DEF CertifyReceiver, Advance
  <2> QED
    BY <1>1, <1>3, <1>4, <1>5, <1>7, <2>1, <2>2, InsideKnows, InsideIsolated
<1>11. CASE Attach(r)
  <2>1. /\ certs[r].sender = draft[r][Sender[t]]
        /\ certs[r].receiver = draft[r][Receiver[t]]
    BY <1>11 DEF IInv, TransactionsIsolated, CertsMatchDrafts, Attach, Advance
  <2>2. certs' = certs
    BY <1>11 DEF Attach, txVars
  <2> QED
    BY <1>1, <1>3, <1>4, <1>5, <1>7, <2>1, <2>2, InsideKnows, InsideIsolated
<1> QED
  BY <1>9, <1>10, <1>11

-----------------------------------------------------------------------------
(* COMMIT *)

\* Both ends of a commit, confirmed to the handler or not.
Committing(r) == pc[r] = "commit" /\ Publish(r) /\ CloseTransaction(r)
                 /\ \E outcome \in {"settled", "failed"} : Report(r, outcome)

\* A commit is one settlement: the row is new, the two balances move by the
\* amount and nobody else's does, and the row certifies the new balances.
LEMMA CommitSettles ==
    ASSUME IInv, NEW r \in Requests, Committing(r)
    PROVE  /\ Current(r) \in Tams /\ Current(r) \notin Settled /\ ~SelfPayment(Current(r))
           /\ balance' = Transfer(balance, Current(r))
           /\ Settled' = Settled \cup {Current(r)}
           /\ ledger'[Len(ledger')].tam = Current(r)
           /\ ledger'[Len(ledger')].sender = balance'[Sender[Current(r)]]
           /\ ledger'[Len(ledger')].receiver = balance'[Receiver[Current(r)]]
           /\ SettledOnce'
<1> DEFINE t == Current(r)
           row == [tam |-> Current(r), sender |-> certs[r].sender,
                   receiver |-> certs[r].receiver, stamp |-> stamp[r]]
<1>1. pc[r] = "commit" /\ pc[r] \in HasInserted
  BY DEF Committing, HasInserted, InTransaction
<1>2. /\ t \in Tams /\ Sender[t] \in Users /\ Receiver[t] \in Users
      /\ t \notin Settled /\ ~SelfPayment(t)
  BY <1>1, InsideKnows
<1>3. WrittenRows(r) = {Sender[t], Receiver[t]}
  BY <1>1 DEF WrittenRows, HasInserted, InTransaction
<1>4. draft[r] = [u \in {Sender[t], Receiver[t]} |-> Transfer(balance, t)[u]]
  BY <1>1, <1>3, InsideKnows
<1>5. balance' = Transfer(balance, t)
  <2>1. balance \in [Users -> Int]
    BY DEF IInv, TypeOK
  <2>2. \A u \in Users : View(r, u) = Transfer(balance, t)[u]
    BY <1>2, <1>4, <2>1, TransferAt DEF View
  <2>3. Transfer(balance, t) \in [Users -> Int]
    BY <1>2, <2>1, TransferType
  <2> QED
    BY <2>2, <2>3 DEF Committing, Publish
<1>6. /\ ledger' = Append(ledger, row) /\ ledger \in Seq(Rows) /\ row \in Rows
  BY <1>2 DEF IInv, TypeOK, Committing, Publish, Rows
<1>7. /\ Len(ledger') = Len(ledger) + 1 /\ Len(ledger) \in Nat
      /\ DOMAIN ledger = 1..Len(ledger) /\ DOMAIN ledger' = 1..(Len(ledger) + 1)
      /\ \A i \in DOMAIN ledger : ledger'[i] = ledger[i]
      /\ ledger'[Len(ledger) + 1] = row
  <2> HIDE DEF row
  <2> QED
    BY <1>6
<1>8. Settled' = Settled \cup {t}
  BY <1>7 DEF Settled
<1>9. row.sender = balance'[Sender[t]] /\ row.receiver = balance'[Receiver[t]]
  BY <1>1, <1>4, <1>5 DEF IInv, TransactionsIsolated, CertsMatchDrafts
<1>10. SettledOnce'
  BY <1>2, <1>7 DEF IInv, SettledOnce, Settled
<1> QED
  BY <1>2, <1>5, <1>7, <1>8, <1>9, <1>10

LEMMA CommitIsolated ==
    ASSUME IInv, NEW r \in Requests, Committing(r)
    PROVE  TransactionsIsolated' /\ SettledOnce'
<1> DEFINE t == Current(r)
<1>1. /\ t \in Tams /\ t \notin Settled /\ ~SelfPayment(t)
      /\ balance' = Transfer(balance, t) /\ Settled' = Settled \cup {t} /\ SettledOnce'
  BY CommitSettles
<1>2. OthersKeep(r) /\ pc'[r] = "next" /\ DOMAIN draft = Requests /\ draft'[r] = NoRows
  BY DEF IInv, TypeOK, Committing, Report, CloseTransaction, OthersKeep
<1>3. pc'[r] \notin HasInserted /\ WrittenRows(r)' = {} /\ DOMAIN draft'[r] = {}
  BY <1>2 DEF WrittenRows, HasInserted, InTransaction, NoRows
<1>4. \A s \in Requests \ {r} : Current(s)' = Current(s) /\ WrittenRows(s)' = WrittenRows(s)
  BY <1>2 DEF OthersKeep, Current, WrittenRows
<1>5. pc[r] \in HasInserted
  BY DEF Committing, HasInserted, InTransaction
<1>6. SignaturesExclusive'
  <2>1. \A s \in Requests \ {r} : pc[s] \in HasInserted =>
            /\ Current(s) \notin Settled' /\ ~SelfPayment(Current(s))
    BY <1>1, <1>5 DEF IInv, TransactionsIsolated, SignaturesExclusive, SignatureFree
  <2>2. \A s \in Requests : pc'[s] \in HasInserted => SignatureFree(s, Current(s))'
    <3> SUFFICES ASSUME NEW s \in Requests, pc'[s] \in HasInserted,
                        NEW q \in Requests \ {s}, pc'[q] \in HasInserted
                 PROVE  Current(q)' # Current(s)'
      BY DEF SignatureFree
    <3>1. s # r /\ q # r
      BY <1>3
    <3> QED
      BY <1>2, <1>4, <3>1
         DEF IInv, TransactionsIsolated, SignaturesExclusive, SignatureFree, OthersKeep
  <2> QED
    BY <1>2, <1>3, <1>4, <2>1, <2>2 DEF SignaturesExclusive, OthersKeep
<1>7. RowsExclusive'
  BY <1>2, <1>3 DEF IInv, TransactionsIsolated, RowsExclusive, OthersKeep
<1>8. DraftsAreTransfers'
  <2>1. draft'[r] = [u \in WrittenRows(r)' |-> Transfer(balance', Current(r)')[u]]
    BY <1>2, <1>3 DEF NoRows
  <2>2. ASSUME NEW s \in Requests \ {r}
        PROVE  draft'[s] = [u \in WrittenRows(s)' |-> Transfer(balance', Current(s)')[u]]
    <3>1. draft'[s] = [u \in WrittenRows(s) |-> Transfer(balance, Current(s))[u]]
      BY <1>2 DEF IInv, TransactionsIsolated, DraftsAreTransfers, OthersKeep
    <3>2. CASE pc[s] \notin HasInserted
      <4>1. WrittenRows(s) = {}
        BY <3>2 DEF WrittenRows, HasInserted, InTransaction
      <4> QED
        BY <1>4, <3>1, <4>1
    <3>3. CASE pc[s] \in HasInserted
      <4>1. Current(s) \in Tams /\ ~SelfPayment(Current(s)) /\ WrittenRows(s) \subseteq Users
        BY <3>3, InsideKnows, WrittenRowsType DEF IInv
      <4>2. DOMAIN draft[r] = {Sender[t], Receiver[t]}
        BY <1>5, InsideKnows DEF WrittenRows, Committing, HasInserted, InTransaction
      <4>3. WrittenRows(s) \cap {Sender[t], Receiver[t]} = {}
        BY <1>2, <3>1, <4>2 DEF IInv, TransactionsIsolated, RowsExclusive, OthersKeep
      <4>4. balance \in [Users -> Int] /\ balance' \in [Users -> Int]
        BY <1>1, TransferType DEF IInv, TypeOK
      <4>5. \A u \in WrittenRows(s) : balance'[u] = balance[u]
        BY <1>1, <4>1, <4>3, <4>4, TransferAt
      <4>6. \A u \in WrittenRows(s) :
                Transfer(balance', Current(s))[u] = Transfer(balance, Current(s))[u]
        BY <4>1, <4>4, <4>5, TransferAt
      <4> QED
        BY <1>4, <3>1, <4>6
    <3> QED
      BY <3>2, <3>3
  <2> QED
    BY <2>1, <2>2 DEF DraftsAreTransfers
<1>9. CertsMatchDrafts'
  BY <1>2, <1>4 DEF IInv, TransactionsIsolated, CertsMatchDrafts, OthersKeep
<1> QED
  BY <1>1, <1>6, <1>7, <1>8, <1>9 DEF TransactionsIsolated

-----------------------------------------------------------------------------
(* The invariant holds *)

LEMMA FrameIsolated ==
    ASSUME IInv, UNCHANGED <<balance, ledger, pc, todo, draft, certs>>
    PROVE  TransactionsIsolated' /\ SettledOnce'
<1>1. Settled' = Settled /\ \A r : Current(r)' = Current(r) /\ WrittenRows(r)' = WrittenRows(r)
  BY DEF Settled, Current, WrittenRows
<1>2. SignaturesExclusive'
  BY <1>1 DEF IInv, TransactionsIsolated, SignaturesExclusive, SignatureFree
<1>3. RowsExclusive'
  BY DEF IInv, TransactionsIsolated, RowsExclusive
<1>4. DraftsAreTransfers'
  BY <1>1 DEF IInv, TransactionsIsolated, DraftsAreTransfers
<1>5. CertsMatchDrafts'
  BY <1>1 DEF IInv, TransactionsIsolated, CertsMatchDrafts
<1>6. SettledOnce'
  BY DEF IInv, SettledOnce
<1> QED
  BY <1>2, <1>3, <1>4, <1>5, <1>6 DEF TransactionsIsolated

LEMMA EnvironmentIsolated ==
    ASSUME IInv, Environment
    PROVE  TransactionsIsolated' /\ SettledOnce'
<1>1. CASE ServerCrash
  <2>1. /\ balance' = balance /\ ledger' = ledger
        /\ \A r \in Requests : pc'[r] \in {"idle", "done"}
        /\ \A r \in Requests : pc[r] \in {"idle", "done"} => draft'[r] = draft[r]
        /\ \A r \in Requests : pc[r] \notin {"idle", "done"} => draft'[r] = NoRows
    BY <1>1 DEF IInv, TypeOK, ServerCrash, dbVars
  <2>2. \A r \in Requests : pc'[r] \notin HasInserted /\ WrittenRows(r)' = {}
    BY <2>1 DEF WrittenRows, HasInserted, InTransaction
  <2>3. \A r \in Requests : pc[r] \in {"idle", "done"} => draft[r] = NoRows
    BY OutsideHasNoRows DEF HasInserted, InTransaction
  <2>4. \A r \in Requests : draft'[r] = NoRows
    BY <2>1, <2>3
  <2>5. DraftsAreTransfers'
    BY <2>2, <2>4 DEF DraftsAreTransfers, NoRows
  <2>6. RowsExclusive'
    BY <2>4 DEF RowsExclusive, NoRows
  <2>7. SignaturesExclusive' /\ CertsMatchDrafts' /\ SettledOnce'
    BY <2>1, <2>2 DEF IInv, SignaturesExclusive, CertsMatchDrafts, SettledOnce
  <2> QED
    BY <2>5, <2>6, <2>7 DEF TransactionsIsolated
<1>2. CASE \/ \E u \in Rotating : DeactivateKey(u) \/ InsertKey(u)
           \/ \E t \in Ageing : Expire(t)
  <2>1. UNCHANGED <<balance, ledger, pc, todo, draft, certs>>
    BY <1>2 DEF DeactivateKey, InsertKey, Expire, dbVars, txVars
  <2> QED
    BY <2>1, FrameIsolated
<1> QED
  BY <1>1, <1>2 DEF Environment

LEMMA InitIsolated == Init => TransactionsIsolated /\ SettledOnce
<1> SUFFICES ASSUME Init PROVE TransactionsIsolated /\ SettledOnce
  OBVIOUS
<1>1. \A r \in Requests : pc[r] = "idle" /\ draft[r] = NoRows /\ WrittenRows(r) = {}
  BY DEF Init, WrittenRows, HasInserted, InTransaction
<1>2. SignaturesExclusive /\ CertsMatchDrafts
  BY <1>1 DEF SignaturesExclusive, CertsMatchDrafts, HasInserted, InTransaction
<1>3. RowsExclusive /\ DraftsAreTransfers
  BY <1>1 DEF RowsExclusive, DraftsAreTransfers, NoRows
<1>4. SettledOnce
  BY DEF Init, SettledOnce
<1> QED
  BY <1>2, <1>3, <1>4 DEF TransactionsIsolated

LEMMA HandlerIsolated ==
    ASSUME IInv, NEW r \in Requests,
           Receive(r) \/ Handle(r) \/ Fault(r) \/ DeadlockVictim(r)
    PROVE  TransactionsIsolated' /\ SettledOnce'
<1>1. CASE \/ AlreadySubmitted(r) \/ InsertViolates(r) \/ SenderHasNoKey(r)
           \/ ReceiverHasNoKey(r) \/ StatementFails(r) \/ DeadlockVictim(r)
  <2>1. \E outcome : RollBack(r, outcome)
    BY <1>1 DEF AlreadySubmitted, InsertViolates, SenderHasNoKey, ReceiverHasNoKey,
       StatementFails, DeadlockVictim
  <2> QED
    BY <2>1, RollBackIsolated
<1>2. CASE Commit(r) \/ CommitUnconfirmed(r)
  BY <1>2, CommitIsolated DEF Commit, CommitUnconfirmed, Committing
<1>3. CASE Insert(r)
  BY <1>3, InsertIsolated
<1>4. CASE Debit(r)
  BY <1>4, DebitIsolated
<1>5. CASE Credit(r)
  BY <1>5, CreditIsolated
<1>6. CASE CertifySender(r) \/ CertifyReceiver(r) \/ Attach(r)
  BY <1>6, CertifyIsolated
<1>7. CASE \/ Receive(r) \/ Reject(r) \/ Begin(r) \/ BeginPanics(r) \/ NotSubmitted(r)
           \/ AnswerAnonymous(r) \/ FindSession(r) \/ ReadAccount(r) \/ NoAccount(r) \/ AccountUnavailable(r)
           \/ ReadHistory(r) \/ ReadHistoryCut(r) \/ HistoryUnavailable(r)
  BY <1>7, OutsideStepIsolated
<1> QED
  BY <1>1, <1>2, <1>3, <1>4, <1>5, <1>6, <1>7 DEF Handle, Fault

LEMMA StepInvariant ==
    ASSUME IInv, [Next]_vars
    PROVE  IInv'
<1>1. TypeOK'
  BY StepTyped DEF IInv
<1>2. TransactionsIsolated' /\ SettledOnce'
  <2>1. CASE UNCHANGED vars
    BY <2>1, FrameIsolated DEF vars
  <2>2. CASE Environment
    BY <2>2, EnvironmentIsolated
  <2>3. CASE \E r \in Requests : Receive(r) \/ Handle(r) \/ Fault(r) \/ DeadlockVictim(r)
    BY <2>3, HandlerIsolated
  <2> QED
    BY <2>1, <2>2, <2>3, LedgerAssumption DEF Next
<1> QED
  BY <1>1, <1>2 DEF IInv

LEMMA Invariance == Spec => []IInv
<1>1. Init => IInv
  BY InitTyped, InitIsolated DEF IInv
<1> QED
  BY <1>1, StepInvariant, PTL DEF Spec

\* Open transactions never interfere: row and signature exclusivity, drafts that
\* stay the transfer of the balances committed now, certificates that match.
THEOREM Isolation == Spec => []TransactionsIsolated
<1>1. IInv => TransactionsIsolated
  BY DEF IInv
<1> QED
  BY <1>1, Invariance, PTL

\* No TAM is ever settled twice, however it is retried.
THEOREM ExactlyOnce == Spec => []SettledOnce
<1>1. IInv => SettledOnce
  BY DEF IInv
<1> QED
  BY <1>1, Invariance, PTL

-----------------------------------------------------------------------------
(* The ledger implements the settlement *)

\* A step either settles one TAM or leaves the tables alone.
LEMMA StepSettles ==
    ASSUME IInv, [Next]_vars
    PROVE  \/ \E r \in Requests : Committing(r)
           \/ balance' = balance /\ ledger' = ledger
<1>1. ASSUME NEW r \in Requests, Receive(r) \/ Handle(r) \/ Fault(r) \/ DeadlockVictim(r)
      PROVE  Committing(r) \/ (balance' = balance /\ ledger' = ledger)
  <2>1. CASE Commit(r) \/ CommitUnconfirmed(r)
    BY <2>1 DEF Commit, CommitUnconfirmed, Committing
  <2>2. CASE ~(Commit(r) \/ CommitUnconfirmed(r))
    BY <1>1, <2>2 DEF Handle, Fault, DeadlockVictim, Receive, Reject, Begin, BeginPanics,
       AlreadySubmitted, NotSubmitted, Insert, InsertViolates, Debit, Credit, CertifySender,
       SenderHasNoKey, CertifyReceiver, ReceiverHasNoKey, Attach, StatementFails,
       AnswerAnonymous, FindSession, ReadAccount, NoAccount, AccountUnavailable, ReadHistory,
       ReadHistoryCut, AnswerWithHistory, HistoryUnavailable, Answer, RollBack, dbVars
  <2> QED
    BY <2>1, <2>2
<1>2. Environment => balance' = balance /\ ledger' = ledger
  BY DEF Environment, ServerCrash, DeactivateKey, InsertKey, Expire, dbVars
<1>3. UNCHANGED vars => balance' = balance /\ ledger' = ledger
  BY DEF vars
<1> QED
  BY <1>1, <1>2, <1>3, LedgerAssumption DEF Next

\* The two BKVCs of every row certify the balances the commit produced.
THEOREM CertificatesExact == Spec => CommitsCertifyBalances
<1>1. ASSUME IInv, [Next]_vars
      PROVE  [\A t \in Tams : t \in Settled' \ Settled =>
                LET row == ledger'[Len(ledger')] IN
                /\ row.tam = t
                /\ row.sender = balance'[Sender[t]]
                /\ row.receiver = balance'[Receiver[t]]]_vars
  <2>1. CASE \E r \in Requests : Committing(r)
    BY <1>1, <2>1, CommitSettles
  <2>2. CASE ledger' = ledger
    BY <2>2 DEF Settled
  <2> QED
    BY <1>1, <2>1, <2>2, StepSettles
<1> QED
  BY <1>1, Invariance, PTL DEF Spec, CommitsCertifyBalances

\* Every behaviour of the sync handlers is one of Settlement: each commit is
\* one Settle step, and nothing else moves money or settles a TAM.
THEOREM ImplementsSettlement == Spec => SettlementSpec
<1>1. Init => Settling!Init
  BY DEF Init, Settling!Init, Settled
<1>2. ASSUME IInv, [Next]_vars
      PROVE  [Settling!Next]_(Settling!vars)
  <2>1. CASE \E r \in Requests : Committing(r)
    <3>1. PICK r \in Requests : Committing(r)
      BY <2>1
    <3>2. Settling!Transfer(balance, Current(r)) = Transfer(balance, Current(r))
      BY DEF Settling!Transfer, Settling!Debited, Settling!Credited, Settling!Cents,
         Transfer, Debited, Credited, Cents
    <3>3. Settling!Settle(Current(r)) /\ Current(r) \in Tams
      BY <1>2, <3>1, <3>2, CommitSettles DEF Settling!Settle, Settling!SelfPayment, SelfPayment
    <3> QED
      BY <3>3 DEF Settling!Next
  <2>2. CASE balance' = balance /\ ledger' = ledger
    BY <2>2 DEF Settling!vars, Settled
  <2> QED
    BY <1>2, <2>1, <2>2, StepSettles
<1> QED
  BY <1>1, <1>2, Invariance, PTL DEF Spec, SettlementSpec, Settling!Spec

-----------------------------------------------------------------------------
(* What the callers are told *)

\* A success stands for a committed row, and a failure the handler counts has
\* set the flag.
RepliesHonest ==
    \A r \in Requests : \A i \in DOMAIN replies[r] :
        /\ Succeeded(replies[r][i]) => replies[r][i].tam \in Settled
        /\ replies[r][i].outcome = "failed" => hasError[r]

\* A 202 is the last thing a request does, after the batch and without the flag.
AcceptedHonestly ==
    \A r \in Requests :
        /\ pc[r] \in {"account", "history"} => todo[r] = <<>>
        /\ answer[r].status = "202" =>
              pc[r] = "done" /\ ~hasError[r] /\ todo[r] = <<>>

Honest == RepliesHonest /\ AcceptedHonestly

LEMMA SettledGrows ==
    ASSUME IInv, [Next]_vars
    PROVE  Settled \subseteq Settled'
<1>1. CASE \E r \in Requests : Committing(r)
  BY <1>1, CommitSettles
<1>2. CASE ledger' = ledger
  BY <1>2 DEF Settled
<1> QED
  BY <1>1, <1>2, StepSettles

\* One more reply, and on to the next TAM.
LEMMA ReportHonest ==
    ASSUME TypeOK, Honest, NEW r \in Requests, NEW outcome \in Outcomes,
           Report(r, outcome), pc[r] # "done", Settled \subseteq Settled',
           outcome \in {"settled", "already"} => Current(r) \in Settled'
    PROVE  Honest'
<1> DEFINE reply == [tam |-> Current(r), outcome |-> outcome]
<1>1. /\ replies'[r] = Append(replies[r], reply)
      /\ hasError'[r] = (hasError[r] \/ outcome = "failed")
      /\ pc'[r] = "next" /\ answer' = answer
      /\ \A q \in Requests \ {r} : /\ replies'[q] = replies[q] /\ hasError'[q] = hasError[q]
                                   /\ pc'[q] = pc[q] /\ todo'[q] = todo[q]
  BY DEF TypeOK, Report
<1>2. RepliesHonest'
  <2> SUFFICES ASSUME NEW q \in Requests, NEW i \in DOMAIN replies'[q]
               PROVE  /\ Succeeded(replies'[q][i]) => replies'[q][i].tam \in Settled'
                      /\ replies'[q][i].outcome = "failed" => hasError'[q]
    BY DEF RepliesHonest, Succeeded
  <2>1. CASE q # r
    BY <1>1, <2>1 DEF Honest, RepliesHonest
  <2>2. CASE q = r
    <3>1. replies[r] \in Seq(Replies)
      BY DEF TypeOK
    <3>2. (i \in DOMAIN replies[r] /\ replies'[r][i] = replies[r][i]) \/ replies'[r][i] = reply
      <4> HIDE DEF reply
      <4> QED
        BY <1>1, <2>2, <3>1
    <3>3. CASE i \in DOMAIN replies[r] /\ replies'[r][i] = replies[r][i]
      BY <1>1, <2>2, <3>3 DEF Honest, RepliesHonest
    <3>4. CASE replies'[r][i] = reply
      <4>1. reply.tam = Current(r) /\ reply.outcome = outcome
        OBVIOUS
      <4>2. /\ Succeeded(reply) => reply.tam \in Settled'
            /\ reply.outcome = "failed" => hasError'[r]
        BY <1>1, <4>1 DEF Succeeded
      <4> HIDE DEF reply
      <4> QED
        BY <2>2, <3>4, <4>2
    <3> QED
      BY <3>2, <3>3, <3>4
  <2> QED
    BY <2>1, <2>2
<1>3. AcceptedHonestly'
  BY <1>1 DEF Honest, AcceptedHonestly
<1> QED
  BY <1>2, <1>3 DEF Honest

\* A request goes on without reporting or answering anything.
LEMMA QuietHonest ==
    ASSUME TypeOK, Honest, replies' = replies, hasError' = hasError, answer' = answer,
           Settled \subseteq Settled',
           \A r \in Requests : \/ pc'[r] = pc[r] /\ todo'[r] = todo[r]
                               \/ pc[r] # "done" /\ pc'[r] \notin {"account", "history"}
    PROVE  Honest'
<1>1. RepliesHonest'
  BY DEF Honest, RepliesHonest, Succeeded
<1>2. AcceptedHonestly'
  BY DEF Honest, AcceptedHonestly
<1> QED
  BY <1>1, <1>2 DEF Honest

\* The batch is over: whatever is answered, a 202 needs the flag unset.
LEMMA AnswerHonest ==
    ASSUME TypeOK, Honest, NEW r \in Requests,
           NEW to \in {"account", "history", "done"}, NEW reply \in Answers,
           Answer(r, to, reply), todo[r] = <<>>,
           reply.status = "202" => to = "done" /\ ~hasError[r]
    PROVE  Honest'
<1>1. Settled' = Settled
  BY DEF Answer, dbVars, Settled
<1>2. RepliesHonest'
  BY <1>1 DEF Answer, Honest, RepliesHonest, Succeeded
<1>3. AcceptedHonestly'
  BY DEF TypeOK, Answer, Honest, AcceptedHonestly
<1> QED
  BY <1>2, <1>3 DEF Honest

LEMMA CrashHonest ==
    ASSUME TypeOK, Honest, ServerCrash
    PROVE  Honest'
<1>1. \A r \in Requests :
        \/ /\ pc'[r] = pc[r] /\ todo'[r] = todo[r] /\ replies'[r] = replies[r]
           /\ hasError'[r] = hasError[r] /\ answer'[r] = answer[r] /\ pc[r] \in {"idle", "done"}
        \/ replies'[r] = <<>> /\ answer'[r] = Unanswered /\ pc'[r] = "done"
  BY DEF TypeOK, ServerCrash
<1>2. Settled' = Settled
  BY DEF ServerCrash, dbVars, Settled
<1>3. RepliesHonest'
  <2> SUFFICES ASSUME NEW q \in Requests, NEW i \in DOMAIN replies'[q]
               PROVE  /\ Succeeded(replies'[q][i]) => replies'[q][i].tam \in Settled'
                      /\ replies'[q][i].outcome = "failed" => hasError'[q]
    BY DEF RepliesHonest, Succeeded
  <2>1. replies'[q] = replies[q] /\ hasError'[q] = hasError[q]
    BY <1>1
  <2> QED
    BY <1>2, <2>1 DEF Honest, RepliesHonest
<1>4. AcceptedHonestly'
  BY <1>1 DEF Honest, AcceptedHonestly, Unanswered
<1> QED
  BY <1>3, <1>4 DEF Honest

LEMMA HandlerHonest ==
    ASSUME IInv, Honest, [Next]_vars, NEW r \in Requests,
           Receive(r) \/ Handle(r) \/ Fault(r) \/ DeadlockVictim(r)
    PROVE  Honest'
<1> USE DEF IInv
<1>1. Settled \subseteq Settled'
  BY SettledGrows
<1>2. CASE \/ Reject(r) \/ InsertViolates(r) \/ SenderHasNoKey(r)
           \/ ReceiverHasNoKey(r) \/ StatementFails(r) \/ DeadlockVictim(r)
  <2>1. PICK outcome \in {"failed", "silent"} : Report(r, outcome)
    BY <1>2 DEF RollBack, Reject, InsertViolates, SenderHasNoKey, ReceiverHasNoKey,
       StatementFails, DeadlockVictim
  <2>2. pc[r] # "done"
    BY <1>2 DEF Reject, HasNext, InsertViolates, SenderHasNoKey, ReceiverHasNoKey,
       StatementFails, InTransaction, DeadlockVictim, Deadlocked, Waits
  <2> QED
    BY <1>1, <2>1, <2>2, ReportHonest DEF Outcomes
<1>3. CASE AlreadySubmitted(r)
  <2>1. Report(r, "already") /\ pc[r] # "done" /\ Current(r) \in Settled
    BY <1>3 DEF AlreadySubmitted, RollBack
  <2> QED
    BY <1>1, <2>1, ReportHonest DEF Outcomes
<1>4. CASE Commit(r) \/ CommitUnconfirmed(r)
  <2>1. Committing(r)
    BY <1>4 DEF Commit, CommitUnconfirmed, Committing
  <2>2. PICK outcome \in {"settled", "failed"} : Report(r, outcome)
    BY <2>1 DEF Committing
  <2>3. pc[r] # "done" /\ Current(r) \in Settled'
    BY <2>1, CommitSettles DEF Committing
  <2> QED
    BY <1>1, <2>2, <2>3, ReportHonest DEF Outcomes
<1>5. CASE \/ Receive(r) \/ Begin(r) \/ NotSubmitted(r) \/ Insert(r) \/ Debit(r)
           \/ Credit(r) \/ CertifySender(r) \/ CertifyReceiver(r) \/ Attach(r)
  <2>1. /\ replies' = replies /\ hasError' = hasError /\ answer' = answer
        /\ pc[r] # "done" /\ pc'[r] \notin {"account", "history"}
        /\ \A q \in Requests \ {r} : pc'[q] = pc[q] /\ todo'[q] = todo[q]
    BY <1>5 DEF TypeOK, Receive, Begin, NotSubmitted, Insert, Debit, Credit,
       CertifySender, CertifyReceiver, Attach, Advance
  <2> QED
    BY <1>1, <2>1, QuietHonest
<1>6. CASE BeginPanics(r)
  <2>1. /\ answer'[r].status = "500" /\ pc'[r] = "done"
        /\ replies' = replies /\ hasError' = hasError
        /\ \A q \in Requests \ {r} : /\ pc'[q] = pc[q] /\ todo'[q] = todo[q]
                                     /\ answer'[q] = answer[q]
    BY <1>6 DEF TypeOK, Answers, BeginPanics
  <2>2. RepliesHonest'
    BY <1>1, <2>1 DEF Honest, RepliesHonest, Succeeded
  <2>3. AcceptedHonestly'
    BY <2>1, <1>6 DEF Honest, AcceptedHonestly, BeginPanics
  <2> QED
    BY <2>2, <2>3 DEF Honest
<1>7. CASE \/ AnswerAnonymous(r) \/ FindSession(r) \/ ReadAccount(r) \/ NoAccount(r)
           \/ AccountUnavailable(r) \/ ReadHistory(r) \/ ReadHistoryCut(r) \/ HistoryUnavailable(r)
  <2>1. todo[r] = <<>> /\ answer[r] \in Answers /\ Unanswered \in Answers /\ hasError[r] \in BOOLEAN
    BY <1>7, UnansweredType
       DEF TypeOK, Honest, AcceptedHonestly, AnswerAnonymous, FindSession, ReadAccount,
           NoAccount, AccountUnavailable, ReadHistory,
     ReadHistoryCut, AnswerWithHistory, HistoryUnavailable, LoopDone
  <2>2. Status(r) = "202" => ~hasError[r]
    BY <2>1 DEF Status
  <2>3. CASE AnswerAnonymous(r) \/ NoAccount(r) \/ AccountUnavailable(r) \/ HistoryUnavailable(r)
    <3>1. PICK status \in {"207", Status(r)} :
              Answer(r, "done", [Unanswered EXCEPT !.status = status])
      BY <2>3 DEF AnswerAnonymous, NoAccount, AccountUnavailable, HistoryUnavailable
    <3>2. /\ [Unanswered EXCEPT !.status = status] \in Answers
          /\ [Unanswered EXCEPT !.status = status].status = status
      BY <2>1, <3>1 DEF Answers, Status
    <3> QED
      BY <2>1, <2>2, <3>1, <3>2, AnswerHonest
  <2>4. CASE FindSession(r)
    BY <2>1, <2>4, AnswerHonest DEF FindSession, Unanswered
  <2>5. CASE ReadAccount(r)
    <3> DEFINE reply == [answer[r] EXCEPT !.user = Caller[r], !.balance = balance[Caller[r]],
                                          !.bkvcAt = Len(ledger)]
    <3>1. Caller[r] \in Users /\ Len(ledger) \in Nat /\ balance[Caller[r]] \in Int
      BY LedgerAssumption DEF TypeOK
    <3>2. reply \in Answers /\ reply.status = answer[r].status
      BY <2>1, <3>1 DEF Answers
    <3>3. answer[r].status # "202"
      BY <2>5 DEF Honest, AcceptedHonestly, ReadAccount
    <3>4. Answer(r, "history", reply)
      BY <2>5 DEF ReadAccount
    <3> HIDE DEF reply
    <3> QED
      BY <2>1, <3>2, <3>3, <3>4, AnswerHonest
  <2>6. CASE ReadHistory(r) \/ ReadHistoryCut(r)
    <3>4. PICK lost \in SUBSET Tams : AnswerWithHistory(r, lost)
      BY <2>6, HistoryReads DEF TypeOK
    <3> DEFINE reply == [answer[r] EXCEPT !.status = Status(r), !.historyAt = Len(ledger),
                                          !.unread = lost]
    <3>1. Len(ledger) \in Nat /\ Status(r) \in {"202", "207"}
      BY DEF TypeOK, Status
    <3>2. reply \in Answers /\ reply.status = Status(r)
      BY <2>1, <3>1 DEF Answers
    <3>3. Answer(r, "done", reply)
      BY <3>4 DEF AnswerWithHistory
    <3> HIDE DEF reply
    <3> QED
      BY <2>1, <2>2, <3>2, <3>3, AnswerHonest
  <2> QED
    BY <1>7, <2>3, <2>4, <2>5, <2>6
<1> QED
  BY <1>2, <1>3, <1>4, <1>5, <1>6, <1>7 DEF Handle, Fault

LEMMA HonestInvariance == Spec => []Honest
<1>1. Init => Honest
  BY DEF Init, Honest, RepliesHonest, AcceptedHonestly, Unanswered
<1>2. IInv /\ Honest /\ [Next]_vars => Honest'
  <2> SUFFICES ASSUME IInv, Honest, [Next]_vars PROVE Honest'
    OBVIOUS
  <2>0. TypeOK /\ Settled \subseteq Settled'
    BY SettledGrows DEF IInv
  <2>1. CASE UNCHANGED vars
    <3>1. /\ replies' = replies /\ hasError' = hasError /\ answer' = answer
          /\ pc' = pc /\ todo' = todo
      BY <2>1 DEF vars
    <3> QED
      BY <2>0, <3>1, QuietHonest
  <2>2. CASE Environment
    <3>1. CASE ServerCrash
      BY <3>1, CrashHonest DEF IInv
    <3>2. CASE \/ \E u \in Rotating : DeactivateKey(u) \/ InsertKey(u)
               \/ \E t \in Ageing : Expire(t)
      <4>1. /\ replies' = replies /\ hasError' = hasError /\ answer' = answer
            /\ pc' = pc /\ todo' = todo
        BY <3>2 DEF DeactivateKey, InsertKey, Expire
      <4> QED
        BY <2>0, <4>1, QuietHonest
    <3> QED
      BY <2>2, <3>1, <3>2 DEF Environment
  <2>3. CASE \E r \in Requests : Receive(r) \/ Handle(r) \/ Fault(r) \/ DeadlockVictim(r)
    BY <2>3, HandlerHonest
  <2> QED
    BY <2>1, <2>2, <2>3, LedgerAssumption DEF Next
<1> QED
  BY <1>1, <1>2, Invariance, PTL DEF Spec

\* No success is reported for a TAM that is not settled, and a 202 covers its
\* batch but for the failures that do not set the flag.
THEOREM ReportsAreHonest == Spec => []HonestReport
<1>1. TypeOK /\ Honest => HonestReport
  <2> SUFFICES ASSUME TypeOK, Honest, NEW r \in Requests
               PROVE  /\ \A i \in DOMAIN replies[r] :
                            Succeeded(replies[r][i]) => replies[r][i].tam \in Settled
                      /\ answer[r].status = "202" =>
                            /\ todo[r] = <<>>
                            /\ \A i \in DOMAIN replies[r] :
                                  \/ replies[r][i].tam \in Settled
                                  \/ replies[r][i].outcome = "silent"
    BY DEF HonestReport
  <2>1. \A i \in DOMAIN replies[r] : replies[r][i].outcome \in Outcomes
    <3>1. replies[r] \in Seq(Replies)
      BY DEF TypeOK
    <3>2. \A i \in DOMAIN replies[r] : replies[r][i] \in Replies
      BY <3>1
    <3> QED
      BY <3>2 DEF Replies
  <2> QED
    BY <2>1 DEF Honest, RepliesHonest, AcceptedHonestly, Succeeded, Outcomes
<1>2. IInv => TypeOK
  BY DEF IInv
<1> QED
  BY <1>1, <1>2, Invariance, HonestInvariance, PTL

-----------------------------------------------------------------------------
(* The connection pool *)

Open == {r \in Requests : pc[r] \in InTransaction}

\* A step either keeps the connections, takes one, returns one, or is a crash.
LEMMA StepConnections ==
    ASSUME IInv, [Next]_vars
    PROVE  \/ free' = free /\ Open' = Open
           \/ \E r \in Requests \ Open : free' = free - 1 /\ Open' = Open \cup {r}
           \/ \E r \in Open : free' = free + 1 /\ Open' = Open \ {r}
           \/ free' = PoolSize /\ Open' = {}
<1> USE DEF IInv, TypeOK, Open, InTransaction
<1>1. ASSUME NEW r \in Requests, Receive(r) \/ Handle(r) \/ Fault(r) \/ DeadlockVictim(r)
      PROVE  \/ free' = free /\ Open' = Open
             \/ r \notin Open /\ free' = free - 1 /\ Open' = Open \cup {r}
             \/ r \in Open /\ free' = free + 1 /\ Open' = Open \ {r}
  <2>1. CASE \/ AlreadySubmitted(r) \/ InsertViolates(r) \/ SenderHasNoKey(r)
             \/ ReceiverHasNoKey(r) \/ StatementFails(r) \/ DeadlockVictim(r)
             \/ Commit(r) \/ CommitUnconfirmed(r)
    <3>1. \E outcome : Report(r, outcome) /\ CloseTransaction(r)
      BY <2>1 DEF RollBack, AlreadySubmitted, InsertViolates, SenderHasNoKey,
         ReceiverHasNoKey, StatementFails, DeadlockVictim, Commit, CommitUnconfirmed
    <3>2. r \in Open
      BY <2>1 DEF AlreadySubmitted, InsertViolates, SenderHasNoKey, ReceiverHasNoKey,
         StatementFails, DeadlockVictim, Deadlocked, Waits, Commit, CommitUnconfirmed
    <3>3. free' = free + 1 /\ pc' = [pc EXCEPT ![r] = "next"]
      BY <3>1 DEF Report, CloseTransaction
    <3> QED
      BY <3>2, <3>3
  <2>2. CASE Begin(r)
    <3>1. r \notin Open /\ free' = free - 1 /\ pc' = [pc EXCEPT ![r] = "lookup"]
      BY <2>2 DEF Begin, Advance
    <3> QED
      BY <3>1
  <2>3. CASE \/ NotSubmitted(r) \/ Insert(r) \/ Debit(r)
             \/ Credit(r) \/ CertifySender(r) \/ CertifyReceiver(r) \/ Attach(r)
    <3>1. PICK from \in InTransaction, to \in InTransaction : Advance(r, from, to)
      BY <2>3 DEF NotSubmitted, Insert, Debit, Credit, CertifySender, CertifyReceiver, Attach
    <3>2. free' = free /\ pc[r] \in InTransaction /\ pc' = [pc EXCEPT ![r] = to]
      BY <2>3, <3>1 DEF Advance, NotSubmitted, Insert, Debit, Credit, CertifySender,
         CertifyReceiver, Attach, txVars
    <3> QED
      BY <3>2
  <2>4. CASE \/ Receive(r) \/ Reject(r) \/ BeginPanics(r)
             \/ AnswerAnonymous(r) \/ FindSession(r) \/ ReadAccount(r) \/ NoAccount(r)
             \/ AccountUnavailable(r) \/ ReadHistory(r) \/ ReadHistoryCut(r) \/ HistoryUnavailable(r)
    <3>1. free' = free /\ pc[r] \notin InTransaction
          /\ \E to \in {"next", "account", "history", "done"} : pc' = [pc EXCEPT ![r] = to]
      BY <2>4 DEF Receive, Reject, Report, HasNext, BeginPanics, AnswerAnonymous, FindSession,
         ReadAccount, NoAccount, AccountUnavailable, ReadHistory,
     ReadHistoryCut, AnswerWithHistory, HistoryUnavailable, LoopDone,
         Answer, txVars
    <3> QED
      BY <3>1
  <2> QED
    BY <1>1, <2>1, <2>2, <2>3, <2>4 DEF Handle, Fault
<1>2. Environment => \/ free' = free /\ Open' = Open
                     \/ free' = PoolSize /\ Open' = {}
  <2>1. ServerCrash => free' = PoolSize /\ Open' = {}
    BY DEF ServerCrash
  <2>2. \A u : DeactivateKey(u) \/ InsertKey(u) \/ Expire(u) => free' = free /\ pc' = pc
    BY DEF DeactivateKey, InsertKey, Expire, txVars
  <2> QED
    BY <2>1, <2>2 DEF Environment
<1>3. UNCHANGED vars => free' = free /\ Open' = Open
  BY DEF vars
<1> QED
  BY <1>1, <1>2, <1>3, LedgerAssumption DEF Next

\* A connection is out of the pool exactly while a transaction is open,
\* whichever statement of whichever transaction fails.
THEOREM PoolIsAccounted ==
    ASSUME IsFiniteSet(Requests)
    PROVE  Spec => []PoolAccounted
<1>1. PoolAccounted <=> free + Cardinality(Open) = PoolSize
  BY DEF PoolAccounted, Open
<1>2. IsFiniteSet(Open) /\ Cardinality(Open) \in Nat
  BY FS_Subset, FS_CardinalityType DEF Open
<1>3. Init => PoolAccounted
  <2> SUFFICES ASSUME Init PROVE PoolAccounted
    OBVIOUS
  <2>1. Open = {} /\ free = PoolSize
    BY DEF Init, Open, InTransaction
  <2> QED
    BY <1>1, <2>1, FS_EmptySet, LedgerAssumption
<1>4. IInv /\ PoolAccounted /\ [Next]_vars => PoolAccounted'
  <2> SUFFICES ASSUME IInv, PoolAccounted, [Next]_vars PROVE free' + Cardinality(Open') = PoolSize
    BY DEF PoolAccounted, Open
  <2>1. free \in Nat /\ PoolSize \in Nat
    BY LedgerAssumption DEF IInv, TypeOK
  <2>2. \A r : r \notin Open => Cardinality(Open \cup {r}) = Cardinality(Open) + 1
    BY <1>2, FS_AddElement
  <2>3. \A r \in Open : Cardinality(Open \ {r}) = Cardinality(Open) - 1
    BY <1>2, FS_RemoveElement
  <2>4. Cardinality({}) = 0
    BY FS_EmptySet
  <2> QED
    BY <1>1, <1>2, <2>1, <2>2, <2>3, <2>4, StepConnections
<1> QED
  BY <1>3, <1>4, Invariance, PTL DEF Spec
=============================================================================
