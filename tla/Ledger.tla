------------------------------- MODULE Ledger -------------------------------
(***************************************************************************)
(* POST /v1/sync on the server: SyncController.Sync.                       *)
(*                                                                         *)
(* Each request is a goroutine that walks a batch of TAMs.  Every TAM gets *)
(* a PostgreSQL transaction of its own (READ COMMITTED, the default) whose *)
(* statements are the steps below, so the statements of several requests   *)
(* interleave.  After the batch the handler reads the caller's account and *)
(* transaction history outside any transaction and answers.                *)
(*                                                                         *)
(* What PostgreSQL contributes is modelled as the code relies on it: a row *)
(* an open transaction has updated is locked until the transaction ends, a *)
(* statement sees the latest committed rows plus its own writes, a UNIQUE  *)
(* signature makes a second INSERT wait for the first transaction to end,  *)
(* and the victim of a lock cycle gets an error from its UPDATE.           *)
(***************************************************************************)
EXTENDS Payments, Sequences, FiniteSets

CONSTANTS Requests,   \* the sync requests; a retry is another request
          Caller,     \* whose session cookie each request carries
          Batches,    \* the TAM lists each request may carry
          Malformed,  \* TAMs that fail decoding or one of the signatures
          PoolSize,   \* connections of the pgx pool the handlers share
          Failing,    \* bound: the requests that meet errors during a run
          Rotating,   \* bound: the users whose key changes during a run
          Ageing,     \* bound: the TAMs that get too old during a run
          NoUser      \* stands for "no session" in an answer

ASSUME LedgerAssumption ==
    /\ Caller \in [Requests -> Users]
    /\ Batches \in [Requests -> SUBSET Seq(Tams)]
    /\ Malformed \subseteq Tams
    /\ PoolSize \in Nat \ {0}
    /\ Failing \subseteq Requests
    /\ Rotating \subseteq Users
    /\ Ageing \subseteq Tams
    /\ NoUser \notin Users

VARIABLES
    \* the database
    balance,   \* Accounts.balance, committed
    ledger,    \* the committed rows of Transactions, in commit order
    keyed,     \* the users with an active row in Keys
    \* the clock
    expired,   \* the TAMs older than KEY_VALIDITY_TIME_HOURS
    \* the goroutine of each request
    pc,        \* the statement it executes next
    todo,      \* the TAMs of its batch it has not finished with
    replies,   \* `responses`: how each finished TAM was reported
    hasError,  \* the flag that chooses 202 or 207
    answer,    \* the HTTP answer
    \* the database connections and the open transaction of each request
    free,      \* idle connections of the pool
    draft,     \* row versions it wrote; the domain is the rows it locks
    stamp,     \* its NOW(), counted in commits
    certs      \* the balances its two BKVCs certify

dbVars == <<balance, ledger, keyed>>
txVars == <<free, draft, stamp, certs>>
vars == <<balance, ledger, keyed, expired, pc, todo, replies, hasError,
          answer, free, draft, stamp, certs>>

-----------------------------------------------------------------------------
(* Values *)

Rows == [tam : Tams, sender : Int, receiver : Int, stamp : Nat]

\* "settled" and "already" are the two replies with Success true; "silent" is
\* a failure the handler reports without setting hasError.
Outcomes == {"settled", "already", "failed", "silent"}
Replies == [tam : Tams, outcome : Outcomes]

\* bkvcAt and historyAt are the rows committed when the account and the history
\* were read, unread the rows the history should have had and has not.
Answers == [status : {"none", "202", "207", "500"}, user : Users \cup {NoUser},
            balance : Int, bkvcAt : Nat, historyAt : Nat, unread : SUBSET Tams]

Unanswered ==
    [status |-> "none", user |-> NoUser, balance |-> 0, bkvcAt |-> 0, historyAt |-> 0,
     unread |-> {}]

\* The statements of the database transaction, in program order.
InTransaction == {"lookup", "insert", "debit", "credit", "certifySender",
                  "certifyReceiver", "attach", "commit"}
HasInserted == InTransaction \ {"lookup", "insert"}

Settled == {ledger[i].tam : i \in DOMAIN ledger}
Current(r) == Head(todo[r])
Succeeded(reply) == reply.outcome \in {"settled", "already"}

TypeOK ==
    /\ balance \in [Users -> Int]
    /\ ledger \in Seq(Rows)
    /\ keyed \subseteq Users
    /\ expired \subseteq Tams
    /\ pc \in [Requests -> {"idle", "next", "account", "history", "done"} \cup InTransaction]
    /\ todo \in [Requests -> Seq(Tams)]
    /\ \A r \in Requests : pc[r] \in InTransaction => todo[r] # <<>>
    /\ replies \in [Requests -> Seq(Replies)]
    /\ hasError \in [Requests -> BOOLEAN]
    /\ answer \in [Requests -> Answers]
    /\ free \in Nat
    /\ draft = [r \in Requests |-> draft[r]]
    /\ \A r \in Requests : /\ DOMAIN draft[r] \subseteq Users
                           /\ draft[r] \in [DOMAIN draft[r] -> Int]
    /\ stamp \in [Requests -> Nat]
    /\ certs \in [Requests -> [sender : Int, receiver : Int]]

-----------------------------------------------------------------------------
(* What a statement of an open transaction sees and waits for *)

NoRows == [u \in {} |-> 0]

\* A statement reads its own writes, and committed values for the rest.
View(r, u) == IF u \in DOMAIN draft[r] THEN draft[r][u] ELSE balance[u]

Write(r, u, value) ==
    draft' = [draft EXCEPT ![r] =
                [v \in DOMAIN @ \cup {u} |-> IF v = u THEN value ELSE @[v]]]

\* UPDATE Accounts waits while another open transaction has the row.
RowFree(r, u) == \A s \in Requests \ {r} : u \notin DOMAIN draft[s]

\* INSERT waits while another open transaction has inserted the signature.
SignatureFree(r, t) ==
    \A s \in Requests \ {r} : pc[s] \in HasInserted => Current(s) # t

Waits(r, s) ==
    /\ r # s
    /\ \/ pc[r] = "debit"  /\ Sender[Current(r)] \in DOMAIN draft[s]
       \/ pc[r] = "credit" /\ Receiver[Current(r)] \in DOMAIN draft[s]

\* Every request waits for at most one other, so a set in which everybody
\* waits and is waited for is a union of cycles.
Deadlocked(r) ==
    \E S \in SUBSET Requests :
        /\ r \in S
        /\ \A p \in S : /\ \E q \in S : Waits(p, q)
                        /\ \E q \in S : Waits(q, p)

-----------------------------------------------------------------------------
(* Steps shared by the actions *)

Init ==
    /\ balance = Opening
    /\ ledger = <<>>
    /\ keyed = Users
    /\ expired = {}
    /\ pc = [r \in Requests |-> "idle"]
    /\ todo = [r \in Requests |-> <<>>]
    /\ replies = [r \in Requests |-> <<>>]
    /\ hasError = [r \in Requests |-> FALSE]
    /\ answer = [r \in Requests |-> Unanswered]
    /\ free = PoolSize
    /\ draft = [r \in Requests |-> NoRows]
    /\ stamp = [r \in Requests |-> 0]
    /\ certs = [r \in Requests |-> [sender |-> 0, receiver |-> 0]]

\* The next statement of the same transaction.
Advance(r, from, to) ==
    /\ pc[r] = from
    /\ pc' = [pc EXCEPT ![r] = to]
    /\ UNCHANGED <<expired, todo, replies, hasError, answer, keyed>>

\* `responses = append(...)` and `continue`.
Report(r, outcome) ==
    /\ pc' = [pc EXCEPT ![r] = "next"]
    /\ todo' = [todo EXCEPT ![r] = Tail(@)]
    /\ replies' = [replies EXCEPT ![r] =
                     Append(@, [tam |-> Current(r), outcome |-> outcome])]
    /\ hasError' = [hasError EXCEPT ![r] = @ \/ outcome = "failed"]
    /\ UNCHANGED <<expired, answer, keyed>>

\* The end of a transaction, either way: its locks are gone and its connection
\* goes back to the pool.
CloseTransaction(r) ==
    /\ free' = free + 1
    /\ draft' = [draft EXCEPT ![r] = NoRows]
    /\ stamp' = [stamp EXCEPT ![r] = 0]
    /\ certs' = [certs EXCEPT ![r] = [sender |-> 0, receiver |-> 0]]

RollBack(r, outcome) ==
    /\ Report(r, outcome)
    /\ CloseTransaction(r)
    /\ UNCHANGED <<balance, ledger>>

-----------------------------------------------------------------------------
(* The loop over the batch *)

Receive(r) ==
    /\ pc[r] = "idle"
    /\ \E batch \in Batches[r] : todo' = [todo EXCEPT ![r] = batch]
    /\ pc' = [pc EXCEPT ![r] = "next"]
    /\ UNCHANGED <<dbVars, txVars, expired, replies, hasError, answer>>

\* The checks before the transaction: decoding, age, the sender's signature
\* and the server's signature on the embedded BKVC.
Acceptable(t) == t \notin Malformed \cup expired

HasNext(r) == pc[r] = "next" /\ todo[r] # <<>>

Reject(r) ==
    /\ HasNext(r)
    /\ ~Acceptable(Current(r))
    /\ Report(r, "failed")
    /\ UNCHANGED <<balance, ledger, txVars>>

Begin(r) ==
    /\ HasNext(r)
    /\ Acceptable(Current(r))
    /\ free > 0
    /\ Advance(r, "next", "lookup")
    /\ free' = free - 1
    /\ stamp' = [stamp EXCEPT ![r] = Len(ledger)]
    /\ UNCHANGED <<balance, ledger, draft, certs>>

\* DB.Begin failed: the handler calls Rollback on the nil transaction and the
\* recovery middleware turns the panic into a 500.
BeginPanics(r) ==
    /\ HasNext(r)
    /\ Acceptable(Current(r))
    /\ pc' = [pc EXCEPT ![r] = "done"]
    /\ answer' = [answer EXCEPT ![r].status = "500"]
    /\ UNCHANGED <<dbVars, txVars, expired, todo, replies, hasError>>

\* Mutant of AlreadySubmitted: `continue` without Rollback.
AlreadySubmittedLeaks(r) ==
    /\ pc[r] = "lookup"
    /\ Current(r) \in Settled
    /\ Report(r, "already")
    /\ UNCHANGED <<balance, ledger, txVars>>

\* Mutant of AlreadySubmitted: a dirty read answers for a TAM still in flight.
AlreadyInFlight(r) ==
    /\ pc[r] = "lookup"
    /\ Current(r) \in Settled \/ ~SignatureFree(r, Current(r))
    /\ RollBack(r, "already")

\* SELECT ... WHERE t.signature = $1
AlreadySubmitted(r) ==
    /\ pc[r] = "lookup"
    /\ Current(r) \in Settled
    /\ RollBack(r, "already")

NotSubmitted(r) ==
    /\ Advance(r, "lookup", "insert")
    /\ Current(r) \notin Settled
    /\ UNCHANGED <<balance, ledger, txVars>>

\* Mutant of Insert: no UNIQUE on the signature.
InsertDuplicate(r) ==
    /\ Advance(r, "insert", "debit")
    /\ ~SelfPayment(Current(r))
    /\ UNCHANGED <<balance, ledger, txVars>>

\* Mutant of Insert: no CHECK (sender_id <> receiver_id).
InsertSelfPayment(r) ==
    /\ Advance(r, "insert", "debit")
    /\ SignatureFree(r, Current(r))
    /\ Current(r) \notin Settled
    /\ UNCHANGED <<balance, ledger, txVars>>

\* INSERT INTO Transactions, with its UNIQUE and CHECK constraints.
Insert(r) ==
    /\ Advance(r, "insert", "debit")
    /\ SignatureFree(r, Current(r))
    /\ Current(r) \notin Settled
    /\ ~SelfPayment(Current(r))
    /\ UNCHANGED <<balance, ledger, txVars>>

InsertViolates(r) ==
    /\ pc[r] = "insert"
    /\ SignatureFree(r, Current(r))
    /\ Current(r) \in Settled \/ SelfPayment(Current(r))
    /\ RollBack(r, "failed")

Debit(r) ==
    LET t == Current(r) IN
    /\ Advance(r, "debit", "credit")
    /\ RowFree(r, Sender[t])
    /\ Write(r, Sender[t], Debited(View(r, Sender[t]), Amount[t]))
    /\ UNCHANGED <<balance, ledger, free, stamp, certs>>

Credit(r) ==
    LET t == Current(r) IN
    /\ Advance(r, "credit", "certifySender")
    /\ RowFree(r, Receiver[t])
    /\ Write(r, Receiver[t], Credited(View(r, Receiver[t]), Amount[t]))
    /\ UNCHANGED <<balance, ledger, free, stamp, certs>>

\* Mutant of CertifySender: the balance read through the pool, not through tx.
CertifyOutsideTransaction(r) ==
    LET u == Sender[Current(r)] IN
    /\ Advance(r, "certifySender", "certifyReceiver")
    /\ u \in keyed
    /\ certs' = [certs EXCEPT ![r].sender = balance[u]]
    /\ UNCHANGED <<balance, ledger, free, draft, stamp>>

\* SELECT a.balance, k.value ... AND k.active = TRUE, then Sign.
CertifySender(r) ==
    LET u == Sender[Current(r)] IN
    /\ Advance(r, "certifySender", "certifyReceiver")
    /\ u \in keyed
    /\ certs' = [certs EXCEPT ![r].sender = View(r, u)]
    /\ UNCHANGED <<balance, ledger, free, draft, stamp>>

\* This error path does not set hasError.
SenderHasNoKey(r) ==
    /\ pc[r] = "certifySender"
    /\ Sender[Current(r)] \notin keyed
    /\ RollBack(r, "silent")

CertifyReceiver(r) ==
    LET u == Receiver[Current(r)] IN
    /\ Advance(r, "certifyReceiver", "attach")
    /\ u \in keyed
    /\ certs' = [certs EXCEPT ![r].receiver = View(r, u)]
    /\ UNCHANGED <<balance, ledger, free, draft, stamp>>

ReceiverHasNoKey(r) ==
    /\ pc[r] = "certifyReceiver"
    /\ Receiver[Current(r)] \notin keyed
    /\ RollBack(r, "failed")

\* UPDATE Transactions SET sender_tvc, receiver_tvc: the row's own lock.
Attach(r) ==
    /\ Advance(r, "attach", "commit")
    /\ UNCHANGED <<balance, ledger, txVars>>

\* What COMMIT makes visible to everyone.
Publish(r) ==
    /\ balance' = [u \in Users |-> View(r, u)]
    /\ ledger' = Append(ledger,
                    [tam |-> Current(r), sender |-> certs[r].sender,
                     receiver |-> certs[r].receiver, stamp |-> stamp[r]])

Commit(r) ==
    /\ pc[r] = "commit"
    /\ Publish(r)
    /\ Report(r, "settled")
    /\ CloseTransaction(r)

\* The connection breaks after the server of the database has committed.
CommitUnconfirmed(r) ==
    /\ pc[r] = "commit"
    /\ Publish(r)
    /\ Report(r, "failed")
    /\ CloseTransaction(r)

\* Mutant of StatementFails: `continue` without Rollback keeps the locks.
StatementFailsLeaks(r) ==
    /\ pc[r] \in InTransaction
    /\ Report(r, "failed")
    /\ UNCHANGED <<balance, ledger, txVars>>

\* Mutant of StatementFails: the error of Commit is not looked at.
CommitUnchecked(r) ==
    /\ pc[r] \in InTransaction
    /\ RollBack(r, IF pc[r] = "commit" THEN "settled" ELSE "failed")

\* Mutant of StatementFails: the error of the second UPDATE is not looked at
\* and a savepoint keeps the transaction usable.
CreditUnchecked(r) ==
    /\ Advance(r, "credit", "certifySender")
    /\ UNCHANGED <<balance, ledger, txVars>>

\* Any statement can fail, and COMMIT can fail without committing.
StatementFails(r) ==
    /\ pc[r] \in InTransaction
    /\ RollBack(r, IF pc[r] \in {"certifySender", "attach"} THEN "silent" ELSE "failed")

\* The lock cycle detector of the database aborts one of the waiters.
DeadlockVictim(r) ==
    /\ Deadlocked(r)
    /\ RollBack(r, "failed")

-----------------------------------------------------------------------------
(* After the batch *)

LoopDone(r) == pc[r] = "next" /\ todo[r] = <<>>
\* Mutant of Status: StatusOK in the place of StatusAccepted.
StatusPlain(r) == IF hasError[r] THEN "207" ELSE "200"

Status(r) == IF hasError[r] THEN "207" ELSE "202"

Answer(r, to, reply) ==
    /\ pc' = [pc EXCEPT ![r] = to]
    /\ answer' = [answer EXCEPT ![r] = reply]
    /\ UNCHANGED <<dbVars, txVars, expired, todo, replies, hasError>>

\* GetActiveUser finds no session: only the submission status goes back.
AnswerAnonymous(r) ==
    /\ LoopDone(r)
    /\ Answer(r, "done", [Unanswered EXCEPT !.status = Status(r)])

FindSession(r) ==
    /\ LoopDone(r)
    /\ Answer(r, "account", Unanswered)

\* SELECT a.balance, ..., NOW() outside any transaction, signed as a BKVC.
ReadAccount(r) ==
    LET u == Caller[r] IN
    /\ pc[r] = "account"
    /\ free > 0
    /\ u \in keyed
    /\ Answer(r, "history", [answer[r] EXCEPT !.user = u, !.balance = balance[u],
                                              !.bkvcAt = Len(ledger)])

NoAccount(r) ==
    /\ pc[r] = "account"
    /\ free > 0
    /\ Caller[r] \notin keyed
    /\ Answer(r, "done", [Unanswered EXCEPT !.status = "207"])

AccountUnavailable(r) ==
    /\ pc[r] = "account"
    /\ Answer(r, "done", [Unanswered EXCEPT !.status = "207"])

AnswerWithHistory(r, lost) ==
    /\ pc[r] = "history"
    /\ free > 0
    /\ Answer(r, "done", [answer[r] EXCEPT !.status = Status(r),
                                           !.historyAt = Len(ledger),
                                           !.unread = lost])

\* GetFavoritesById and GetTransactionsById, in statements of their own.
ReadHistory(r) == AnswerWithHistory(r, {})

\* The connection breaks while the rows arrive.  Next returns false, nobody asks
\* for transactionHistory.Err(), and the rows so far, which come in no
\* particular order, go out as the history.
ReadHistoryCut(r) ==
    \E lost \in (SUBSET Settled) \ {{}} : AnswerWithHistory(r, lost)

HistoryUnavailable(r) ==
    /\ pc[r] = "history"
    /\ Answer(r, "done", [Unanswered EXCEPT !.status = "207"])

-----------------------------------------------------------------------------
(* What happens around the handlers *)

\* The API process dies and is restarted: its connections are closed, so the
\* open transactions roll back, and the callers get no answer.
ServerCrash ==
    LET inFlight == {r \in Requests : pc[r] \notin {"idle", "done"}}
        Lose(f, blank) == [r \in Requests |-> IF r \in inFlight THEN blank ELSE f[r]]
    IN
    /\ inFlight # {}
    /\ pc' = Lose(pc, "done")
    /\ todo' = Lose(todo, <<>>)
    /\ replies' = Lose(replies, <<>>)
    /\ hasError' = Lose(hasError, FALSE)
    /\ answer' = Lose(answer, Unanswered)
    /\ free' = PoolSize
    /\ draft' = Lose(draft, NoRows)
    /\ stamp' = Lose(stamp, 0)
    /\ certs' = Lose(certs, [sender |-> 0, receiver |-> 0])
    /\ UNCHANGED <<dbVars, expired>>

\* The first statement of GenerateKeyPair, a commit of its own.
DeactivateKey(u) ==
    /\ keyed' = keyed \ {u}
    /\ u \in keyed
    /\ UNCHANGED <<balance, ledger, txVars, expired, pc, todo, replies, hasError, answer>>

\* Its second statement.
InsertKey(u) ==
    /\ keyed' = keyed \cup {u}
    /\ u \notin keyed
    /\ UNCHANGED <<balance, ledger, txVars, expired, pc, todo, replies, hasError, answer>>

Expire(t) ==
    /\ t \notin expired
    /\ expired' = expired \cup {t}
    /\ UNCHANGED <<dbVars, txVars, pc, todo, replies, hasError, answer>>

-----------------------------------------------------------------------------
(* The specification *)

\* What the goroutine of a request does by itself.
Handle(r) ==
    \/ Reject(r) \/ Begin(r)
    \/ AlreadySubmitted(r) \/ NotSubmitted(r)
    \/ Insert(r) \/ InsertViolates(r)
    \/ Debit(r) \/ Credit(r)
    \/ CertifySender(r) \/ SenderHasNoKey(r)
    \/ CertifyReceiver(r) \/ ReceiverHasNoKey(r)
    \/ Attach(r) \/ Commit(r)
    \/ AnswerAnonymous(r) \/ FindSession(r) \/ ReadAccount(r) \/ NoAccount(r) \/ ReadHistory(r)

\* What an error or a lost connection does to it.
Fault(r) ==
    \/ BeginPanics(r) \/ CommitUnconfirmed(r) \/ StatementFails(r)
    \/ AccountUnavailable(r) \/ HistoryUnavailable(r) \/ ReadHistoryCut(r)

Environment ==
    \/ ServerCrash
    \/ \E u \in Rotating : DeactivateKey(u) \/ InsertKey(u)
    \/ \E t \in Ageing : Expire(t)

Next ==
    \/ \E r \in Requests : Receive(r) \/ Handle(r) \/ DeadlockVictim(r)
    \/ \E r \in Failing : Fault(r)
    \/ Environment

Spec == Init /\ [][Next]_vars

\* The Go scheduler runs every goroutine that is not blocked, and the database
\* breaks every lock cycle.  Nothing is assumed of callers, faults or keys.
Fairness ==
    \A r \in Requests : WF_vars(Handle(r)) /\ WF_vars(DeadlockVictim(r))

LiveSpec == Spec /\ Fairness

-----------------------------------------------------------------------------
(* Properties *)

\* The opening balances and what each row makes of them, one by one.
Replay(rows) ==
    LET after[k \in 0..Len(rows)] ==
            IF k = 0 THEN Opening ELSE Transfer(after[k - 1], rows[k].tam)
    IN  after

BalanceAfter(k) == Replay(ledger)[k]

(* Why the transactions do not interfere: the inductive invariant.         *)

\* The rows an open transaction has updated, by the statement it is at.
WrittenRows(r) ==
    IF pc[r] = "credit" THEN {Sender[Current(r)]}
    ELSE IF pc[r] \in HasInserted \ {"debit"}
    THEN {Sender[Current(r)], Receiver[Current(r)]}
    ELSE {}

\* One open transaction at a time has inserted a given signature, and then no
\* committed row has it.
SignaturesExclusive ==
    \A r \in Requests : pc[r] \in HasInserted =>
        /\ Current(r) \notin Settled
        /\ ~SelfPayment(Current(r))
        /\ SignatureFree(r, Current(r))

\* One open transaction at a time has a given account row.
RowsExclusive ==
    \A r, s \in Requests : r # s => DOMAIN draft[r] \cap DOMAIN draft[s] = {}

\* What it has written there is its transfer applied to the balances that are
\* committed NOW, whatever has been committed since it began.
DraftsAreTransfers ==
    \A r \in Requests :
        draft[r] = [u \in WrittenRows(r) |-> Transfer(balance, Current(r))[u]]

\* The balances it certified are the ones it will commit.
CertsMatchDrafts ==
    \A r \in Requests :
        /\ pc[r] \in {"certifyReceiver", "attach", "commit"} =>
              certs[r].sender = draft[r][Sender[Current(r)]]
        /\ pc[r] \in {"attach", "commit"} =>
              certs[r].receiver = draft[r][Receiver[Current(r)]]

\* The four parts together: an open transaction is isolated from all others
\* from its INSERT to its COMMIT.
TransactionsIsolated ==
    SignaturesExclusive /\ RowsExclusive /\ DraftsAreTransfers /\ CertsMatchDrafts

\* Concurrent syncs never lose or repeat an update: the Accounts rows are what
\* replaying the committed Transactions rows one by one yields.
BalancesReplayLedger == balance = BalanceAfter(Len(ledger))

\* However often and by whomever a TAM is submitted, it is settled once.
SettledOnce ==
    \A i, j \in DOMAIN ledger : ledger[i].tam = ledger[j].tam => i = j

\* No success is reported for a TAM that is not settled, whatever failed
\* around it, and a 202 covers the batch except for TAMs whose sender
\* certificate or TVC update failed, where the handler forgets the flag.
HonestReport ==
    \A r \in Requests :
        /\ \A i \in DOMAIN replies[r] :
              Succeeded(replies[r][i]) => replies[r][i].tam \in Settled
        /\ answer[r].status = "202" =>
              /\ todo[r] = <<>>
              /\ \A i \in DOMAIN replies[r] :
                    replies[r][i].tam \in Settled \/ replies[r][i].outcome = "silent"

\* The TAMs an answer lists.
Listed(r) == {ledger[k].tam : k \in 1..answer[r].historyAt} \ answer[r].unread

\* The BKVC a sync returns is the balance after everything the same sync
\* acknowledged.  Its history was read no earlier than the BKVC, so it lists
\* every settlement the BKVC reflects, but for rows lost in a read that broke
\* off: the handler does not ask, and they are missing from an answer with the
\* status of any other.  Only a request that met an error has such an answer.
SyncReturnsItsOwnWrites ==
    \A r \in Requests :
        pc[r] = "done" /\ answer[r].user # NoUser =>
            /\ answer[r].balance = BalanceAfter(answer[r].bkvcAt)[answer[r].user]
            /\ \A i \in DOMAIN replies[r] : Succeeded(replies[r][i]) =>
                  \E k \in 1..answer[r].bkvcAt : ledger[k].tam = replies[r][i].tam
            /\ \A k \in 1..answer[r].bkvcAt :
                  ledger[k].tam \in Listed(r) \cup answer[r].unread
            /\ answer[r].unread # {} => r \in Failing

\* The two BKVCs stored with a TAM certify the balances right after it was
\* settled: no other transfer of either account is missing or half counted.
CommitsCertifyBalances ==
    [][\A t \in Tams : t \in Settled' \ Settled =>
          LET row == ledger'[Len(ledger')] IN
          /\ row.tam = t
          /\ row.sender = balance'[Sender[t]]
          /\ row.receiver = balance'[Receiver[t]]]_vars

\* The ledger implements the exactly-once, all-at-once settlement.
Settling == INSTANCE Settlement WITH settled <- Settled
SettlementSpec == Settling!Spec

\* A connection is out of the pool exactly while a transaction is open: no
\* early `continue` of the loop forgets to give it back.
PoolAccounted ==
    free + Cardinality({r \in Requests : pc[r] \in InTransaction}) = PoolSize

\* Row locks, the pool and lock cycles never leave a caller without an answer.
EveryRequestAnswered ==
    \A r \in Requests : pc[r] # "idle" ~> pc[r] = "done"
=============================================================================
