---------------------------- MODULE SyncService -----------------------------
(***************************************************************************)
(* What POST /v1/sync is to the phone of one user, with no transactions,   *)
(* locks, statements or other users in it: payments are settled one at a   *)
(* time and numbered, a visit works through its batch, and a balance or a  *)
(* history is known by the number of payments it reflects.  Ledger         *)
(* implements this, and Client runs on it.                                 *)
(***************************************************************************)
EXTENDS Integers

CONSTANTS Tams,  \* the payments from or to the user
          Syncs  \* the visits of the user's phone

VARIABLES settlements, \* how many of the payments are settled
          settledAt,   \* the number of each, 0 when it is not settled
          begunAt,     \* how many were when the transaction that settled it began
          sync         \* the visits: see Unvisited

server == <<settlements, settledAt, begunAt>>
vars == <<server, sync>>

\* batch is what the visit carries, done what the handler has finished with,
\* silenced what it failed without setting hasError; bkvc and history are
\* what the answer reflects, unread what its history has lost.
Unvisited == [phase |-> "idle", batch |-> {}, done |-> {}, silenced |-> {},
              hasError |-> FALSE, status |-> "none", bkvc |-> 0, history |-> 0,
              unread |-> {}]

Init ==
    /\ settlements = 0
    /\ settledAt = [t \in Tams |-> 0]
    /\ begunAt = [t \in Tams |-> 0]
    /\ sync = [s \in Syncs |-> Unvisited]

\* The transaction began with any number of the earlier ones committed, and
\* that moment is the one its certificates carry.
Settle(t) ==
    /\ settledAt[t] = 0
    /\ settlements' = settlements + 1
    /\ settledAt' = [settledAt EXCEPT ![t] = settlements']
    /\ \E n \in 0..settlements : begunAt' = [begunAt EXCEPT ![t] = n]

Committed == {t \in Tams : settledAt[t] # 0}

\* Somebody else submits a payment of the user.
SettleElsewhere(t) == Settle(t) /\ UNCHANGED sync

Arrive(s, batch) ==
    /\ sync[s].phase = "idle"
    /\ sync' = [sync EXCEPT ![s].phase = "sent", ![s].batch = batch]
    /\ UNCHANGED server

\* The visit is the one that settles the TAM, or finds it settled.
Succeed(s, t) ==
    /\ sync[s].phase = "sent" /\ t \in sync[s].batch
    /\ sync' = [sync EXCEPT ![s].done = @ \cup {t}]
    /\ IF settledAt[t] = 0 THEN Settle(t) ELSE UNCHANGED server

\* A TAM reported as failed may be settled: its commit was not confirmed.
Fail(s, t) ==
    /\ sync[s].phase = "sent" /\ t \in sync[s].batch
    /\ sync' = [sync EXCEPT ![s].done = @ \cup {t}, ![s].hasError = TRUE]
    /\ Settle(t) \/ UNCHANGED server

\* The two error paths that do not set hasError.
FailSilently(s, t) ==
    /\ sync[s].phase = "sent" /\ t \in sync[s].batch
    /\ sync' = [sync EXCEPT ![s].done = @ \cup {t}, ![s].silenced = @ \cup {t}]
    /\ UNCHANGED server

\* A TAM between two others, which the phone has scanned, fails.
FailForOthers(s) ==
    /\ sync[s].phase = "sent"
    /\ sync' = [sync EXCEPT ![s].hasError = TRUE]
    /\ UNCHANGED server

\* The answer is complete without a session; with one, the account is next.
FinishBatch(s, next) ==
    /\ sync[s].phase = "sent" /\ sync[s].batch \subseteq sync[s].done
    /\ next \in {"submitted", "answered"}
    /\ sync' = [sync EXCEPT ![s].phase = next,
                            ![s].status = IF sync[s].hasError THEN "207" ELSE "202"]
    /\ UNCHANGED server

ReadAccount(s) ==
    /\ sync[s].phase = "submitted"
    /\ sync' = [sync EXCEPT ![s].phase = "certified", ![s].bkvc = settlements]
    /\ UNCHANGED server

\* lost is empty unless the read broke off, which nothing in the answer shows.
ReadHistory(s, lost) ==
    /\ sync[s].phase = "certified"
    /\ lost \subseteq Committed
    /\ sync' = [sync EXCEPT ![s].phase = "answered", ![s].history = settlements,
                            ![s].unread = lost]
    /\ UNCHANGED server

\* An error that ends the visit: a 500 while it submits, then a 207.
GiveUp(s) ==
    /\ \/ /\ sync[s].phase = "sent"
          /\ sync' = [sync EXCEPT ![s].phase = "answered", ![s].status = "500"]
       \/ /\ sync[s].phase \in {"submitted", "certified"}
          /\ sync' = [sync EXCEPT ![s].phase = "answered", ![s].status = "207",
                                  ![s].bkvc = 0, ![s].history = 0, ![s].unread = {}]
    /\ UNCHANGED server

\* The server dies: no visit that is under way gets an answer.
Crash ==
    LET Lost(visit) == [visit EXCEPT !.phase = "answered", !.status = "none",
                                     !.batch = {}, !.done = {}, !.silenced = {},
                                     !.hasError = FALSE, !.bkvc = 0, !.history = 0,
                                     !.unread = {}]
    IN
    /\ sync' = [s \in Syncs |-> IF sync[s].phase \in {"idle", "answered"} THEN sync[s]
                                                                       ELSE Lost(sync[s])]
    /\ UNCHANGED server

\* The phone has the answer, or does not wait for it any longer.
Leave(S) ==
    /\ sync' = [s \in Syncs |-> IF s \in S THEN Unvisited ELSE sync[s]]
    /\ UNCHANGED server

Next ==
    \/ \E t \in Tams : SettleElsewhere(t)
    \/ \E s \in Syncs :
         \/ \E batch \in SUBSET Tams : Arrive(s, batch)
         \/ \E t \in Tams : Succeed(s, t) \/ Fail(s, t) \/ FailSilently(s, t)
         \/ \E next \in {"submitted", "answered"} : FinishBatch(s, next)
         \/ FailForOthers(s) \/ ReadAccount(s) \/ GiveUp(s)
         \/ \E lost \in SUBSET Tams : ReadHistory(s, lost)
    \/ Crash
    \/ \E S \in SUBSET Syncs : Leave(S)

Spec == Init /\ [][Next]_vars
=============================================================================
