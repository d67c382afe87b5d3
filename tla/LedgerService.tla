--------------------------- MODULE LedgerService ---------------------------
(***************************************************************************)
(* The ledger as the phone of one user sees it: of all the TAMs only those *)
(* from or to the user count, of all the requests only the phone's own are *)
(* visits, and everybody else's are somebody who may settle a payment of   *)
(* the user at any moment.  So seen, Ledger implements SyncService.  (The  *)
(* phone's requests may carry TAMs of others, as it records what it scans  *)
(* whoever is to be paid; of these it only learns that one failed.)        *)
(***************************************************************************)
EXTENDS Ledger

CONSTANTS Watched, \* the TAMs from or to the user
          Own      \* the requests of the user's phone

ASSUME ServiceAssumption ==
    /\ Watched \subseteq Tams
    /\ Own \subseteq Requests

\* How many of the first n rows are the user's.
WatchedIn(n) == Cardinality({i \in 1..n : ledger[i].tam \in Watched})

RowOf(t) == CHOOSE i \in DOMAIN ledger : ledger[i].tam = t

NumberOf(t) == IF t \in Settled THEN WatchedIn(RowOf(t)) ELSE 0

\* Its transaction's NOW().
BegunAt(t) == IF t \in Settled THEN WatchedIn(ledger[RowOf(t)].stamp) ELSE 0

PhaseOf(r) ==
    CASE pc[r] = "idle" -> "idle"
      [] pc[r] \in {"next"} \cup InTransaction -> "sent"
      [] pc[r] = "account" -> "submitted"
      [] pc[r] = "history" -> "certified"
      [] pc[r] = "done" -> "answered"

DoneBy(r) == {t \in Watched : \E i \in DOMAIN replies[r] : replies[r][i].tam = t}

SilencedBy(r) ==
    {t \in Watched : \E i \in DOMAIN replies[r] :
                        replies[r][i].tam = t /\ replies[r][i].outcome = "silent"}

LeftIn(r) == {t \in Watched : \E i \in DOMAIN todo[r] : todo[r][i] = t}

\* The status is fixed when the batch is finished, and sent at the end.
StatusOf(r) == IF pc[r] \in {"account", "history"} THEN Status(r) ELSE answer[r].status

Visit(r) == [phase |-> PhaseOf(r),
             batch |-> DoneBy(r) \cup LeftIn(r),
             done |-> DoneBy(r), silenced |-> SilencedBy(r),
             hasError |-> hasError[r], status |-> StatusOf(r),
             bkvc |-> WatchedIn(answer[r].bkvcAt),
             history |-> WatchedIn(answer[r].historyAt),
             unread |-> answer[r].unread \cap Watched]

\* The sync handlers are the server that a phone runs on.
Service == INSTANCE SyncService
             WITH Tams <- Watched, Syncs <- Own,
                  settlements <- WatchedIn(Len(ledger)),
                  settledAt <- [t \in Watched |-> NumberOf(t)],
                  begunAt <- [t \in Watched |-> BegunAt(t)],
                  sync <- [r \in Own |-> Visit(r)]
ServiceSpec == Service!Spec
=============================================================================
