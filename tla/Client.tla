------------------------------- MODULE Client -------------------------------
(***************************************************************************)
(* The phone's copy of the ledger: DataBloc, which keeps the balance       *)
(* certificate (BKVC) and the transactions of one user in memory, saves    *)
(* them in secure storage and replaces them by what POST /v1/sync returns. *)
(*                                                                         *)
(* Dart runs one handler at a time and the awaits of SubmitTAM, SubmitTVC  *)
(* and of the last part of RequestSync only yield to the microtask queue,  *)
(* so each is one step.  A sync really waits once, for the HTTP answer;    *)
(* meanwhile payments are made and scanned, other syncs start, and the     *)
(* answers may come back in any order.  The writes to storage are started  *)
(* but never awaited, so they reach the disk later, in order.              *)
(*                                                                         *)
(* The server is SyncService, which Ledger implements: settlements happen  *)
(* one at a time and are numbered, and a balance or a history is known by  *)
(* the number of settlements it reflects.  A certificate carries NOW() of  *)
(* the statement or the transaction that made it: its stamp, the number of *)
(* settlements at that moment.  The account is read by one statement, but  *)
(* a TVC is stamped when its transaction begins, before others commit.     *)
(***************************************************************************)
EXTENDS Integers, Sequences, FiniteSets

CONSTANTS Tams,      \* authorization messages from or to this user
          Mine,      \* those this phone signs; the others are scanned
          Look,      \* the second and the amount of each, as a TVC has them
          Refused,   \* bound: TAMs the server may report as failed
          Silent,    \* bound: TAMs it may fail without setting hasError
          Cut,       \* bound: TAMs a history may lack when the read breaks off
          Syncs,     \* bound: the POST requests under way at a time
          MaxWrites, \* bound: storage writes not yet on disk
          Peers,     \* bound: TAMs the other party submits on its own
          Outages,   \* bound: losses of connectivity during a run
          Restarts,  \* bound: restarts of the application during a run
          Faulty     \* bound: whether the server may break off a visit or die

ASSUME ClientAssumption ==
    /\ Mine \subseteq Tams
    /\ Refused \subseteq Tams
    /\ Silent \subseteq Tams
    /\ Cut \subseteq Tams
    /\ Peers \subseteq Tams
    /\ MaxWrites \in Nat
    /\ Outages \in Nat
    /\ Restarts \in Nat
    /\ Faulty \in BOOLEAN
    \* Nobody pays and is paid the same amount in the same second.
    /\ \A t \in Mine, u \in Tams \ Mine : Look[t] # Look[u]

VARIABLES
    \* DataState
    form,      \* what `transactions` holds of each TAM
    bkvc,      \* the certified balance: how many settlements it reflects
    stamp,     \* its timeStamp: how many there were at that moment
    session,   \* sessionToken is set
    isOnline,  \* the connectivity the phone last noticed
    \* the event queue and the requests under way
    due,       \* a RequestSyncEvent was added
    sync,      \* the POST requests
    \* secure storage
    disk,      \* what has been written
    writes,    \* the writes that were started and not finished
    \* the world
    signed,    \* TAMs this phone has signed
    network,   \* actual connectivity
    outages,   \* how often it was lost
    restarts,  \* how often the application was restarted
    \* the server
    settlements, \* how many TAMs it has settled
    settledAt, \* the number of each settlement, 0 for a TAM not settled
    begunAt,   \* how many there were when its transaction began
    \* history
    unread     \* what the list on display lost while the server read it

memory == <<form, bkvc, stamp, session, isOnline, unread>>
storage == <<disk, writes>>
world == <<signed, network, outages, restarts>>
server == <<settlements, settledAt, begunAt>>
vars == <<memory, due, sync, storage, world, server>>

\* The server this phone is a client of.
Service == INSTANCE SyncService

-----------------------------------------------------------------------------
(* Values *)

\* "half": the receiver's TVC was scanned but the sender's is missing.
Forms == {"absent", "pending", "half", "settled"}

NoBkvc == -1

Phases == {"idle", "sent", "submitted", "certified", "answered"}
Statuses == {"none", "202", "207", "500"}

\* A visit of SyncService, and whether its cookie names a session.
Requests == [phase : Phases, batch : SUBSET Tams, done : SUBSET Tams,
             silenced : SUBSET Tams, hasError : BOOLEAN, signedIn : BOOLEAN,
             status : Statuses, bkvc : Nat, history : Nat, unread : SUBSET Tams]
Idle == [phase |-> "idle", batch |-> {}, done |-> {}, silenced |-> {}, hasError |-> FALSE,
         signedIn |-> FALSE, status |-> "none", bkvc |-> 0, history |-> 0,
         unread |-> {}]

Contents == [transactions : [Tams -> Forms], bkvc : Nat \cup {NoBkvc},
             stamp : Nat, session : BOOLEAN]
Blank == [transactions |-> [t \in Tams |-> "absent"], bkvc |-> NoBkvc,
          stamp |-> 0, session |-> FALSE]
Keys == {"transactions", "bkvc", "session"}

TypeOK ==
    /\ form \in [Tams -> Forms]
    /\ bkvc \in Nat \cup {NoBkvc}
    /\ stamp \in Nat
    /\ session \in BOOLEAN
    /\ isOnline \in BOOLEAN
    /\ due \in BOOLEAN
    /\ sync \in [Syncs -> Requests]
    /\ disk \in Contents
    /\ writes \in Seq([key : Keys, of : Contents])
    /\ signed \subseteq Mine
    /\ network \in BOOLEAN
    /\ outages \in 0..Outages
    /\ restarts \in 0..Restarts
    /\ settlements \in Nat
    /\ settledAt \in [Tams -> Nat]
    /\ begunAt \in [Tams -> Nat]
    /\ unread \subseteq Tams

Settled == {t \in Tams : settledAt[t] > 0}
\* The transactions that balance or history number n reflects.
UpTo(n) == {t \in Settled : settledAt[t] <= n}

-----------------------------------------------------------------------------

Init ==
    /\ form = Blank.transactions
    /\ bkvc = NoBkvc
    /\ stamp = 0
    /\ session = FALSE
    /\ isOnline = FALSE
    /\ due = FALSE
    /\ sync = [s \in Syncs |-> Idle]
    /\ disk = Blank
    /\ writes = <<>>
    /\ signed = {}
    /\ network = TRUE
    /\ outages = 0
    /\ restarts = 0
    /\ settlements = 0
    /\ settledAt = [t \in Tams |-> 0]
    /\ begunAt = [t \in Tams |-> 0]
    /\ unread = {}

\* save() stops at the transactions when one has a single TVC: toJson
\* dereferences both.
Savable(forms) == \A t \in Tams : forms[t] # "half"

\* Mutant of Save: the certificate is written unconverted.
SaveUnconverted(contents) ==
    /\ Len(writes) + 3 <= MaxWrites
    /\ writes' = writes \o <<[key |-> "transactions", of |-> contents],
                             [key |-> "bkvc", of |-> [contents EXCEPT !.bkvc = NoBkvc - 1]],
                             [key |-> "session", of |-> contents]>>
    /\ UNCHANGED disk

\* save(): every key is written, in this order; nobody awaits the writes.
Save(contents) ==
    /\ Len(writes) + 3 <= MaxWrites
    /\ writes' = writes \o <<[key |-> "transactions", of |-> contents],
                             [key |-> "bkvc", of |-> contents],
                             [key |-> "session", of |-> contents]>>
    /\ UNCHANGED disk

FlushWrite ==
    /\ writes # <<>>
    /\ LET w == Head(writes)
       IN  disk' = CASE w.key = "transactions" ->
                            [disk EXCEPT !.transactions = w.of.transactions]
                     [] w.key = "bkvc" -> [disk EXCEPT !.bkvc = w.of.bkvc,
                                                       !.stamp = w.of.stamp]
                     [] w.key = "session" -> [disk EXCEPT !.session = w.of.session]
    /\ writes' = Tail(writes)
    /\ UNCHANGED <<memory, due, sync, world, server>>

-----------------------------------------------------------------------------
(* Payments *)

\* checkAlreadyExists compares the second and the amount.  A TAM this phone
\* has just signed has a time of its own, to the microsecond, which no entry
\* equals; its entry takes the rounded time once the server has settled it.
AlreadyExists(t) ==
    /\ t \notin Mine
    /\ \E u \in Tams : /\ Look[u] = Look[t]
                       /\ \/ form[u] = "settled"
                          \/ form[u] = "pending" /\ u \notin Mine

\* SubmitTAM.  Without a certificate the handler throws, and with an entry
\* that cannot be saved it throws before it emits: nothing is recorded.
SubmitTAM(t) ==
    IF bkvc = NoBkvc \/ ~Savable(form)
    THEN UNCHANGED <<form, due, storage>>
    ELSE /\ form' = IF AlreadyExists(t) THEN form ELSE [form EXCEPT ![t] = "pending"]
         /\ Save([transactions |-> form', bkvc |-> bkvc, stamp |-> stamp,
                  session |-> session])
         /\ due' = TRUE

\* SendMoney: the TAM is signed over the stored certificate.
Pay(t) ==
    /\ t \in Mine \ signed
    /\ disk.bkvc # NoBkvc
    /\ signed' = signed \cup {t}
    /\ SubmitTAM(t)
    /\ UNCHANGED <<bkvc, stamp, session, isOnline, unread, sync, network, outages,
                   restarts, server>>

\* QrScan: the TAM of somebody who pays this user, perhaps for the second time.
Scan(t) ==
    /\ t \in Tams \ Mine
    /\ SubmitTAM(t)
    /\ UNCHANGED <<bkvc, stamp, session, isOnline, unread, sync, world, server>>

\* SubmitTVC when firstWhere finds a TAM scanned earlier: the entry is given
\* the receiver's TVC in place, and then cannot be saved.
ScanTVCOfPending(t, u) ==
    /\ bkvc # NoBkvc
    /\ t \in Settled \ Mine
    /\ u \notin Mine /\ form[u] = "pending" /\ Look[u] = Look[t]
    /\ form' = [form EXCEPT ![u] = "half"]
    /\ UNCHANGED <<bkvc, stamp, session, isOnline, unread, due, sync, storage, world,
                   server>>

\* isAfter compares whole seconds: a certificate stamped earlier is never later
\* than the phone's, one stamped at the same moment or after may be.
MayBeLater(t) == begunAt[t] >= stamp

\* SubmitTVC when it finds an entry the server has listed: the certificate in
\* the TVC replaces one with an earlier stamp, whatever the two reflect.  When
\* the handler finds no entry, the new one has a single TVC, so that save()
\* throws before it emits anything.
ScanTVCOfListed(t, u) ==
    /\ bkvc # NoBkvc
    /\ t \in Settled
    /\ form[u] = "settled" /\ Look[u] = Look[t]
    /\ Savable(form)
    /\ \/ MayBeLater(t) /\ bkvc' = settledAt[t] /\ stamp' = begunAt[t]
       \/ UNCHANGED <<bkvc, stamp>>
    /\ Save([transactions |-> form, bkvc |-> bkvc', stamp |-> stamp', session |-> session])
    /\ UNCHANGED <<form, session, isOnline, unread, due, sync, world, server>>

-----------------------------------------------------------------------------
(* Synchronization *)

\* The first half of RequestSync: what is unsubmitted now is what is sent.
StartSync(s) ==
    /\ due
    /\ sync[s].phase = "idle"
    /\ due' = FALSE
    /\ LET batch == {t \in Tams : form[t] = "pending"}
       IN  sync' = [sync EXCEPT ![s] = [Idle EXCEPT !.phase = "sent", !.batch = batch,
                                                    !.signedIn = session]]
    /\ UNCHANGED <<memory, storage, world, server>>

\* The server finishes with one TAM of the batch, which has none twice.
Submit(s, t) ==
    /\ network
    /\ t \notin sync[s].done
    /\ \/ Service!Succeed(s, t)
       \/ t \in Refused /\ Service!Fail(s, t)
       \/ t \in Silent /\ Service!FailSilently(s, t)
    /\ UNCHANGED <<memory, due, storage, world>>

FinishBatch(s) ==
    /\ network
    /\ Service!FinishBatch(s, IF sync[s].signedIn THEN "submitted" ELSE "answered")
    /\ UNCHANGED <<memory, due, storage, world>>

\* Mutants of ReadAccount and ReadHistory: they read from a replica that is one
\* settlement behind.
Lag(n) == IF n = 0 THEN 0 ELSE n - 1
ReadLaggingAccount(s) ==
    /\ sync[s].phase = "submitted"
    /\ sync' = [sync EXCEPT ![s].bkvc = Lag(settlements), ![s].phase = "certified"]
    /\ UNCHANGED <<memory, due, storage, world, server>>
ReadLaggingHistory(s) ==
    /\ sync[s].phase = "certified"
    /\ sync' = [sync EXCEPT ![s].history = Lag(settlements), ![s].phase = "answered"]
    /\ UNCHANGED <<memory, due, storage, world, server>>

ReadAccount(s) ==
    /\ Service!ReadAccount(s)
    /\ UNCHANGED <<memory, due, storage, world>>

\* A query that breaks while it is read shortens the list of a 202.
ReadHistory(s) ==
    /\ \E lost \in SUBSET (Cut \cap Settled) : Service!ReadHistory(s, lost)
    /\ UNCHANGED <<memory, due, storage, world>>

ServerFails(s) ==
    /\ Faulty
    /\ Service!GiveUp(s)
    /\ UNCHANGED <<memory, due, storage, world>>

\* The posts under way throw when their answers fail to come.
ServerCrash ==
    /\ Faulty
    /\ \E s \in Syncs : sync[s].phase \notin {"idle", "answered"}
    /\ Service!Crash
    /\ UNCHANGED <<memory, due, storage, world>>

\* The answer is used only when it is 202 and, without a session, only to
\* leave the waiting screen.
Accepted(s) == sync[s].status = "202" /\ sync[s].signedIn

\* The transactions in it; nothing shows that some are missing.
Returned(s) == UpTo(sync[s].history) \ sync[s].unread

\* Mutant of ApplyAnswer: the batch counts as settled whatever became of it.
ApplyOptimistic(s) ==
    /\ network
    /\ sync[s].phase = "answered"
    /\ sync' = [sync EXCEPT ![s] = Idle]
    /\ IF sync[s].signedIn
       THEN /\ bkvc' = sync[s].bkvc
            /\ stamp' = sync[s].bkvc
            /\ form' = [t \in Tams |-> IF t \in Returned(s) \cup sync[s].batch
                                       THEN "settled" ELSE "absent"]
            /\ unread' = sync[s].unread
            /\ Save([transactions |-> form', bkvc |-> bkvc', stamp |-> stamp',
                     session |-> session])
       ELSE UNCHANGED <<bkvc, stamp, form, unread, storage>>
    /\ UNCHANGED <<session, isOnline, due, world, server>>

\* Mutant of ApplyAnswer: a certificate the phone has is kept.
ApplyKeepingBalance(s) ==
    /\ network
    /\ sync[s].phase = "answered"
    /\ sync' = [sync EXCEPT ![s] = Idle]
    /\ IF Accepted(s)
       THEN /\ bkvc' = IF bkvc = NoBkvc THEN sync[s].bkvc ELSE bkvc
            /\ stamp' = bkvc'
            /\ form' = [t \in Tams |-> IF t \in Returned(s) THEN "settled" ELSE "absent"]
            /\ unread' = sync[s].unread
            /\ Save([transactions |-> form', bkvc |-> bkvc', stamp |-> stamp',
                     session |-> session])
       ELSE UNCHANGED <<bkvc, stamp, form, unread, storage>>
    /\ UNCHANGED <<session, isOnline, due, world, server>>

\* The second half of RequestSync: the answer replaces the certificate and
\* every transaction, those recorded since the request was sent included.
ApplyAnswer(s) ==
    /\ network
    /\ sync[s].phase = "answered"
    /\ sync' = [sync EXCEPT ![s] = Idle]
    /\ IF Accepted(s)
       THEN /\ bkvc' = sync[s].bkvc
            /\ stamp' = sync[s].bkvc
            /\ form' = [t \in Tams |-> IF t \in Returned(s) THEN "settled" ELSE "absent"]
            /\ unread' = sync[s].unread
            /\ Save([transactions |-> form', bkvc |-> bkvc', stamp |-> stamp',
                     session |-> session])
       ELSE UNCHANGED <<bkvc, stamp, form, unread, storage>>
    /\ UNCHANGED <<session, isOnline, due, world, server>>

\* The post throws; nothing asks for it again.
LoseAnswer(s) ==
    /\ ~network
    /\ sync[s].phase # "idle"
    /\ sync' = [sync EXCEPT ![s] = Idle]
    /\ UNCHANGED <<memory, due, storage, world, server>>

\* Mutant of CheckInternet: connectivity that comes back is only displayed.
CheckInternetOnly ==
    /\ isOnline # network
    /\ isOnline' = network
    /\ UNCHANGED <<form, bkvc, stamp, unread, due, session, sync, storage, world, server>>

\* CheckInternet, every second: connectivity that came back asks for a sync.
CheckInternet ==
    /\ isOnline # network
    /\ isOnline' = network
    /\ due' = (due \/ network)
    /\ UNCHANGED <<form, bkvc, stamp, unread, session, sync, storage, world, server>>

\* The user pulls a page down or taps the time of the last sync.
Refresh ==
    /\ ~due
    /\ due' = TRUE
    /\ UNCHANGED <<memory, sync, storage, world, server>>

UserAuthenticated ==
    /\ ~session
    /\ network
    /\ session' = TRUE
    /\ due' = TRUE
    /\ UNCHANGED <<form, bkvc, stamp, unread, isOnline, sync, storage, world, server>>

-----------------------------------------------------------------------------
(* Surroundings *)

\* fromStorage reads two TVCs of every entry; a pending one has none on disk.
Readable == \A t \in Tams : disk.transactions[t] \in {"absent", "settled"}

\* The application is killed and starts again: LoadData runs before anything
\* else.  When it throws, the initial DataState stays and no sync is asked for.
Restart ==
    /\ restarts < Restarts
    /\ restarts' = restarts + 1
    /\ writes' = <<>>
    /\ sync' = [s \in Syncs |-> Idle]
    /\ IF Readable
       THEN /\ form' = disk.transactions
            /\ bkvc' = disk.bkvc
            /\ stamp' = disk.stamp
            /\ session' = disk.session
            /\ isOnline' = TRUE
            /\ due' = TRUE
       ELSE /\ form' = Blank.transactions
            /\ bkvc' = NoBkvc
            /\ stamp' = 0
            /\ session' = FALSE
            /\ isOnline' = FALSE
            /\ due' = FALSE
    /\ unread' = {}
    /\ UNCHANGED <<disk, signed, network, outages, server>>

\* The other party syncs the TAM it holds, or the server reaches it in a batch
\* whose sender has stopped waiting.
PeerSubmits(t) ==
    /\ t \in Peers
    /\ t \in Mine => t \in signed
    /\ Service!SettleElsewhere(t)
    /\ UNCHANGED <<memory, due, storage, world>>

\* Outages shorter than the second between two checks are left out, so that
\* the phone has noticed an outage before it ends.
Disconnect ==
    /\ network
    /\ outages < Outages
    /\ network' = FALSE
    /\ outages' = outages + 1
    /\ UNCHANGED <<memory, due, sync, storage, signed, restarts, server>>

Reconnect ==
    /\ ~network /\ ~isOnline
    /\ network' = TRUE
    /\ UNCHANGED <<memory, due, sync, storage, signed, outages, restarts, server>>

Next ==
    \/ \E t \in Tams : Pay(t) \/ Scan(t) \/ PeerSubmits(t)
    \/ \E t, u \in Tams : ScanTVCOfPending(t, u) \/ ScanTVCOfListed(t, u)
    \/ \E s \in Syncs : \/ StartSync(s) \/ FinishBatch(s) \/ ReadAccount(s)
                        \/ ReadHistory(s) \/ ServerFails(s)
                        \/ ApplyAnswer(s) \/ LoseAnswer(s)
                        \/ \E t \in Tams : Submit(s, t)
    \/ FlushWrite \/ CheckInternet \/ Refresh \/ UserAuthenticated
    \/ ServerCrash \/ Restart \/ Disconnect \/ Reconnect

Spec == Init /\ [][Next]_vars

\* What the phone and the server do once they can; neither the user nor the
\* other party has to do anything, and connectivity comes back.  ApplyAnswer
\* is only ever disabled by the bound on writes and by an outage.
Fairness ==
    /\ WF_vars(FlushWrite) /\ WF_vars(CheckInternet) /\ WF_vars(Reconnect)
    /\ \A s \in Syncs :
         /\ WF_vars(StartSync(s)) /\ WF_vars(FinishBatch(s))
         /\ WF_vars(ReadAccount(s)) /\ WF_vars(ReadHistory(s))
         /\ WF_vars(LoseAnswer(s)) /\ SF_vars(ApplyAnswer(s))
         /\ \A t \in Tams : WF_vars(Submit(s, t))

FairSpec == Spec /\ Fairness

-----------------------------------------------------------------------------
(* Properties *)

\* What the server knows of a post.
Served(post) == [field \in DOMAIN post \ {"signedIn"} |-> post[field]]

\* Whatever the phone does with its posts (answers applied late or given up,
\* restarts that forget them), it is a client of SyncService and assumes
\* nothing of the server that this does not promise.
AsServed == INSTANCE SyncService WITH sync <- [s \in Syncs |-> Served(sync[s])]
ServedSpec == AsServed!Spec

\* A payment is shown as settled, now or after a restart, only if the server
\* has settled it, and as half verified only if it has settled one of the same
\* second and amount, however the answers to the syncs were reordered.
ShownIsSettled ==
    /\ \A t \in Tams : "settled" \in {form[t], disk.transactions[t]} => t \in Settled
    /\ \A t \in Tams : form[t] = "half" => \E u \in Settled : Look[u] = Look[t]

\* Whatever the certified balance reflects is in the list of transactions, but
\* for what the list lost when it was read, so nothing is both in the balance
\* and subtracted from it as unsubmitted.  The server reads the account before
\* the history, and SubmitTVC takes a certificate only for an entry it finds in
\* the list.  (Two payments that look alike would defeat the latter, and a
\* restart between the write of the list and that of the balance finds the two
\* of different syncs.)
BalanceCoveredByHistory ==
    restarts = 0 /\ bkvc # NoBkvc =>
        UpTo(bkvc) \subseteq {t \in Tams : form[t] = "settled"} \cup unread

\* A payment counts when the amount it moves is in the balance on display.
Counted(t) == form[t] = "pending" \/ t \in UpTo(bkvc)

\* A step on which payment t stops counting has one of these causes.
ForgottenByAnswer(t) ==
    \E s \in Syncs : /\ sync[s].phase = "answered" /\ sync'[s].phase = "idle"
                     /\ t \notin sync[s].batch \/ t \in sync[s].silenced
ForgottenByTVC(t) ==
    \E u \in Settled : /\ stamp <= begunAt[u]
                       /\ settledAt[u] < settledAt[t] /\ settledAt[t] <= bkvc
                       /\ bkvc' = settledAt[u] /\ sync' = sync
ForgetsWithCause ==
    \A t \in Tams : Counted(t) /\ ~Counted(t)' =>
        \/ ForgottenByAnswer(t) \/ ForgottenByTVC(t)
        \/ form'[t] = "half" \/ restarts' # restarts

\* A payment stops counting only by the answer to a sync that did not carry it
\* or that failed it silently, by a TVC of its twin, by the TVC of a transaction
\* that began after the phone's certificate was stamped and committed before it
\* (so that the one on the phone came with a TVC too), or by a restart: a sync
\* that carried it never takes it off the balance.
OnlyStaleAnswersForget == [][ForgetsWithCause]_vars

\* When nobody else settles this user's payments and syncs do not overlap, the
\* balance reflects every transaction listed: none can be spent twice.
ListedIsCertified == \A t \in Tams : form[t] = "settled" => t \in UpTo(bkvc)

\* A payment is on its way when a sync was asked for or will be, or carries it.
OnItsWay(t) == due \/ ~isOnline \/ ~network \/ \E s \in Syncs : t \in sync[s].batch

\* The server has died, or answers a sync that carried t otherwise than by a
\* 202, or had failed t silently: the phone does not ask again by itself.
FailedByServer(t) ==
    \E s \in Syncs : /\ sync[s].phase = "answered"
                     /\ \/ sync[s].status = "none"
                        \/ /\ t \in sync[s].batch
                           /\ sync[s].status # "202" \/ t \in sync[s].silenced

\* What was paid or scanned is settled without the user asking, through any
\* outage the phone notices, unless an answer that overtakes it drops it or the
\* server itself fails the visit or the payment.  A payment recorded while a
\* sync is under way, or that an outage cut off, is on its way by itself; one
\* the server failed is so again when the user refreshes or pays.  A payment the
\* server always refuses does not keep the others from being settled.
PendingDrains ==
    \A t \in Tams :
        form[t] = "pending" /\ OnItsWay(t) ~>
            t \in Settled \/ form[t] # "pending" \/ FailedByServer(t)

\* README.md:19, "Robust client side caching": a payment that is in secure
\* storage when the application stops is there when it starts again.
RestartKeepsPending ==
    [][\A t \in Tams :
        restarts' # restarts /\ disk.transactions[t] = "pending" => form'[t] # "absent"]_vars

\* README.md:19, "syncronization mechanism": a payment waiting to be submitted
\* is not dropped by a sync.
SyncKeepsPending ==
    [][\A t \in Tams :
        form[t] = "pending" /\ form'[t] = "absent" => restarts' # restarts]_vars

=============================================================================
