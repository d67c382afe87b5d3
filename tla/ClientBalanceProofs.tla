------------------------ MODULE ClientBalanceProofs ------------------------
(***************************************************************************)
(* Proofs about the two numbers the phone displays together, the certified *)
(* balance and the list of transactions: the list covers the balance, and  *)
(* with a single sync and nobody else settling, the balance covers it too. *)
(***************************************************************************)
EXTENDS ClientProofs

Listed == {t \in Tams : form[t] = "settled"}

\* The server settles a payment of this user only after it was signed.
SignedFirst ==
    /\ Settled \cap Mine \subseteq signed
    /\ \A t \in Mine : form[t] = "pending" => t \in signed
    /\ \A s \in Syncs : sync[s].batch \cap Mine \subseteq signed

\* An answer that will be used was read in this order.
ReadInOrder ==
    \A s \in Syncs : sync[s].phase = "answered" /\ sync[s].status = "202" /\ sync[s].signedIn
                        => sync[s].bkvc <= sync[s].history

\* The list is the history of one moment, not before the certificate, but for
\* what it lost when it was read.
ListIsHistory ==
    restarts = 0 =>
        \E h \in Nat : h <= settlements /\ bkvc <= h /\ Listed = UpTo(h) \ unread

CoveredInv == SignedFirst /\ ReadInOrder /\ ListIsHistory

LEMMA IdleFields == Idle.phase = "idle" /\ Idle.batch = {} /\ Idle.status = "none"
  BY DEF Idle

-----------------------------------------------------------------------------
(* The list covers the balance *)

\* A step that neither settles nor changes what is listed and certified.
LEMMA ViewStays ==
    ASSUME ListIsHistory, UNCHANGED server, bkvc' = bkvc, unread' = unread,
           restarts' = restarts,
           \A t \in Tams : form'[t] = "settled" <=> form[t] = "settled"
    PROVE  ListIsHistory'
<1>1. Listed' = Listed /\ settlements' = settlements
  BY DEF Listed, server
<1> QED
  BY <1>1, ServerStays DEF ListIsHistory

\* A settlement changes no earlier history.
LEMMA ViewSurvivesSettlement ==
    ASSUME IInv, ListIsHistory, NEW t, Settles(t),
           bkvc' = bkvc, unread' = unread, restarts' = restarts, form' = form
    PROVE  ListIsHistory'
<1> SUFFICES ASSUME restarts = 0
             PROVE  \E h \in Nat : /\ h <= settlements' /\ bkvc' <= h
                                   /\ Listed' = UpTo(h)' \ unread'
  BY DEF ListIsHistory
<1>1. PICK h \in Nat : h <= settlements /\ bkvc <= h /\ Listed = UpTo(h) \ unread
  BY DEF ListIsHistory
<1>2. UpTo(h)' = UpTo(h) /\ Listed' = Listed /\ settlements \in Nat
  <2>1. TypeOK /\ Numbered
    BY DEF IInv
  <2>2. \A n \in Int : n <= settlements => UpTo(n)' = UpTo(n)
    BY <2>1, SettlementAdds
  <2>3. UpTo(h)' = UpTo(h)
    BY <1>1, <2>2
  <2> QED
    BY <2>1, <2>3 DEF TypeOK, Listed
<1>3. h <= settlements' /\ bkvc' <= h
  BY <1>1, <1>2 DEF Settles
<1> QED
  BY <1>1, <1>2, <1>3

LEMMA PaymentCovered ==
    ASSUME IInv, CoveredInv, NEW t \in Tams, Pay(t) \/ Scan(t)
    PROVE  CoveredInv'
<1> USE DEF IInv, TypeOK
<1>1. /\ UNCHANGED server /\ UNCHANGED <<bkvc, unread, sync, restarts>>
      /\ signed \subseteq signed' /\ (t \in Mine => t \in signed')
  BY DEF Pay, Scan, world
<1>2. form' = form \/ (form' = [form EXCEPT ![t] = "pending"] /\ ~AlreadyExists(t))
  BY DEF Pay, Scan, SubmitTAM
<1>3. CASE form' = form
  BY <1>1, <1>3, ViewStays, ServerStays DEF CoveredInv, SignedFirst, ReadInOrder
<1>4. CASE form' = [form EXCEPT ![t] = "pending"] /\ ~AlreadyExists(t)
  <2>1. form[t] # "settled"
    <3>1. CASE Pay(t)
      BY <3>1 DEF Pay, PhoneInv, FormSound, CoveredInv, SignedFirst
    <3>2. CASE Scan(t)
      BY <1>4, <3>2 DEF Scan, AlreadyExists
    <3> QED
      BY <3>1, <3>2
  <2>2. /\ form'[t] = "pending"
        /\ \A u \in Tams \ {t} : form'[u] = form[u]
    BY <1>4
  <2>3. ListIsHistory'
    BY <1>1, <2>1, <2>2, ViewStays DEF CoveredInv
  <2>4. SignedFirst'
    BY <1>1, <2>2, ServerStays, ClientAssumption
       DEF CoveredInv, SignedFirst, ClientAssumption
  <2>5. ReadInOrder'
    BY <1>1 DEF CoveredInv, ReadInOrder
  <2> QED
    BY <2>3, <2>4, <2>5 DEF CoveredInv
<1> QED
  BY <1>2, <1>3, <1>4

LEMMA ScanOfPendingCovered ==
    ASSUME IInv, CoveredInv, NEW t \in Tams, NEW u \in Tams, ScanTVCOfPending(t, u)
    PROVE  CoveredInv'
<1>1. /\ UNCHANGED server /\ UNCHANGED <<bkvc, unread, sync, restarts, signed>>
      /\ form[u] = "pending" /\ form'[u] = "half"
      /\ \A v \in Tams \ {u} : form'[v] = form[v]
  BY DEF IInv, TypeOK, ScanTVCOfPending, world
<1>2. ListIsHistory'
  BY <1>1, ViewStays DEF CoveredInv
<1>3. SignedFirst' /\ ReadInOrder'
  BY <1>1, ServerStays, ClientAssumption
     DEF CoveredInv, SignedFirst, ReadInOrder, ClientAssumption
<1> QED
  BY <1>2, <1>3 DEF CoveredInv

\* No two payments of this user have the same second and amount.
NoTwins == \A t, u \in Tams : Look[t] = Look[u] => t = u

\* The certificate of a listed payment is no newer than the list.
LEMMA ScanOfListedCovered ==
    ASSUME NoTwins, IInv, CoveredInv, NEW t \in Tams, NEW u \in Tams, ScanTVCOfListed(t, u)
    PROVE  CoveredInv'
<1>1. /\ UNCHANGED server /\ UNCHANGED <<sync, restarts, signed, form, unread>>
      /\ form[t] = "settled"
      /\ bkvc' = settledAt[t] \/ bkvc' = bkvc
  BY DEF ScanTVCOfListed, world, NoTwins
<1>2. Listed' = Listed /\ settlements' = settlements
  BY <1>1 DEF Listed, server
<1>3. ListIsHistory'
  <2> SUFFICES ASSUME restarts = 0
               PROVE  \E h \in Nat : /\ h <= settlements /\ bkvc' <= h
                                     /\ Listed = UpTo(h) \ unread
    BY <1>1, <1>2, ServerStays DEF ListIsHistory
  <2>1. PICK h \in Nat : h <= settlements /\ bkvc <= h /\ Listed = UpTo(h) \ unread
    BY DEF CoveredInv, ListIsHistory
  <2>2. settledAt[t] <= h
    BY <1>1, <2>1 DEF Listed, UpTo
  <2> QED
    BY <1>1, <2>1, <2>2
<1>4. SignedFirst' /\ ReadInOrder'
  BY <1>1, ServerStays DEF CoveredInv, SignedFirst, ReadInOrder
<1> QED
  BY <1>3, <1>4 DEF CoveredInv

\* Both are replaced at once, by what was read in the right order.
LEMMA ApplyCovered ==
    ASSUME IInv, CoveredInv, NEW s \in Syncs, ApplyAnswer(s)
    PROVE  CoveredInv'
<1> USE DEF IInv, TypeOK
<1>1. /\ UNCHANGED server /\ restarts' = restarts /\ signed' = signed
      /\ sync'[s] = Idle /\ \A q \in Syncs \ {s} : sync'[q] = sync[q]
  <2>1. UNCHANGED <<world, server>> /\ sync' = [sync EXCEPT ![s] = Idle]
    BY DEF ApplyAnswer
  <2>2. sync \in [Syncs -> Requests]
    OBVIOUS
  <2> QED
    BY <2>1, <2>2, Zenon DEF world
<1>2. ReadInOrder'
  BY <1>1, IdleFields DEF CoveredInv, ReadInOrder
<1>3. \A q \in Syncs : sync'[q].batch \cap Mine \subseteq signed'
  BY <1>1, IdleFields DEF CoveredInv, SignedFirst
<1>4. CASE ~Accepted(s)
  <2>1. UNCHANGED <<form, bkvc, unread>>
    BY <1>4 DEF ApplyAnswer
  <2> QED
    BY <1>1, <1>2, <1>3, <2>1, ViewStays, ServerStays DEF CoveredInv, SignedFirst
<1>5. CASE Accepted(s)
  <2>1. PICK h : h = sync[s].history
    OBVIOUS
  <2>2. /\ bkvc' = sync[s].bkvc
        /\ form' = [t \in Tams |-> IF t \in UpTo(h) \ unread' THEN "settled" ELSE "absent"]
    BY <1>5, <2>1 DEF ApplyAnswer, Returned
  <2>3. h \in Nat /\ h <= settlements /\ bkvc' <= h
    BY <1>5, <2>1, <2>2
       DEF Requests, RequestSound, ApplyAnswer, Accepted, CoveredInv, ReadInOrder
  <2>4. ListIsHistory'
    <3>1. settlements' = settlements /\ UpTo(h)' = UpTo(h)
      BY <1>1, ServerStays DEF server
    <3>2. Listed' = UpTo(h) \ unread'
      BY <2>2 DEF Listed, UpTo, Settled
    <3> QED
      BY <2>3, <3>1, <3>2 DEF ListIsHistory
  <2>5. SignedFirst'
    BY <1>1, <1>3, <2>2, ServerStays, ClientAssumption
       DEF CoveredInv, SignedFirst, ClientAssumption
  <2> QED
    BY <1>2, <2>4, <2>5 DEF CoveredInv
<1> QED
  BY <1>4, <1>5

LEMMA SettlingCovered ==
    ASSUME IInv, CoveredInv, NEW t \in Tams,
           PeerSubmits(t) \/ \E s \in Syncs : Submit(s, t)
    PROVE  CoveredInv'
<1> USE DEF IInv, TypeOK
<1>1. /\ UNCHANGED <<bkvc, unread, restarts, form, signed>>
      /\ \A s \in Syncs : /\ sync'[s].batch = sync[s].batch
                          /\ sync'[s].phase = sync[s].phase /\ sync'[s].status = sync[s].status
                          /\ sync'[s].signedIn = sync[s].signedIn
                          /\ sync'[s].bkvc = sync[s].bkvc /\ sync'[s].history = sync[s].history
  <2>1. CASE PeerSubmits(t)
    BY <2>1 DEF PeerSubmits, Service!SettleElsewhere, memory, world
  <2>2. CASE \E s \in Syncs : Submit(s, t)
    <3>1. PICK s \in Syncs : Submit(s, t)
      BY <2>2
    <3>2. UNCHANGED <<memory, world>>
      BY <3>1, SubmitOutcomes
    <3>3. PICK q \in Requests :
            /\ sync' = [sync EXCEPT ![s] = q]
            /\ \A field \in {"phase", "batch", "signedIn", "status", "bkvc", "history", "unread"} :
                  q[field] = sync[s][field]
      BY <3>1, SubmitOutcomes
    <3>4. \A p \in Syncs : sync'[p] = IF p = s THEN q ELSE sync[p]
      BY <3>3
    <3> QED
      BY <3>2, <3>3, <3>4 DEF memory, world
  <2> QED
    BY <2>1, <2>2
<1>2. t \in Mine => t \in signed
  <2>1. CASE PeerSubmits(t)
    BY <2>1 DEF PeerSubmits
  <2>2. CASE \E s \in Syncs : Submit(s, t)
    BY <2>2, SubmitOutcomes DEF CoveredInv, SignedFirst
  <2> QED
    BY <2>1, <2>2
<1>3. ReadInOrder'
  BY <1>1 DEF CoveredInv, ReadInOrder
<1>4. CASE UNCHANGED server
  BY <1>1, <1>3, <1>4, ViewStays, ServerStays DEF CoveredInv, SignedFirst
<1>5. CASE ~UNCHANGED server
  <2>1. Settles(t)
    <3>1. CASE PeerSubmits(t)
      BY <3>1, SettleSettles DEF PeerSubmits, Service!SettleElsewhere
    <3>2. CASE \E s \in Syncs : Submit(s, t)
      BY <1>5, <3>2, SubmitOutcomes
    <3> QED
      BY <3>1, <3>2
  <2>2. ListIsHistory'
    BY <1>1, <2>1, ViewSurvivesSettlement DEF CoveredInv
  <2>3. Settled' = Settled \cup {t}
    BY <2>1, SettlementAdds
  <2>4. SignedFirst'
    BY <1>1, <1>2, <2>3 DEF CoveredInv, SignedFirst
  <2> QED
    BY <1>3, <2>2, <2>4 DEF CoveredInv
<1> QED
  BY <1>4, <1>5

\* A restart makes no claim about the list, but forgets no signature.
LEMMA RestartCovered ==
    ASSUME IInv, CoveredInv, Restart
    PROVE  CoveredInv'
<1> USE DEF IInv, TypeOK
<1>0. UNCHANGED server /\ signed' = signed
  BY DEF Restart
<1>1. restarts' # 0 /\ \A s \in Syncs : sync'[s] = Idle
  BY DEF Restart
<1>2. \A t \in Tams : form'[t] # "pending"
  <2>1. CASE Readable
    BY <2>1 DEF Restart, Readable
  <2>2. CASE ~Readable
    BY <2>2 DEF Restart, Blank
  <2> QED
    BY <2>1, <2>2
<1> QED
  BY <1>0, <1>1, <1>2, IdleFields, ServerStays, ClientAssumption
     DEF CoveredInv, SignedFirst, ReadInOrder, ListIsHistory, ClientAssumption

\* The other steps of a sync.
LEMMA SyncCovered ==
    ASSUME IInv, CoveredInv, NEW s \in Syncs,
           \/ StartSync(s) \/ FinishBatch(s) \/ ReadAccount(s) \/ ReadHistory(s)
           \/ ServerFails(s) \/ LoseAnswer(s)
    PROVE  CoveredInv'
<1> USE DEF IInv, TypeOK
<1>1. /\ UNCHANGED server /\ UNCHANGED <<form, bkvc, unread, restarts, signed>>
      /\ \A q \in Syncs \ {s} : sync'[q] = sync[q]
  BY DEF StartSync, FinishBatch, ReadAccount, ReadHistory, ServerFails, LoseAnswer, memory, world,
     server, Service!FinishBatch, Service!ReadAccount, Service!ReadHistory, Service!GiveUp,
     Service!server
<1>2. ListIsHistory'
  BY <1>1, ViewStays DEF CoveredInv
<1>3. sync'[s].batch \cap Mine \subseteq signed
  <2>1. sync'[s].batch \in {sync[s].batch, {}, {t \in Tams : form[t] = "pending"}}
    <3>1. CASE StartSync(s)
      BY <3>1 DEF StartSync, Idle
    <3>2. CASE LoseAnswer(s)
      BY <3>2 DEF LoseAnswer, Idle
    <3>3. CASE FinishBatch(s) \/ ReadAccount(s) \/ ReadHistory(s)
      BY <3>3 DEF FinishBatch, ReadAccount, ReadHistory, Requests, Service!FinishBatch,
         Service!ReadAccount, Service!ReadHistory
    <3>4. CASE ServerFails(s)
      BY <3>4 DEF ServerFails, Requests, Service!GiveUp
    <3> QED
      BY <3>1, <3>2, <3>3, <3>4
  <2> QED
    BY <2>1 DEF CoveredInv, SignedFirst
<1>4. SignedFirst'
  BY <1>1, <1>3, ServerStays DEF CoveredInv, SignedFirst
<1>5. sync'[s].phase = "answered" /\ sync'[s].status = "202" /\ sync'[s].signedIn
         => sync'[s].bkvc <= sync'[s].history
  <2>1. CASE StartSync(s) \/ LoseAnswer(s) \/ ServerFails(s) \/ ReadAccount(s)
    <3>1. sync'[s].phase # "answered" \/ sync'[s].status \in {"500", "207"}
      <4>1. CASE StartSync(s)
        BY <4>1 DEF StartSync, Idle
      <4>2. CASE LoseAnswer(s)
        BY <4>2 DEF LoseAnswer, Idle
      <4>3. CASE ServerFails(s)
        BY <4>3 DEF ServerFails, Service!GiveUp, Requests
      <4>4. CASE ReadAccount(s)
        BY <4>4 DEF ReadAccount, Service!ReadAccount, Requests
      <4> QED
        BY <2>1, <4>1, <4>2, <4>3, <4>4
    <3> QED
      BY <3>1
  <2>2. CASE FinishBatch(s)
    BY <2>2 DEF FinishBatch, Service!FinishBatch, Requests
  <2>3. CASE ReadHistory(s)
    <3>1. sync'[s].bkvc = sync[s].bkvc /\ sync'[s].history = settlements
      BY <2>3 DEF ReadHistory, Service!ReadHistory, Requests
    <3> QED
      BY <3>1 DEF RequestSound
  <2> QED
    BY <2>1, <2>2, <2>3
<1>6. ReadInOrder'
  BY <1>1, <1>5 DEF CoveredInv, ReadInOrder
<1> QED
  BY <1>2, <1>4, <1>6 DEF CoveredInv

\* A crash of the server takes answers and batches away, and nothing else.
LEMMA CrashCovered ==
    ASSUME IInv, CoveredInv, ServerCrash
    PROVE  CoveredInv'
<1> USE DEF IInv, TypeOK
<1>1. /\ UNCHANGED server /\ UNCHANGED <<form, bkvc, unread, restarts, signed>>
  BY DEF ServerCrash, Service!Crash, Service!server, server, memory, world
<1>2. \A s \in Syncs : sync'[s] = sync[s] \/ (sync'[s].status = "none" /\ sync'[s].batch = {})
  BY DEF ServerCrash, Service!Crash, Requests
<1>3. ListIsHistory'
  BY <1>1, ViewStays DEF CoveredInv
<1>4. SignedFirst'
  BY <1>1, <1>2, ServerStays DEF CoveredInv, SignedFirst
<1>5. ReadInOrder'
  BY <1>2 DEF CoveredInv, ReadInOrder
<1> QED
  BY <1>3, <1>4, <1>5 DEF CoveredInv

LEMMA QuietCovered ==
    ASSUME CoveredInv,
           UNCHANGED <<form, bkvc, unread, sync, signed, restarts, server>>
    PROVE  CoveredInv'
<1>1. ListIsHistory'
  BY ViewStays DEF CoveredInv
<1> QED
  BY <1>1, ServerStays DEF CoveredInv, SignedFirst, ReadInOrder

\* Unless two payments of this user look alike, whatever the certified balance
\* reflects is listed or was lost by the read of the list: for any number of syncs and any order of their answers,
\* until the application is restarted.
THEOREM HistoryCoversBalance ==
    ASSUME NoTwins
    PROVE  Spec => []BalanceCoveredByHistory
<1>1. Init => CoveredInv
  <2> SUFFICES ASSUME Init PROVE CoveredInv
    OBVIOUS
  <2>1. Settled = {} /\ Listed = {} /\ UpTo(0) = {} /\ settlements = 0 /\ bkvc <= 0
    BY DEF Init, Settled, Listed, UpTo, Blank, NoBkvc
  <2>2. ListIsHistory
    BY <2>1 DEF ListIsHistory
  <2>3. SignedFirst /\ ReadInOrder
    BY <2>1, ClientAssumption DEF Init, SignedFirst, ReadInOrder, Blank, Idle, ClientAssumption
  <2> QED
    BY <2>2, <2>3 DEF CoveredInv
<1>2. IInv /\ CoveredInv /\ [Next]_vars => CoveredInv'
  <2> SUFFICES ASSUME IInv, CoveredInv, [Next]_vars PROVE CoveredInv'
    OBVIOUS
  <2>1. CASE FlushWrite \/ CheckInternet \/ Refresh \/ UserAuthenticated \/ Disconnect
             \/ Reconnect \/ UNCHANGED vars
    <3>1. UNCHANGED <<form, bkvc, unread, sync, signed, restarts, server>>
      BY <2>1 DEF FlushWrite, CheckInternet, Refresh, UserAuthenticated, Disconnect,
         Reconnect, vars, memory, world
    <3> QED
      BY <3>1, QuietCovered
  <2>2. CASE Restart \/ ServerCrash
    BY <2>2, RestartCovered, CrashCovered
  <2>3. CASE \E t \in Tams : Pay(t) \/ Scan(t) \/ PeerSubmits(t)
    BY <2>3, PaymentCovered, SettlingCovered
  <2>4. CASE \E t, u \in Tams : ScanTVCOfPending(t, u) \/ ScanTVCOfListed(t, u)
    BY <2>4, ScanOfPendingCovered, ScanOfListedCovered
  <2>5. ASSUME NEW s \in Syncs,
               StartSync(s) \/ FinishBatch(s) \/ ReadAccount(s) \/ ReadHistory(s)
                 \/ ServerFails(s) \/ ApplyAnswer(s) \/ LoseAnswer(s)
                 \/ \E t \in Tams : Submit(s, t)
        PROVE  CoveredInv'
    BY <2>5, SyncCovered, ApplyCovered, SettlingCovered
  <2> QED
    BY <2>1, <2>2, <2>3, <2>4, <2>5 DEF Next
<1>3. IInv /\ CoveredInv => BalanceCoveredByHistory
  <2> SUFFICES ASSUME IInv, CoveredInv, restarts = 0
               PROVE  UpTo(bkvc) \subseteq Listed \cup unread
    BY DEF BalanceCoveredByHistory, Listed
  <2>1. PICK h \in Nat : bkvc <= h /\ Listed = UpTo(h) \ unread
    BY DEF CoveredInv, ListIsHistory
  <2>2. bkvc \in Int /\ settledAt \in [Tams -> Nat]
    BY DEF IInv, TypeOK, NoBkvc
  <2>3. UpTo(bkvc) \subseteq UpTo(h)
    BY <2>1, <2>2 DEF UpTo, Settled
  <2> QED
    BY <2>1, <2>3
<1> QED
  BY <1>1, <1>2, <1>3, Invariance, PTL DEF Spec

-----------------------------------------------------------------------------
(* The balance covers the list *)

\* One sync at a time, nobody else settling, and no restart.
Alone == Peers = {} /\ Restarts = 0 /\ \A s, q \in Syncs : s = q

\* The certificate and the history of an answer are of the same moment.
ReadTogether ==
    \A s \in Syncs :
        /\ sync[s].phase = "certified" => sync[s].bkvc = settlements
        /\ sync[s].phase = "answered" /\ sync[s].status = "202" /\ sync[s].signedIn
              => sync[s].history <= sync[s].bkvc

\* The certificate was stamped when all that is listed had been settled.
ListedIsStamped == \A t \in Tams : form[t] = "settled" => settledAt[t] <= stamp

\* A transaction begins before it commits.
BegunBefore == \A t \in Settled : begunAt[t] < settledAt[t]

AloneInv == ListedIsCertified /\ ListedIsStamped /\ BegunBefore /\ ReadTogether

\* A step that neither settles nor lists anything, and keeps the certificate.
LEMMA CertifiedStaysListed ==
    ASSUME IInv, AloneInv, UNCHANGED server, bkvc' = bkvc, stamp' = stamp,
           \A t \in Tams : form'[t] = "settled" => form[t] = "settled"
    PROVE  ListedIsCertified' /\ ListedIsStamped' /\ BegunBefore'
<1>1. TypeOK /\ bkvc \in Int
  BY DEF IInv, TypeOK, NoBkvc
<1>2. ListedIsCertified'
  BY <1>1, CertifiedStays DEF AloneInv, ListedIsCertified
<1>3. ListedIsStamped'
  BY DEF AloneInv, ListedIsStamped, server
<1>4. BegunBefore'
  BY DEF AloneInv, BegunBefore, Settled, server
<1> QED
  BY <1>2, <1>3, <1>4

\* What the phone does without an answer.
LEMMA PhoneAlone ==
    ASSUME IInv, AloneInv, UNCHANGED server, sync' = sync, bkvc' = bkvc, stamp' = stamp,
           \A t \in Tams : form'[t] = "settled" => form[t] = "settled"
    PROVE  AloneInv'
<1>1. ListedIsCertified' /\ ListedIsStamped' /\ BegunBefore'
  BY CertifiedStaysListed
<1>2. ReadTogether'
  BY DEF AloneInv, ReadTogether, server
<1> QED
  BY <1>1, <1>2 DEF AloneInv

\* A certificate that may be later than the phone's was made after everything
\* on the list.
LEMMA ScanAlone ==
    ASSUME IInv, AloneInv, NEW t \in Tams, NEW u \in Tams, ScanTVCOfListed(t, u)
    PROVE  AloneInv'
<1> USE DEF IInv, TypeOK
<1>1. UNCHANGED server /\ form' = form /\ sync' = sync /\ t \in Settled
  BY DEF ScanTVCOfListed
<1>2. CASE UNCHANGED <<bkvc, stamp>>
  BY <1>1, <1>2, PhoneAlone
<1>3. CASE begunAt[t] >= stamp /\ bkvc' = settledAt[t] /\ stamp' = begunAt[t]
  <2>1. begunAt[t] < settledAt[t]
    BY <1>1 DEF AloneInv, BegunBefore
  <2>2. ASSUME NEW v \in Tams, form'[v] = "settled"
        PROVE  v \in Settled /\ settledAt[v] <= stamp' /\ settledAt[v] <= bkvc'
    <3>1. form[v] = "settled" /\ v \in Settled /\ settledAt[v] <= stamp
      BY <1>1, <2>2 DEF AloneInv, ListedIsStamped, ListedIsCertified, UpTo
    <3>2. /\ settledAt[v] \in Nat /\ settledAt[t] \in Nat
          /\ begunAt[t] \in Nat /\ stamp \in Nat
      OBVIOUS
    <3> QED
      BY <1>3, <2>1, <3>1, <3>2
  <2>3. Settled' = Settled /\ settledAt' = settledAt
    BY <1>1, ServerStays DEF server
  <2>4. ListedIsCertified' /\ ListedIsStamped'
    BY <2>2, <2>3 DEF ListedIsCertified, ListedIsStamped, UpTo
  <2>5. BegunBefore' /\ ReadTogether'
    BY <1>1, <2>3 DEF AloneInv, BegunBefore, ReadTogether, server
  <2> QED
    BY <2>4, <2>5 DEF AloneInv
<1> QED
  BY <1>2, <1>3 DEF ScanTVCOfListed, MayBeLater

LEMMA SyncAlone ==
    ASSUME IInv, AloneInv, NEW s \in Syncs,
           \/ StartSync(s) \/ FinishBatch(s) \/ ReadAccount(s) \/ ReadHistory(s)
           \/ ServerFails(s) \/ LoseAnswer(s)
    PROVE  AloneInv'
<1> USE DEF IInv, TypeOK
<1>1. /\ UNCHANGED server /\ UNCHANGED <<form, bkvc, stamp>>
      /\ \A q \in Syncs \ {s} : sync'[q] = sync[q]
  BY DEF StartSync, FinishBatch, ReadAccount, ReadHistory, ServerFails, LoseAnswer, memory,
     server, Service!FinishBatch, Service!ReadAccount, Service!ReadHistory, Service!GiveUp,
     Service!server
<1>3. ListedIsCertified' /\ ListedIsStamped' /\ BegunBefore'
  BY <1>1, CertifiedStaysListed
<1>4. /\ sync'[s].phase = "certified" => sync'[s].bkvc = settlements
      /\ sync'[s].phase = "answered" /\ sync'[s].status = "202" /\ sync'[s].signedIn
            => sync'[s].history <= sync'[s].bkvc
  <2>1. CASE StartSync(s)
    BY <2>1 DEF StartSync, Idle
  <2>2. CASE LoseAnswer(s)
    BY <2>2 DEF LoseAnswer, Idle
  <2>3. CASE FinishBatch(s)
    BY <2>3 DEF FinishBatch, Service!FinishBatch, Requests
  <2>4. CASE ReadAccount(s)
    BY <2>4 DEF ReadAccount, Service!ReadAccount, Requests
  <2>5. CASE ReadHistory(s)
    <3>1. /\ sync[s].bkvc = settlements /\ sync'[s].phase = "answered"
          /\ sync'[s].bkvc = sync[s].bkvc /\ sync'[s].history = settlements
      BY <2>5 DEF ReadHistory, Service!ReadHistory, Requests, AloneInv, ReadTogether
    <3> QED
      BY <3>1
  <2>6. CASE ServerFails(s)
    BY <2>6 DEF ServerFails, Service!GiveUp, Requests
  <2> QED
    BY <2>1, <2>2, <2>3, <2>4, <2>5, <2>6
<1>5. ReadTogether'
  BY <1>1, <1>4 DEF AloneInv, ReadTogether, server
<1> QED
  BY <1>3, <1>5 DEF AloneInv

LEMMA CrashAlone ==
    ASSUME IInv, AloneInv, ServerCrash
    PROVE  AloneInv'
<1> USE DEF IInv, TypeOK
<1>1. UNCHANGED server /\ UNCHANGED <<form, bkvc, stamp>>
  BY DEF ServerCrash, Service!Crash, Service!server, server, memory
<1>2. \A s \in Syncs : sync'[s] = sync[s]
                        \/ (sync'[s].status = "none" /\ sync'[s].phase = "answered")
  BY DEF ServerCrash, Service!Crash, Requests
<1>3. ListedIsCertified' /\ ListedIsStamped' /\ BegunBefore'
  BY <1>1, CertifiedStaysListed
<1>4. ReadTogether'
  BY <1>1, <1>2 DEF AloneInv, ReadTogether, server
<1> QED
  BY <1>3, <1>4 DEF AloneInv

LEMMA ApplyAlone ==
    ASSUME IInv, AloneInv, NEW s \in Syncs, ApplyAnswer(s)
    PROVE  AloneInv'
<1> USE DEF IInv, TypeOK
<1>1. /\ UNCHANGED server
      /\ sync'[s] = Idle /\ \A q \in Syncs \ {s} : sync'[q] = sync[q]
  <2>1. UNCHANGED server /\ sync' = [sync EXCEPT ![s] = Idle]
    BY DEF ApplyAnswer
  <2>2. sync \in [Syncs -> Requests]
    OBVIOUS
  <2> QED
    BY <2>1, <2>2, Zenon
<1>2. ReadTogether'
  BY <1>1, IdleFields DEF AloneInv, ReadTogether, server
<1>3. CASE ~Accepted(s)
  <2>1. UNCHANGED <<form, bkvc, stamp>>
    BY <1>3 DEF ApplyAnswer
  <2> QED
    BY <1>1, <1>2, <2>1, CertifiedStaysListed DEF AloneInv
<1>4. CASE Accepted(s)
  <2>1. /\ bkvc' = sync[s].bkvc /\ stamp' = sync[s].bkvc
        /\ \A t \in Tams : form'[t] = "settled" => t \in UpTo(sync[s].history)
    BY <1>4 DEF ApplyAnswer, Returned
  <2>2. sync[s].history <= sync[s].bkvc
    BY <1>4 DEF Accepted, ApplyAnswer, AloneInv, ReadTogether
  <2>3. sync[s].history \in Int /\ sync[s].bkvc \in Int
    BY DEF Requests
  <2>4. UpTo(sync[s].history) \subseteq UpTo(sync[s].bkvc)
    BY <2>2, <2>3 DEF UpTo, Settled
  <2>5. ASSUME NEW t \in Tams, form'[t] = "settled"
        PROVE  t \in UpTo(bkvc)' /\ settledAt'[t] <= stamp'
    <3>1. t \in UpTo(sync[s].bkvc)
      BY <2>1, <2>4, <2>5
    <3> QED
      BY <1>1, <2>1, <3>1 DEF UpTo, Settled, server
  <2>6. BegunBefore'
    BY <1>1 DEF AloneInv, BegunBefore, Settled, server
  <2> QED
    BY <1>2, <2>5, <2>6 DEF AloneInv, ListedIsCertified, ListedIsStamped
<1> QED
  BY <1>3, <1>4

\* The only sync is still sending its batch while it settles.
LEMMA SubmitAlone ==
    ASSUME Alone, IInv, AloneInv, NEW s \in Syncs, NEW t \in Tams, Submit(s, t)
    PROVE  AloneInv'
<1> USE DEF IInv, TypeOK
<1>1. UNCHANGED <<form, bkvc, stamp>> /\ sync'[s].phase = "sent"
  <2>1. UNCHANGED memory /\ sync[s].phase = "sent"
    BY SubmitOutcomes
  <2>2. PICK q \in Requests : /\ sync' = [sync EXCEPT ![s] = q]
                              /\ q["phase"] = sync[s]["phase"]
    BY SubmitOutcomes
  <2> QED
    BY <2>1, <2>2 DEF memory
<1>2. ReadTogether'
  BY <1>1 DEF Alone, ReadTogether
<1>3. CASE UNCHANGED server
  BY <1>1, <1>2, <1>3, CertifiedStaysListed DEF AloneInv
<1>4. CASE ~UNCHANGED server
  <2>1. Settles(t)
    BY <1>4, SubmitOutcomes
  <2>2. \A n \in Int : n <= settlements => UpTo(n)' = UpTo(n)
    BY <2>1, SettlementAdds
  <2>3. \A u \in UpTo(bkvc) : u \in Settled /\ u # t /\ settledAt'[u] = settledAt[u]
    BY <2>1 DEF UpTo, Settled, Settles
  <2>4. \A u \in UpTo(bkvc) : u \in UpTo(bkvc)'
    BY <1>1, <2>3 DEF UpTo, Settled
  <2>5. ListedIsCertified'
    BY <1>1, <2>4 DEF AloneInv, ListedIsCertified
  <2>6. ListedIsStamped'
    <3>1. ASSUME NEW v \in Tams, form'[v] = "settled"
          PROVE  settledAt'[v] <= stamp'
      BY <1>1, <2>1, <3>1 DEF AloneInv, ListedIsStamped, ListedIsCertified, UpTo, Settles
    <3> QED
      BY <3>1 DEF ListedIsStamped
  <2>7. BegunBefore'
    <3>1. PICK n \in 0..settlements : begunAt' = [begunAt EXCEPT ![t] = n]
      BY <2>1 DEF Settles
    <3>2. /\ begunAt'[t] <= settlements /\ settledAt'[t] = settlements + 1
          /\ \A v \in Tams \ {t} : begunAt'[v] = begunAt[v] /\ settledAt'[v] = settledAt[v]
      BY <2>1, <3>1 DEF Settles
    <3>3. ASSUME NEW v \in Settled' PROVE begunAt'[v] < settledAt'[v]
      <4>1. v \in Tams /\ (v # t => v \in Settled)
        BY <2>1, <3>3, SettlementAdds DEF Settled
      <4>2. CASE v = t
        <5>1. n = begunAt'[t] /\ n \in Nat
          BY <2>1, <3>1 DEF Settles
        <5> QED
          BY <3>2, <4>2, <5>1
      <4>3. CASE v # t
        BY <3>2, <4>1, <4>3 DEF AloneInv, BegunBefore
      <4> QED
        BY <4>2, <4>3
    <3> QED
      BY <3>3 DEF BegunBefore
  <2> QED
    BY <1>2, <2>5, <2>6, <2>7 DEF AloneInv
<1> QED
  BY <1>3, <1>4

\* With one sync at a time, nobody else settling this user's payments and no
\* restart, the balance reflects every transaction listed.
THEOREM BalanceCoversHistory ==
    ASSUME Alone
    PROVE  Spec => []ListedIsCertified
<1>1. Init => AloneInv
  BY DEF Init, AloneInv, ListedIsCertified, ListedIsStamped, BegunBefore, Settled,
         ReadTogether, Blank, Idle
<1>2. IInv /\ AloneInv /\ [Next]_vars => AloneInv'
  <2> SUFFICES ASSUME IInv, AloneInv, [Next]_vars PROVE AloneInv'
    OBVIOUS
  <2>0. bkvc \in Int /\ restarts = 0 /\ form \in [Tams -> Forms]
    BY DEF IInv, TypeOK, NoBkvc, Alone
  <2>1. CASE FlushWrite \/ CheckInternet \/ Refresh \/ UserAuthenticated \/ Disconnect
             \/ Reconnect \/ UNCHANGED vars
    <3>1. UNCHANGED server /\ UNCHANGED <<form, bkvc, stamp, sync>>
      BY <2>1 DEF FlushWrite, CheckInternet, Refresh, UserAuthenticated, Disconnect,
         Reconnect, vars, memory
    <3> QED
      BY <2>0, <3>1, PhoneAlone
  <2>2. CASE \E t \in Tams : Pay(t) \/ Scan(t)
    <3>1. PICK t \in Tams : /\ SubmitTAM(t) /\ UNCHANGED server
                            /\ UNCHANGED <<bkvc, stamp, sync>>
      BY <2>2 DEF Pay, Scan
    <3>2. \A u \in Tams : form'[u] = "settled" => form[u] = "settled"
      BY <2>0, <3>1 DEF SubmitTAM
    <3> QED
      BY <2>0, <3>1, <3>2, PhoneAlone
  <2>3. CASE \E t, u \in Tams : ScanTVCOfPending(t, u)
    <3>1. PICK u \in Tams : /\ UNCHANGED server /\ UNCHANGED <<bkvc, stamp, sync>>
                            /\ form' = [form EXCEPT ![u] = "half"]
      BY <2>3 DEF ScanTVCOfPending
    <3>2. \A v \in Tams : form'[v] = "settled" => form[v] = "settled"
      BY <2>0, <3>1
    <3> QED
      BY <2>0, <3>1, <3>2, PhoneAlone
  <2>4. CASE \E t, u \in Tams : ScanTVCOfListed(t, u)
    BY <2>4, ScanAlone
  <2>5. ASSUME NEW s \in Syncs,
               StartSync(s) \/ FinishBatch(s) \/ ReadAccount(s) \/ ReadHistory(s)
                 \/ ServerFails(s) \/ ApplyAnswer(s) \/ LoseAnswer(s)
                 \/ \E t \in Tams : Submit(s, t)
        PROVE  AloneInv'
    BY <2>5, SyncAlone, ApplyAlone, SubmitAlone
  <2>6. ~Restart /\ \A t : ~PeerSubmits(t)
    BY <2>0 DEF Alone, Restart, PeerSubmits
  <2> QED
    BY <2>1, <2>2, <2>3, <2>4, <2>5, <2>6, CrashAlone DEF Next
<1>3. AloneInv => ListedIsCertified
  BY DEF AloneInv
<1> QED
  BY <1>1, <1>2, <1>3, Invariance, PTL DEF Spec

=============================================================================
