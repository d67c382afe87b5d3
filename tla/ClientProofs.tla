---------------------------- MODULE ClientProofs ----------------------------
(***************************************************************************)
(* Proofs about Client: for any payments, any number of syncs under way,   *)
(* restarts and outages, and any order of the answers.                     *)
(***************************************************************************)
EXTENDS Client, TLAPS

\* What may be in storage: entries and balances the server knows about.
SoundContents ==
    {c \in Contents : /\ \A t \in Tams : c.transactions[t] = "settled" => t \in Settled
                      /\ c.bkvc <= settlements}
SoundWrites == [key : Keys, of : SoundContents]

Numbered == \A t \in Tams : settledAt[t] <= settlements

FormSound ==
    /\ \A t \in Tams : form[t] = "settled" => t \in Settled
    /\ \A t \in Tams : form[t] = "half" => \E u \in Settled : Look[u] = Look[t]

\* The answer to a sync reflects what the sync carried.
RequestSound(q) ==
    /\ q.phase = "sent" /\ ~q.hasError => q.done \ q.silenced \subseteq Settled
    /\ q.phase \in {"idle", "sent"} => q.status = "none"
    /\ q.phase = "submitted" /\ q.status = "202" => q.batch \ q.silenced \subseteq Settled
    /\ q.phase \in {"certified", "answered"} /\ q.status = "202" /\ q.signedIn =>
          q.batch \ q.silenced \subseteq UpTo(q.bkvc)
    /\ q.bkvc <= settlements /\ q.history <= settlements

\* The invariant without the requests, and the requests.
PhoneInv ==
    /\ bkvc <= settlements
    /\ disk \in SoundContents
    /\ writes \in Seq(SoundWrites)
    /\ FormSound
IInv ==
    /\ TypeOK
    /\ Numbered
    /\ PhoneInv
    /\ \A s \in Syncs : RequestSound(sync[s])

-----------------------------------------------------------------------------
(* Lemmas *)

LEMMA SeqSubset ==
    ASSUME NEW S, NEW T, S \subseteq T, NEW q \in Seq(S)
    PROVE  q \in Seq(T)
  OBVIOUS

\* A save only adds contents that may be in storage.
LEMMA SaveSound ==
    ASSUME writes \in Seq(SoundWrites), NEW c \in SoundContents, Save(c)
    PROVE  writes' \in Seq(SoundWrites) /\ disk' = disk
<1> DEFINE w(k) == [key |-> k, of |-> c]
<1>1. \A k \in Keys : w(k) \in SoundWrites
  BY DEF SoundWrites
<1>2. <<w("transactions"), w("bkvc"), w("session")>> \in Seq(SoundWrites)
  BY <1>1 DEF Keys
<1> QED
  BY <1>2 DEF Save

\* Without a settlement, what the server knows stays as it is.
LEMMA ServerStays ==
    ASSUME UNCHANGED server
    PROVE  /\ Settled' = Settled
           /\ \A n : UpTo(n)' = UpTo(n)
           /\ SoundContents' = SoundContents
           /\ SoundWrites' = SoundWrites
           /\ Numbered' <=> Numbered
           /\ \A q : RequestSound(q)' <=> RequestSound(q)
<1>1. settledAt' = settledAt /\ settlements' = settlements
  BY DEF server
<1>2. Settled' = Settled
  BY <1>1 DEF Settled
<1>3. \A n : UpTo(n)' = UpTo(n)
  BY <1>1, <1>2 DEF UpTo
<1>4. SoundContents' = SoundContents
  BY <1>1, <1>2 DEF SoundContents
<1> QED
  BY <1>1, <1>2, <1>3, <1>4 DEF SoundWrites, Numbered, RequestSound

\* A settlement of TAM t, whoever asks for it.
Settles(t) ==
    /\ t \in Tams \ Settled
    /\ settlements' = settlements + 1
    /\ settledAt' = [settledAt EXCEPT ![t] = settlements']
    /\ \E n \in 0..settlements : begunAt' = [begunAt EXCEPT ![t] = n]

LEMMA SettleSettles ==
    ASSUME NEW t \in Tams, Service!Settle(t)
    PROVE  Settles(t)
<1>1. t \notin Settled
  BY DEF Service!Settle, Settled
<1>2. \E n \in 0..settlements : begunAt' = [begunAt EXCEPT ![t] = n]
  BY DEF Service!Settle
<1> QED
  BY <1>1, <1>2 DEF Settles, Service!Settle

\* A settlement adds one TAM and changes no earlier balance or history.
LEMMA SettlementAdds ==
    ASSUME TypeOK, Numbered, NEW t, Settles(t)
    PROVE  /\ settlements' \in Nat /\ settledAt' \in [Tams -> Nat]
           /\ begunAt' \in [Tams -> Nat]
           /\ Numbered'
           /\ Settled' = Settled \cup {t}
           /\ \A n \in Int : n <= settlements => UpTo(n)' = UpTo(n)
           /\ SoundContents \subseteq SoundContents'
           /\ SoundWrites \subseteq SoundWrites'
           /\ \A q \in Requests : RequestSound(q) => RequestSound(q)'
<1>0. t \in Tams \ Settled /\ begunAt' \in [Tams -> Nat]
  <2>1. PICK n \in 0..settlements : begunAt' = [begunAt EXCEPT ![t] = n]
    BY DEF Settles
  <2>2. n \in Nat
    BY DEF TypeOK
  <2> QED
    BY <2>1, <2>2 DEF TypeOK, Settles
<1>1. /\ settlements \in Nat /\ settlements' = settlements + 1
      /\ settledAt \in [Tams -> Nat] /\ settledAt' \in [Tams -> Nat]
      /\ settledAt'[t] = settlements + 1
      /\ \A u \in Tams \ {t} : settledAt'[u] = settledAt[u]
  BY DEF TypeOK, Settles
<1>2. Settled' = Settled \cup {t}
  BY <1>0, <1>1 DEF Settled
<1>3. \A n \in Int : n <= settlements => UpTo(n)' = UpTo(n)
  <2> SUFFICES ASSUME NEW n \in Int, n <= settlements
               PROVE  {u \in Settled' : settledAt'[u] <= n} = {u \in Settled : settledAt[u] <= n}
    BY DEF UpTo
  <2>1. ~(settledAt'[t] <= n)
    BY <1>1
  <2>2. \A u \in Settled : u # t /\ settledAt'[u] = settledAt[u]
    BY <1>0, <1>1 DEF Settled
  <2> QED
    BY <1>0, <1>2, <2>1, <2>2
<1>4. Numbered'
  BY <1>0, <1>1 DEF Numbered
<1>5. SoundContents \subseteq SoundContents'
  BY <1>0, <1>1, <1>2 DEF SoundContents, Contents, NoBkvc
<1>6. SoundWrites \subseteq SoundWrites'
  BY <1>5 DEF SoundWrites
<1>7. \A q \in Requests : RequestSound(q) => RequestSound(q)'
  <2> SUFFICES ASSUME NEW q \in Requests, RequestSound(q)
               PROVE  RequestSound(q)'
    OBVIOUS
  <2>1. q.bkvc \in Nat /\ q.history \in Nat
    BY DEF Requests
  <2>2. q.bkvc <= settlements /\ q.history <= settlements
    BY DEF RequestSound
  <2>3. UpTo(q.bkvc)' = UpTo(q.bkvc)
    BY <1>3, <2>1, <2>2
  <2> QED
    BY <1>0, <1>1, <1>2, <2>1, <2>2, <2>3 DEF RequestSound
<1> QED
  BY <1>0, <1>1, <1>2, <1>3, <1>4, <1>5, <1>6, <1>7

\* Whatever a step does to the list, a payment in the balance stays in it when
\* the server has not moved and the certificate is no older.
LEMMA CertifiedStays ==
    ASSUME TypeOK, UNCHANGED server, bkvc' \in Int, bkvc <= bkvc'
    PROVE  \A t \in UpTo(bkvc) : (t \in UpTo(bkvc))'
  BY DEF TypeOK, NoBkvc, UpTo, Settled, server

LEMMA ForgetsNothing ==
    ASSUME TypeOK, UNCHANGED server, bkvc' \in Int, bkvc <= bkvc',
           \A t \in Tams : form[t] = "pending" => form'[t] \in {"pending", "half"}
    PROVE  ForgetsWithCause
  BY CertifiedStays DEF ForgetsWithCause, Counted

-----------------------------------------------------------------------------
(* The initial state and the steps *)

LEMMA InitInv == Init => IInv
<1> SUFFICES ASSUME Init PROVE IInv
  OBVIOUS
<1> USE ClientAssumption DEF ClientAssumption
<1>1. Blank \in Contents
  BY DEF Blank, Contents, Forms
<1>2. Idle \in Requests
  BY DEF Idle, Requests, Phases, Statuses
<1>3. TypeOK
  <2>1. /\ form \in [Tams -> Forms] /\ settledAt \in [Tams -> Nat]
        /\ begunAt \in [Tams -> Nat] /\ stamp \in Nat /\ unread \subseteq Tams
        /\ sync \in [Syncs -> Requests]
    BY <1>2 DEF Init, Blank, Forms
  <2>2. disk \in Contents /\ writes \in Seq([key : Keys, of : Contents])
    BY <1>1 DEF Init
  <2>3. /\ bkvc \in Nat \cup {NoBkvc} /\ settlements \in Nat /\ signed \subseteq Mine
        /\ outages \in 0..Outages /\ restarts \in 0..Restarts
    BY DEF Init
  <2>4. session \in BOOLEAN /\ isOnline \in BOOLEAN /\ due \in BOOLEAN /\ network \in BOOLEAN
    BY Zenon DEF Init
  <2> QED
    BY <2>1, <2>2, <2>3, <2>4 DEF TypeOK
<1>4. Numbered
  BY DEF Init, Numbered
<1>5. Blank \in SoundContents
  BY <1>1 DEF SoundContents, Blank, Init, NoBkvc
<1>6. PhoneInv
  BY <1>5 DEF PhoneInv, Init, FormSound, Blank, NoBkvc
<1>7. \A s \in Syncs : RequestSound(sync[s])
  BY DEF Init, Idle, RequestSound
<1> QED
  BY <1>3, <1>4, <1>6, <1>7 DEF IInv

\* Pay and Scan.
LEMMA SubmitTAMKeeps ==
    ASSUME IInv, NEW t \in Tams, SubmitTAM(t), signed' \subseteq Mine,
           UNCHANGED <<bkvc, stamp, session, isOnline, unread, sync, network, outages,
                       restarts, server>>
    PROVE  IInv' /\ ForgetsWithCause
<1> USE DEF IInv
<1>1. /\ UNCHANGED server /\ UNCHANGED <<bkvc, stamp, unread, sync, session>>
  OBVIOUS
<1>2. CASE bkvc = NoBkvc \/ ~Savable(form)
  <2>1. UNCHANGED <<form, due, disk, writes>>
    BY <1>2 DEF SubmitTAM, storage
  <2>2. TypeOK'
    BY <1>1, <2>1 DEF TypeOK, server
  <2>3. PhoneInv'
    BY <1>1, <2>1, ServerStays DEF PhoneInv, FormSound, server
  <2>4. ForgetsWithCause
    BY <1>1, <2>1, ForgetsNothing DEF TypeOK, NoBkvc
  <2> QED
    BY <1>1, <2>2, <2>3, <2>4, ServerStays
<1>3. CASE ~(bkvc = NoBkvc \/ ~Savable(form))
  <2> DEFINE c == [transactions |-> form', bkvc |-> bkvc, stamp |-> stamp,
                   session |-> session]
  <2>1. /\ form' = IF AlreadyExists(t) THEN form ELSE [form EXCEPT ![t] = "pending"]
        /\ Save(c) /\ due' = TRUE
    BY <1>3 DEF SubmitTAM
  <2>2. /\ form' \in [Tams -> Forms]
        /\ \A u \in Tams : form'[u] = form[u] \/ form'[u] = "pending"
    BY <2>1 DEF TypeOK, Forms
  <2>3. c \in Contents
    BY <2>2 DEF TypeOK, Contents
  <2>4. c \in SoundContents
    BY <2>2, <2>3 DEF SoundContents, PhoneInv, FormSound
  <2>5. writes' \in Seq(SoundWrites) /\ disk' = disk
    BY <2>1, <2>4, SaveSound DEF PhoneInv
  <2>6. FormSound'
    BY <1>1, <2>2, ServerStays DEF PhoneInv, FormSound
  <2>7. PhoneInv'
    BY <1>1, <2>5, <2>6, ServerStays DEF PhoneInv, server
  <2>8. SoundWrites \subseteq [key : Keys, of : Contents]
    BY DEF SoundWrites, SoundContents
  <2>9. TypeOK'
    BY <1>1, <2>1, <2>2, <2>5, <2>8, SeqSubset DEF TypeOK, server
  <2>10. ForgetsWithCause
    BY <1>1, <2>2, ForgetsNothing DEF TypeOK, NoBkvc
  <2> QED
    BY <1>1, <2>7, <2>9, <2>10, ServerStays
<1> QED
  BY <1>2, <1>3

LEMMA ScanTVCOfPendingKeeps ==
    ASSUME IInv, NEW t \in Tams, NEW u \in Tams, ScanTVCOfPending(t, u)
    PROVE  IInv' /\ ForgetsWithCause
<1> USE DEF IInv
<1>1. /\ UNCHANGED server /\ UNCHANGED <<bkvc, stamp, session, isOnline, unread, due, sync, disk, writes>>
      /\ UNCHANGED world
      /\ t \in Settled /\ Look[u] = Look[t]
      /\ form' = [form EXCEPT ![u] = "half"]
  BY DEF ScanTVCOfPending, storage
<1>2. /\ form' \in [Tams -> Forms] /\ form'[u] = "half"
      /\ \A v \in Tams \ {u} : form'[v] = form[v]
  BY <1>1 DEF TypeOK, Forms
<1>3. TypeOK'
  BY <1>1, <1>2 DEF TypeOK, server, world
<1>4. FormSound'
  BY <1>1, <1>2, ServerStays DEF PhoneInv, FormSound
<1>5. PhoneInv'
  BY <1>1, <1>4, ServerStays DEF PhoneInv, server
<1>6. ForgetsWithCause
  BY <1>1, <1>2, ForgetsNothing DEF TypeOK, NoBkvc
<1> QED
  BY <1>1, <1>3, <1>5, <1>6, ServerStays

LEMMA ScanTVCOfListedKeeps ==
    ASSUME IInv, NEW t \in Tams, NEW u \in Tams, ScanTVCOfListed(t, u)
    PROVE  IInv' /\ ForgetsWithCause
<1> USE DEF IInv
<1> DEFINE c == [transactions |-> form, bkvc |-> bkvc', stamp |-> stamp', session |-> session]
<1>1. /\ UNCHANGED server /\ UNCHANGED <<form, session, isOnline, unread, due, sync>>
      /\ UNCHANGED world
      /\ t \in Settled
      /\ \/ begunAt[t] >= stamp /\ bkvc' = settledAt[t] /\ stamp' = begunAt[t]
         \/ UNCHANGED <<bkvc, stamp>>
      /\ Save(c)
  BY DEF ScanTVCOfListed, MayBeLater
<1>2. /\ settledAt[t] \in Nat /\ settledAt[t] <= settlements
      /\ begunAt[t] \in Nat /\ stamp \in Nat
  BY DEF TypeOK, Numbered
<1>3. bkvc' \in Nat \cup {NoBkvc} /\ bkvc' <= settlements /\ bkvc' \in Int /\ stamp' \in Nat
  BY <1>1, <1>2 DEF TypeOK, PhoneInv, NoBkvc
<1>4. c \in SoundContents
  BY <1>3 DEF SoundContents, Contents, TypeOK, PhoneInv, FormSound
<1>5. writes' \in Seq(SoundWrites) /\ disk' = disk
  BY <1>1, <1>4, SaveSound DEF PhoneInv
<1>6. PhoneInv'
  BY <1>1, <1>3, <1>5, ServerStays DEF PhoneInv, FormSound, server
<1>7. SoundWrites \subseteq [key : Keys, of : Contents]
  BY DEF SoundWrites, SoundContents
<1>8. TypeOK'
  BY <1>1, <1>3, <1>5, <1>7, SeqSubset DEF TypeOK, server, world
<1>9. ForgetsWithCause
  <2>1. CASE bkvc <= bkvc'
    BY <1>1, <1>3, <2>1, ForgetsNothing DEF TypeOK
  <2>2. CASE ~(bkvc <= bkvc')
    <3>1. bkvc' = settledAt[t] /\ stamp <= begunAt[t] /\ bkvc \in Int
      BY <1>1, <1>2, <2>2 DEF TypeOK, NoBkvc
    <3>2. ASSUME NEW v \in Tams, Counted(v), ~Counted(v)'
          PROVE  settledAt[t] < settledAt[v] /\ settledAt[v] <= bkvc
      <4>1. settledAt[v] \in Nat /\ settledAt'[v] = settledAt[v] /\ form'[v] = form[v]
        BY <1>1 DEF TypeOK, server
      <4>2. v \in Settled /\ settledAt[v] <= bkvc
        BY <3>2, <4>1 DEF Counted, UpTo
      <4>3. v \in Settled'
        BY <4>1, <4>2 DEF Settled
      <4> QED
        BY <1>2, <3>1, <3>2, <4>1, <4>2, <4>3 DEF Counted, UpTo
    <3> QED
      BY <1>1, <3>1, <3>2 DEF ForgetsWithCause, ForgottenByTVC
  <2> QED
    BY <2>1, <2>2
<1> QED
  BY <1>1, <1>6, <1>8, <1>9, ServerStays

\* CheckInternet, Refresh, UserAuthenticated, Disconnect and Reconnect.
LEMMA SurroundingsKeep ==
    ASSUME IInv, TypeOK', UNCHANGED <<form, bkvc, sync, disk, writes, server>>
    PROVE  IInv' /\ ForgetsWithCause
<1> USE DEF IInv
<1>1. UNCHANGED server
  OBVIOUS
<1>2. PhoneInv'
  BY <1>1, ServerStays DEF PhoneInv, FormSound, server
<1>3. ForgetsWithCause
  BY <1>1, ForgetsNothing DEF TypeOK, NoBkvc
<1> QED
  BY <1>1, <1>2, <1>3, ServerStays

\* A step of one sync that leaves the phone and the server alone.
LEMMA SyncStepKeeps ==
    ASSUME IInv, NEW s \in Syncs, NEW q \in Requests, RequestSound(q),
           sync' = [sync EXCEPT ![s] = q], due' \in BOOLEAN,
           UNCHANGED <<memory, storage, world, server>>
    PROVE  IInv' /\ ForgetsWithCause
<1> USE DEF IInv
<1>1. UNCHANGED server /\ UNCHANGED <<form, bkvc, stamp, session, isOnline, unread, disk, writes>>
      /\ UNCHANGED world
  BY DEF memory, storage
<1>2. /\ sync' \in [Syncs -> Requests] /\ sync'[s] = q
      /\ \A r \in Syncs \ {s} : sync'[r] = sync[r]
  BY DEF TypeOK
<1>3. TypeOK'
  BY <1>1, <1>2 DEF TypeOK, server, world
<1>4. PhoneInv'
  BY <1>1, ServerStays DEF PhoneInv, FormSound, server
<1>5. \A r \in Syncs : RequestSound(sync'[r])
  BY <1>2
<1>6. \A r \in Syncs : RequestSound(sync[r])'
  BY <1>1, <1>5, ServerStays
<1>7. ForgetsWithCause
  BY <1>1, ForgetsNothing DEF TypeOK, NoBkvc
<1> QED
  BY <1>1, <1>3, <1>4, <1>6, <1>7, ServerStays

LEMMA IdleSound == TypeOK => Idle \in Requests /\ RequestSound(Idle)
  BY DEF TypeOK, Idle, Requests, Phases, Statuses, RequestSound

LEMMA StartSyncKeeps ==
    ASSUME IInv, NEW s \in Syncs, StartSync(s)
    PROVE  IInv' /\ ForgetsWithCause
<1> DEFINE batch == {t \in Tams : form[t] = "pending"}
           q == [Idle EXCEPT !.phase = "sent", !.batch = batch, !.signedIn = session]
<1>1. q \in Requests
  BY DEF IInv, TypeOK, Idle, Requests, Phases, Statuses
<1>2. q.done = {} /\ q.phase = "sent" /\ q.status = "none" /\ q.bkvc = 0 /\ q.history = 0
  BY DEF Idle
<1>3. RequestSound(q)
  BY <1>2 DEF IInv, TypeOK, RequestSound
<1> QED
  BY <1>1, <1>3, SyncStepKeeps DEF StartSync

LEMMA FinishBatchKeeps ==
    ASSUME IInv, NEW s \in Syncs, FinishBatch(s)
    PROVE  IInv' /\ ForgetsWithCause
<1> DEFINE q == [sync[s] EXCEPT
                   !.phase = IF sync[s].signedIn THEN "submitted" ELSE "answered",
                   !.status = IF sync[s].hasError THEN "207" ELSE "202"]
<1>1. sync[s] \in Requests /\ RequestSound(sync[s])
  BY DEF IInv, TypeOK
<1>2. sync[s].phase = "sent" /\ sync[s].batch \subseteq sync[s].done
  BY DEF FinishBatch, Service!FinishBatch
<1>3. q \in Requests
  BY <1>1 DEF Requests, Phases, Statuses
<1>4. ~sync[s].hasError => sync[s].batch \ sync[s].silenced \subseteq Settled
  BY <1>1, <1>2 DEF RequestSound
<1>5. RequestSound(q)
  BY <1>1, <1>4 DEF RequestSound, Requests
<1>6. sync' = [sync EXCEPT ![s] = q] /\ UNCHANGED <<memory, due, storage, world, server>>
  BY DEF FinishBatch, Service!FinishBatch, Service!server, server, IInv, TypeOK
<1> QED
  BY <1>3, <1>5, <1>6, SyncStepKeeps DEF IInv, TypeOK

LEMMA ReadAccountKeeps ==
    ASSUME IInv, NEW s \in Syncs, ReadAccount(s)
    PROVE  IInv' /\ ForgetsWithCause
<1> DEFINE q == [sync[s] EXCEPT !.phase = "certified", !.bkvc = settlements]
<1>1. sync[s] \in Requests /\ RequestSound(sync[s]) /\ settlements \in Nat
  BY DEF IInv, TypeOK
<1>2. sync[s].phase = "submitted"
  BY DEF ReadAccount, Service!ReadAccount
<1>3. q \in Requests
  BY <1>1 DEF Requests, Phases
<1>4. UpTo(settlements) = Settled
  BY DEF UpTo, Settled, IInv, Numbered
<1>5. RequestSound(q)
  BY <1>1, <1>2, <1>4 DEF RequestSound, Requests
<1>6. sync' = [sync EXCEPT ![s] = q] /\ UNCHANGED <<memory, due, storage, world, server>>
  BY DEF ReadAccount, Service!ReadAccount, Service!server, server, IInv, TypeOK
<1> QED
  BY <1>3, <1>5, <1>6, SyncStepKeeps DEF IInv, TypeOK

LEMMA ReadHistoryKeeps ==
    ASSUME IInv, NEW s \in Syncs, ReadHistory(s)
    PROVE  IInv' /\ ForgetsWithCause
<1>1. PICK lost \in SUBSET (Cut \cap Settled) : Service!ReadHistory(s, lost)
  BY DEF ReadHistory
<1> DEFINE q == [sync[s] EXCEPT !.phase = "answered", !.history = settlements, !.unread = lost]
<1>2. sync[s] \in Requests /\ RequestSound(sync[s]) /\ settlements \in Nat
  BY DEF IInv, TypeOK
<1>3. lost \subseteq Tams
  BY DEF Settled
<1>4. q \in Requests
  BY <1>2, <1>3 DEF Requests, Phases
<1>5. RequestSound(q)
  BY <1>1, <1>2 DEF RequestSound, Requests, Service!ReadHistory
<1>6. sync' = [sync EXCEPT ![s] = q] /\ UNCHANGED <<memory, due, storage, world, server>>
  BY <1>1 DEF ReadHistory, Service!ReadHistory, Service!server, server, IInv, TypeOK
<1> QED
  BY <1>4, <1>5, <1>6, SyncStepKeeps DEF IInv, TypeOK

\* An answer that is not a 202 says nothing.
LEMMA ServerFailsKeeps ==
    ASSUME IInv, NEW s \in Syncs, ServerFails(s)
    PROVE  IInv' /\ ForgetsWithCause
<1>1. sync[s] \in Requests /\ RequestSound(sync[s]) /\ settlements \in Nat
  BY DEF IInv, TypeOK
<1>2. UNCHANGED <<memory, due, storage, world, server>>
  BY DEF ServerFails, Service!GiveUp, Service!server, server
<1>3. CASE sync' = [sync EXCEPT ![s].phase = "answered", ![s].status = "500"]
  <2> DEFINE q == [sync[s] EXCEPT !.phase = "answered", !.status = "500"]
  <2>1. q \in Requests /\ RequestSound(q)
    BY <1>1 DEF Requests, Phases, Statuses, RequestSound
  <2>2. sync' = [sync EXCEPT ![s] = q]
    BY <1>3 DEF IInv, TypeOK
  <2> QED
    BY <1>2, <2>1, <2>2, SyncStepKeeps DEF IInv, TypeOK
<1>4. CASE sync' = [sync EXCEPT ![s].phase = "answered", ![s].status = "207",
                                ![s].bkvc = 0, ![s].history = 0, ![s].unread = {}]
  <2> DEFINE q == [sync[s] EXCEPT !.phase = "answered", !.status = "207",
                                  !.bkvc = 0, !.history = 0, !.unread = {}]
  <2>1. q \in Requests /\ RequestSound(q)
    <3>1. q \in Requests
      BY <1>1, Zenon DEF Requests, Phases, Statuses
    <3>2. q.phase = "answered" /\ q.status = "207" /\ q.bkvc = 0 /\ q.history = 0
      BY <1>1 DEF Requests
    <3> HIDE DEF q
    <3> QED
      BY <1>1, <3>1, <3>2 DEF RequestSound
  <2>2. sync' = [sync EXCEPT ![s] = q]
    BY <1>4 DEF IInv, TypeOK
  <2> QED
    BY <1>2, <2>1, <2>2, SyncStepKeeps DEF IInv, TypeOK
<1> QED
  BY <1>3, <1>4 DEF ServerFails, Service!GiveUp

LEMMA ServerCrashKeeps ==
    ASSUME IInv, ServerCrash
    PROVE  IInv' /\ ForgetsWithCause
<1> USE DEF IInv
<1>1. UNCHANGED server /\ UNCHANGED <<form, bkvc, stamp, session, isOnline, unread, disk, writes>>
      /\ UNCHANGED <<due, world>>
  BY DEF ServerCrash, Service!Crash, Service!server, server, memory, storage
<1>2. ASSUME NEW s \in Syncs
      PROVE  /\ sync'[s] \in Requests /\ RequestSound(sync'[s])
  <2>1. sync[s] \in Requests /\ RequestSound(sync[s]) /\ settlements \in Nat
    BY DEF TypeOK
  <2>2. \/ sync'[s] = sync[s]
        \/ sync'[s] = [sync[s] EXCEPT !.phase = "answered", !.status = "none",
                                      !.batch = {}, !.done = {}, !.silenced = {},
                                      !.hasError = FALSE, !.bkvc = 0, !.history = 0, !.unread = {}]
    BY DEF ServerCrash, Service!Crash
  <2>3. CASE sync'[s] # sync[s]
    <3> DEFINE q == [sync[s] EXCEPT !.phase = "answered", !.status = "none",
                                    !.batch = {}, !.done = {}, !.silenced = {},
                                    !.hasError = FALSE, !.bkvc = 0, !.history = 0, !.unread = {}]
    <3>1. q \in Requests
      <4>1. 0 \in Nat /\ FALSE \in BOOLEAN
        OBVIOUS
      <4> QED
        BY <2>1, <4>1, Zenon DEF Requests, Phases, Statuses
    <3>2. q.phase = "answered" /\ q.status = "none" /\ q.bkvc = 0 /\ q.history = 0
      BY <2>1 DEF Requests
    <3>3. RequestSound(q)
      <4> HIDE DEF q
      <4> QED
        BY <2>1, <3>2 DEF RequestSound
    <3> QED
      BY <2>2, <2>3, <3>1, <3>3
  <2> QED
    BY <2>1, <2>3
<1>3. sync' \in [Syncs -> Requests]
  BY <1>2 DEF ServerCrash, Service!Crash
<1>4. TypeOK'
  BY <1>1, <1>3 DEF TypeOK, server, world
<1>5. PhoneInv'
  BY <1>1, ServerStays DEF PhoneInv, FormSound, server
<1>6. \A s \in Syncs : RequestSound(sync[s])'
  BY <1>1, <1>2, ServerStays
<1>7. ForgetsWithCause
  BY <1>1, ForgetsNothing DEF TypeOK, NoBkvc
<1> QED
  BY <1>1, <1>4, <1>5, <1>6, <1>7, ServerStays

LEMMA LoseAnswerKeeps ==
    ASSUME IInv, NEW s \in Syncs, LoseAnswer(s)
    PROVE  IInv' /\ ForgetsWithCause
  BY IdleSound, SyncStepKeeps DEF IInv, TypeOK, LoseAnswer

\* A settlement, whoever asked for it, while at most one sync moves on.
LEMMA SettlementKeeps ==
    ASSUME IInv, NEW t, Settles(t),
           UNCHANGED <<memory, due, storage, world>>,
           sync' \in [Syncs -> Requests],
           \A s \in Syncs : RequestSound(sync[s])'
    PROVE  IInv' /\ ForgetsWithCause
<1> USE DEF IInv
<1>1. /\ UNCHANGED <<form, bkvc, stamp, session, isOnline, unread, due, disk, writes>>
      /\ UNCHANGED <<signed, network, outages, restarts>>
  BY DEF memory, storage, world
<1>2. /\ settlements' \in Nat /\ settledAt' \in [Tams -> Nat] /\ begunAt' \in [Tams -> Nat]
      /\ Numbered'
      /\ Settled' = Settled \cup {t}
      /\ SoundContents \subseteq SoundContents'
      /\ SoundWrites \subseteq SoundWrites'
  BY SettlementAdds
<1>3. bkvc \in Int /\ bkvc <= settlements /\ bkvc' <= settlements'
  BY <1>1 DEF TypeOK, NoBkvc, PhoneInv, Settles
<1>4. \A n \in Int : n <= settlements => UpTo(n)' = UpTo(n)
  BY SettlementAdds
<1>5. TypeOK'
  BY <1>1, <1>2 DEF TypeOK
<1>6. writes' \in Seq(SoundWrites')
  BY <1>1, <1>2, SeqSubset DEF PhoneInv
<1>7. PhoneInv'
  BY <1>1, <1>2, <1>3, <1>6 DEF PhoneInv, FormSound
<1>8. (UpTo(bkvc))' = UpTo(bkvc)
  BY <1>1, <1>3, <1>4 DEF UpTo
<1>9. ForgetsWithCause
  BY <1>1, <1>8 DEF ForgetsWithCause, Counted
<1> QED
  BY <1>2, <1>5, <1>7, <1>9

\* What the server may do with a TAM of the batch: settle it or not, and say so
\* or not.
LEMMA SubmitOutcomes ==
    ASSUME IInv, NEW s \in Syncs, NEW t \in Tams, Submit(s, t)
    PROVE  /\ sync[s].phase = "sent" /\ t \in sync[s].batch
           /\ UNCHANGED <<memory, due, storage, world>>
           /\ UNCHANGED server \/ Settles(t)
           /\ \E q \in Requests :
                 /\ sync' = [sync EXCEPT ![s] = q]
                 /\ \A field \in {"phase", "batch", "signedIn", "status", "bkvc", "history", "unread"} :
                       q[field] = sync[s][field]
                 /\ q.done = sync[s].done \cup {t}
                 /\ sync[s].silenced \subseteq q.silenced
                 /\ sync[s].hasError => q.hasError
                 /\ q.hasError \/ t \in q.silenced \/ t \in Settled'
<1> USE DEF IInv, TypeOK
<1>1. sync[s] \in Requests /\ settledAt[t] \in Nat /\ settlements \in Nat
  OBVIOUS
<1>2. t \in Settled <=> settledAt[t] # 0
  BY <1>1 DEF Settled
<1>3. CASE Service!Succeed(s, t)
  <2> DEFINE q == [sync[s] EXCEPT !.done = @ \cup {t}]
  <2>1. q \in Requests /\ sync' = [sync EXCEPT ![s] = q]
    BY <1>1, <1>3 DEF Service!Succeed, Requests
  <2>2. (UNCHANGED server /\ t \in Settled) \/ Settles(t)
    BY <1>2, <1>3, SettleSettles DEF Service!Succeed, Service!server, server
  <2>3. t \in Settled'
    BY <1>1, <2>2 DEF Settled, Settles, server
  <2> QED
    BY <1>1, <1>3, <2>1, <2>2, <2>3 DEF Submit, Service!Succeed, Requests
<1>4. CASE Service!Fail(s, t)
  <2> DEFINE q == [sync[s] EXCEPT !.done = @ \cup {t}, !.hasError = TRUE]
  <2>1. q \in Requests /\ sync' = [sync EXCEPT ![s] = q]
    BY <1>1, <1>4 DEF Service!Fail, Requests
  <2>2. UNCHANGED server \/ Settles(t)
    BY <1>4, SettleSettles DEF Service!Fail, Service!server, server
  <2> QED
    BY <1>1, <1>4, <2>1, <2>2 DEF Submit, Service!Fail, Requests
<1>5. CASE Service!FailSilently(s, t)
  <2> DEFINE q == [sync[s] EXCEPT !.done = @ \cup {t}, !.silenced = @ \cup {t}]
  <2>1. q \in Requests /\ sync' = [sync EXCEPT ![s] = q]
    BY <1>1, <1>5 DEF Service!FailSilently, Requests
  <2>2. UNCHANGED server
    BY <1>5 DEF Service!FailSilently, Service!server, server
  <2> QED
    BY <1>1, <1>5, <2>1, <2>2 DEF Submit, Service!FailSilently, Requests
<1> QED
  BY <1>3, <1>4, <1>5 DEF Submit

LEMMA SubmitKeeps ==
    ASSUME IInv, NEW s \in Syncs, NEW t \in Tams, Submit(s, t)
    PROVE  IInv' /\ ForgetsWithCause
<1>1. sync[s] \in Requests /\ RequestSound(sync[s])
  BY DEF IInv, TypeOK
<1>2. sync[s].phase = "sent" /\ UNCHANGED <<memory, due, storage, world>>
  BY SubmitOutcomes
<1>3. PICK q \in Requests :
        /\ sync' = [sync EXCEPT ![s] = q]
        /\ \A field \in {"phase", "batch", "signedIn", "status", "bkvc", "history", "unread"} :
              q[field] = sync[s][field]
        /\ q.done = sync[s].done \cup {t}
        /\ sync[s].silenced \subseteq q.silenced
        /\ sync[s].hasError => q.hasError
        /\ q.hasError \/ t \in q.silenced \/ t \in Settled'
  BY SubmitOutcomes
<1>4. /\ q.phase = "sent" /\ q.status = "none" /\ q.batch = sync[s].batch
      /\ q.bkvc = sync[s].bkvc /\ q.history = sync[s].history
  BY <1>1, <1>2, <1>3 DEF RequestSound
<1>5. ASSUME Settled \subseteq Settled', ~q.hasError
      PROVE  q.done \ q.silenced \subseteq Settled'
  BY <1>1, <1>2, <1>3, <1>5 DEF RequestSound
<1>6. CASE UNCHANGED server
  <2>1. q.bkvc <= settlements /\ q.history <= settlements
    BY <1>1, <1>4 DEF RequestSound
  <2>2. RequestSound(q)
    BY <1>4, <1>5, <1>6, <2>1, ServerStays DEF RequestSound
  <2> QED
    BY <1>2, <1>3, <1>6, <2>2, SyncStepKeeps DEF IInv, TypeOK
<1>7. CASE ~UNCHANGED server
  <2>1. Settles(t)
    BY <1>7, SubmitOutcomes
  <2>2. /\ sync' \in [Syncs -> Requests] /\ sync'[s] = q
        /\ \A r \in Syncs \ {s} : sync'[r] = sync[r]
    BY <1>3 DEF IInv, TypeOK
  <2>3. Settled' = Settled \cup {t} /\ settlements \in Nat /\ settlements' = settlements + 1
    BY <2>1, SettlementAdds DEF IInv, TypeOK, Settles
  <2>4. q.bkvc \in Nat /\ q.history \in Nat /\ q.bkvc <= settlements /\ q.history <= settlements
    BY <1>1, <1>4 DEF RequestSound, Requests
  <2>5. RequestSound(q)'
    BY <1>4, <1>5, <2>1, <2>3, <2>4 DEF RequestSound
  <2>6. \A p \in Requests : RequestSound(p) => RequestSound(p)'
    BY <2>1, SettlementAdds DEF IInv
  <2>7. ASSUME NEW r \in Syncs PROVE RequestSound(sync[r])'
    <3>1. CASE r = s
      <4>1. sync[r]' = q
        BY <2>2, <3>1
      <4> QED
        BY <2>5, <4>1 DEF RequestSound, UpTo
    <3>2. CASE r # s
      <4>1. PICK p \in Requests : p = sync[r]
        BY DEF IInv, TypeOK
      <4>2. RequestSound(p)'
        BY <2>6, <4>1 DEF IInv
      <4>3. sync[r]' = p
        BY <2>2, <3>2, <4>1
      <4> QED
        BY <4>2, <4>3 DEF RequestSound, UpTo
    <3> QED
      BY <3>1, <3>2
  <2> QED
    BY <1>2, <2>1, <2>2, <2>7, SettlementKeeps
<1> QED
  BY <1>6, <1>7

LEMMA PeerSubmitsKeeps ==
    ASSUME IInv, NEW t \in Tams, PeerSubmits(t)
    PROVE  IInv' /\ ForgetsWithCause
<1>1. Settles(t) /\ sync' = sync /\ UNCHANGED <<memory, due, storage, world>>
  BY SettleSettles DEF PeerSubmits, Service!SettleElsewhere, IInv
<1>2. sync' \in [Syncs -> Requests]
  BY <1>1 DEF IInv, TypeOK
<1>3. \A p \in Requests : RequestSound(p) => RequestSound(p)'
  BY <1>1, SettlementAdds DEF IInv
<1>4. ASSUME NEW r \in Syncs PROVE RequestSound(sync[r])'
  <2>1. PICK p \in Requests : p = sync[r]
    BY DEF IInv, TypeOK
  <2>2. RequestSound(p)' /\ sync[r]' = p
    BY <1>1, <1>3, <2>1 DEF IInv
  <2> QED
    BY <2>2 DEF RequestSound, UpTo
<1> QED
  BY <1>1, <1>2, <1>4, SettlementKeeps

\* An answer that is accepted replaces the list and the balance by what the
\* server knew after it had submitted the batch.
LEMMA ApplyAnswerKeeps ==
    ASSUME IInv, NEW s \in Syncs, ApplyAnswer(s)
    PROVE  IInv' /\ ForgetsWithCause
<1> USE DEF IInv
<1>1. sync[s] \in Requests /\ RequestSound(sync[s]) /\ sync[s].phase = "answered"
  BY DEF TypeOK, ApplyAnswer
<1>2. sync' = [sync EXCEPT ![s] = Idle] /\ UNCHANGED <<session, isOnline, due, world, server>>
  BY DEF ApplyAnswer
<1>3. CASE ~Accepted(s)
  <2>1. UNCHANGED <<memory, storage>>
    BY <1>2, <1>3 DEF ApplyAnswer, memory
  <2> QED
    BY <1>2, <2>1, IdleSound, SyncStepKeeps DEF TypeOK
<1>4. CASE Accepted(s)
  <2> DEFINE c == [transactions |-> form', bkvc |-> bkvc', stamp |-> stamp',
                   session |-> session]
  <2>1. /\ bkvc' = sync[s].bkvc /\ stamp' = sync[s].bkvc /\ unread' = sync[s].unread
        /\ form' = [t \in Tams |-> IF t \in Returned(s) THEN "settled" ELSE "absent"]
        /\ Save(c)
    BY <1>4 DEF ApplyAnswer
  <2>2. form' \in [Tams -> Forms]
    BY <2>1 DEF Forms
  <2>3. bkvc' \in Nat /\ bkvc' <= settlements /\ stamp' \in Nat /\ unread' \subseteq Tams
    BY <1>1, <2>1 DEF Requests, RequestSound
  <2>4. \A t \in Tams : form'[t] # "half" /\ (form'[t] = "settled" => t \in Settled)
    BY <2>1 DEF UpTo, Returned
  <2>5. c \in SoundContents
    BY <2>2, <2>3, <2>4 DEF SoundContents, Contents, TypeOK
  <2>6. writes' \in Seq(SoundWrites) /\ disk' = disk
    BY <2>1, <2>5, SaveSound DEF PhoneInv
  <2>7. FormSound'
    BY <1>2, <2>4, ServerStays DEF FormSound
  <2>8. PhoneInv'
    BY <1>2, <2>3, <2>6, <2>7, ServerStays DEF PhoneInv, server
  <2>9. SoundWrites \subseteq [key : Keys, of : Contents]
    BY DEF SoundWrites, SoundContents
  <2>10. writes' \in Seq([key : Keys, of : Contents])
    BY <2>6, <2>9, SeqSubset
  <2>11. sync' \in [Syncs -> Requests]
    BY <1>2, IdleSound DEF TypeOK
  <2>12. TypeOK'
    BY <1>2, <2>2, <2>3, <2>6, <2>10, <2>11 DEF TypeOK, server, world
  <2>13. ASSUME NEW r \in Syncs PROVE RequestSound(sync[r])'
    <3>1. PICK p \in Requests : p = sync'[r]
      BY <2>11
    <3>2. RequestSound(p)
      BY <1>2, <3>1, IdleSound DEF TypeOK
    <3>3. RequestSound(p)'
      BY <1>2, <3>2, ServerStays
    <3> QED
      BY <3>1, <3>3 DEF RequestSound, UpTo
  <2>14. ForgetsWithCause
    <3> SUFFICES ASSUME NEW t \in Tams, ~Counted(t)'
                 PROVE  ForgottenByAnswer(t)
      BY DEF ForgetsWithCause
    <3>1. sync[s].batch \ sync[s].silenced \subseteq UpTo(sync[s].bkvc)
      BY <1>1, <1>4 DEF RequestSound, Accepted
    <3>2. UpTo(sync[s].bkvc) = (UpTo(bkvc))'
      BY <1>2, <2>1 DEF UpTo, Settled, server
    <3>3. t \notin sync[s].batch \/ t \in sync[s].silenced
      BY <3>1, <3>2 DEF Counted
    <3>4. sync'[s].phase = "idle"
      BY <1>2 DEF TypeOK, Idle
    <3> QED
      BY <1>1, <3>3, <3>4 DEF ForgottenByAnswer
  <2> QED
    BY <1>2, <2>8, <2>12, <2>13, <2>14, ServerStays
<1> QED
  BY <1>3, <1>4

LEMMA FlushWriteKeeps ==
    ASSUME IInv, FlushWrite
    PROVE  IInv' /\ ForgetsWithCause
<1> USE DEF IInv
<1>1. /\ writes # <<>> /\ writes' = Tail(writes)
      /\ UNCHANGED <<form, bkvc, stamp, session, isOnline, unread, due, sync, server>> /\ UNCHANGED world
  BY DEF FlushWrite, memory
<1>2. UNCHANGED server
  BY <1>1
<1>3. writes' \in Seq(SoundWrites) /\ Head(writes) \in SoundWrites
  BY <1>1 DEF PhoneInv
<1>4. PICK w \in SoundWrites : w = Head(writes)
  BY <1>3
<1>5. w.key \in Keys /\ w.of \in SoundContents
  BY DEF SoundWrites
<1>6. disk' \in {[disk EXCEPT !.transactions = w.of.transactions],
                 [disk EXCEPT !.bkvc = w.of.bkvc, !.stamp = w.of.stamp],
                 [disk EXCEPT !.session = w.of.session]}
  BY <1>4, <1>5 DEF FlushWrite, Keys
<1>7. disk' \in SoundContents
  BY <1>5, <1>6 DEF PhoneInv, SoundContents, Contents
<1>8. PhoneInv'
  BY <1>1, <1>2, <1>3, <1>7, ServerStays DEF PhoneInv, FormSound, server
<1>9. SoundWrites \subseteq [key : Keys, of : Contents] /\ SoundContents \subseteq Contents
  BY DEF SoundWrites, SoundContents
<1>10. writes' \in Seq([key : Keys, of : Contents])
  BY <1>3, <1>9, SeqSubset
<1>11. TypeOK'
  BY <1>1, <1>7, <1>9, <1>10 DEF TypeOK, server, world
<1>12. ForgetsWithCause
  BY <1>1, <1>2, ForgetsNothing DEF TypeOK, NoBkvc
<1> QED
  BY <1>1, <1>2, <1>8, <1>11, <1>12, ServerStays

LEMMA RestartKeeps ==
    ASSUME IInv, Restart
    PROVE  IInv' /\ ForgetsWithCause
<1> USE DEF IInv
<1>1. /\ restarts' = restarts + 1 /\ restarts < Restarts /\ writes' = <<>>
      /\ sync' = [s \in Syncs |-> Idle]
      /\ unread' = {} /\ UNCHANGED <<disk, signed, network, outages, server>>
  BY DEF Restart
<1>2. /\ form' \in {disk.transactions, Blank.transactions} /\ bkvc' \in {disk.bkvc, NoBkvc}
      /\ stamp' \in {disk.stamp, 0} /\ session' \in {disk.session, FALSE}
  BY DEF Restart
<1>3. isOnline' \in BOOLEAN /\ due' \in BOOLEAN
  BY Zenon DEF Restart
<1>4. /\ disk.transactions \in [Tams -> Forms] /\ disk.bkvc \in Nat \cup {NoBkvc}
      /\ disk.stamp \in Nat /\ disk.session \in BOOLEAN /\ disk.bkvc <= settlements
      /\ \A t \in Tams : disk.transactions[t] = "settled" => t \in Settled
  BY DEF PhoneInv, SoundContents, Contents
<1>5. /\ form' \in [Tams -> Forms]
      /\ \A t \in Tams : form'[t] # "half" /\ (form'[t] = "settled" => t \in Settled)
  <2>1. CASE Readable
    <3>1. form' = disk.transactions /\ \A t \in Tams : disk.transactions[t] # "half"
      BY <2>1 DEF Restart, Readable
    <3> QED
      BY <1>4, <3>1
  <2>2. CASE ~Readable
    BY <2>2 DEF Restart, Blank, Forms
  <2> QED
    BY <2>1, <2>2
<1>6. /\ bkvc' \in Nat \cup {NoBkvc} /\ bkvc' <= settlements /\ settlements \in Nat
      /\ stamp' \in Nat
  BY <1>2, <1>4 DEF TypeOK, NoBkvc
<1>7. session' \in BOOLEAN
  BY <1>2, <1>4
<1>8. restarts' \in 0..Restarts
  BY <1>1, ClientAssumption DEF TypeOK, ClientAssumption
<1>9. sync' \in [Syncs -> Requests]
  BY <1>1, IdleSound
<1>10. TypeOK'
  BY <1>1, <1>3, <1>5, <1>6, <1>7, <1>8, <1>9 DEF TypeOK, server
<1>11. FormSound'
  BY <1>1, <1>5, ServerStays DEF FormSound
<1>12. writes' \in Seq(SoundWrites)
  BY <1>1
<1>13. PhoneInv'
  BY <1>1, <1>6, <1>11, <1>12, ServerStays DEF PhoneInv, server
<1>14. ASSUME NEW s \in Syncs PROVE RequestSound(sync[s])'
  <2>1. sync'[s] = Idle
    BY <1>1
  <2>2. RequestSound(Idle)'
    BY <1>1, IdleSound, ServerStays
  <2> QED
    BY <2>1, <2>2 DEF RequestSound, UpTo
<1>15. ForgetsWithCause
  BY <1>1 DEF ForgetsWithCause, TypeOK
<1> QED
  BY <1>1, <1>10, <1>13, <1>14, <1>15, ServerStays

-----------------------------------------------------------------------------
(* The theorems *)

\* Every step keeps the inductive invariant and forgets a payment only with a
\* cause.
THEOREM StepKeeps == IInv /\ [Next]_vars => IInv' /\ [ForgetsWithCause]_vars
<1> SUFFICES ASSUME IInv, [Next]_vars PROVE IInv' /\ [ForgetsWithCause]_vars
  OBVIOUS
<1>1. ASSUME NEW t \in Tams, Pay(t) PROVE IInv' /\ ForgetsWithCause
  <2>1. signed' \subseteq Mine
    BY <1>1 DEF Pay, IInv, TypeOK
  <2> QED
    BY <1>1, <2>1, SubmitTAMKeeps DEF Pay
<1>2. ASSUME NEW t \in Tams, Scan(t) PROVE IInv' /\ ForgetsWithCause
  <2>1. signed' \subseteq Mine /\ UNCHANGED <<network, outages, restarts>>
    BY <1>2 DEF Scan, IInv, TypeOK, world
  <2> QED
    BY <1>2, <2>1, SubmitTAMKeeps DEF Scan
<1>3. CASE CheckInternet \/ Refresh \/ UserAuthenticated \/ Disconnect \/ Reconnect
  <2>1. UNCHANGED <<form, bkvc, stamp, unread, sync, disk, writes, server>> /\ restarts' = restarts
    BY <1>3 DEF CheckInternet, Refresh, UserAuthenticated, Disconnect, Reconnect,
                memory, storage, world
  <2>2. signed' = signed /\ outages' \in 0..Outages
    BY <1>3, ClientAssumption DEF CheckInternet, Refresh, UserAuthenticated, Disconnect,
       Reconnect, world, IInv, TypeOK, ClientAssumption
  <2>3. session' \in BOOLEAN /\ isOnline' \in BOOLEAN /\ due' \in BOOLEAN /\ network' \in BOOLEAN
    <3>1. session \in BOOLEAN /\ isOnline \in BOOLEAN /\ due \in BOOLEAN /\ network \in BOOLEAN
      BY DEF IInv, TypeOK
    <3> QED
      BY <1>3, <3>1, Zenon DEF CheckInternet, Refresh, UserAuthenticated, Disconnect,
         Reconnect, memory, world
  <2>4. TypeOK'
    BY <2>1, <2>2, <2>3 DEF IInv, TypeOK, server
  <2> QED
    BY <2>1, <2>4, SurroundingsKeep
<1>4. CASE UNCHANGED vars
  <2>1. UNCHANGED <<memory, due, sync, storage, world, server>>
    BY <1>4 DEF vars
  <2>2. TypeOK'
    BY <2>1 DEF IInv, TypeOK, memory, storage, world, server
  <2> QED
    BY <1>4, <2>1, <2>2, SurroundingsKeep DEF memory, storage
<1>5. ASSUME NEW s \in Syncs,
             StartSync(s) \/ FinishBatch(s) \/ ReadAccount(s) \/ ReadHistory(s)
               \/ ServerFails(s) \/ ApplyAnswer(s) \/ LoseAnswer(s)
               \/ \E t \in Tams : Submit(s, t)
      PROVE  IInv' /\ ForgetsWithCause
  BY <1>5, StartSyncKeeps, FinishBatchKeeps, ReadAccountKeeps, ReadHistoryKeeps,
     ServerFailsKeeps, ApplyAnswerKeeps, LoseAnswerKeeps, SubmitKeeps
<1>6. ASSUME NEW t \in Tams, NEW u \in Tams,
             ScanTVCOfPending(t, u) \/ ScanTVCOfListed(t, u)
      PROVE  IInv' /\ ForgetsWithCause
  BY <1>6, ScanTVCOfPendingKeeps, ScanTVCOfListedKeeps
<1> QED
  BY <1>1, <1>2, <1>3, <1>4, <1>5, <1>6, PeerSubmitsKeeps, FlushWriteKeeps,
     ServerCrashKeeps, RestartKeeps DEF Next

\* The inductive invariant, for DataBloc and the sync handler together.
THEOREM Invariance == Spec => []IInv
  BY InitInv, StepKeeps, PTL DEF Spec

\* Type correctness of DataBloc's state and of secure storage.
THEOREM TypeCorrect == Spec => []TypeOK
  BY Invariance, PTL DEF IInv

\* What the phone shows as settled, before or after any restart, the server
\* has settled: for any number of overlapping syncs and reordered answers.
THEOREM SettledIsShownTruthfully == Spec => []ShownIsSettled
<1>1. IInv => ShownIsSettled
  BY DEF IInv, PhoneInv, FormSound, SoundContents, ShownIsSettled
<1> QED
  BY <1>1, Invariance, PTL

\* A sync that carried a payment never takes it off the balance: only an
\* answer that did not carry it, a silent failure, a twin, a restart, or the TVC
\* of a transaction that committed before the certificate it replaces does.
THEOREM ForgetsOnlyUncarried == Spec => OnlyStaleAnswersForget
  BY Invariance, StepKeeps, PTL DEF Spec, OnlyStaleAnswersForget

-----------------------------------------------------------------------------
(* The phone as a client of SyncService *)

Posts == [s \in Syncs |-> Served(sync[s])]

\* A slot that is free has nothing of an earlier post in it.
FreeSlots == \A s \in Syncs : sync[s].phase = "idle" => sync[s] = Idle

\* A step of one post.
PostBecomes(s, post) == sync' = [sync EXCEPT ![s] = post]

LEMMA PostMoves ==
    ASSUME TypeOK, FreeSlots, NEW s \in Syncs, NEW post, PostBecomes(s, post)
    PROVE  /\ Posts' = [Posts EXCEPT ![s] = Served(post)]
           /\ post.phase # "idle" \/ post = Idle => FreeSlots'
<1>1. sync \in [Syncs -> Requests]
  BY DEF TypeOK
<1>2. \A p \in Syncs : sync'[p] = IF p = s THEN post ELSE sync[p]
  BY <1>1 DEF PostBecomes
<1>3. Posts' = [Posts EXCEPT ![s] = Served(post)]
  BY <1>2 DEF Posts
<1> QED
  BY <1>2, <1>3 DEF FreeSlots

\* Served forgets one field and keeps the others.
LEMMA ServedKeeps ==
    ASSUME NEW post \in Requests
    PROVE  /\ Served(post).phase = post.phase /\ Served(post).batch = post.batch
           /\ Served(post).done = post.done /\ Served(post).hasError = post.hasError
  BY DEF Served, Requests

LEMMA IdleServed == Served(Idle) = AsServed!Unvisited
<1>1. Idle \in Requests
  BY DEF Idle, Requests, Phases, Statuses
<1>2. PICK post, visit : post = Idle /\ visit = Served(post)
  OBVIOUS
<1>3. visit = AsServed!Unvisited
  BY <1>1, <1>2 DEF Idle, Served, AsServed!Unvisited, Requests
<1> QED
  BY <1>2, <1>3

LEMMA StartSyncServed ==
    ASSUME TypeOK, FreeSlots, NEW s \in Syncs, StartSync(s)
    PROVE  AsServed!Next /\ FreeSlots'
<1>1. PICK batch \in SUBSET Tams :
         PostBecomes(s, [Idle EXCEPT !.phase = "sent", !.batch = batch, !.signedIn = session])
  BY DEF StartSync, PostBecomes
<1>2. PICK post : post = [Idle EXCEPT !.phase = "sent", !.batch = batch, !.signedIn = session]
  OBVIOUS
<1>3. sync[s] = Idle
  BY DEF StartSync, FreeSlots
<1>4. Served(post) = [Served(Idle) EXCEPT !.phase = "sent", !.batch = batch]
  BY <1>2 DEF Served, Idle
<1>5. post.phase = "sent"
  BY <1>2 DEF Idle
<1>6. Posts' = [Posts EXCEPT ![s] = Served(post)] /\ FreeSlots'
  BY <1>1, <1>2, <1>5, PostMoves
<1>7. Posts[s].phase = "idle" /\ Posts[s] = Served(Idle)
  BY <1>3 DEF Posts, Served, Idle
<1>8. AsServed!Arrive(s, batch)
  BY <1>4, <1>6, <1>7 DEF AsServed!Arrive, AsServed!server, StartSync, server, Posts
<1> QED
  BY <1>6, <1>8 DEF AsServed!Next

LEMMA SubmitServed ==
    ASSUME TypeOK, FreeSlots, NEW s \in Syncs, NEW t \in Tams, Submit(s, t)
    PROVE  AsServed!Next /\ FreeSlots'
<1>1. sync[s] \in Requests
  BY DEF TypeOK
<1>2. PICK post : post = Served(sync[s])
  OBVIOUS
<1>3. post.phase = sync[s].phase /\ post.batch = sync[s].batch
  BY <1>1, <1>2, ServedKeeps
<1>4. CASE Service!Succeed(s, t)
  <2>1. PICK q : q = [sync[s] EXCEPT !.done = @ \cup {t}]
    OBVIOUS
  <2>2. PostBecomes(s, q) /\ q.phase = "sent"
    BY <1>1, <1>4, <2>1 DEF Service!Succeed, PostBecomes, TypeOK, Requests
  <2>3. Served(q) = [post EXCEPT !.done = @ \cup {t}]
    BY <1>1, <1>2, <2>1 DEF Served, Requests
  <2>4. Posts' = [Posts EXCEPT ![s] = Served(q)] /\ Posts[s] = post /\ FreeSlots'
    BY <1>2, <2>2, PostMoves DEF Posts
  <2>5. AsServed!Succeed(s, t)
    BY <1>3, <1>4, <2>3, <2>4 DEF Posts, AsServed!Succeed, Service!Succeed, AsServed!Settle,
       Service!Settle, AsServed!server, Service!server
  <2> QED
    BY <2>4, <2>5 DEF AsServed!Next
<1>5. CASE Service!Fail(s, t)
  <2>1. PICK q : q = [sync[s] EXCEPT !.done = @ \cup {t}, !.hasError = TRUE]
    OBVIOUS
  <2>2. PostBecomes(s, q) /\ q.phase = "sent"
    BY <1>1, <1>5, <2>1 DEF Service!Fail, PostBecomes, TypeOK, Requests
  <2>3. Served(q) = [post EXCEPT !.done = @ \cup {t}, !.hasError = TRUE]
    BY <1>1, <1>2, <2>1 DEF Served, Requests
  <2>4. Posts' = [Posts EXCEPT ![s].done = @ \cup {t}, ![s].hasError = TRUE] /\ FreeSlots'
    BY <1>2, <2>2, <2>3, PostMoves DEF Posts
  <2>5. AsServed!Fail(s, t)
    BY <1>2, <1>3, <1>5, <2>4 DEF Posts, AsServed!Fail, Service!Fail, AsServed!Settle,
       Service!Settle, AsServed!server, Service!server
  <2> QED
    BY <2>4, <2>5 DEF AsServed!Next
<1>6. CASE Service!FailSilently(s, t)
  <2>1. PICK q : q = [sync[s] EXCEPT !.done = @ \cup {t}, !.silenced = @ \cup {t}]
    OBVIOUS
  <2>2. PostBecomes(s, q) /\ q.phase = "sent"
    BY <1>1, <1>6, <2>1 DEF Service!FailSilently, PostBecomes, TypeOK, Requests
  <2>3. Served(q) = [post EXCEPT !.done = @ \cup {t}, !.silenced = @ \cup {t}]
    BY <1>1, <1>2, <2>1 DEF Served, Requests
  <2>4. Posts' = [Posts EXCEPT ![s].done = @ \cup {t}, ![s].silenced = @ \cup {t}] /\ FreeSlots'
    BY <1>2, <2>2, <2>3, PostMoves DEF Posts
  <2>5. AsServed!FailSilently(s, t)
    BY <1>2, <1>3, <1>6, <2>4 DEF Posts, AsServed!FailSilently, Service!FailSilently,
       AsServed!server, Service!server
  <2> QED
    BY <2>4, <2>5 DEF AsServed!Next
<1> QED
  BY <1>4, <1>5, <1>6 DEF Submit

LEMMA FinishBatchServed ==
    ASSUME TypeOK, FreeSlots, NEW s \in Syncs, FinishBatch(s)
    PROVE  AsServed!Next /\ FreeSlots'
<1>1. sync[s] \in Requests
  BY DEF TypeOK
<1>2. PICK next \in {"submitted", "answered"} : Service!FinishBatch(s, next)
  BY DEF FinishBatch
<1>3. PICK post, status : /\ post = Served(sync[s])
                          /\ status = IF sync[s].hasError THEN "207" ELSE "202"
  OBVIOUS
<1>4. /\ post.phase = sync[s].phase /\ post.batch = sync[s].batch /\ post.done = sync[s].done
      /\ post.hasError = sync[s].hasError
  BY <1>1, <1>3, ServedKeeps
<1>5. PICK q : q = [sync[s] EXCEPT !.phase = next, !.status = status]
  OBVIOUS
<1>6. PostBecomes(s, q) /\ q.phase # "idle"
  BY <1>1, <1>2, <1>3, <1>5 DEF Service!FinishBatch, PostBecomes, TypeOK, Requests
<1>7. Served(q) = [post EXCEPT !.phase = next, !.status = status]
  BY <1>1, <1>3, <1>5 DEF Served, Requests
<1>8. Posts' = [Posts EXCEPT ![s].phase = next, ![s].status = status] /\ FreeSlots'
  BY <1>3, <1>6, <1>7, PostMoves DEF Posts
<1>9. AsServed!FinishBatch(s, next)
  BY <1>2, <1>3, <1>4, <1>8 DEF Posts, AsServed!FinishBatch, Service!FinishBatch,
     AsServed!server, Service!server
<1> QED
  BY <1>8, <1>9 DEF AsServed!Next

LEMMA ReadingServed ==
    ASSUME TypeOK, FreeSlots, NEW s \in Syncs, ReadAccount(s) \/ ReadHistory(s)
    PROVE  AsServed!Next /\ FreeSlots'
<1>1. sync[s] \in Requests
  BY DEF TypeOK
<1>2. PICK post : post = Served(sync[s])
  OBVIOUS
<1>3. post.phase = sync[s].phase
  BY <1>1, <1>2, ServedKeeps
<1>4. CASE ReadAccount(s)
  <2>1. PICK q : q = [sync[s] EXCEPT !.phase = "certified", !.bkvc = settlements]
    OBVIOUS
  <2>2. PostBecomes(s, q) /\ q.phase # "idle"
    BY <1>1, <1>4, <2>1 DEF ReadAccount, Service!ReadAccount, PostBecomes, TypeOK, Requests
  <2>3. Served(q) = [post EXCEPT !.phase = "certified", !.bkvc = settlements]
    BY <1>1, <1>2, <2>1 DEF Served, Requests
  <2>4. Posts' = [Posts EXCEPT ![s].phase = "certified", ![s].bkvc = settlements] /\ FreeSlots'
    BY <1>2, <2>2, <2>3, PostMoves DEF Posts
  <2>5. AsServed!ReadAccount(s)
    BY <1>2, <1>3, <1>4, <2>4 DEF Posts, ReadAccount, AsServed!ReadAccount, Service!ReadAccount,
       AsServed!server, Service!server
  <2> QED
    BY <2>4, <2>5 DEF AsServed!Next
<1>5. CASE ReadHistory(s)
  <2>0. PICK lost \in SUBSET (Cut \cap Settled) : Service!ReadHistory(s, lost)
    BY <1>5 DEF ReadHistory
  <2>1. PICK q : q = [sync[s] EXCEPT !.phase = "answered", !.history = settlements,
                                     !.unread = lost]
    OBVIOUS
  <2>2. PostBecomes(s, q) /\ q.phase # "idle"
    BY <1>1, <2>0, <2>1 DEF Service!ReadHistory, PostBecomes, TypeOK, Requests
  <2>3. Served(q) = [post EXCEPT !.phase = "answered", !.history = settlements, !.unread = lost]
    BY <1>1, <1>2, <2>1 DEF Served, Requests
  <2>4. /\ Posts' = [Posts EXCEPT ![s].phase = "answered", ![s].history = settlements,
                                  ![s].unread = lost]
        /\ FreeSlots'
    BY <1>2, <2>2, <2>3, PostMoves DEF Posts
  <2>5. AsServed!ReadHistory(s, lost) /\ lost \in SUBSET Tams
    BY <1>2, <1>3, <2>0, <2>4 DEF Posts, AsServed!ReadHistory, Service!ReadHistory, Settled,
       AsServed!Committed, Service!Committed, AsServed!server, Service!server
  <2> QED
    BY <2>4, <2>5 DEF AsServed!Next
<1> QED
  BY <1>4, <1>5

LEMMA ServerFailsServed ==
    ASSUME TypeOK, FreeSlots, NEW s \in Syncs, ServerFails(s)
    PROVE  AsServed!Next /\ FreeSlots'
<1>1. sync[s] \in Requests /\ Service!GiveUp(s)
  BY DEF TypeOK, ServerFails
<1>2. PICK post : post = Served(sync[s])
  OBVIOUS
<1>3. post.phase = sync[s].phase
  BY <1>1, <1>2, ServedKeeps
<1>4. CASE sync[s].phase = "sent"
  <2>1. PICK q : q = [sync[s] EXCEPT !.phase = "answered", !.status = "500"]
    OBVIOUS
  <2>2. PostBecomes(s, q) /\ q.phase # "idle"
    BY <1>1, <1>4, <2>1 DEF Service!GiveUp, PostBecomes, TypeOK, Requests
  <2>3. Served(q) = [post EXCEPT !.phase = "answered", !.status = "500"]
    BY <1>1, <1>2, <2>1 DEF Served, Requests
  <2>4. Posts' = [Posts EXCEPT ![s].phase = "answered", ![s].status = "500"] /\ FreeSlots'
    BY <1>2, <2>2, <2>3, PostMoves DEF Posts
  <2>5. AsServed!GiveUp(s)
    BY <1>1, <1>2, <1>3, <1>4, <2>4 DEF Posts, AsServed!GiveUp, Service!GiveUp,
       AsServed!server, Service!server
  <2> QED
    BY <2>4, <2>5 DEF AsServed!Next
<1>5. CASE sync[s].phase \in {"submitted", "certified"}
  <2>1. PICK q : q = [sync[s] EXCEPT !.phase = "answered", !.status = "207",
                                     !.bkvc = 0, !.history = 0, !.unread = {}]
    OBVIOUS
  <2>2. PostBecomes(s, q) /\ q.phase # "idle"
    BY <1>1, <1>5, <2>1 DEF Service!GiveUp, PostBecomes, TypeOK, Requests
  <2>3. Served(q) = [post EXCEPT !.phase = "answered", !.status = "207", !.bkvc = 0, !.history = 0, !.unread = {}]
    BY <1>1, <1>2, <2>1 DEF Served, Requests
  <2>4. /\ Posts' = [Posts EXCEPT ![s].phase = "answered", ![s].status = "207",
                                  ![s].bkvc = 0, ![s].history = 0, ![s].unread = {}]
        /\ FreeSlots'
    BY <1>2, <2>2, <2>3, PostMoves DEF Posts
  <2>5. AsServed!GiveUp(s)
    BY <1>1, <1>2, <1>3, <1>5, <2>4 DEF Posts, AsServed!GiveUp, Service!GiveUp,
       AsServed!server, Service!server
  <2> QED
    BY <2>4, <2>5 DEF AsServed!Next
<1> QED
  BY <1>1, <1>4, <1>5 DEF Service!GiveUp

LEMMA ServerCrashServed ==
    ASSUME TypeOK, FreeSlots, ServerCrash
    PROVE  AsServed!Next /\ FreeSlots'
<1>1. sync \in [Syncs -> Requests] /\ Service!Crash
  BY DEF TypeOK, ServerCrash
<1> DEFINE Lost(post) == [post EXCEPT !.phase = "answered", !.status = "none",
                                      !.batch = {}, !.done = {}, !.silenced = {},
                                      !.hasError = FALSE, !.bkvc = 0, !.history = 0, !.unread = {}]
<1>2. \A s \in Syncs : sync'[s] = IF sync[s].phase \in {"idle", "answered"} THEN sync[s]
                                  ELSE Lost(sync[s])
  BY <1>1 DEF Service!Crash
<1>3. ASSUME NEW s \in Syncs
      PROVE  /\ Served(Lost(sync[s])) = Lost(Served(sync[s]))
             /\ Lost(sync[s]).phase = "answered"
             /\ Served(sync[s]).phase = sync[s].phase
  BY <1>1 DEF Served, Requests
<1> HIDE DEF Lost
<1>4. FreeSlots'
  BY <1>2, <1>3 DEF FreeSlots
<1>5. Posts' = [s \in Syncs |-> IF Posts[s].phase \in {"idle", "answered"} THEN Posts[s]
                                ELSE Lost(Posts[s])]
  BY <1>2, <1>3 DEF Posts
<1>6. AsServed!Crash
  BY <1>1, <1>5 DEF Lost, Posts, AsServed!Crash, Service!Crash, AsServed!server, Service!server
<1> QED
  BY <1>4, <1>6 DEF AsServed!Next

LEMMA LeavingServed ==
    ASSUME TypeOK, FreeSlots, UNCHANGED server, NEW S \in SUBSET Syncs,
           sync' = [s \in Syncs |-> IF s \in S THEN Idle ELSE sync[s]]
    PROVE  AsServed!Next /\ FreeSlots'
<1>1. \A s \in Syncs : sync'[s] = IF s \in S THEN Idle ELSE sync[s]
  OBVIOUS
<1>2. FreeSlots'
  BY <1>1 DEF FreeSlots
<1>3. Posts' = [s \in Syncs |-> IF s \in S THEN AsServed!Unvisited ELSE Posts[s]]
  BY <1>1, IdleServed DEF Posts
<1>4. AsServed!Leave(S)
  BY <1>3 DEF Posts, AsServed!Leave, AsServed!server, server
<1> QED
  BY <1>2, <1>4 DEF AsServed!Next

LEMMA StepServed ==
    ASSUME TypeOK, FreeSlots, [Next]_vars
    PROVE  [AsServed!Next]_(AsServed!vars) /\ FreeSlots'
<1>1. CASE UNCHANGED <<sync, server>>
  BY <1>1 DEF FreeSlots, AsServed!vars, AsServed!server, server
<1>2. ASSUME NEW t \in Tams, PeerSubmits(t)
      PROVE  AsServed!Next /\ FreeSlots'
  <2>1. AsServed!SettleElsewhere(t) /\ sync' = sync
    BY <1>2 DEF PeerSubmits, AsServed!SettleElsewhere, Service!SettleElsewhere,
       AsServed!Settle, Service!Settle
  <2> QED
    BY <2>1 DEF FreeSlots, AsServed!Next
<1>3. ASSUME NEW s \in Syncs, ApplyAnswer(s) \/ LoseAnswer(s)
      PROVE  AsServed!Next /\ FreeSlots'
  <2>1. UNCHANGED server /\ sync' = [sync EXCEPT ![s] = Idle]
    BY <1>3 DEF ApplyAnswer, LoseAnswer
  <2>2. sync' = [p \in Syncs |-> IF p \in {s} THEN Idle ELSE sync[p]]
    BY <2>1 DEF TypeOK
  <2> QED
    BY <2>1, <2>2, LeavingServed
<1>4. CASE Restart
  <2>1. UNCHANGED server /\ sync' = [s \in Syncs |-> IF s \in Syncs THEN Idle ELSE sync[s]]
    BY <1>4 DEF Restart, server
  <2> QED
    BY <2>1, LeavingServed
<1>5. CASE \/ \E t \in Tams : Pay(t) \/ Scan(t)
           \/ \E t, u \in Tams : ScanTVCOfPending(t, u) \/ ScanTVCOfListed(t, u)
           \/ FlushWrite \/ CheckInternet \/ Refresh \/ UserAuthenticated
           \/ Disconnect \/ Reconnect \/ UNCHANGED vars
  <2>1. UNCHANGED <<sync, server>>
    BY <1>5 DEF Pay, Scan, ScanTVCOfPending, ScanTVCOfListed, FlushWrite, CheckInternet, Refresh,
       UserAuthenticated, Disconnect, Reconnect, vars
  <2> QED
    BY <1>1, <2>1
<1> QED
  BY <1>2, <1>3, <1>4, <1>5, StartSyncServed, SubmitServed, FinishBatchServed, ReadingServed,
     ServerFailsServed, ServerCrashServed DEF Next

\* However the answers of overlapping posts are applied late, given up or
\* forgotten by restarts, the phone with its server is SyncService: with
\* ImplementsService, nothing is assumed of the server that the handler of
\* POST /v1/sync does not do.
THEOREM UsesService == Spec => ServedSpec
<1>1. Init => AsServed!Init /\ FreeSlots
  BY IdleServed DEF Init, AsServed!Init, FreeSlots
<1>2. TypeOK /\ FreeSlots /\ [Next]_vars => [AsServed!Next]_(AsServed!vars) /\ FreeSlots'
  BY StepServed
<1> QED
  BY <1>1, <1>2, TypeCorrect, PTL DEF Spec, ServedSpec, AsServed!Spec

=============================================================================
