# A verification of AaryaPay

AaryaPay lets two phones exchange money without a network. The payer's phone
signs a *Transaction Authorization Message* (TAM) over a balance certificate the
server once issued (the *Balance and Key Verification Certificate*, BKVC) and
shows it as a QR code; the payee's phone scans it. Whoever of the two is online
first submits it, and the server then settles it and stores two *Transaction
Verification Certificates* (TVC), one for each party, with it. Correctness
therefore lives in four places: the server that settles the same cheque for
several submitters at once, the keys the cheques are signed with and the
credentials that give access to them, the phone's copy of the ledger, which has
to keep track of what it paid, what is settled and what is certified, through
outages, restarts and answers that overtake each other, and the hand-over from
phone to phone, where an amount is keyed in, signed, shown and scanned.

This directory has TLA+ models of those four places and of the favorites, TLC runs over small
instances and TLAPS proofs for all instances. All paths below are relative to
the repository's root.

## 1. Inventory of the system

### Server (Go: Gin, pgx pool, PostgreSQL, Redis)

| Part | State | Operations | Correct when |
|---|---|---|---|
| Settlement, `api/endpoints/sync/sync.go`, `get.go` | `Accounts.balance`, `Transactions` | `POST /v1/sync` (a batch of TAMs, then the caller's account and history), `GET /v1/transactions` | a TAM is settled once and all at once; balances are what the settled TAMs add up to; the answer says what happened; certified balances were really the balances |
| Login, `auth/login.go`, `auth/2fa.go` (confirm) | Redis `session_*`, `two_fa_temp_*` | `POST /auth/login`, `POST /auth/twofa/login/confirm` | every login is answered; a session follows only the right factors; the key certified is stored |
| Signing keys, `core/keys.go` | `Keys`: one active and one inactive row per user | `GetUserKeyPair`, `GenerateKeyPair` (inside a login) | keys move from active to retired and never back; a user is not left without a key, or with one nobody holds |
| Account credentials, `core/tokens.go`, `auth/verify.go`, `password_recovery.go`, `password_change.go`, `2fa.go`, `resend_verification.go`, `logout.go`, `core/extractor.go` | Redis codes and sessions; `Users.password`, `is_verified`, `two_factor_auth` | verify, resend, recover, reset, change password, enable and disable 2FA, log out | a code works once and only for its user; no update is lost |
| Registration, `auth/register.go` | `Users`, `Accounts` | `POST /auth/register` | a user has an account, an email has one user |
| Favorites, `favorites/*.go` | `Favorites` | add, remove, list | a favorite is listed once; what was reported holds |
| Profile, `profile/*.go` | display columns of `Users` | get, update | |
| Message formats, `payloads/*.go` | none | parse, sign and verify BKVC, TAM, TVC | a signature survives the bytes and the precision they lose; a TAM is never taken for a TVC |
| Set-up, health, server key, mail, telemetry, population | configuration | | |

### Phone (Flutter, `flutter_bloc`; messages in the Dart library `libaaryapay`)

| Part | State | Operations | Correct when |
|---|---|---|---|
| `DataBloc`, `frontend/lib/global/bloc/`, `global/caching/` | the BKVC, the transactions, favorites, profile, session and connectivity; the same in secure storage | load, submit a TAM or a TVC, sync, check connectivity, user authenticated, timers | nothing shown as settled is not; a payment is counted once in the balance; a payment recorded is submitted in the end |
| Payment screens, `screens/Send/`, `screens/QrScan/` | the amount being typed; the send under way; scanner flags | keypad, sign a TAM, scan a code | the amount signed is the one shown and is available; the scanner can be used again |
| Favorites, `screens/Settings/Favourites/`, `repository/favourites.dart` | the list and whether it is loaded | add, remove, load | the list is the table |
| Login state, `repository/auth.dart`, `global/authentication/` | the session token in storage | log in, log out | |
| Other screens and components | | layout | |

### How they interact

The phone calls the server with HTTP; `DataBloc` posts every unsubmitted TAM and
*replaces* its list and certificate by the answer's. Phones exchange TAMs and TVCs
as QR codes, with nobody else involved. On the server the handlers are
goroutines that share a connection pool and meet in PostgreSQL rows (READ
COMMITTED) and Redis keys; settlement reads the key rows that a login rotates.
On the phone the handlers of a bloc run concurrently, but switch only at an
`await`; storage is written by futures nobody awaits.

### What is hard about it

* *Interleavings*: the same TAM in several syncs, payments in opposite
  directions, key rotation by several logins and under a settlement, several
  syncs of one phone.
* *Partial failure and crashes*: a transaction per TAM inside a loop with ten
  error paths, a commit that is not confirmed, a rotation in two commits, storage
  writes that end with the process.
* *State read before an `await`*: the send checks its guard, then reads storage and
  signs, and the amount, the balance and the key may be others by then.
* *Order*: the account is read before the history; the answers of overlapping
  syncs arrive in any order; a payment is recorded while one is under way.
* *Retries and outages*: a lost answer means the TAM is sent again; an outage
  ends a post without a retry.
* *Limits*: the pool, one row per `(user, active)`, age limits, and seconds as
  the unit of time.

`PROJECT.json` lists each of these at the line where it bites, and the properties
that watch it.

## 2. Modules

| Module | What it is |
|---|---|
| `Payments` | users, TAMs and what a transfer does; shared vocabulary |
| `Settlement` | abstract: a TAM is settled at most once, in one step |
| `SyncService` | abstract: what `POST /v1/sync` is to the phone of one user |
| `Ledger` | `SyncController.Sync`, statement by statement |
| `LedgerService` | `Ledger` as one user's phone sees it: the mapping to `SyncService` |
| `KeyRegistry` | abstract: a user's keys go from unused to active to retired |
| `Login` | login, second factor and key generation, statement by statement |
| `Credentials` | registration, mailed codes, password, second factor and session of one email, statement by statement |
| `Client` | `DataBloc` with its storage and its network, and `SyncService` as the server |
| `Favorites` | the handlers of `/v1/favorites`, statement by statement, and `FavouritesBloc` |
| `Amounts` | the phone's doubles: sums, products, quotients by zero, rounding, `float32` |
| `Keypad` | the keys of the Send screen as functions from pad to pad |
| `Messages` | BKVC, TAM and TVC: what the bytes keep, what is signed and verified |
| `Handover` | a payment from phone to phone: `SendMoneyBloc`, its `DataBloc` and storage, `QrScannerBloc` |
| `MCLedger`, `MCLogin`, `MCCredentials`, `MCClient`, `MCFavorites`, `MCHandover` | instances for TLC |
| `LedgerProofs`, `LedgerReplayProofs`, `LoginProofs`, `CredentialsProofs`, `ClientProofs`, `ClientBalanceProofs`, `FavoritesProofs`, `HandoverProofs` | theorems |

`Ledger` implements `Settlement` and `SyncService`, `Login` implements `KeyRegistry`, and
`Client` is a client of `SyncService`; all four are checked by TLC as properties and proved. `Client` does not repeat the server's
statements. Its server is `SyncService`, whose actions it calls: payments are settled one
at a time and numbered, a balance or a history is the *number* of settlements it
reflects, a visit works through its batch and reads the account before the history,
the history of a 202 may lack rows, every certificate has the number of settlements at
the moment it is stamped with, others may settle a payment at any moment, and a visit may be given up or lost in
a crash. `LedgerService` says how `Ledger` is such a server. Choose a user's TAMs (`Watched`) and
the requests of that user's phone (`Own`): then `settlements`
is the number of `Watched` rows, a certificate or a history of the whole ledger counts for the
`Watched` rows it covers, and the commits of all other requests are `SettleElsewhere` or stutters. So
what is proved of `Client` rests on the handler's statements by two theorems
and not on a description of the server: `ImplementsService` says that the handler, with its
other users, is `SyncService`, and `UsesService` that the server half of `Client` is. Both
are about `SyncService` with its visits in any order, lost, broken off or forgotten. The two
halves meet with these differences. A request of `Ledger` is one visit and a slot of
`Client` is used again, so that a slot stands for a sequence of requests. `Client` bounds what it takes from `SyncService` (`Refused`, `Silent`, `Cut`, `Faulty`, `Peers`); it carries no
TAMs between two others, holds a visit up
while its own network is down, and its batches carry no TAM twice, as `DataBloc` builds them. `Handover` composes `Keypad` and `Messages` and takes
from `Client` what a sync does to certificate and list, in one step (`Refresh`).

### Ledger and the code

One request is one value of `pc`: `idle`, `next` (the head of the `for`), the
statements of the database transaction (`lookup` ... `commit`), then `account`,
`history`, `done`. `todo` is the rest of the batch, `replies` is `responses`,
`hasError` is itself, and `answer` the HTTP answer. The database is `balance`,
`ledger` (committed `Transactions` rows in commit order) and `keyed` (users with
an active key); `draft`, `stamp` and `certs` are the versions an open
transaction has written, its `NOW()` and the two balances it certified. `free`
counts idle pool connections.

`Reject`, `Begin`, `BeginPanics` are lines 85-194 (the rollback on the nil `tx`
after a failed `Begin` panics and the recovery middleware answers 500);
`AlreadySubmitted`/`NotSubmitted` the `SELECT` on the signature; `Insert`/
`InsertViolates` the `INSERT` under `UNIQUE (signature)` and `CHECK (sender_id <>
receiver_id)`; `Debit` and `Credit` the two `UPDATE`s, which need the row lock;
`CertifySender`, `CertifyReceiver`, `Attach`, `Commit` the rest. `StatementFails`
is any of the error paths; it reports `silent` where the code does not set
`hasError` (lines 316-341 and 455-470). `ServerCrash`, `CommitUnconfirmed`, key
rotation by logins and ageing of TAMs are actions of their own. PostgreSQL is
modelled as far as the code relies on it: row locks, statement snapshots of
committed rows plus one's own, the wait on a unique index, the deadlock
detector. `ReadHistoryCut` is the read of the history that breaks off: `get.go:59-85`
never asks for `transactionHistory.Err()`, so the answer is like any other and rows
are missing (`unread` in the answer remembers which). Amounts are integers of half cents, as nothing in the
handler checks sign or size: a TAM carries a `float32`, `balance - $1` and `balance + $1` are exact, and
each row is rounded to a cent when it is stored (`Cents`), so of an amount it matters which cent
it is nearest to, or which two it lies half-way between. 10.00 and 0.125 give 9.88 and 10.13.
What a balance loses when it is scanned into a `float32` for a certificate (from 131072.00 up) is left out.

### Login and the code

Each request again has a `pc`; every `SELECT`, `UPDATE`, `INSERT` and Redis command
is a step, since nothing is in a transaction. `active` and `retired` are the two
rows that `UNIQUE (associated_user, active)` permits. A login makes at most one
key, so a key is named after its login; `primary` in an answer says that the
private half was sent (`sendOnlyPub` false). `interrupted` is for the properties: the logins that
an error or a crash ended between the `UPDATE` and the `INSERT` of their rotation, and no others. Verification, enabling and disabling
the second factor, token expiry and the ageing of keys happen at any time.

### Credentials and the code

Ten kinds of requests about one email, any number of each, with a `pc` per request
again. `user` and `account` name the registration whose rows are committed: the two
`INSERT`s of a registration are private until `Commit`, and a second `INSERT` of the
email waits for the first transaction (`EmailUnlocked`, the unique index on
`Users.email`). `password`, `verified` and `secondFactor` are the columns of the row;
`code`, `enabling` and `session` the Redis keys `verification_*`/`reset_*`,
`two_fa_enable_temp_*` and `session_*`. A code or secret is named after the request
that generated it. `mailed` is the mailbox, and `spent` remembers which codes some request
has used and deleted, for the property only. `ReadCode`, `DropCode` and `Write` are the three
commits of verifying and resetting (`GET` with the comparison, `DEL`, `UPDATE`);
`ReadPassword` and `Write` the two of changing; `NotEnabled`, `ReadSecret`, `Write`,
`DropSecret` the four of confirming a second factor. `StatementFails` is the error
path of the statement a request is at, with the answer the code gives there:
ignored for the `SELECT` of `Register` and the `SETEX` of `TwoFAEnableRequest`, logged
only for the `DEL` of a code, without a body in `TwoFAEnableConfirm`. `MailFails` also covers
the mail that went out although an error came back. A login is one step
here (`LogIn`), as verification and the second factor are single steps in `Login`.

### Client and the code

`form[t]` is what the list of transactions holds of TAM `t`: nothing, an entry
waiting to be submitted, one with a single TVC (`half`), or one the server
listed. `bkvc` is the certificate; `due` is a pending `RequestSyncEvent`; `sync[s]`
is a post under way, with the batch it carries, what the handler has finished with
(`done`), what it failed without setting `hasError` (`silenced`), and the answer; `writes` is the queue of
storage writes that were started and `disk` what they reached. Actions:
`Pay` and `Scan` (`SubmitTAM`), `ScanTVCOfPending` and `ScanTVCOfListed` (`SubmitTVC`
for each kind of entry `firstWhere` finds), `StartSync` and `ApplyAnswer` (the two
halves of `_onRequestSync` around its `await`), `Submit`, `FinishBatch`, `ReadAccount`,
`ReadHistory`, `ServerFails`, `ServerCrash` (the server, by way of `SyncService`), `LoseAnswer`, `CheckInternet`, `Refresh`,
`UserAuthenticated`, `FlushWrite`, `Restart` (`LoadData`), and the surroundings.
A certificate is known by what it reflects (`bkvc`) and by its time (`stamp`). The account is
read by one statement, whose `NOW()` is the moment of the read; a TVC carries the `NOW()` of
its transaction, which began before others committed (`begunAt`), in whole seconds. `_onSubmitTVC` compares
times (`MayBeLater`), so a certificate may be replaced by one that reflects fewer settlements. `unread` is what the
list on display lost when the server's read of it broke off; `Returned` is such a list.
What the code compares is modelled as it compares: two entries are the same when
second and amount agree (`Look`), and a TAM just signed has microseconds and so
never equals anything until the server has listed it.

### Favorites and the code

`rows` is the table: each row is named after the `POST` that inserted it, so that
duplicates can be told apart. A request goes through `check` (the `SELECT`, whose
error is ignored in both handlers, so that an addition goes on and a removal is
told that there is nothing), `write` (the `INSERT` or `DELETE`) and `answered`; `target` is its email and `before`
remembers which requests were over when it arrived, for the properties.
`Told` is the bloc: after a 201 or 202 it sends a `GET`, named after the request,
and `Show` replaces the list with the answer; no row at all arrives as `null`, which
hides the list. Emails with a `+` reach `DELETE` with a space, because the phone puts them into
the query as they are (`favourites.dart:96`).

### Handover and the code

`Amounts` keeps a double as a whole number of thousandths or as one of the infinities or NaN.
`Keypad` has one operator per handler of `SendMoneyBloc`; the display string is kept as
the number, operator and second number it reads, plus the number of characters behind
the last sign, because `_onSendMoneyErase` decides by whether a `+`, `-` or `*` is in
the string, and whether it reads `x.0` after an erase, behind which digits go on as decimals.
`Messages` has a record for each message in memory (double, ticks) and
one for its bytes (`float32`, whole seconds, type byte); a signature is the pair of a key and the
bytes it signs, made anew by every `verify`.

In `Handover`, `sends[t]` is an invocation of `_onSubmitTransfer`: `Tap` is its guard, with
the balance the button captured in its last frame (`shown`, `Frame`); `reading` covers the
three `storage.read`s; `Build` makes the TAM from the amount and the stored certificate of
that moment; `signing` covers `sign` and `verify`; `HandOver` is the listener
and `_onSubmitTAM`, `DropUnverified` and `NotPrimary` the ways out without a payment. The
reads are one step, because what they read (key and certificate) is in the model replaced
only by `Flush`, whose order with the last read is what matters. `Refresh` is an
answer to a sync: a new balance, perhaps a new key (the user logged in elsewhere),
some of the TAMs settled and the list replaced. `RefreshBetween` is one during which a payment of this user settles between the
server's two reads: the list has it, the certificate does not, and `late` is its TVC for this
user. `SubmitTVC` is the scan of that TVC, which replaces the certificate, possibly by an unsigned one
(`receiverBKVC`) or one of a smaller balance, while payments are pending. It is the only TVC that replaces one:
an entry that is not listed gets one TVC of two, `save()` throws (`data_bloc.dart:288`,
`transaction.dart:207-208`) before anything is emitted, and other listed payments are reflected already. The payee's phone has the same
handlers: `PayeeRefresh` is the answer to its sync, `Receive` is `_onSubmitTAM`, `AdoptTVC` and `IgnoreTVC` are `_onSubmitTVC`
for a listed payment and for any other, where a TAM it scanned is left with one TVC (`half`) and blocks every later save. `scans[c]` is an invocation of `_onQrCodeScanned`:
`ScanTAM`, `ScanTVC`, `ScanJson`, `ScanForeign` are its four ways. A phone
shows the TAM it recorded or the TVC of a settled payment. On the payer's phone that TVC
is the receiver's: `tvc_display_screen.dart:78` shows it when `!isDebit`, and `isDebit` is false for the
user's own payments from a sync, because `fromJson` and `fromMap` (`transaction.dart:176-195`, `:268`) store
`isTransactionDebit` as `credit`.

## 3. Runs

| Run | Question | Bounds, and why they are enough |
|---|---|---|
| `ledger` | Do two overlapping syncs with retries, errors, crashes, rotation and ageing settle each TAM once, keep balances, report honestly? Is this, to the phone that sent one of them, `SyncService`? | 2 users, 2 requests, both meeting errors, pool of 2. Amounts are odd and even numbers of half cents. Batches hold the same TAM in both requests and twice in one, opposite payments, a self-payment, a malformed TAM, nothing. Every conflict in the handler is between two transactions on one signature or one account, which two requests produce. Two TAMs are `Watched` and one request is `Own`: the other request settles the same TAMs, and the self-payment and the malformed TAM are carried for others. |
| `ledger_pool` | Is every request answered when requests lock each other's rows and connections are fewer than requests? | 3 requests, one of them meeting errors, pool of 2, opposite payments and a retried TAM: two hold each other's rows while the third waits for a connection |
| `login` | Do overlapping logins certify only stored keys, strand none, leave gaps only while rotating, and is every one answered? | 2 logins, one with an unknown email, 2 confirmations, errors in one of each. Three key generations are one more than `Keys` can hold. |
| `credentials` | Does one of several overlapping registrations win, with account and mail; is the code in force one that was sent, and a used one useless; is the second factor one the user has confirmed? | three mixes of requests (`Mixes`), errors in six of them. Codes: 2 registrations, 1 resend, 2 verifications. Password: a registration, a verification, 1 recovery, 2 resets, 1 change. Second factor: a registration, a verification, 2 secrets, 2 confirmations, a disable, a logout. In each mix two requests hold what a third one replaces. |
| `client` | Do overlapping syncs, answered in any order, keep the list and the balance truthful, with a payment that fails silently, histories cut short, certificates stamped before others commit, and a restart between any two writes? | 2 syncs, 1 payment made (may fail without an error being reported) and 1 received (may be missing from a history), the peer submitting the latter too, 1 restart, the three writes of one save unfinished. Visits that are broken off and payments reported as failed change less on the phone and are left to `client_alone` and the proofs. |
| `client_alone` | Does what was recorded get submitted unless the server fails it, and does the balance contain what is listed, when nobody else interferes? Is the server half of `Client` `SyncService`? | 1 sync, 1 payment made (may fail silently) and 2 received that a TVC cannot tell apart (one may be reported as failed every time, settled or not, and may be missing from a history), 1 outage at any point (before a payment, during a visit, between its answers), visits broken off, a server that dies. `ServedSpec` is proved for all constants; restarts and the peer are left to the proof. |
| `favorites` | Can an account be listed twice, and do reported changes hold and reach the screen? | 2 additions and 2 removals, one of each with errors, one addition from another phone; 2 accounts, one with a `+`: a duplicate needs two additions, its removal a third request, and an answer that overtakes it a fourth |
| `handover` | Does the display mean what is computed; which sends overdraw; is what is handed over signed and accepted; is the scanner released? | 2 sends, 2 codes, digits 0 and 5; budgets (`Budgets`) of 5 keys alone; 2 keys with 2 sends and an answer; 1 key with 2 sends, an answer and 2 codes; 1 key with 2 sends and an answer with a payment settled in between; 1 key with a send, an answer to either phone and 2 codes. Five keys reach an operator on a pending operator after a result, division by zero and an erase after each. Balances of 8 and 60 lie on both sides of what two keys can ask for. |
| `login_rotation`, `client_restart`, `client_sync`, `handover_tvc` | Does the program do what its comments, README and tests say? | the smallest instance; violated, see section 6 |

Every property of a passing run has a mutant: a plausible bug in one mapped
definition, written just before the definition in its module, under which the run
reports the property violated.

The properties, by the question they answer:

* `TransactionsIsolated` is why concurrent syncs do not disturb each other: what an
  open transaction has written is its transfer applied to the balances committed
  *now*, however many commits have happened since it started.
  `BalancesReplayLedger` and `SettledOnce` are its consequences; `SettlementSpec` says
  the same as a refinement, and `ServiceSpec` says what of it reaches a phone. `CommitsCertifyBalances` adds that the certificates
  stored with a TAM are exact.
* `HonestReport` relates what callers are told to what is committed, with the one
  exception the code has: the two error paths that leave `hasError` alone let a
  202 cover a failed TAM. `SyncReturnsItsOwnWrites` relates the answer's
  certificate and history to the batch: the certificate reflects what was acknowledged, and the history lists what the
certificate reflects or lost it in a read that broke off, which only a request that met an error has. `PoolAccounted` and `EveryRequestAnswered`
  say that no early `continue` keeps a connection or a lock.
* `CertifiedKeysAreStored`, `KeyGapsAreRotations`, `NoKeyIsStranded` say what several
  logins may do to one user's key; `RegistrySpec` is the refinement. A gap without an active key needs a login that is between
  `UPDATE` and `INSERT`, or that was ended exactly there (`Interrupted`); a wrong password or an
  error anywhere else explains none. `KeyComesBack` is the liveness, with the same exemption.
* `CreatedIsRegistered`: what a registration reports is there, row, account and mail,
  and never a row without its account. `LiveCodeIsMailed`: requests for a code that
  overlap store one code and mail two, but the one that is in force is never one that
  nobody was sent while success was reported. `SpentCodesStaySpent`: the `DEL` removes
  whatever code is there, perhaps a newer one, but a used code never passes the check
  again (two requests that overlap may still use it together).
  `EnabledSecretIsConfirmed`: several secrets may be under way, and the one stored is the
  one a passcode was checked against, because the handler writes the value it validated.
* `ShownIsSettled`: nothing is shown as settled that the server has not settled.
  `BalanceCoveredByHistory`: what the certified balance includes is in the list, or was lost by
  the server's read of it; so but for that no payment is both deducted by the server and subtracted by the phone. It relies
  on the server reading the account first. The converse, `ListedIsCertified`, is
  what keeps the phone from spending an amount twice; it holds only while nobody
  else settles the user's TAMs (section 7).
  `OnlyStaleAnswersForget` is a catalogue of everything that takes a
  payment off the displayed balance; among them is the TVC of a transaction that began after the
  phone's certificate was stamped and committed before what that reflects. `PendingDrains` is the liveness: a payment that is on its way (a sync
  is due, or carries it, or connectivity will ask for one) is settled or dropped from the list, unless the server fails
  it or the visit. After such a failure the code does not try again by itself (`data_bloc.dart:112-117`), and
  the property says nothing until the user does.
* `DuplicatesOverlapped` is what a `SELECT` before an `INSERT` without a constraint does promise.
  `RemovedIsGone` and `AddedStays` relate what was reported to the table, whatever
  overlapped; `ScreenIsCurrent` relates the table to the screen, under what the code needs for it:
  the answer displayed is that of the last `GET`.
* `ShownIsMeant` relates the display, which nothing computes with, to the amount that is sent, and
  bounds what is lost in between: a result is shown with two places (0.125 as 0.13), an operand without its fraction (2.5 as
  `2+`, `send_money_bloc.dart:71`), and a tap takes the number typed last of an unfinished operation (5+3 sends 3). A typed
  number is shown exactly.
  `OverdraftIsOvertaken` names every way in which the guard of `_onSubmitTransfer` lets more be promised than
  is certified: something came between the frame it was checked in and the
  record, or a scanned TVC brought a certificate of a smaller balance afterwards. `RecordedIsSigned`: a phone that lost its key to another phone hands nothing over, what is
  handed over survives `float32`, seconds and base64 with its signature, the server accepts it unless the certificate in
  it was adopted unsigned (section 6), and the
  scanner's way of trying a TAM first never confuses the two. `ScannerIsReleased`: only
  a code of another application blocks the scanner.

Deadlock is not checked in the runs of `Ledger`, `Login`, `Credentials`, `Favorites` and `Handover`
because all requests end there, or the bounds do. It is checked in the `client` runs.

Not in any run: a start-up connection that is leaked (`database.go:23`), waiting for a pooled connection outside settlement, more TAMs per batch than two, more than three concurrent
requests, and outages that begin and end between two connectivity checks.

## 4. Fairness

* `Ledger!LiveSpec`: weak fairness of each request's own steps (goroutines that can
  run do run) and of the deadlock detector (PostgreSQL breaks every cycle after
  `deadlock_timeout`). A request waiting for a connection or a lock is *not* given
  strong fairness in the specification: in these instances a finite number of
  requests each take a finite number of steps, so what they wait for is
  eventually free for good. Nothing is assumed of callers, errors or logins.
* `Login!LiveSpec`: weak fairness of each request's steps. Nothing is assumed about
  ageing, expiry or the user.
* `Credentials` has no liveness property and no fairness: the only wait in it is that of a
  registration for the transaction of another one.
* `Favorites` and `Handover` have none either: nothing retries there, and what ends a scan or a send is
  stated as safety (`ScannerIsReleased`).
* `Client!FairSpec`: weak fairness of what phone and server do by themselves
  (storage writes, the one-second connectivity check, starting a sync that is due,
  the steps of the server, a post that fails when the network is gone), and of
  connectivity coming back. `ApplyAnswer` has strong fairness: an answer that has
  arrived is handled, and the action is disabled only by an outage (then the post
  fails instead) or by the model's bound on writes. The server's steps include failing a visit, which `PendingDrains` exempts. Payments, scans, refreshes and
  the other party are not assumed to do anything.

## 5. Proofs

Everything below holds for all values of the constants that satisfy
`PaymentsAssumption`, `LedgerAssumption`, `ServiceAssumption`, `LoginAssumption`, `CredentialsAssumption`,
`ClientAssumption`, `FavoritesAssumption`, `MessagesAssumption` and `HandoverAssumption`
respectively: any number of users, TAMs, requests, keys, taps, scans, errors and crashes. The
assumptions type the constants and keep them apart; the only one with content is the last line of
`ClientAssumption` (nobody pays and is paid the same amount in the same second),
which `AlreadyExists` and `SubmitTVC` need to be what their comments say. Four theorems
assume more, in their statement: `PoolIsAccounted` that `Requests` is finite,
`HistoryCoversBalance` that `NoTwins`, `BalanceCoversHistory` that the phone is `Alone`, and
`MoneyIsConserved` that `Users` is finite (`Roster`).

**LedgerProofs.** `TypeCorrect` is inductive by itself and is proved per action,
with a lemma for each step the actions share (`Advance`, `Report`, `RollBack`,
`Write`, `Publish`). `IInv == TypeOK /\ TransactionsIsolated /\ SettledOnce`.
`SettledOnce` alone is not inductive: a commit appends a row, and that no other
row has its signature follows from `SignaturesExclusive` (the unique index keeps
the signature from everybody else from `INSERT` to `COMMIT`), which is about open
transactions. `CommitsCertifyBalances` needs `DraftsAreTransfers` and `CertsMatchDrafts`,
and those survive the commits of *others* only because of `RowsExclusive`: two open
transactions share no account row, so a commit changes none of the balances a
draft was computed from. `OutsideIsolated`, `InsideIsolated`, `CommitIsolated` and
`EnvironmentIsolated` treat the four kinds of step. `Isolation`, `ExactlyOnce`,
`CertificatesExact` follow, and `ImplementsSettlement` is a step simulation: a commit
is `Settle(Current(r))`, everything else a stutter. `ReportsAreHonest` adds to `IInv`
that every counted failure has set the flag (`RepliesHonest`) and that a 202 is the last thing a request
does, with its batch empty and the flag unset (`AcceptedHonestly`); a reply stays true
because a settlement is never undone (`SettledGrows`). `PoolIsAccounted` sorts the steps into
those that take a connection, return one, do neither, and the crash (`StepConnections`).

**LedgerReplayProofs.** `BalancesReplayLedger` compares the `Accounts` rows with a fold over the
`Transactions` rows. The library's induction and recursion theorems take a predicate as
a parameter, so the module starts from the least element of a set of naturals (`WFMin`):
`SetInduction`, the iteration lemmas, and `ReplayEquation`, which says what one more row does to
the replay for ledgers of any length. Then a commit moves balances and replay
by the same transfer, because what an open transaction has written is its
transfer applied to the balances committed now (`TransactionsIsolated`). `MoneyIsConserved`
says, with a sum written as the same kind of iteration, that the balances of all users, listed in any
order (`Roster`), always add up to what they did at first: no step of a settlement, fault
or crash lets the committed rows hold a debit without its credit (`TransferKeepsTotal`). They do so
up to rounding: a TAM whose amount is half-way between two cents may add or take one cent, and
the theorem bounds the drift by the number of such rows in the ledger; amounts of whole cents conserve the total exactly. `SyncReturnsItsOwnWrites` is
about an earlier length of the ledger than the present one: `HistoryGrows` says that a row
once written never changes, so that the replay of a prefix stays what it was, and `AnswersRead` keeps
for every request that its reading was the replay of its moment and covers what it
acknowledged, and that rows are missing only from an answer of a request that met an error. `ImplementsService` is a step simulation with one lemma per kind of step. Its invariant
`VisitsKnown` adds to `IInv` that what an answer reflects is a moment of the ledger and
that there is none before the account is read; the batch a visit shows is what it has replied to
together with what is left. A commit gives the next number to its own TAM
and leaves the numbers of all others alone (`CommitNumbers`, `NumbersStay`). The phone's requests
may carry TAMs that are not its user's, because `_onSubmitTAM` records any TAM that is
scanned; of such a TAM the phone only learns that it failed (`FailForOthers`).

**LoginProofs.** `IInv` adds to the three safety properties what ties a request's
step to the rows: before its `INSERT` a login has no row, an answer certifies the
key the login chose, and a login with a row chose that row or fell. For `GapsAreRotations` it has that
a user without an active row has a login between the two statements of its rotation, or one in `interrupted`. Without the
first of these `NoKeyIsStranded` would not survive an `INSERT`. `TypeCorrect`, `CertifiedStored`, `GapsAreRotations`, `NoneStranded` are
its conjuncts; `ImplementsRegistry` maps `Deactivate` to `Retire`, `InsertKey` to
`Activate` and the rest to stutters.

**CredentialsProofs.** `CredentialsAssumption` only keeps the kinds of requests apart.
`IInv` is `TypeOK`, what each request holds at its statement (`Sane`) and what the
requests share (`Shared`). `CreatedIsRegistered` needs `OneInserts`: two registrations are never
both between `INSERT` and `COMMIT`, and nobody has committed when one is, so that no
commit overwrites another. `SpentCodesStaySpent` follows from `LiveCodesFresh`: no code in Redis has
been used up, which survives `DEL`, because it deletes the code that is there and not only the
one it was meant for, and `SETEX`, because a request stores its code before anybody is mailed it;
`OnlyReadCode` shows that no other step passes the check. `RefuseKeeps` and `PassKeeps` are about the
two effectless ways a handler moves on, so that two thirds of the actions are
instances of them; the others have a lemma each.

**ClientProofs.** `ShownIsSettled` is not inductive: what `ApplyAnswer` puts on the list
comes from a request, what `Restart` puts there comes from the disk, and what
reaches the disk comes from a write queued earlier. `IInv` says of *every* place
where a list or a balance can wait (memory, queue, disk, requests) that it is sound, using that
settlements are never undone and keep their numbers (`SettlementAdds`). For
`OnlyStaleAnswersForget` it adds that a TAM of a batch that the server is done with
is settled or silently failed unless the visit has an error, so that an accepted answer reflects it; and that what a certificate
reflects and when it was stamped belong together at every place a certificate can be;
`StepKeeps` proves the invariant and the action property of each step together.
`UsesService` is a step simulation: `Served` forgets what only the phone knows of a post (whether its
cookie named a session), the actions that call `Service` map to the same action of `AsServed`, and
`ApplyAnswer`, `LoseAnswer` and `Restart` map to `Leave` of one slot or of all. It needs that a free slot
holds nothing of an earlier post (`FreeSlots`), because a visit of `SyncService` begins with nothing done.

**ClientBalanceProofs.** `BalanceCoveredByHistory` needs that the list is, to the transaction, the
history of *one* moment, but for what that read lost, and that the certificate is no newer (`ListIsHistory`). `ReadInOrder`
carries the order of the server's two reads to `ApplyAnswer`. A payment of this user leaves the list for "pending" only
if it could be settled before it was signed, which `SignedFirst` excludes; and the
certificate in a TVC is no newer than the list because the entry it is matched with is the
TAM itself: the theorem assumes `NoTwins`, that no two payments look alike (the second and the
amount), and the `client` run has no twins. `ListedIsCertified` is proved under `Alone` (one sync,
no `Peers`, no restarts), the constants of `client_alone`: without any of the three it is
false. There the two reads are of the same moment because only the batch settles.

**FavoritesProofs.** `DuplicatesOverlapped` needs an invariant about additions that have passed
their check but not yet inserted: every row of their account is of a request
they overlap, or the check failed. `RemovedIsGone` and `AddedStays` need that `before` never has a request that is
under way, and `ScreenIsCurrent` that a `GET` is answered with the rows of an
instant after which each change is either seen or followed by another `GET`. `HandleMovesOn` and
`MovesOnKeeps` treat the steps that leave the table alone at once.

**HandoverProofs.** Types of `Amounts` and `Keypad` come first, one lemma per operator. `ShownIsMeant` is
about the pad alone: `Legible` adds to it what a key needs to keep it
(after "=" no operator is pending unless its operand is infinite, and `0.0` is an entry of nothing), and each key has a lemma;
`TwoPlacesShows` and `TruncatedShows` are the two roundings. For
`RecordedIsSigned` the lemmas `RoundTrip` and `CertTrip` say that decoding and encoding
lose nothing a second time (`Float32Idempotent`, `SecondIdempotent`), so that a signature over the
bytes is a signature over what is read from them, and `TvcIsNoTam` that the type byte keeps
the two apart. `OverdraftIsOvertaken` needs that of a send under way that nothing
has overtaken the amount is still positive and below what is available *now* (`PromiseInv`); a certificate of no smaller
balance keeps that (`LargerFits`). That a certificate is signed or has no signature at all, wherever the phone has it from, is `CertFacts`.

**Only model-checked:** the liveness properties (`EveryRequestAnswered`,
`EveryLoginAnswered`, `KeyComesBack`, `PendingDrains`), which are out of the prover's
reach. Every invariant, action property and refinement of the passing runs is a theorem.

## 6. Findings

1. `login_rotation`. `keys.go:66` says "Make the previous active key inactive". The
   table allows one inactive row per user, so the second rotation of any user
   fails, and so does every login after it, because the active key stays too old.
2. `client_restart`. A payment waiting to be submitted is written to storage without
   its TAM, and reading the entry back throws, so that after a restart the
   phone has no transactions, balance or session.
3. `client_sync`. The answer to a sync replaces the whole list, including payments
   recorded after its batch was built. They are gone before they were submitted.

4. `handover_tvc`. The server signs the payer's certificate and both TVCs, but not the
   certificate inside the receiver's TVC (`sync.go:434`). The tests of both languages assert
   that the certificate in a TVC verifies (`libaaryapay_test.dart:94`,
   `transaction_test.go:206`). A phone adopts it when the payment is in its list and its own certificate is older, which
   a payment to its user brings about that settles between the two reads of a sync; the TAMs it then signs
   are refused by the server (`sync.go:160`) until an answer to a sync brings a signed one.

Noticed while modelling and not the subject of a run: `get.go:59-85` does not ask for `rows.Err()`, as `favorites/get.go:66` does, so
a list cut short goes out as the history and the phone displays a balance that the list does not explain (`ReadHistoryCut`);
an amount of a TAM need not be whole cents, and one of 0.125 debits 0.12 and credits 0.13 of 10.00 (the `amount` column is
rounded too); the pool loses a connection at the start (`database.go:23`), so that one of a single connection would answer nothing;
a scanned TVC replaces the certificate while payments over the old one are pending (`SubmitTVC`), and by the time its transaction began and not by what it reflects; a sync whose only TAM fails silently
answers 202 "Transactions submitted successfully!" (`sync.go:516`; `HonestReport` states
the exception); "A Send Action has already been initiated!" (`send_money_bloc.dart:194`)
is unreachable: it comes after a test that every positive amount passes, the flag is
set only after three awaits, and a tap that is refused resets it under a send still
being signed; `auth.dart:29` documents 401 for a
login with a wrong email, but `login.go:67` compares the error with the `ErrNoRows` of
a driver it does not use and answers 500 (`UnknownEmail` in `Login`);
`password_change.go:121` overwrites whatever password is there by then, also one a
reset has set since line 47 read the old one; of two confirmations of a second
factor that overlap, the later one replaces the secret of the first, though each
refuses when a second factor "is already enabled!" (`2fa.go:157`);
`profile/update.go:97-103` answers 400 to a wrong file type but goes on;
`favourites_bloc.dart` says "The field cannot be empty" for any failure, and a favorite whose email has a `+`
can be added but not removed; a user's code is emitted without `isScanned`, so the
branch of `qrscan_screen.dart` that opens the Send screen is never taken, and a code of another application leaves
the scanner deaf until it is reopened; on the keypad, `.` throws, an erase
after an operator puts the operand in place of the amount, a pending `/` survives an erase
unseen, `AC` keeps the operand, and after a division by zero every operator throws;
`_onSubmitTAM` does not compare the TAM's receiver with the user, so that a TAM between two others that is
scanned counts as a debit of this user until the next answer drops it (`Client` leaves this scan
out, `SyncService` allows for it); `credit` of a transaction from the server holds its opposite (`transaction.dart:176-195`).

## 7. What is left out, and the plan

Left out for good: layout and navigation, mail, templates, telemetry, population
scripts, deployment, configuration, stateless endpoints, the profile (single
statements nobody else decides by), and cryptography: a signature is valid or
`Malformed` in `Ledger`, a pair of key and bytes in `Messages`. Of the message formats, the offsets of the
fields are left out: both languages write them as the same literals, and a model would only
repeat them. Of `DataBloc`, the fields that only choose a screen (`tamStatus`,
`goToScreen`, the three second timer) and `UpdateServerKeyEvent`, which nobody adds,
are not in `Client`. Of amounts, NaN and the infinities (in `Payments`; the keypad has them) and balances a `float32` does not hold exactly. Of the keypad, what an erased display reads is not followed,
and `.` is left out because its handler throws before it changes anything. Of the scanner,
malformed base64 of the right length (it decodes and is handed on as a TVC that
the `DataBloc` refuses).

The order followed the weight of what can go wrong: settlement first, because it is
the money; then keys, because every certificate hangs on them; then the phone,
because it is where payments wait; then the credentials; then the hand-over and the
favorites. `Credentials`, `Favorites` and `Handover` have no abstract
specification of their own: their promises are invariants. Next is `OfflinePayment`:
`Client`, `Ledger` and `Login` together, with two phones. What the phones can spend compared with what the server holds (`ListedIsCertified` fails
once the peer submits, so the same amount can be promised twice until the next
sync), and certificates that outlive their key. `SyncService` is the seam it would be
assembled at: `ImplementsService` holds for each of the two phones.

## 8. Running it

    tlc -config MCLedger.cfg MCLedger          # and the other .cfg files
    tlapm LedgerProofs.tla                     # and the other ...Proofs modules
