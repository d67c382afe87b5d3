------------------------------ MODULE Handover ------------------------------
(***************************************************************************)
(* A payment made from phone to phone: the payer keys an amount in and     *)
(* sends it (SendMoneyBloc), the signed TAM is recorded by the payer's     *)
(* DataBloc and shown as a QR code, and the payee's scanner (QrScannerBloc)*)
(* reads it, or reads the TVC once the server has settled it.  Both phones *)
(* run the same program: the payer's scans the TVCs of its user as well.   *)
(*                                                                         *)
(* The handlers of a bloc run concurrently wherever they await.  A send    *)
(* awaits the secure storage and then the cryptography; a scan awaits the  *)
(* cryptography.  Keys, taps, answers of the server and frames may fall    *)
(* between.  How the DataBloc records and forgets is the subject of module *)
(* Client; here an answer replaces certificate and list in one step.       *)
(*                                                                         *)
(* The server reads the account first and the list after it, so the list   *)
(* may have a payment that was settled in between.  Its TVC is the only    *)
(* one whose scan replaces a certificate: that of a payment which is not   *)
(* listed cannot be saved, and any other is not later.                     *)
(***************************************************************************)
EXTENDS Keypad, Messages, Sequences

Kinds == [{"keys", "taps", "answers", "between", "payee", "codes"} -> Nat]

CONSTANTS Taps,       \* the taps of the Send button
          Scans,      \* the codes the payee's camera reads
          DigitKeys,  \* the digits pressed
          Budgets,    \* bound: how many keys, taps, answers to the payer, ones
                      \* with a payment settled in between, answers to the
                      \* payee and codes a behaviour has, one of these
          Balances,   \* the balances it may certify, in whole units
          Payer, Payee,
          PhoneKey,   \* the key this phone signs with
          OtherKey,   \* the key of another phone the payer logged in on
          PayeeKey,   \* the key certified to the payee
          NoKey       \* no key in storage: the device is not primary

ASSUME HandoverAssumption ==
    /\ DigitKeys \subseteq 0..9
    /\ Budgets \subseteq Kinds
    /\ Balances \subseteq Nat
    /\ PhoneKey # OtherKey
    /\ ServerKey \notin {PhoneKey, OtherKey, NoKey}
    /\ NoKey \notin {PhoneKey, OtherKey}

VARIABLES
    \* SendMoneyBloc
    pad,         \* amount, displayAmount, status, _operand and _operator
    tamStatus,   \* "other", or "initiated" while a TAM is made
    sends,       \* the SubmitTransfer handlers
    shown,       \* the available amount the last frame captured
    \* the payer's DataBloc and storage
    cert,        \* bkvc
    unsubmitted, \* the TAMs recorded and not settled
    sentAmount,  \* getSentAmount(): their sum, kept as the list grows
    late,        \* of the listed payments settled after the account was read,
                 \* the TVC for this user
    storedCert,  \* what storage has as "bkvc"
    writes,      \* the certificates still to be written there
    privateKey,  \* what storage has as "private_key"
    \* the payee's QrScannerBloc and DataBloc
    scannedOnce,
    scans,       \* the QrCodeScanned handlers
    received,    \* the TAMs handed to the DataBloc and recorded
    half,        \* one of them was given the receiver's TVC only
    tvcs,        \* the TVCs handed to it and not handled
    payeeCert,   \* its bkvc
    listed,      \* the payments in the server's list
    \* the rest
    settled,     \* the TAMs the server has settled
    clock,
    budget,      \* what may still happen
    overtaken,   \* history: the sends and promises that something else came
                 \* between
    foreign      \* history: the scanner, since it was opened, met a code of another app

sender == <<pad, tamStatus, sends, shown>>
ledger == <<cert, unsubmitted, sentAmount, late, storedCert, writes, privateKey>>
payee == <<received, half, payeeCert, listed>>
scanner == <<scannedOnce, scans, tvcs, foreign, payee>>
rest == <<settled, clock, budget>>
vars == <<sender, ledger, scanner, rest, overtaken>>

-----------------------------------------------------------------------------
(* Values *)

\* A certificate as the server makes it.  It signs each but the one inside the
\* TVC of a receiver.
Stamped(user, balance, key, time) ==
    [user |-> user, balance |-> balance, key |-> key, time |-> time,
     signature |-> Unsigned]

\* What the server certifies, as the phone has it after decoding.
Issued(user, balance, key, time) ==
    DecodeCert(EncodeCert(SignCert(Stamped(user, Whole(balance), key, time))))
Certified(balance, key, time) == Issued(Payer, balance, key, time)

NoTam == [amount |-> Zero]
NoCode == [signature |-> Unsigned]
Blank(phase) == [phase |-> phase, tam |-> NoTam]
Unread(phase) == [phase |-> phase, code |-> NoCode]

Has(phases) == {t \in Taps : sends[t].phase \in phases}
UnderWay == Has({"reading", "signing"})
Recorded == Has({"recorded"})
Verifying == {c \in Scans : scans[c].phase = "verifying"}

\* Mutant of Available: pending payments are not deducted.
AvailableUndeducted == cert.balance
\* The Send screen deducts what was promised and is not settled.
Available == Minus(cert.balance, sentAmount)

\* A TVC, which the server signs.
Tvc(amount, from, c, time) ==
    SignAs("TVC", ServerKey, [amount |-> amount, party |-> from, cert |-> c,
                              time |-> time, signature |-> Unsigned])

\* The TVC of a settled payment for the payee, around receiverBKVC: the payee's
\* new balance, which is the amount or more.
TvcOf(t) ==
    LET tam == sends[t].tam
    IN  Tvc(tam.amount, Payer,
            Stamped(Payee, tam.amount, PayeeKey, tam.time + TicksPerSecond), tam.time)

\* The TVCs for the payer that a payment settled after the account was read may
\* have, as they are read from a code: another user paid the payer, or one of
\* the payer's own payments was settled by somebody else's sync.
Later(c) ==
    LET stamped(balance) ==
            Stamped(Payer, Whole(balance), c.key, c.time + TicksPerSecond)
        made(from, d) == Decode(Encode("TVC", Tvc(d.balance, from, d, c.time)))
    IN  {made(Payee, stamped(b)) : b \in Balances}
        \cup {made(Payer, SignCert(stamped(b))) : b \in Balances}

\* checkAlreadyExists compares the second and the amount, of a TAM or TVC.
SameLook(m, n) == m.time = n.time /\ m.amount = n.amount
IsListed(m) == \E t \in listed : SameLook(Decode(Encode("TVC", TvcOf(t))), m)

\* The codes the payer's phone shows: a recorded TAM, the TVC of a settled one.
Codes == {Encode("TAM", sends[t].tam) : t \in Recorded}
         \cup {Encode("TVC", TvcOf(t)) : t \in settled}

TypeOK ==
    /\ pad \in Pads
    /\ tamStatus \in {"other", "initiated"}
    /\ DOMAIN sends = Taps
    /\ \A t \in Taps : sends[t].phase \in {"idle", "reading", "signing", "recorded", "over"}
    /\ shown \in Amount
    /\ cert.key \in {PhoneKey, OtherKey} /\ cert.balance \in Amount
    /\ storedCert.key \in {PhoneKey, OtherKey}
    /\ unsubmitted \subseteq Recorded
    /\ sentAmount \in Amount
    /\ privateKey \in {PhoneKey, NoKey}
    /\ scannedOnce \in BOOLEAN
    /\ DOMAIN scans = Scans
    /\ \A c \in Scans : scans[c].phase \in {"idle", "verifying", "over"}
    /\ payeeCert.user = Payee
    /\ settled \subseteq Recorded
    /\ clock \in Nat
    /\ half \in BOOLEAN
    /\ listed \subseteq settled
    /\ budget \in Kinds
    /\ overtaken \subseteq Taps
    /\ foreign \in BOOLEAN

Init ==
    /\ pad = Pad0
    /\ tamStatus = "other"
    /\ sends = [t \in Taps |-> Blank("idle")]
    /\ \E balance \in Balances : cert = Certified(balance, PhoneKey, 0)
    /\ shown = cert.balance
    /\ unsubmitted = {}
    /\ sentAmount = Zero
    /\ late = {}
    /\ storedCert = cert
    /\ writes = <<>>
    /\ privateKey \in {PhoneKey, NoKey}
    /\ scannedOnce = FALSE
    /\ scans = [c \in Scans |-> Unread("idle")]
    /\ received = {}
    /\ half = FALSE
    /\ tvcs = {}
    /\ payeeCert = Issued(Payee, 0, PayeeKey, 0)
    /\ listed = {}
    /\ settled = {}
    /\ clock = 1
    /\ budget \in Budgets
    /\ overtaken = {}
    /\ foreign = FALSE

\* One of the keys, taps, answers or codes there may be.
Spend(kind) ==
    /\ budget[kind] > 0
    /\ budget' = [budget EXCEPT ![kind] = @ - 1]

-----------------------------------------------------------------------------
(* The keypad *)

\* A key is handled at once; a send that has passed its guard and still reads
\* the storage will find the new amount.
Pressed(next) ==
    /\ Spend("keys")
    /\ pad' = next
    /\ overtaken' = overtaken \cup Has({"reading"})
    /\ UNCHANGED <<tamStatus, sends, shown, ledger, scanner, settled, clock>>

PressDigit == \E digit \in DigitKeys : Pressed(Digit(pad, digit))
PressOperator == \E op \in Operators : Pressed(Operator(pad, op))
PressEquals == Pressed(Equals(pad))
PressClear == Pressed(Clear(pad))
PressErase == Pressed(Erase(pad))

-----------------------------------------------------------------------------
(* SubmitTransfer *)

MayTransfer ==
    /\ Greater(shown, pad.amount)
    /\ Greater(pad.amount, Zero)
    /\ tamStatus = "other"

\* The guard is evaluated before the first await and nothing marks the send as
\* under way until the awaits are over.
Tap(t) ==
    /\ sends[t].phase = "idle"
    /\ Spend("taps")
    /\ MayTransfer
    /\ sends' = [sends EXCEPT ![t] = Blank("reading")]
    /\ overtaken' = IF shown = Available THEN overtaken ELSE overtaken \cup {t}
    /\ UNCHANGED <<pad, tamStatus, shown, ledger, scanner, settled, clock>>

\* A refused tap ends like every other, with tamStatus "other".
TapRefused(t) ==
    /\ sends[t].phase = "idle"
    /\ Spend("taps")
    /\ ~MayTransfer
    /\ sends' = [sends EXCEPT ![t] = Blank("over")]
    /\ tamStatus' = "other"
    /\ UNCHANGED <<pad, shown, ledger, scanner, settled, clock, overtaken>>

\* The three reads are over: the TAM is built from the amount of this moment.
Build(t) ==
    /\ sends[t].phase = "reading"
    /\ privateKey # NoKey
    /\ tamStatus' = "initiated"
    /\ \E later \in {clock + 1, clock + TicksPerSecond} : clock' = later
    /\ sends' = [sends EXCEPT ![t] =
         [phase |-> "signing",
          tam |-> [amount |-> pad.amount, party |-> Payee, cert |-> storedCert,
                   time |-> clock, signature |-> Unsigned]]]
    /\ UNCHANGED <<pad, shown, ledger, scanner, settled, budget, overtaken>>

\* "Device Not Primary!"
NotPrimary(t) ==
    /\ sends[t].phase = "reading"
    /\ privateKey = NoKey
    /\ sends' = [sends EXCEPT ![t] = Blank("over")]
    /\ tamStatus' = "other"
    /\ UNCHANGED <<pad, shown, ledger, scanner, rest, overtaken>>

SignedBy(t) == SignAs("TAM", privateKey, sends[t].tam)

\* save() writes the certificate again.
Save(c) == writes' = Append(writes, c)

\* The TAM verifies with the certified key, and the listener hands it to the
\* DataBloc, whose SubmitTAM records it before anything else runs.
HandOver(t) ==
    /\ sends[t].phase = "signing"
    /\ VerifyTAM(SignedBy(t))
    /\ sends' = [sends EXCEPT ![t] = [phase |-> "recorded", tam |-> SignedBy(t)]]
    /\ tamStatus' = "other"
    /\ unsubmitted' = unsubmitted \cup {t}
    /\ sentAmount' = Plus(sentAmount, sends[t].tam.amount)
    /\ Save(cert)
    /\ overtaken' = overtaken \cup (UnderWay \ {t})
    /\ UNCHANGED <<pad, shown, cert, late, storedCert, privateKey, scanner, rest>>

\* Another phone's key is certified by now: the TAM is dropped silently.
DropUnverified(t) ==
    /\ sends[t].phase = "signing"
    /\ ~VerifyTAM(SignedBy(t))
    /\ sends' = [sends EXCEPT ![t] = Blank("over")]
    /\ tamStatus' = "other"
    /\ UNCHANGED <<pad, shown, ledger, scanner, rest, overtaken>>

\* The Send screen is built again and captures what is available now.
Frame ==
    /\ shown # Available
    /\ shown' = Available
    /\ UNCHANGED <<pad, tamStatus, sends, ledger, scanner, rest, overtaken>>

-----------------------------------------------------------------------------
(* The answers of the server and the storage *)

\* POST /v1/sync is answered 202 and the answer replaces certificate and list.
\* It may be to a request sent before some TAMs were recorded, and money may
\* have come, or another phone of the payer have paid and changed the key.
Answered ==
    /\ \E balance \in Balances, key \in {PhoneKey, OtherKey} :
         cert' = Certified(balance, key, clock)
    /\ \E some \in SUBSET {t \in unsubmitted : ServerAccepts(Encode("TAM", sends[t].tam))} :
         settled' = settled \cup some
    /\ unsubmitted' = {}
    /\ sentAmount' = Zero
    /\ Save(cert')
    /\ overtaken' = overtaken \cup UnderWay
    /\ UNCHANGED <<sender, storedCert, privateKey, scanner, clock>>

Refresh == Spend("answers") /\ Answered /\ late' = {}

\* A payment of this user is settled after the account was read and before the
\* list is.
RefreshBetween ==
    /\ Spend("between")
    /\ Answered
    /\ \E tvc \in Later(cert') : late' = {tvc}

\* SubmitTVC of the payer's DataBloc: the certificate in the TVC of a listed
\* payment replaces an earlier one, also while payments are pending.
SubmitTVC(tvc) ==
    /\ VerifyTVC(tvc)
    /\ tvc.cert.user = cert.user
    /\ tvc.cert.time > cert.time
    /\ cert' = tvc.cert
    /\ Save(cert')
    /\ overtaken' = IF Greater(cert.balance, cert'.balance)
                    THEN overtaken \cup UnderWay \cup unsubmitted ELSE overtaken
    /\ UNCHANGED <<sender, unsubmitted, sentAmount, late, storedCert, privateKey,
                   scanner, rest>>

\* Mutant of Flush: the certificate is written without its key.
FlushKeyless ==
    /\ writes # <<>>
    /\ storedCert' = [Head(writes) EXCEPT !.key = NoKey]
    /\ writes' = Tail(writes)
    /\ UNCHANGED <<sender, cert, unsubmitted, sentAmount, late, privateKey, scanner, rest,
                   overtaken>>

\* A write that save() started reaches the storage.
Flush ==
    /\ writes # <<>>
    /\ storedCert' = Head(writes)
    /\ writes' = Tail(writes)
    /\ UNCHANGED <<sender, cert, unsubmitted, sentAmount, late, privateKey, scanner, rest,
                   overtaken>>

-----------------------------------------------------------------------------
(* QrCodeScanned *)

ScanEnds(c, free) ==
    /\ scans' = [scans EXCEPT ![c] = Unread("over")]
    /\ scannedOnce' = ~free

\* A TAM or a TVC: both decode as a TAM, whose signature is then verified.
\* Unlike a send, a scan is marked before the first await.
Scan(c) ==
    /\ scans[c].phase = "idle"
    /\ Spend("codes")
    /\ ~scannedOnce
    /\ scannedOnce' = TRUE
    /\ \E code \in Codes : scans' = [scans EXCEPT ![c] = [phase |-> "verifying", code |-> code]]
    /\ UNCHANGED <<sender, ledger, tvcs, payee, foreign, settled, clock, overtaken>>

\* SubmitTAM of the payee's DataBloc: a TAM of the same second and amount is
\* taken for one it has, and beside an entry with one TVC none can be saved.
Receive(tam) ==
    /\ received' = IF half \/ IsListed(tam) \/ \E m \in received : SameLook(m, tam)
                   THEN received ELSE received \cup {tam}
    /\ UNCHANGED <<half, payeeCert, listed>>

\* Mutant of ScanTAM: what decodes is believed.
ScanUnverified(c) ==
    /\ scans[c].phase = "verifying"
    /\ Receive(Decode(scans[c].code))
    /\ ScanEnds(c, TRUE)
    /\ UNCHANGED <<sender, ledger, tvcs, foreign, rest, overtaken>>

ScanTAM(c) ==
    /\ scans[c].phase = "verifying"
    /\ LET tam == Decode(scans[c].code)
       IN  VerifyTAM(tam) /\ Receive(tam)
    /\ ScanEnds(c, TRUE)
    /\ UNCHANGED <<sender, ledger, tvcs, foreign, rest, overtaken>>

\* Not a TAM: it is read as a TVC and handed on; the DataBloc will verify it.
ScanTVC(c) ==
    /\ scans[c].phase = "verifying"
    /\ LET tvc == Decode(scans[c].code)
       IN  ~VerifyTAM(tvc) /\ tvcs' = tvcs \cup {tvc}
    /\ ScanEnds(c, TRUE)
    /\ UNCHANGED <<sender, ledger, payee, foreign, rest, overtaken>>

\* Mutant of ScanJson: the branch of a user's code returns early.
ScanJsonHangs(c) ==
    /\ scans[c].phase = "idle"
    /\ Spend("codes")
    /\ ~scannedOnce
    /\ ScanEnds(c, FALSE)
    /\ UNCHANGED <<sender, ledger, tvcs, payee, foreign, settled, clock, overtaken>>

\* A user's code, or other JSON: nothing comes of either, since a user's code
\* is emitted without isScanned.
ScanJson(c) ==
    /\ scans[c].phase = "idle"
    /\ Spend("codes")
    /\ ~scannedOnce
    /\ ScanEnds(c, TRUE)
    /\ UNCHANGED <<sender, ledger, tvcs, payee, foreign, settled, clock, overtaken>>

\* Any other text, or base64 of fewer bytes, throws what the handler does not
\* catch, past the reset.
ScanForeign(c) ==
    /\ scans[c].phase = "idle"
    /\ Spend("codes")
    /\ ~scannedOnce
    /\ ScanEnds(c, FALSE)
    /\ foreign' = TRUE
    /\ UNCHANGED <<sender, ledger, tvcs, payee, settled, clock, overtaken>>

\* The payee closes the scanner and opens it again, with a new bloc.
Reopen ==
    /\ scannedOnce
    /\ Verifying = {}
    /\ scannedOnce' = FALSE
    /\ foreign' = FALSE
    /\ UNCHANGED <<sender, ledger, scans, tvcs, payee, rest, overtaken>>

-----------------------------------------------------------------------------
(* The payee's DataBloc *)

\* The payee's sync is answered: its account was read before any of the listed
\* payments was settled, or after all of them, and the list after that.
PayeeRefresh ==
    /\ Spend("payee")
    /\ \E balance \in Balances, read \in {0, clock + TicksPerSecond} :
         payeeCert' = Issued(Payee, balance, PayeeKey, read)
    /\ listed' \in SUBSET settled
    /\ received' = {}
    /\ half' = FALSE
    /\ UNCHANGED <<sender, ledger, scannedOnce, scans, tvcs, foreign, settled, clock, overtaken>>

\* SubmitTVC takes up a TVC that was handed on.
Handle(tvc) ==
    /\ tvcs' = tvcs \ {tvc}
    /\ UNCHANGED <<sender, ledger, scannedOnce, scans, foreign, received, listed, rest, overtaken>>

IsPending(tvc) == \E m \in received : SameLook(m, tvc)
MayAdopt(tvc) ==
    /\ VerifyTVC(tvc)
    /\ tvc.cert.user = payeeCert.user
    /\ IsListed(tvc) /\ ~IsPending(tvc) /\ ~half
    /\ tvc.cert.time > payeeCert.time

\* A payment the server has listed: the certificate replaces an earlier one.
AdoptTVC(tvc) ==
    /\ MayAdopt(tvc)
    /\ payeeCert' = tvc.cert
    /\ Handle(tvc) /\ UNCHANGED half

\* Any other: a TAM that was scanned is given one TVC of two, in place, and a
\* new entry has one only.  Neither can be saved, and nothing is emitted.
IgnoreTVC(tvc) ==
    /\ ~MayAdopt(tvc)
    /\ half' = (half \/ IsPending(tvc))
    /\ Handle(tvc) /\ UNCHANGED payeeCert

-----------------------------------------------------------------------------

Key == PressDigit \/ PressOperator \/ PressEquals \/ PressClear \/ PressErase
Send(t) == Tap(t) \/ TapRefused(t) \/ Build(t) \/ NotPrimary(t) \/ HandOver(t)
           \/ DropUnverified(t)
Read(c) == Scan(c) \/ ScanTAM(c) \/ ScanTVC(c) \/ ScanJson(c) \/ ScanForeign(c)
Adopt == \E tvc \in tvcs : AdoptTVC(tvc) \/ IgnoreTVC(tvc)

Next ==
    \/ Key \/ Frame \/ Refresh \/ RefreshBetween \/ Flush \/ Reopen
    \/ PayeeRefresh \/ Adopt
    \/ \E tvc \in late : SubmitTVC(tvc)
    \/ \E t \in Taps : Send(t)
    \/ \E c \in Scans : Read(c)

Spec == Init /\ [][Next]_vars

-----------------------------------------------------------------------------
(* Properties *)

\* The display is read as what the next key computes with and a tap of Send
\* takes, with the three losses the code has: the result of "=" has two places
\* (0.125 is read 0.13), an operand loses its fraction (2.5 is read "2+"), and of
\* an operation a tap takes what was typed last (5+3 sends 3).  Nothing else is
\* misread, unless an operation or a negative result was cut by erase, a digit
\* was typed after it, or an infinite operand is pending (_onSendMoneyDigit to
\* _onSendMoneyErase).
ShownIsMeant ==
    \/ pad.text.edited
    \/ pad.operator # NoOperator /\ ~pad.operand.finite
    \/ ReadsAs(pad.text, pad)

\* The payer promises less than the certified balance, unless one of the
\* promises was checked before and signed after something else came in
\* between: another send, a key, an answer of the server, or a frame not yet
\* drawn (the guard of _onSubmitTransfer); or unless, since it was checked, a
\* scanned TVC replaced the certificate by one of a smaller balance (the
\* isAfter of _onSubmitTVC, which looks at no pending payment).
OverdraftIsOvertaken ==
    \/ unsubmitted = {}
    \/ Greater(cert.balance, sentAmount)
    \/ unsubmitted \cap overtaken # {}

\* Every TAM the payer hands over is signed with the key this phone holds, and
\* when its bytes are made anew the server accepts it unless the certificate in
\* it has no signature at all, as that of a payment received has in its TVC.
\* Every TAM the payee records from a code has the payer's bytes.  No TAM is
\* taken for a TVC: what is handed on as one carries the server's signature
\* (toBytes, fromBytes, sign and verify of both sides, SubmitTVC, and
\* QrScannerBloc's fallback from TAM to TVC).
RecordedIsSigned ==
    /\ \A t \in Recorded : /\ sends[t].tam.signature.by = PhoneKey
                           /\ \/ ServerAccepts(Encode("TAM", sends[t].tam))
                              \/ sends[t].tam.cert.signature = Unsigned
    /\ \A m \in received : \E t \in Recorded : Encode("TAM", m) = Encode("TAM", sends[t].tam)
    /\ \A v \in tvcs : VerifyTVC(v)

\* The scanner reads one code at a time and ignores the next only while it
\* reads, unless a code of another application has been held up to it
\* (scannedOnce in _onQrCodeScanned).
ScannerIsReleased ==
    /\ Cardinality(Verifying) <= 1
    /\ scannedOnce => Verifying # {} \/ foreign

\* The certificate a phone keeps verifies with the server's key: it is what the
\* TAMs of the phone carry, and the server refuses a TAM whose certificate does
\* not.  The tests assert it of the certificate in a TVC; a phone that scans the
\* TVC of a payment it received, which its list has and its balance has not,
\* adopts one that the server has not signed (receiverBKVC in sync.go).
CertificateIsSigned == VerifyCert(cert) /\ VerifyCert(payeeCert)
=============================================================================
