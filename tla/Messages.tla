------------------------------ MODULE Messages ------------------------------
(***************************************************************************)
(* The signed messages of a payment and the bytes they travel as: the      *)
(* certificate of a balance and a key (BKVC), the payer's authorization    *)
(* (TAM) and the server's certificate of the settled payment (TVC).        *)
(*                                                                         *)
(* A message in memory has a double and a time in ticks; in the bytes they *)
(* are a float32 and whole seconds.  What is signed is the bytes before    *)
(* the signature, and a signature is known by its key and these bytes.     *)
(* TAM and TVC have the same length and layout; they differ in the first   *)
(* byte, which no decoder looks at and which every signer and verifier     *)
(* sets to its own.                                                        *)
(***************************************************************************)
EXTENDS Amounts

CONSTANTS TicksPerSecond, \* resolution of a Dart DateTime
          ServerKey       \* the server's key

Second(time) == time \div TicksPerSecond
Unsigned == [by |-> "nobody", of |-> "nothing"]

ASSUME MessagesAssumption == TicksPerSecond \in Nat \ {0}

-----------------------------------------------------------------------------
(* BKVC: [user, balance, key, time, signature] *)

CertBody(c) == [type |-> "BKVC", user |-> c.user, balance |-> Float32(c.balance),
                key |-> c.key, second |-> Second(c.time)]
EncodeCert(c) == [body |-> CertBody(c), signature |-> c.signature]
DecodeCert(b) == [user |-> b.body.user, balance |-> b.body.balance, key |-> b.body.key,
                  time |-> b.body.second * TicksPerSecond, signature |-> b.signature]
SignCert(c) == [c EXCEPT !.signature = [by |-> ServerKey, of |-> CertBody(c)]]
VerifyCert(c) == c.signature = [by |-> ServerKey, of |-> CertBody(c)]

-----------------------------------------------------------------------------
(* TAM and TVC: [amount, party, cert, time, signature]; the party is the    *)
(* payee of a TAM and the payer in a TVC.                                   *)

Body(type, m) == [type |-> type, amount |-> Float32(m.amount), party |-> m.party,
                  cert |-> EncodeCert(m.cert), second |-> Second(m.time)]
Encode(type, m) == [body |-> Body(type, m), signature |-> m.signature]
Decode(b) == [amount |-> b.body.amount, party |-> b.body.party,
              cert |-> DecodeCert(b.body.cert),
              time |-> b.body.second * TicksPerSecond, signature |-> b.signature]
SignAs(type, key, m) ==
    [m EXCEPT !.signature = [by |-> key, of |-> Body(type, m)]]
VerifyAs(type, key, m) == m.signature = [by |-> key, of |-> Body(type, m)]

\* The phones verify a TAM with the key its own certificate names.
VerifyTAM(m) == VerifyAs("TAM", m.cert.key, m)
VerifyTVC(m) == VerifyAs("TVC", ServerKey, m)

\* Of a TAM that arrives at POST /v1/sync the server decodes the bytes again
\* and verifies the TAM and the certificate in it.
ServerAccepts(bytes) ==
    LET transaction == Decode(bytes)
    IN  VerifyTAM(transaction) /\ VerifyCert(transaction.cert)
=============================================================================
