------------------------------ MODULE Payments ------------------------------
(***************************************************************************)
(* The vocabulary the server-side modules share.                           *)
(*                                                                         *)
(* A TAM (Transaction Authorization Message) is the cheque a sender signs  *)
(* on the phone: whom it debits, whom it credits and how much.  A TAM is   *)
(* identified with its signature, the column the Transactions table keeps  *)
(* UNIQUE, so a resubmitted TAM is the same member of Tams.                *)
(***************************************************************************)
EXTENDS Integers

CONSTANTS Users,     \* the registered accounts
          Tams,      \* the TAMs that are ever signed
          Sender,    \* the account whose BKVC the TAM embeds
          Receiver,  \* the account the TAM names as payee
          Amount,    \* what it moves, in half cents: see Cents
          Opening    \* the balance each account starts with, in cents

\* The server never checks the sign or the size of an amount, and nothing
\* keeps a phone from naming its own user as the payee.
ASSUME PaymentsAssumption ==
    /\ Sender \in [Tams -> Users]
    /\ Receiver \in [Tams -> Users]
    /\ Amount \in [Tams -> Int]
    /\ Opening \in [Users -> Int]

SelfPayment(t) == Sender[t] = Receiver[t]

(***************************************************************************)
(* A TAM carries its amount as a float32, which need not be a number of    *)
(* cents; balances are NUMERIC(15, 2).  A float32 is a binary fraction and *)
(* reaches the database without loss, so `balance - $1` and `balance + $1` *)
(* are exact, and each is rounded when it is stored, halves away from      *)
(* zero.  Of an amount that only tells the nearest cent, or the two cents  *)
(* it is half-way between: amounts are counted in half cents, an odd one   *)
(* being half-way.  (NaN and the infinities are left out.)                 *)
(***************************************************************************)
Cents(halves) == IF halves >= 0 THEN (halves + 1) \div 2 ELSE -((1 - halves) \div 2)

Debited(cents, halves) == Cents(2 * cents - halves)
Credited(cents, halves) == Cents(2 * cents + halves)

\* The two balances a transfer changes, each rounded by itself.
Transfer(balance, t) ==
    [balance EXCEPT ![Sender[t]] = Debited(@, Amount[t]),
                    ![Receiver[t]] = Credited(@, Amount[t])]
=============================================================================
