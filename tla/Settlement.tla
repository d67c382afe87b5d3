----------------------------- MODULE Settlement -----------------------------
(***************************************************************************)
(* What the ledger promises, with no requests, locks or failures in it: a  *)
(* TAM is settled at most once, and settling it moves its amount from the  *)
(* sender to the receiver in a single step.  Ledger implements this.       *)
(***************************************************************************)
EXTENDS Payments

VARIABLES balance,   \* the balance of every account
          settled    \* the TAMs whose amount has been moved

vars == <<balance, settled>>

Init ==
    /\ balance = Opening
    /\ settled = {}

Settle(t) ==
    /\ t \notin settled
    /\ ~SelfPayment(t)
    /\ balance' = Transfer(balance, t)
    /\ settled' = settled \cup {t}

Next == \E t \in Tams : Settle(t)

Spec == Init /\ [][Next]_vars
=============================================================================
