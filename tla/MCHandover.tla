----------------------------- MODULE MCHandover -----------------------------
(* An instance of Handover for TLC: two taps, two codes and a few keys. *)
EXTENDS Handover

CONSTANTS s1, s2, c1, c2

Budget(keys, taps, answers, between, payee_, codes) ==
    [keys |-> keys, taps |-> taps, answers |-> answers, between |-> between,
     payee |-> payee_, codes |-> codes]

\* Five keys alone; two sends among two keys and an answer; two sends of one
\* digit, an answer and two codes; two sends around an answer with a payment
\* settled in between; and one send, an answer to either phone and two codes.
InstanceBudgets ==
    {Budget(5, 0, 0, 0, 0, 0), Budget(2, 2, 1, 0, 0, 0), Budget(1, 2, 1, 0, 0, 2),
     Budget(1, 2, 0, 1, 0, 0), Budget(1, 1, 1, 0, 1, 2)}
=============================================================================
