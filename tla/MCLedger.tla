------------------------------ MODULE MCLedger ------------------------------
(* Instances of Ledger for TLC. *)
EXTENDS LedgerService, TLC

CONSTANTS ann, bob, cat,       \* users
          ab, ba, aa, xx,        \* TAMs, named sender and receiver
          r1, r2, r3           \* requests

MCSender == (ab :> ann) @@ (ba :> bob) @@ (aa :> ann) @@ (xx :> bob)
MCReceiver == (ab :> bob) @@ (ba :> ann) @@ (aa :> ann) @@ (xx :> ann)
\* In half cents: ab moves half a cent more than one, which credits two and
\* debits one.
MCAmount == (ab :> 3) @@ (ba :> 4) @@ (aa :> 16) @@ (xx :> 32)

MCSenderOf == [t \in Tams |-> MCSender[t]]
MCReceiverOf == [t \in Tams |-> MCReceiver[t]]
MCAmountOf == [t \in Tams |-> MCAmount[t]]
MCOpening == [u \in Users |-> 10]

MCCaller == (r1 :> ann) @@ (r2 :> bob) @@ (r3 :> cat)
MCCallerOf == [r \in Requests |-> MCCaller[r]]

\* Retries: the same TAM in two requests and twice in one, a TAM the INSERT
\* refuses or a malformed one in front of a good one, opposite payments, and
\* an empty batch.
MCRetries == (r1 :> {<<ba, ab>>, <<ab, ab>>, <<xx, ab>>})
             @@ (r2 :> {<<ab>>, <<ba, ab>>, <<aa, ab>>, <<>>})
RetryBatches == [r \in Requests |-> MCRetries[r]]

\* Opposite payments, one of them submitted by two requests: two can wait on
\* each other's rows while the third waits for a connection.
OppositeBatches == (r1 :> {<<ab>>}) @@ (r2 :> {<<ba>>}) @@ (r3 :> {<<ba, ab>>})
=============================================================================
