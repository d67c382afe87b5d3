------------------------------ MODULE MCClient ------------------------------
(* Payments of one phone: two it makes, two it receives. *)
EXTENDS Client, TLC

CONSTANTS pay1, pay2, get1, get2

\* Every payment has a second or an amount of its own.
MCApart == pay1 :> 1 @@ pay2 :> 2 @@ get1 :> 3 @@ get2 :> 4
\* The two payments received are of the same amount in the same second.
MCTwins == pay1 :> 1 @@ pay2 :> 2 @@ get1 :> 3 @@ get2 :> 3

\* The syncs are interchangeable.
SyncSymmetry == Permutations(Syncs)

=============================================================================
