---------------------------- MODULE KeyRegistry ----------------------------
(***************************************************************************)
(* What the Keys table promises about one user's keys: every key goes from *)
(* unused to active to retired and never back, one key is active at a      *)
(* time, and a user has two keys at most.  Login implements this.          *)
(***************************************************************************)
CONSTANTS Keys, NoKey

VARIABLES active,   \* the key certificates are issued for
          retired   \* the key that was active before it

vars == <<active, retired>>

Init ==
    /\ active = NoKey
    /\ retired = NoKey

Activate(k) ==
    /\ active = NoKey
    /\ k # retired
    /\ active' = k
    /\ UNCHANGED retired

Retire ==
    /\ active # NoKey
    /\ retired = NoKey
    /\ retired' = active
    /\ active' = NoKey

Next == Retire \/ \E k \in Keys : Activate(k)

Spec == Init /\ [][Next]_vars
=============================================================================
