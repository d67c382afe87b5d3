------------------------------ MODULE MCLogin ------------------------------
(* Instances of Login for TLC: two logins of the user, two confirmations   *)
(* and one with an email nobody has.                                       *)
EXTENDS Login

CONSTANTS p1, p2, p3, c1, c2, x
=============================================================================
