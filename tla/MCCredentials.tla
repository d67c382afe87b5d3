--------------------------- MODULE MCCredentials ---------------------------
(* Instances of Credentials for TLC: the requests each run has. *)
EXTENDS Credentials

CONSTANTS g1, g2, n1, v1, v2,     \* register, resend, verify
          q1, t1, t2, h1,         \* recover, reset, change
          e1, e2, f1, f2, d1, l1, \* enable, confirm, disable, log out
          w1, w2                  \* passwords

\* A code to verify with: two registrations, a resend, two verifications.
CodeMix == {g1, g2, n1, v1, v2}
\* The password: a recovery, two resets, a change.
PasswordMix == {g2, v2, q1, t1, t2, h1}
\* The second factor: enabled and confirmed twice, disabled, and a logout.
FactorMix == {g2, v2, e1, e2, f1, f2, d1, l1}
InstanceMixes == {CodeMix, PasswordMix, FactorMix}
=============================================================================
