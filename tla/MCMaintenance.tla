---------------------------- MODULE MCMaintenance ----------------------------
(* Small instances of Maintenance for TLC. *)
EXTENDS Maintenance

CONSTANTS i, j, p1

\* What an instance without a saved policy has; no interval and no window; an
\* interval with a window to put restarts off; players are not asked for.
Unset == [every |-> 0, defer |-> TRUE, max |-> 2]
Off == [every |-> 0, defer |-> TRUE, max |-> 0]
Patient == [every |-> 1, defer |-> TRUE, max |-> 2]
Strict == [every |-> 2, defer |-> FALSE, max |-> 0]

AllPolicies == {Off, Patient, Strict}
SomePolicies == {Patient, Strict}
=============================================================================
