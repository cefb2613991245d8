----------------------------- MODULE MCLifecycle -----------------------------
(* Small instances of Lifecycle for TLC. *)
EXTENDS Lifecycle, TLC

\* Ports are interchangeable; slugs are ordered, and one instance is imported.
Symmetry == Permutations(Ports)
=============================================================================
