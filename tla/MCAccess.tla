------------------------------- MODULE MCAccess -------------------------------
\* Three names, each a key of its own: one more than the limiter remembers.
EXTENDS Access, TLC

CONSTANTS ann, bob, eve, k1, k2, k3

SomeKey == ann :> k1 @@ bob :> k2 @@ eve :> k3
=============================================================================
