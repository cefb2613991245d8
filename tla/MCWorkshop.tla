------------------------------ MODULE MCWorkshop ------------------------------
\* Requests, image types and maps are only told apart.
EXTENDS Workshop, TLC

CONSTANTS w1, w2, w3, png, jpg, m1, m2

Symmetry == Permutations({w1, w2, w3}) \cup Permutations({png, jpg}) \cup Permutations({m1, m2})
=============================================================================
