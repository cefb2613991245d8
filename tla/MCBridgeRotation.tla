--------------------------- MODULE MCBridgeRotation ---------------------------
(* Small instances of BridgeRotation for TLC. *)
EXTENDS BridgeRotation

CONSTANTS x, y, z, i, j

\* i was created before j.
InOrder == [id \in Ids |-> IF id = j THEN Ids \ {j} ELSE {}]

\* An empty rotation, and two maps that take turns.
SomeCycles == {<<>>, <<y, z>>}
OneCycle == {<<y, z>>}
OneMap == {<<y>>}
=============================================================================
