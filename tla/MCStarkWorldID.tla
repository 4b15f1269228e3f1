--------------------------- MODULE MCStarkWorldID ---------------------------
(* A small StarkWorldID: two bridges, the zero root and two others, two       *)
(* expiries besides the constructor's, a handful of blocks.                   *)
EXTENDS StarkWorldID

CONSTANTS zero, bridge, newBridge, r0, r1, r2

MCEthAddress == {zero, bridge, newBridge}
MCRoot == {r0, r1, r2}
MCExpiryTime == {0, 1, 3}
MCTreeDepth == {15, 16, 33}
=============================================================================
