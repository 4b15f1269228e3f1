------------------------- MODULE MCStarkStateBridge -------------------------
(* The L1 contracts by themselves: one bridge whose owner may do anything,   *)
(* two identity managers and addresses at which nothing is deployed.         *)
EXTENDS StarkStateBridge, TLC

CONSTANTS zero, b1, b2, m1, m2, core, owner, wallet, starkWorldID, r0, r1, r2

MCEthAddress == {zero, b1, b2, m1, m2, core, owner, wallet}
MCRoot == {r0, r1, r2}
MCManagerRoot == {r1, r2}
MCDeployArgs ==
  {[manager |-> m, starkWorldID |-> a, core |-> c] :
     m \in {zero, m1}, a \in {zero, starkWorldID}, c \in {zero, core}}
MCBridge == {b1}
MCManager == {m1, m2}
MCL2Address == {zero, starkWorldID}
MCExpiryTime == {5}
MCMsgValue == 0..3
MCFeeLimit == {0, 1, 3}
MCNewManager == {zero, m2, wallet}
MCNewCore == {zero, core, wallet}
MCNewL1Bridge == {zero, b2}
MCNewOwner == {zero, owner}
=============================================================================
