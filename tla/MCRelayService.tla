--------------------------- MODULE MCRelayService ---------------------------
(* One bridge, one identity manager, and the relay between them.             *)
EXTENDS RelayService

CONSTANTS zero, b1, m1, core, owner, starkWorldID, r0, r1, r2, r3

MCEthAddress == {zero, b1, m1, core, owner}
MCBridge == {b1}
MCManager == {m1}
MCL2Address == {zero, starkWorldID}
MCRoot == {r0, r1, r2, r3}
ThreeRoots == {r1, r2, r3}
MCDeployArgs == {[manager |-> m1, starkWorldID |-> starkWorldID, core |-> core]}
MCOwner == {owner}
MCTreeDepth == {30}
Nothing == {}
LowFee == {1}
HighFee == {1, 9}
Never == {FALSE}

\* Roots are interchangeable: nothing is lost by fixing the first one and by
\* having r2 before r3.
MCServiceInit == ServiceInit /\ latestRoot[m1] = r1
RootOrder == latestRoot[m1] = r1 => latestRoot'[m1] # r3
\* The third root comes while nothing has failed yet; faults may follow it.
ThirdBeforeFaults == latestRoot[m1] # r3 /\ latestRoot'[m1] = r3 => faults = 0
\* Fee limits move with the two roots before it.
LimitsBeforeThird == bridge' # bridge => latestRoot[m1] # r3
MCServiceNext == ServiceNext /\ RootOrder /\ ThirdBeforeFaults /\ LimitsBeforeThird
MCServiceSpec == MCServiceInit /\ [][MCServiceNext]_allVars
MCFairServiceSpec == MCServiceSpec /\ ServiceFairness
=============================================================================
