-------------------------- MODULE MCWorldIDBridge --------------------------
(* Small instances of WorldIDBridge.  The addresses are the same in every    *)
(* configuration; what the owners and other accounts may do differs.         *)
EXTENDS WorldIDBridge, TLC

CONSTANTS zero, b1, b2, m1, m2, core, owner, outsider, starkWorldID, placeholder,
          r0, r1, r2, r3, forged

MCEthAddress == {zero, b1, b2, m1, m2, core, owner, outsider}
OneBridge == {b1}
TwoBridges == {b1, b2}
OneManager == {m1}
TwoManagers == {m1, m2}
MCL2Address == {zero, starkWorldID, placeholder}
MCRoot == {r0, r1, r2, r3, forged}
TwoRoots == {r1, r2}
ThreeRoots == {r1, r2, r3}
OneExpiry == {5}
OneFee == {1}
Nothing == {}
OwnerOnly == {owner}
MCTreeDepth == {30}

\* The bridge as the deployment script leaves it, linked to the L2 contract.
Linked == {[manager |-> m1, starkWorldID |-> starkWorldID, core |-> core]}
\* The same before the script has linked it: the L2 address is a placeholder.
Unlinked == {[manager |-> m1, starkWorldID |-> placeholder, core |-> core]}
\* Its successor, which serves another identity manager.
Succeeding == {[manager |-> m2, starkWorldID |-> starkWorldID, core |-> core]}
BeforeAndAfter == Unlinked \cup Succeeding
LinkTo == {starkWorldID}

Successors == {b2, outsider}

\* An account that is no bridge may send anything, with either number of words.
OutsiderMessages ==
  {[account |-> outsider, selector |-> HANDLE_RECEIVE_ROOT_SELECTOR,
    payload |-> uint256Payload(forged)],
   [account |-> outsider, selector |-> HANDLE_SET_ROOT_HISTORY_EXPIRY_SELECTOR,
    payload |-> [words |-> 1, value |-> 5]],
   [account |-> outsider, selector |-> HANDLE_CHANGE_L1_STATE_BRIDGE_ADDRESS_SELECTOR,
    payload |-> addressPayload(outsider)]}

\* Roots are interchangeable: nothing is lost by fixing the first one.
FirstRoot == Init /\ latestRoot[m1] = r1
FairFirstRootSpec == FirstRoot /\ [][Next]_vars /\ WF_vars(Sequencer)

\* The first bridge is not linked yet, its successor is deployed linked and with
\* the other manager.
Handover ==
  /\ FirstRoot
  /\ bridge[b1].worldIDIdentityManager = m1
  /\ bridge[b2].worldIDIdentityManager = m2
FairHandoverSpec == Handover /\ [][Next]_vars /\ WF_vars(Sequencer)
=============================================================================
