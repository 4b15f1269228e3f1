------------------------ MODULE MCStarknetMessaging ------------------------
(* Two callers who may send the very same message to one L2 contract.        *)
EXTENDS StarknetMessaging, TLC

CONSTANTS bridge, other, starkWorldID, receive_root, rootA

MCEthAddress == {bridge, other}
MCL2Address == {starkWorldID}
MCSelector == {receive_root}
MCPayload == {rootA}
MCMsgValue == {0, 1, 2, 3}
=============================================================================
