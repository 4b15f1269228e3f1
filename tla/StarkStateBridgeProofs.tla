----------------------- MODULE StarkStateBridgeProofs -----------------------
(* Theorems about the L1 contracts, for every set of bridges, managers, roots  *)
(* and fees and whatever the owners do.                                       *)
EXTENDS StarkStateBridge, TLAPS

\* Every nonce in use is behind the counter, so the next message is a new one.
NoncesUsed == \A h \in DOMAIN l1ToL2Messages : h.nonce < nonce

\* The root propagateRoot would read now counts as published.
CurrentIsPublished == Current(bridge, latestRoot) \subseteq published

L1IInv == L1TypeOK /\ NoncesUsed /\ CurrentIsPublished /\ OnlyPublishedRootsAreSent

LEMMA CurrentIsRoot ==
  ASSUME NEW config, NEW roots \in [Manager -> ManagerRoot]
  PROVE  Current(config, roots) \subseteq ManagerRoot
  BY DEF Current

\* What a message adds to the mapping: one slot, not written before.
LEMMA MessageSent ==
  ASSUME L1IInv, NEW sender \in EthAddress, NEW to \in L2Address, NEW s \in Selector,
         NEW p \in Payload, NEW value \in MsgValue,
         Core!sendMessageToL2(sender, to, s, p, value)
  PROVE  LET h == Core!getL1ToL2MsgHash(sender, to, s, p, nonce) IN
         /\ h \in Core!Hash /\ h \notin DOMAIN l1ToL2Messages
         /\ h.fromAddress = sender /\ h.toAddress = to /\ h.nonce = nonce
         /\ h.selector = s /\ h.payload = p
         /\ nonce' = nonce + 1
         /\ DOMAIN l1ToL2Messages' = DOMAIN l1ToL2Messages \cup {h}
         /\ l1ToL2Messages' \in [DOMAIN l1ToL2Messages' -> Nat]
         /\ l1ToL2Messages'[h] = value + 1
         /\ \A g \in DOMAIN l1ToL2Messages : l1ToL2Messages'[g] = l1ToL2Messages[g]
<1>. DEFINE h == Core!getL1ToL2MsgHash(sender, to, s, p, nonce)
<1>1. /\ h \in Core!Hash
      /\ h.fromAddress = sender /\ h.toAddress = to /\ h.nonce = nonce
      /\ h.selector = s /\ h.payload = p
  BY DEF Core!getL1ToL2MsgHash, Core!Hash, L1IInv, L1TypeOK
<1>2. h \notin DOMAIN l1ToL2Messages
  BY <1>1 DEF L1IInv, L1TypeOK, NoncesUsed
<1>3. /\ nonce' = nonce + 1
      /\ l1ToL2Messages' = Core!Written(l1ToL2Messages, h, value + 1)
  BY DEF Core!sendMessageToL2
<1>4. value + 1 \in Nat /\ l1ToL2Messages \in [DOMAIN l1ToL2Messages -> Nat]
  BY StarkStateBridgeAssumption DEF L1IInv, L1TypeOK
<1>. HIDE DEF h
<1>5. /\ DOMAIN l1ToL2Messages' = DOMAIN l1ToL2Messages \cup {h}
      /\ l1ToL2Messages' \in [DOMAIN l1ToL2Messages' -> Nat]
      /\ l1ToL2Messages'[h] = value + 1
      /\ \A g \in DOMAIN l1ToL2Messages : l1ToL2Messages'[g] = l1ToL2Messages[g]
  BY <1>2, <1>3, <1>4 DEF Core!Written
<1>. QED  BY <1>1, <1>2, <1>3, <1>5 DEF h

\* What it leaves alone: every slot written before.
LEMMA OtherSlotsKept ==
  ASSUME L1IInv, NEW sender \in EthAddress, NEW to \in L2Address, NEW s \in Selector,
         NEW p \in Payload, NEW value \in MsgValue,
         Core!sendMessageToL2(sender, to, s, p, value)
  PROVE  /\ DOMAIN l1ToL2Messages \subseteq DOMAIN l1ToL2Messages'
         /\ \A g \in DOMAIN l1ToL2Messages : l1ToL2Messages'[g] = l1ToL2Messages[g]
<1>. DEFINE h == Core!getL1ToL2MsgHash(sender, to, s, p, nonce)
<1>1. /\ DOMAIN l1ToL2Messages' = DOMAIN l1ToL2Messages \cup {h}
      /\ \A g \in DOMAIN l1ToL2Messages : l1ToL2Messages'[g] = l1ToL2Messages[g]
  BY MessageSent
<1>. HIDE DEF h
<1>. QED  BY <1>1

\* Sending any message whose root, if a bridge sends one, is published.
LEMMA SendIInv ==
  ASSUME L1IInv, NEW sender \in EthAddress, NEW to \in L2Address, NEW s \in Selector,
         NEW p \in Payload, NEW value \in MsgValue,
         Core!sendMessageToL2(sender, to, s, p, value),
         UNCHANGED <<bridge, latestRoot, published>>,
         sender \in Bridge /\ s = HANDLE_RECEIVE_ROOT_SELECTOR => p.value \in published
  PROVE  L1IInv'
<1>. DEFINE h == Core!getL1ToL2MsgHash(sender, to, s, p, nonce)
<1>1. /\ h \in Core!Hash
      /\ h.fromAddress = sender /\ h.nonce = nonce /\ h.selector = s /\ h.payload = p
      /\ nonce' = nonce + 1
      /\ DOMAIN l1ToL2Messages' = DOMAIN l1ToL2Messages \cup {h}
      /\ l1ToL2Messages' \in [DOMAIN l1ToL2Messages' -> Nat]
  BY MessageSent
<1>. HIDE DEF h
<1>2. L1TypeOK'
  BY <1>1 DEF L1IInv, L1TypeOK
<1>3. NoncesUsed'
  <2>1. \A g \in DOMAIN l1ToL2Messages : g.nonce \in Nat
    BY DEF L1IInv, L1TypeOK, Core!Hash
  <2>. QED  BY <1>1, <2>1 DEF L1IInv, L1TypeOK, NoncesUsed
<1>4. CurrentIsPublished' /\ OnlyPublishedRootsAreSent'
  BY <1>1 DEF L1IInv, CurrentIsPublished, OnlyPublishedRootsAreSent, Current
<1>. QED  BY <1>2, <1>3, <1>4 DEF L1IInv

\* The three messages a bridge sends.
LEMMA BridgeSendsIInv ==
  ASSUME L1IInv, NEW b \in Bridge, NEW s \in Selector, NEW p \in Payload,
         NEW value \in MsgValue, SendToL2(b, s, p, value),
         s = HANDLE_RECEIVE_ROOT_SELECTOR => p.value \in published
  PROVE  L1IInv'
<1>1. b \in EthAddress /\ bridge[b].starkWorldIDAddress \in L2Address
  BY StarkStateBridgeAssumption DEF L1IInv, L1TypeOK, BridgeStorage
<1>. QED  BY <1>1, SendIInv DEF SendToL2

LEMMA PropagateIInv ==
  ASSUME L1IInv, NEW b \in Bridge, NEW value \in MsgValue, propagateRoot(b, value)
  PROVE  L1IInv'
<1>. DEFINE root == latestRoot[bridge[b].worldIDIdentityManager]
<1>1. root \in published
  BY DEF propagateRoot, L1IInv, CurrentIsPublished, Current
<1>2. uint256Payload(root) \in Payload /\ uint256Payload(root).value = root
  BY <1>1, StarkStateBridgeAssumption DEF L1IInv, L1TypeOK, uint256Payload, Payload
<1>3. HANDLE_RECEIVE_ROOT_SELECTOR \in Selector
  BY DEF Selector
<1>4. SendToL2(b, HANDLE_RECEIVE_ROOT_SELECTOR, uint256Payload(root), value)
  BY DEF propagateRoot
<1>. QED  BY <1>1, <1>2, <1>3, <1>4, BridgeSendsIInv

\* An administrative function writes one well-typed field.
LEMMA AdministerIInv ==
  ASSUME L1IInv, NEW b \in Bridge, NEW storage \in BridgeStorage, Administer(b, storage)
  PROVE  L1IInv'
<1>1. bridge' \in [Bridge -> BridgeStorage]
  BY DEF Administer, L1IInv, L1TypeOK
<1>2. /\ published' = published \cup Current(bridge', latestRoot)
      /\ UNCHANGED <<latestRoot, nonce, l1ToL2Messages>>
  BY DEF Administer
<1>3. published' \subseteq ManagerRoot
  BY <1>2, CurrentIsRoot DEF L1IInv, L1TypeOK
<1>4. L1TypeOK'
  BY <1>1, <1>2, <1>3 DEF L1IInv, L1TypeOK
<1>5. NoncesUsed' /\ OnlyPublishedRootsAreSent'
  BY <1>2 DEF L1IInv, NoncesUsed, OnlyPublishedRootsAreSent
<1>6. CurrentIsPublished'
  BY <1>2 DEF CurrentIsPublished, Current
<1>. QED  BY <1>4, <1>5, <1>6 DEF L1IInv

LEMMA OwnIInv ==
  ASSUME L1IInv, NEW b \in Bridge, NEW sender \in NewOwner, Own(b, sender)
  PROVE  L1IInv'
<1>. bridge[b] \in BridgeStorage
  BY DEF L1IInv, L1TypeOK
<1>1. ASSUME NEW a \in NewL1Bridge, NEW value \in MsgValue,
             changeL1StateBridgeAddress(b, sender, a, value)
      PROVE  L1IInv'
  <2>1. addressPayload(a) \in Payload /\ HANDLE_CHANGE_L1_STATE_BRIDGE_ADDRESS_SELECTOR \in Selector
    BY StarkStateBridgeAssumption DEF addressPayload, Payload, Selector
  <2>2. SendToL2(b, HANDLE_CHANGE_L1_STATE_BRIDGE_ADDRESS_SELECTOR, addressPayload(a), value)
    BY <1>1 DEF changeL1StateBridgeAddress
  <2>3. HANDLE_CHANGE_L1_STATE_BRIDGE_ADDRESS_SELECTOR # HANDLE_RECEIVE_ROOT_SELECTOR
    BY DEF HANDLE_CHANGE_L1_STATE_BRIDGE_ADDRESS_SELECTOR, HANDLE_RECEIVE_ROOT_SELECTOR
  <2>. QED  BY <2>1, <2>2, <2>3, BridgeSendsIInv
<1>2. ASSUME NEW e \in ExpiryTime, NEW value \in MsgValue,
             setRootHistoryExpiry(b, sender, e, value)
      PROVE  L1IInv'
  <2>1. uint256Payload(e) \in Payload /\ HANDLE_SET_ROOT_HISTORY_EXPIRY_SELECTOR \in Selector
    BY DEF uint256Payload, Payload, Selector
  <2>2. SendToL2(b, HANDLE_SET_ROOT_HISTORY_EXPIRY_SELECTOR, uint256Payload(e), value)
    BY <1>2 DEF setRootHistoryExpiry
  <2>3. HANDLE_SET_ROOT_HISTORY_EXPIRY_SELECTOR # HANDLE_RECEIVE_ROOT_SELECTOR
    BY DEF HANDLE_SET_ROOT_HISTORY_EXPIRY_SELECTOR, HANDLE_RECEIVE_ROOT_SELECTOR
  <2>. QED  BY <2>1, <2>2, <2>3, BridgeSendsIInv
<1>3. ASSUME NEW limit \in FeeLimit,
             \/ setFeeLimitPropagateRoot(b, sender, limit)
             \/ setFeeLimitSetRootHistoryExpiry(b, sender, limit)
             \/ setFeeLimitTransferOwnership(b, sender, limit)
      PROVE  L1IInv'
  <2>1. limit \in Nat
    BY StarkStateBridgeAssumption
  <2>2. CASE setFeeLimitPropagateRoot(b, sender, limit)
    BY <2>1, <2>2, AdministerIInv DEF setFeeLimitPropagateRoot, BridgeStorage
  <2>3. CASE setFeeLimitSetRootHistoryExpiry(b, sender, limit)
    BY <2>1, <2>3, AdministerIInv DEF setFeeLimitSetRootHistoryExpiry, BridgeStorage
  <2>4. CASE setFeeLimitTransferOwnership(b, sender, limit)
    BY <2>1, <2>4, AdministerIInv DEF setFeeLimitTransferOwnership, BridgeStorage
  <2>. QED  BY <1>3, <2>2, <2>3, <2>4
<1>4. ASSUME NEW a \in NewManager, setWorldIDIdentityManager(b, sender, a)
      PROVE  L1IInv'
  BY <1>4, AdministerIInv, StarkStateBridgeAssumption
     DEF setWorldIDIdentityManager, BridgeStorage
<1>5. ASSUME NEW a \in NewStarkWorldID, setStarkWorldIDAddress(b, sender, a)
      PROVE  L1IInv'
  BY <1>5, AdministerIInv, StarkStateBridgeAssumption
     DEF setStarkWorldIDAddress, BridgeStorage
<1>6. ASSUME NEW a \in NewCore, setStarknetCoreContract(b, sender, a)
      PROVE  L1IInv'
  BY <1>6, AdministerIInv, StarkStateBridgeAssumption
     DEF setStarknetCoreContract, BridgeStorage
<1>7. ASSUME NEW a \in NewOwner,
             transferOwnership(b, sender, a) \/ renounceOwnership(b, sender)
      PROVE  L1IInv'
  BY <1>7, AdministerIInv, StarkStateBridgeAssumption
     DEF transferOwnership, renounceOwnership, BridgeStorage
<1>. QED  BY <1>1, <1>2, <1>3, <1>4, <1>5, <1>6, <1>7 DEF Own

LEMMA UpdateIInv ==
  ASSUME L1IInv, NEW m \in Manager, NEW root \in ManagerRoot, updateIdentities(m, root)
  PROVE  L1IInv'
<1>1. latestRoot' \in [Manager -> ManagerRoot]
  BY DEF updateIdentities, L1IInv, L1TypeOK
<1>2. /\ published' = published \cup Current(bridge, latestRoot')
      /\ UNCHANGED <<bridge, nonce, l1ToL2Messages>>
  BY DEF updateIdentities
<1>3. published' \subseteq ManagerRoot
  BY <1>1, <1>2, CurrentIsRoot DEF L1IInv, L1TypeOK
<1>4. L1TypeOK'
  BY <1>1, <1>2, <1>3 DEF L1IInv, L1TypeOK
<1>5. NoncesUsed' /\ OnlyPublishedRootsAreSent'
  BY <1>2 DEF L1IInv, NoncesUsed, OnlyPublishedRootsAreSent
<1>6. CurrentIsPublished'
  BY <1>2 DEF CurrentIsPublished, Current
<1>. QED  BY <1>4, <1>5, <1>6 DEF L1IInv

\* The constructors' states satisfy the invariant.
LEMMA L1InitIInv == L1Init => L1IInv
<1>. SUFFICES ASSUME L1Init PROVE L1IInv
  OBVIOUS
<1>1. DOMAIN l1ToL2Messages = {}
  BY DEF L1Init
<1>2. PICK deployer \in NewOwner \ {ZeroAddress} :
        bridge \in [Bridge -> {constructor(deployer, args) :
                                 args \in {a \in DeployArgs : Deployable(a)}}]
  BY DEF L1Init
<1>3. \A args \in DeployArgs : Deployable(args) => constructor(deployer, args) \in BridgeStorage
  BY <1>2, StarkStateBridgeAssumption DEF Deployable, constructor, BridgeStorage
<1>4. bridge \in [Bridge -> BridgeStorage]
  BY <1>2, <1>3
<1>5. published \subseteq ManagerRoot
  BY CurrentIsRoot DEF L1Init
<1>6. L1TypeOK
  BY <1>1, <1>4, <1>5 DEF L1Init, L1TypeOK
<1>7. NoncesUsed /\ CurrentIsPublished /\ OnlyPublishedRootsAreSent
  BY <1>1 DEF L1Init, NoncesUsed, CurrentIsPublished, OnlyPublishedRootsAreSent
<1>. QED  BY <1>6, <1>7 DEF L1IInv

LEMMA L1NextIInv == L1IInv /\ [L1Next]_l1Vars => L1IInv'
<1>. SUFFICES ASSUME L1IInv, [L1Next]_l1Vars PROVE L1IInv'
  OBVIOUS
<1>1. ASSUME Propagate PROVE L1IInv'
  BY <1>1, PropagateIInv DEF Propagate
<1>2. ASSUME NEW b \in Bridge, NEW sender \in NewOwner \ {ZeroAddress}, Own(b, sender)
      PROVE  L1IInv'
  BY <1>2, OwnIInv
<1>3. ASSUME NEW m \in Manager, NEW root \in ManagerRoot, updateIdentities(m, root)
      PROVE  L1IInv'
  BY <1>3, UpdateIInv
<1>4. CASE UNCHANGED l1Vars
  BY <1>4 DEF l1Vars, L1IInv, L1TypeOK, NoncesUsed, CurrentIsPublished, Current,
              OnlyPublishedRootsAreSent
<1>. QED  BY <1>1, <1>2, <1>3, <1>4 DEF L1Next

\* The L1 contracts' storage keeps its types: neither the manager nor the L2
\* address nor a fee limit is ever 0.
THEOREM L1TypeCorrect == L1Spec => []L1TypeOK
<1>. L1IInv => L1TypeOK  BY DEF L1IInv
<1>. QED  BY L1InitIInv, L1NextIInv, PTL DEF L1Spec

\* A bridge never sends a root that no configured identity manager ever had.
THEOREM OnlyPublishedRootsAreSentCorrect == L1Spec => []OnlyPublishedRootsAreSent
<1>. L1IInv => OnlyPublishedRootsAreSent  BY DEF L1IInv
<1>. QED  BY L1InitIInv, L1NextIInv, PTL DEF L1Spec

-----------------------------------------------------------------------------
\* What a send adds to the mapping, seen from the messages that are new.
LEMMA NewMessage ==
  ASSUME L1IInv, NEW sender \in EthAddress, NEW to \in L2Address, NEW s \in Selector,
         NEW p \in Payload, NEW value \in MsgValue,
         Core!sendMessageToL2(sender, to, s, p, value)
  PROVE  \A h \in DOMAIN l1ToL2Messages' \ DOMAIN l1ToL2Messages :
           /\ h.fromAddress = sender /\ h.toAddress = to /\ h.nonce = nonce
           /\ h.selector = s /\ h.payload = p
           /\ l1ToL2Messages'[h] = value + 1
<1>. DEFINE g == Core!getL1ToL2MsgHash(sender, to, s, p, nonce)
<1>1. /\ DOMAIN l1ToL2Messages' = DOMAIN l1ToL2Messages \cup {g}
      /\ g.fromAddress = sender /\ g.toAddress = to /\ g.nonce = nonce
      /\ g.selector = s /\ g.payload = p
  BY MessageSent
<1>2. l1ToL2Messages' = Core!Written(l1ToL2Messages, g, value + 1)
  BY DEF Core!sendMessageToL2
<1>. HIDE DEF g
<1>3. l1ToL2Messages'[g] = value + 1
  BY <1>2 DEF Core!Written
<1>. QED  BY <1>1, <1>3

\* What a bridge sends, and for how much: the root of its manager, a new expiry, or
\* a successor other than address 0, each below the limit of its own kind.
Sends(b, s, p, value) ==
  /\ SendToL2(b, s, p, value)
  /\ value < OwnLimit(b, s)
  /\ s = HANDLE_RECEIVE_ROOT_SELECTOR =>
       /\ bridge[b].worldIDIdentityManager \in Manager
       /\ p = uint256Payload(latestRoot[bridge[b].worldIDIdentityManager])
  /\ s = HANDLE_CHANGE_L1_STATE_BRIDGE_ADDRESS_SELECTOR =>
       p \in [words : {1}, value : NewL1Bridge \ {ZeroAddress}]

\* A step of the L1 contracts sends one such message or none.
LEMMA L1Sends ==
  ASSUME L1IInv, L1Next
  PROVE  \/ UNCHANGED <<nonce, l1ToL2Messages>>
         \/ \E b \in Bridge, s \in Selector, p \in Payload, value \in MsgValue :
              Sends(b, s, p, value)
<1>. DEFINE Some == \E b \in Bridge, s \in Selector, p \in Payload, value \in MsgValue :
                      Sends(b, s, p, value)
<1>. USE DEF HANDLE_RECEIVE_ROOT_SELECTOR, HANDLE_SET_ROOT_HISTORY_EXPIRY_SELECTOR,
             HANDLE_CHANGE_L1_STATE_BRIDGE_ADDRESS_SELECTOR
<1>1. \A b \in Bridge : bridge[b] \in BridgeStorage
  BY DEF L1IInv, L1TypeOK
<1>2. \A value \in MsgValue : value \in Nat
  BY StarkStateBridgeAssumption
<1>3. ASSUME NEW b \in Bridge, NEW value \in MsgValue, propagateRoot(b, value)
      PROVE  Some
  <2>. DEFINE p == uint256Payload(latestRoot[bridge[b].worldIDIdentityManager])
  <2>1. p \in Payload
    BY <1>3, StarkStateBridgeAssumption
       DEF propagateRoot, L1IInv, L1TypeOK, uint256Payload, Payload
  <2>2. value < OwnLimit(b, HANDLE_RECEIVE_ROOT_SELECTOR)
    BY <1>1, <1>2, <1>3 DEF propagateRoot, ExceededFeeLimit, OwnLimit, BridgeStorage
  <2>3. Sends(b, HANDLE_RECEIVE_ROOT_SELECTOR, p, value)
    BY <1>3, <2>2 DEF propagateRoot, Sends
  <2>. QED  BY <2>1, <2>3 DEF Selector
<1>4. ASSUME NEW b \in Bridge, NEW sender, NEW a \in NewL1Bridge, NEW value \in MsgValue,
             changeL1StateBridgeAddress(b, sender, a, value)
      PROVE  Some
  <2>1. /\ addressPayload(a) \in Payload
        /\ addressPayload(a) \in [words : {1}, value : {a}]
    BY StarkStateBridgeAssumption DEF addressPayload, Payload
  <2>2. value < OwnLimit(b, HANDLE_CHANGE_L1_STATE_BRIDGE_ADDRESS_SELECTOR)
    BY <1>1, <1>2, <1>4
       DEF changeL1StateBridgeAddress, ExceededFeeLimit, OwnLimit, BridgeStorage
  <2>3. Sends(b, HANDLE_CHANGE_L1_STATE_BRIDGE_ADDRESS_SELECTOR, addressPayload(a), value)
    BY <1>4, <2>1, <2>2 DEF changeL1StateBridgeAddress, Sends
  <2>. QED  BY <2>1, <2>3 DEF Selector
<1>5. ASSUME NEW b \in Bridge, NEW sender, NEW e \in ExpiryTime, NEW value \in MsgValue,
             setRootHistoryExpiry(b, sender, e, value)
      PROVE  Some
  <2>1. uint256Payload(e) \in Payload
    BY DEF uint256Payload, Payload
  <2>2. value < OwnLimit(b, HANDLE_SET_ROOT_HISTORY_EXPIRY_SELECTOR)
    BY <1>1, <1>2, <1>5 DEF setRootHistoryExpiry, ExceededFeeLimit, OwnLimit, BridgeStorage
  <2>3. Sends(b, HANDLE_SET_ROOT_HISTORY_EXPIRY_SELECTOR, uint256Payload(e), value)
    BY <1>5, <2>2 DEF setRootHistoryExpiry, Sends
  <2>. QED  BY <2>1, <2>3 DEF Selector
<1>6. ASSUME NEW b \in Bridge, NEW sender, Own(b, sender)
      PROVE  UNCHANGED <<nonce, l1ToL2Messages>> \/ Some
  BY <1>4, <1>5, <1>6
     DEF Own, Administer, setFeeLimitPropagateRoot, setFeeLimitSetRootHistoryExpiry,
         setFeeLimitTransferOwnership, setWorldIDIdentityManager, setStarkWorldIDAddress,
         setStarknetCoreContract, transferOwnership, renounceOwnership
<1>7. ASSUME NEW m \in Manager, NEW root \in ManagerRoot, updateIdentities(m, root)
      PROVE  UNCHANGED <<nonce, l1ToL2Messages>>
  BY <1>7 DEF updateIdentities
<1>. QED  BY <1>3, <1>6, <1>7 DEF L1Next, Propagate

\* The message a bridge sends, seen from the messages that are new.
LEMMA BridgeMessage ==
  ASSUME L1IInv, NEW b \in Bridge, NEW s \in Selector, NEW p \in Payload,
         NEW value \in MsgValue, SendToL2(b, s, p, value)
  PROVE  \A h \in DOMAIN l1ToL2Messages' \ DOMAIN l1ToL2Messages :
           /\ h.fromAddress = b /\ h.toAddress = bridge[b].starkWorldIDAddress
           /\ h.nonce = nonce /\ h.selector = s /\ h.payload = p
           /\ l1ToL2Messages'[h] = value + 1
<1>1. b \in EthAddress /\ bridge[b].starkWorldIDAddress \in L2Address
  BY StarkStateBridgeAssumption DEF L1IInv, L1TypeOK, BridgeStorage
<1>. QED  BY <1>1, NewMessage DEF SendToL2

\* The three functions that send compare the value with the limit of their own kind
\* of message.
LEMMA FeeStep ==
  ASSUME L1IInv, [L1Next]_l1Vars
  PROVE  \A h \in DOMAIN l1ToL2Messages' \ DOMAIN l1ToL2Messages :
           \A b \in Bridge : h.fromAddress = b =>
             l1ToL2Messages'[h] - 1 < OwnLimit(b, h.selector)
<1>1. ASSUME NEW b \in Bridge, NEW s \in Selector, NEW p \in Payload, NEW value \in MsgValue,
             Sends(b, s, p, value),
             NEW h \in DOMAIN l1ToL2Messages' \ DOMAIN l1ToL2Messages
      PROVE  h.fromAddress = b /\ l1ToL2Messages'[h] - 1 < OwnLimit(b, h.selector)
  <2>1. h.fromAddress = b /\ h.selector = s /\ l1ToL2Messages'[h] = value + 1
    BY <1>1, BridgeMessage DEF Sends
  <2>2. l1ToL2Messages'[h] - 1 = value
    BY <2>1, StarkStateBridgeAssumption
  <2>. QED  BY <1>1, <2>1, <2>2 DEF Sends
<1>2. CASE UNCHANGED l1ToL2Messages
  BY <1>2
<1>3. CASE L1Next
  BY <1>1, <1>2, <1>3, L1Sends
<1>. QED  BY <1>2, <1>3 DEF l1Vars

\* No function of a bridge measures its fee against another function's limit.
THEOREM FeeBelowOwnLimitCorrect == L1Spec => FeeBelowOwnLimit
<1>1. L1IInv /\ [L1Next]_l1Vars =>
        \A h \in DOMAIN l1ToL2Messages' \ DOMAIN l1ToL2Messages :
          \A b \in Bridge : h.fromAddress = b =>
            l1ToL2Messages'[h] - 1 < OwnLimit(b, h.selector)
  BY FeeStep
<1>. QED  BY <1>1, L1InitIInv, L1NextIInv, PTL DEF L1Spec, FeeBelowOwnLimit
=============================================================================
