-------------------------- MODULE StarkStateBridge --------------------------
(***************************************************************************)
(* The L1 contract StarkStateBridge, with the two contracts it calls: the    *)
(* WorldID identity managers it reads roots from and the Starknet core       *)
(* contract it hands messages to.  Several bridges may exist, because a      *)
(* bridge can pass its authority over the L2 contract to a successor.        *)
(*                                                                          *)
(* A call either runs to its end or reverts and changes nothing, so every    *)
(* external function is one action guarded by all its reverts.               *)
(***************************************************************************)
EXTENDS Integers

CONSTANTS
  EthAddress, ZeroAddress,
  Bridge,              \* the deployed StarkStateBridge contracts
  Manager,             \* addresses where an identity manager is deployed
  StarknetCore,        \* the address of the Starknet core contract
  L2Address,           \* felt252 addresses on Starknet, ZeroAddress among them
  Root, ZeroRoot,      \* u256 values, the 0 among them
  ManagerRoot,         \* those an identity manager may publish
  RootsMayReturn,      \* may a manager publish a root it has published before?
  ExpiryTime,
  MsgValue, FeeLimit,  \* amounts of wei
  DEFAULT_STARK_FEE_LIMIT, MAX_L1_MSG_FEE,
  MaxNonce,            \* bound on the number of messages
  (* inputs of the constructor and of the administrative functions *)
  DeployArgs,          \* records [manager, starkWorldID, core]
  NewManager, NewStarkWorldID, NewCore, NewL1Bridge, NewOwner

ASSUME StarkStateBridgeAssumption ==
  /\ Bridge \cup Manager \cup {ZeroAddress, StarknetCore} \subseteq EthAddress
  /\ ZeroAddress \notin Bridge \cup Manager \cup {StarknetCore}
  /\ ZeroAddress \in L2Address
  /\ ManagerRoot \subseteq Root /\ ZeroRoot \in Root \ ManagerRoot
  /\ RootsMayReturn \in BOOLEAN
  /\ MsgValue \subseteq Nat /\ FeeLimit \subseteq Nat
  /\ DEFAULT_STARK_FEE_LIMIT \in Nat \ {0}
  /\ MAX_L1_MSG_FEE \in Nat
  /\ MaxNonce \in Nat
  /\ DeployArgs \subseteq [manager : EthAddress, starkWorldID : L2Address, core : EthAddress]
  /\ NewManager \cup NewCore \cup NewL1Bridge \cup NewOwner \subseteq EthAddress
  /\ NewStarkWorldID \subseteq L2Address

VARIABLES
  bridge,          \* bridge -> its storage
  latestRoot,      \* identity manager -> its latestRoot()
  nonce,           \* the core contract: see StarknetMessaging
  l1ToL2Messages,
  published        \* history: what a configured manager has had as latest root

l1Vars == <<bridge, latestRoot, nonce, l1ToL2Messages, published>>

HANDLE_RECEIVE_ROOT_SELECTOR == "receive_root"
HANDLE_SET_ROOT_HISTORY_EXPIRY_SELECTOR == "set_root_history_expiry"
HANDLE_CHANGE_L1_STATE_BRIDGE_ADDRESS_SELECTOR == "change_l1_state_bridge_address"

\* Mutants: a root in one word, an address in two.
uint256Payload_one_word(value) == [words |-> 1, value |-> value]
addressPayload_two_words(address) == [words |-> 2, value |-> address]

\* The payloads: a uint256 travels as its low and its high half, an address as
\* one word.
uint256Payload(value) == [words |-> 2, value |-> value]
addressPayload(address) == [words |-> 1, value |-> address]

Selector == {HANDLE_RECEIVE_ROOT_SELECTOR, HANDLE_SET_ROOT_HISTORY_EXPIRY_SELECTOR,
             HANDLE_CHANGE_L1_STATE_BRIDGE_ADDRESS_SELECTOR}
Payload == [words : 1..2, value : Root \cup ExpiryTime \cup EthAddress]

\* A bridge has no function that cancels a message, so the cancellation half of
\* the core contract stays as it was deployed.
Core == INSTANCE StarknetMessaging
          WITH messageCancellationDelay <- 0, MAX_UINT256 <- 0, MaxTimestamp <- 1,
               l1ToL2MessageCancellations <- <<>>, block_timestamp <- 1, canceled <- {}

-----------------------------------------------------------------------------
constructor(deployer, args) ==
  [owner |-> deployer,
   worldIDIdentityManager |-> args.manager,
   starkWorldIDAddress |-> args.starkWorldID,
   starknetCoreContract |-> args.core,
   feeLimitPropagateRoot |-> DEFAULT_STARK_FEE_LIMIT,
   feeLimitSetRootHistoryExpiry |-> DEFAULT_STARK_FEE_LIMIT,
   feeLimitTransferOwnership |-> DEFAULT_STARK_FEE_LIMIT]

\* The constructor's AddressZero check; the core contract is not checked.
Deployable(args) == args.manager # ZeroAddress /\ args.starkWorldID # ZeroAddress

\* The test that makes a payable function revert with ExceededFeeLimit.
ExceededFeeLimit(value, limit) == value >= limit

onlyOwner(b, sender) == sender = bridge[b].owner

\* The roots the configured managers stand at.
Current(config, roots) ==
  {roots[config[b].worldIDIdentityManager] :
     b \in {c \in Bridge : config[c].worldIDIdentityManager \in Manager}}

L1Init ==
  /\ \E deployer \in NewOwner \ {ZeroAddress} :
       bridge \in [Bridge -> {constructor(deployer, args) :
                                args \in {a \in DeployArgs : Deployable(a)}}]
  /\ latestRoot \in [Manager -> ManagerRoot]
  /\ nonce = 0
  /\ l1ToL2Messages = <<>>
  /\ published = Current(bridge, latestRoot)

\* The call to the core contract.  An address without that contract's code makes
\* the call, and with it the whole transaction, revert.
SendToL2(b, selector, payload, value) ==
  /\ bridge[b].starknetCoreContract = StarknetCore
  /\ Core!sendMessageToL2(b, bridge[b].starkWorldIDAddress, selector, payload, value)
  /\ UNCHANGED <<bridge, latestRoot, published>>

-----------------------------------------------------------------------------
(* Public API *)

\* Mutant: measures the value against another function's limit.
propagateRoot_other_limit(b, value) ==
  /\ ~ExceededFeeLimit(value, bridge[b].feeLimitTransferOwnership)
  /\ bridge[b].worldIDIdentityManager \in Manager
  /\ SendToL2(b, HANDLE_RECEIVE_ROOT_SELECTOR,
              uint256Payload(latestRoot[bridge[b].worldIDIdentityManager]), value)

\* Mutant: the root is not read from the configured manager.
propagateRoot_any_manager(b, value) ==
  /\ ~ExceededFeeLimit(value, bridge[b].feeLimitPropagateRoot)
  /\ \E m \in Manager :
       SendToL2(b, HANDLE_RECEIVE_ROOT_SELECTOR, uint256Payload(latestRoot[m]), value)

propagateRoot(b, value) ==
  /\ ~ExceededFeeLimit(value, bridge[b].feeLimitPropagateRoot)
  /\ bridge[b].worldIDIdentityManager \in Manager
  /\ SendToL2(b, HANDLE_RECEIVE_ROOT_SELECTOR,
              uint256Payload(latestRoot[bridge[b].worldIDIdentityManager]), value)

changeL1StateBridgeAddress(b, sender, newL1StateBridgeAddress, value) ==
  /\ onlyOwner(b, sender)
  /\ ~ExceededFeeLimit(value, bridge[b].feeLimitTransferOwnership)
  /\ newL1StateBridgeAddress # ZeroAddress
  /\ SendToL2(b, HANDLE_CHANGE_L1_STATE_BRIDGE_ADDRESS_SELECTOR,
              addressPayload(newL1StateBridgeAddress), value)

setRootHistoryExpiry(b, sender, _rootHistoryExpiry, value) ==
  /\ onlyOwner(b, sender)
  /\ ~ExceededFeeLimit(value, bridge[b].feeLimitSetRootHistoryExpiry)
  /\ SendToL2(b, HANDLE_SET_ROOT_HISTORY_EXPIRY_SELECTOR,
              uint256Payload(_rootHistoryExpiry), value)

-----------------------------------------------------------------------------
(* Fee limits and addresses: each function writes one field of the storage *)

Administer(b, storage) ==
  /\ bridge' = [bridge EXCEPT ![b] = storage]
  /\ published' = published \cup Current(bridge', latestRoot)
  /\ UNCHANGED <<latestRoot, nonce, l1ToL2Messages>>

setFeeLimitPropagateRoot(b, sender, _starkFeeLimit) ==
  /\ onlyOwner(b, sender)
  /\ _starkFeeLimit > 0
  /\ Administer(b, [bridge[b] EXCEPT !.feeLimitPropagateRoot = _starkFeeLimit])

setFeeLimitSetRootHistoryExpiry(b, sender, _starkFeeLimit) ==
  /\ onlyOwner(b, sender)
  /\ _starkFeeLimit > 0
  /\ Administer(b, [bridge[b] EXCEPT !.feeLimitSetRootHistoryExpiry = _starkFeeLimit])

setFeeLimitTransferOwnership(b, sender, _starkFeeLimit) ==
  /\ onlyOwner(b, sender)
  /\ _starkFeeLimit > 0
  /\ Administer(b, [bridge[b] EXCEPT !.feeLimitTransferOwnership = _starkFeeLimit])

setWorldIDIdentityManager(b, sender, _worldIDIdentityManager) ==
  /\ onlyOwner(b, sender)
  /\ _worldIDIdentityManager # ZeroAddress
  /\ Administer(b, [bridge[b] EXCEPT !.worldIDIdentityManager = _worldIDIdentityManager])

\* Mutant: the zero check is left out.
setStarkWorldIDAddress_zero_unchecked(b, sender, _starkWorldIDAddress) ==
  /\ onlyOwner(b, sender)
  /\ Administer(b, [bridge[b] EXCEPT !.starkWorldIDAddress = _starkWorldIDAddress])

setStarkWorldIDAddress(b, sender, _starkWorldIDAddress) ==
  /\ onlyOwner(b, sender)
  /\ _starkWorldIDAddress # ZeroAddress
  /\ Administer(b, [bridge[b] EXCEPT !.starkWorldIDAddress = _starkWorldIDAddress])

setStarknetCoreContract(b, sender, _starknetCoreContract) ==
  /\ onlyOwner(b, sender)
  /\ _starknetCoreContract # ZeroAddress
  /\ Administer(b, [bridge[b] EXCEPT !.starknetCoreContract = _starknetCoreContract])

-----------------------------------------------------------------------------
(* Outside the repository: OpenZeppelin's Ownable and the identity manager *)

transferOwnership(b, sender, newOwner) ==
  /\ onlyOwner(b, sender)
  /\ newOwner # ZeroAddress
  /\ Administer(b, [bridge[b] EXCEPT !.owner = newOwner])

\* Only in the instances whose owners may give the address 0 away.
renounceOwnership(b, sender) ==
  /\ onlyOwner(b, sender)
  /\ ZeroAddress \in NewOwner
  /\ Administer(b, [bridge[b] EXCEPT !.owner = ZeroAddress])

updateIdentities(m, root) ==
  /\ root # latestRoot[m]
  /\ RootsMayReturn \/ root \notin published
  /\ latestRoot' = [latestRoot EXCEPT ![m] = root]
  /\ published' = published \cup Current(bridge, latestRoot')
  /\ UNCHANGED <<bridge, nonce, l1ToL2Messages>>

-----------------------------------------------------------------------------
Propagate ==
  \E b \in Bridge, value \in MsgValue : propagateRoot(b, value)

\* Calls of a bridge's owner; no other sender gets past onlyOwner, and address
\* 0 sends no transaction.
Own(b, sender) ==
  \/ \E a \in NewL1Bridge, value \in MsgValue :
       changeL1StateBridgeAddress(b, sender, a, value)
  \/ \E e \in ExpiryTime, value \in MsgValue : setRootHistoryExpiry(b, sender, e, value)
  \/ \E limit \in FeeLimit :
       \/ setFeeLimitPropagateRoot(b, sender, limit)
       \/ setFeeLimitSetRootHistoryExpiry(b, sender, limit)
       \/ setFeeLimitTransferOwnership(b, sender, limit)
  \/ \E a \in NewManager : setWorldIDIdentityManager(b, sender, a)
  \/ \E a \in NewStarkWorldID : setStarkWorldIDAddress(b, sender, a)
  \/ \E a \in NewCore : setStarknetCoreContract(b, sender, a)
  \/ \E a \in NewOwner : transferOwnership(b, sender, a)
  \/ renounceOwnership(b, sender)

L1Next ==
  \/ Propagate
  \/ \E b \in Bridge, sender \in NewOwner \ {ZeroAddress} : Own(b, sender)
  \/ \E m \in Manager, root \in ManagerRoot : updateIdentities(m, root)

L1Spec == L1Init /\ [][L1Next]_l1Vars

-----------------------------------------------------------------------------
(* Properties *)

BridgeStorage ==
  [owner : EthAddress, worldIDIdentityManager : EthAddress \ {ZeroAddress},
   starkWorldIDAddress : L2Address \ {ZeroAddress}, starknetCoreContract : EthAddress,
   feeLimitPropagateRoot : Nat \ {0}, feeLimitSetRootHistoryExpiry : Nat \ {0},
   feeLimitTransferOwnership : Nat \ {0}]

L1TypeOK ==
  /\ bridge \in [Bridge -> BridgeStorage]
  /\ latestRoot \in [Manager -> ManagerRoot]
  /\ nonce \in Nat
  /\ DOMAIN l1ToL2Messages \subseteq Core!Hash
  /\ l1ToL2Messages \in [DOMAIN l1ToL2Messages -> Nat]
  /\ published \subseteq ManagerRoot

\* Every root a bridge ever put in a message was the latest root of an identity
\* manager the owner had configured, at the time or before.
OnlyPublishedRootsAreSent ==
  \A h \in DOMAIN l1ToL2Messages :
    h.fromAddress \in Bridge /\ h.selector = HANDLE_RECEIVE_ROOT_SELECTOR
      => h.payload.value \in published

\* The limit a bridge's owner has set for one kind of message.
OwnLimit(b, selector) ==
  CASE selector = HANDLE_RECEIVE_ROOT_SELECTOR -> bridge[b].feeLimitPropagateRoot
    [] selector = HANDLE_SET_ROOT_HISTORY_EXPIRY_SELECTOR ->
         bridge[b].feeLimitSetRootHistoryExpiry
    [] OTHER -> bridge[b].feeLimitTransferOwnership

\* A bridge pays for a message less than the limit its owner set for that kind
\* of message, whatever the other limits are.
FeeBelowOwnLimit ==
  [][\A h \in DOMAIN l1ToL2Messages' \ DOMAIN l1ToL2Messages :
       \A b \in Bridge : h.fromAddress = b =>
         l1ToL2Messages'[h] - 1 < OwnLimit(b, h.selector)]_l1Vars
=============================================================================
