---------------------------- MODULE WorldIDBridge ----------------------------
(***************************************************************************)
(* The two chains together: the L1 contracts of StarkStateBridge, the L2     *)
(* contract of StarkWorldID, and Starknet's sequencer, which takes the       *)
(* pending messages of the core contract and runs their L1 handlers.         *)
(*                                                                          *)
(* The sequencer is outside the repository.  It runs a handler with the      *)
(* sender the core contract recorded; a handler that panics has no effect,   *)
(* and its message is given up.  InOrder says whether messages are taken in  *)
(* the order of their nonces; if not, a message may also stay pending while  *)
(* later ones overtake it, one whose handler panics now included.            *)
(***************************************************************************)
EXTENDS StarkStateBridge

CONSTANTS
  InOrder,             \* BOOLEAN
  StarkWorldIDAddress, \* where the L2 contract is deployed
  InitialL1Owner,      \* its constructor's argument
  OutsiderMessage,     \* [account, selector, payload]: messages of other L1 accounts
  ONE_WEEK, TreeDepth, StartTime, MaxTime

ASSUME WorldIDBridgeAssumption ==
  /\ InOrder \in BOOLEAN
  /\ StarkWorldIDAddress \in L2Address \ {ZeroAddress}
  /\ InitialL1Owner \in EthAddress
  /\ OutsiderMessage \subseteq [account : EthAddress \ Bridge, selector : Selector,
                                payload : Payload]
  /\ ExpiryTime \subseteq Nat
  /\ ONE_WEEK \in Nat
  /\ TreeDepth \subseteq Nat
  /\ StartTime \in Nat \ {0}
  /\ MaxTime \in Nat

VARIABLES
  l1_owner, tree_depth, root_history_expiry, latest_root, root_history, now,
  executed    \* history: the messages whose handler ran to its end

l2Vars == <<l1_owner, tree_depth, root_history_expiry, latest_root, root_history, now>>
vars == <<l1Vars, l2Vars, executed>>

L2 == INSTANCE StarkWorldID

-----------------------------------------------------------------------------
Init ==
  /\ L1Init
  /\ L2!Init
  /\ l1_owner = InitialL1Owner
  /\ executed = {}

\* The messages the sequencer may take now.
Takes(h) ==
  /\ h \in Core!Pending
  /\ InOrder => \A g \in Core!Pending : h.nonce <= g.nonce

\* The entry point the selector names, which deserializes its argument from the
\* payload and panics if a word is missing, left over or out of range.
Calls(h, selector, words, Argument) ==
  /\ h.toAddress = StarkWorldIDAddress
  /\ h.selector = selector
  /\ h.payload.words = words
  /\ h.payload.value \in Argument

\* Mutant: the selectors of the two administrative handlers are swapped.
Handler_swapped(h) ==
  \/ /\ Calls(h, HANDLE_RECEIVE_ROOT_SELECTOR, 2, Root)
     /\ L2!receive_root(h.fromAddress, h.payload.value)
  \/ /\ Calls(h, HANDLE_SET_ROOT_HISTORY_EXPIRY_SELECTOR, 1, ExpiryTime)
     /\ L2!change_l1_state_bridge_address(h.fromAddress, h.payload.value)
  \/ /\ Calls(h, HANDLE_CHANGE_L1_STATE_BRIDGE_ADDRESS_SELECTOR, 1, EthAddress)
     /\ L2!set_root_history_expiry(h.fromAddress, h.payload.value)

Handler(h) ==
  \/ /\ Calls(h, HANDLE_RECEIVE_ROOT_SELECTOR, 2, Root)
     /\ L2!receive_root(h.fromAddress, h.payload.value)
  \/ /\ Calls(h, HANDLE_SET_ROOT_HISTORY_EXPIRY_SELECTOR, 1, ExpiryTime)
     /\ L2!set_root_history_expiry(h.fromAddress, h.payload.value)
  \/ /\ Calls(h, HANDLE_CHANGE_L1_STATE_BRIDGE_ADDRESS_SELECTOR, 1, EthAddress)
     /\ L2!change_l1_state_bridge_address(h.fromAddress, h.payload.value)

Execute(h) ==
  /\ Takes(h)
  /\ Handler(h)
  /\ Core!consumeMessageToL2(h)
  /\ executed' = executed \cup {h}
  /\ UNCHANGED <<bridge, latestRoot, published>>

\* No assert on the way of the handler fails.
Runs(h) ==
  /\ L2!only_cross_domain_owner(h.fromAddress)
  /\ \/ /\ Calls(h, HANDLE_RECEIVE_ROOT_SELECTOR, 2, Root)
        /\ root_history[h.payload.value] = L2!NULL_ROOT_TIME
     \/ Calls(h, HANDLE_SET_ROOT_HISTORY_EXPIRY_SELECTOR, 1, ExpiryTime)
     \/ Calls(h, HANDLE_CHANGE_L1_STATE_BRIDGE_ADDRESS_SELECTOR, 1, EthAddress \ {ZeroAddress})

Reject(h) ==
  /\ Takes(h)
  /\ ~Runs(h)
  /\ Core!consumeMessageToL2(h)
  /\ UNCHANGED <<bridge, latestRoot, published, l2Vars, executed>>

Sequencer == \E h \in DOMAIN l1ToL2Messages : Execute(h) \/ Reject(h)

\* The core contract serves any account that pays.
Outsider ==
  \E m \in OutsiderMessage, value \in MsgValue :
    /\ Core!sendMessageToL2(m.account, StarkWorldIDAddress, m.selector, m.payload, value)
    /\ UNCHANGED <<bridge, latestRoot, published, l2Vars, executed>>

Next ==
  \/ L1Next /\ UNCHANGED <<l2Vars, executed>>
  \/ Outsider
  \/ Sequencer
  \/ L2!NextBlock /\ UNCHANGED <<l1Vars, executed>>

Spec == Init /\ [][Next]_vars

\* The sequencer takes a message sooner or later; nobody has to propagate.
FairSpec == Spec /\ WF_vars(Sequencer)

-----------------------------------------------------------------------------
(* Properties *)

IsRoot(h) == h.selector = HANDLE_RECEIVE_ROOT_SELECTOR
IsHandover(h) == h.selector = HANDLE_CHANGE_L1_STATE_BRIDGE_ADDRESS_SELECTOR

\* The addresses that have been owner of the L2 contract so far.
Owners == {InitialL1Owner} \cup {h.payload.value : h \in {g \in executed : IsHandover(g)}}

TypeOK ==
  /\ L1TypeOK
  /\ L2!TypeOK
  /\ executed \subseteq DOMAIN l1ToL2Messages

\* The roots on L2 are those of the root messages executed, each of them
\* executed once however often it was sent, none of them pending any more, and
\* all of them sent by an address that was owner at some time.
HistoryMatchesMessages ==
  /\ \A r \in Root : L2!Received(r) <=>
       \E h \in executed : IsRoot(h) /\ h.payload.value = r
  /\ \A g, h \in executed : IsRoot(g) /\ IsRoot(h) /\ g.payload.value = h.payload.value
                              => g = h
  /\ \A h \in executed : h \notin Core!Pending /\ h.fromAddress \in Owners
  /\ l1_owner \in Owners

\* As long as authority over the L2 contract never left the bridges, every root
\* it accepts as known was the latest root of a configured identity manager.
RootsAreAuthentic ==
  Owners \subseteq Bridge => \A r \in Root : L2!Received(r) => r \in published

\* The L2 contract changes only by executing one pending message, addressed to
\* it and sent by the address that is its owner at that moment.
OnlyOwnersMessagesAct ==
  [][UNCHANGED L2!contractVars \/
     \E h \in Core!Pending :
       /\ h \notin Core!Pending'
       /\ h.fromAddress = l1_owner
       /\ h.toAddress = StarkWorldIDAddress]_vars

\* What a bridge in charge sends is understood: taking its root message leaves the
\* root received, and taking its change of the L1 bridge makes the successor owner.
OwnersMessageTakesEffect ==
  [][\A h \in Core!Pending \ Core!Pending' :
       h.fromAddress = l1_owner /\ l1_owner \in Bridge /\ h.toAddress = StarkWorldIDAddress =>
         /\ IsRoot(h) => L2!Received(h.payload.value)'
         /\ IsHandover(h) => l1_owner' = h.payload.value]_vars

\* What authority over the L2 contract can make it take: published roots, or any
\* at all once somebody who is no bridge was made its owner.
Publishable == IF Owners \subseteq Bridge THEN published ELSE Root

\* The bridge implements the abstract mirror.
Mirror == INSTANCE RootMirror
            WITH published <- Publishable,
                 mirrored <- {r \in Root : L2!Received(r)}, latest <- latest_root
ImplementsRootMirror == Mirror!Spec

\* With messages taken in order and roots that never return: when nothing is
\* pending, the latest root on L2 is the last one a bridge sent.
QuiescentInSync ==
  Core!Pending = {} =>
    LET sent == {h \in DOMAIN l1ToL2Messages : IsRoot(h) /\ h.fromAddress \in Bridge}
    IN  \A h \in sent : (\A g \in sent : g.nonce <= h.nonce) => latest_root = h.payload.value

\* A root that is the latest on L1 when a bridge has it under way becomes the
\* latest on L2, unless L1 moves on before.
CurrentRootArrives ==
  \A r \in ManagerRoot :
    (/\ r \in Current(bridge, latestRoot)
     /\ \E h \in Core!Pending : /\ IsRoot(h) /\ h.fromAddress \in Bridge
                                /\ h.payload.value = r)
      ~> (latest_root = r \/ r \notin Current(bridge, latestRoot))

\* A change of the L1 bridge sent by the bridge in charge takes effect.
HandoverCompletes ==
  \A b \in Bridge :
    (/\ l1_owner = b
     /\ \E h \in Core!Pending : /\ IsHandover(h) /\ h.fromAddress = b
                                /\ h.toAddress = StarkWorldIDAddress
                                /\ h.payload.value # b)
      ~> (l1_owner # b)

\* What setRootHistoryExpiry is for: a new expiry sent by the bridge in charge
\* becomes the expiry on L2, unless another message changes it or the owner.
NewExpiryArrives ==
  \A e \in ExpiryTime :
    (\E h \in Core!Pending : /\ h.selector = HANDLE_SET_ROOT_HISTORY_EXPIRY_SELECTOR
                             /\ h.fromAddress = l1_owner
                             /\ h.toAddress = StarkWorldIDAddress
                             /\ h.payload.value = e)
      ~> (root_history_expiry = e \/ l1_owner # InitialL1Owner)
=============================================================================
