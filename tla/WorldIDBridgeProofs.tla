------------------------- MODULE WorldIDBridgeProofs -------------------------
(* Theorems about the two chains together, for every set of bridges, roots and *)
(* messages, whether or not messages are taken in order, and whatever other    *)
(* accounts send.                                                             *)
EXTENDS WorldIDBridge, StarkStateBridgeProofs

\* What the L1 log of messages and the L2 storage must agree on for the log to
\* account for the storage.
Log ==
  /\ root_history \in [Root -> Nat]
  /\ now \in Nat /\ now # 0
  /\ executed \subseteq DOMAIN l1ToL2Messages
  /\ \A h \in executed : IsRoot(h) => h.payload.value \in Root

IInv == L1IInv /\ Log /\ HistoryMatchesMessages

LEMMA SelectorsDiffer ==
  /\ HANDLE_RECEIVE_ROOT_SELECTOR # HANDLE_SET_ROOT_HISTORY_EXPIRY_SELECTOR
  /\ HANDLE_RECEIVE_ROOT_SELECTOR # HANDLE_CHANGE_L1_STATE_BRIDGE_ADDRESS_SELECTOR
  /\ HANDLE_SET_ROOT_HISTORY_EXPIRY_SELECTOR # HANDLE_CHANGE_L1_STATE_BRIDGE_ADDRESS_SELECTOR
  BY DEF HANDLE_RECEIVE_ROOT_SELECTOR, HANDLE_SET_ROOT_HISTORY_EXPIRY_SELECTOR,
         HANDLE_CHANGE_L1_STATE_BRIDGE_ADDRESS_SELECTOR

\* No step takes an owner off the list.
LEMMA OwnersGrow == executed \subseteq executed' => Owners \subseteq Owners'
  BY DEF Owners

\* At first nothing was received and nothing executed.
LEMMA InitIInv == Init => IInv
<1>. SUFFICES ASSUME Init PROVE IInv
  OBVIOUS
<1>1. L1IInv
  BY L1InitIInv DEF Init
<1>2. Log
  BY WorldIDBridgeAssumption DEF Init, Log, L2!Init, L2!NULL_ROOT_TIME
<1>3. HistoryMatchesMessages
  BY DEF Init, L2!Init, HistoryMatchesMessages, L2!Received, L2!NULL_ROOT_TIME, Owners
<1>. QED  BY <1>1, <1>2, <1>3 DEF IInv

\* A step that sends messages or changes the L1 contracts leaves the agreement
\* alone: it clears no slot and writes none that was executed.
LEMMA L1StepAgrees ==
  ASSUME IInv, L1IInv', UNCHANGED <<l2Vars, executed>>,
         DOMAIN l1ToL2Messages \subseteq DOMAIN l1ToL2Messages',
         \A g \in DOMAIN l1ToL2Messages : l1ToL2Messages'[g] = l1ToL2Messages[g]
  PROVE  IInv'
<1>1. UNCHANGED <<l1_owner, root_history, now, executed>>
  BY DEF l2Vars
<1>2. Log'
  BY <1>1 DEF IInv, Log, IsRoot
<1>3. \A h \in executed' : h \notin Core!Pending'
  BY <1>1 DEF IInv, Log, HistoryMatchesMessages, Core!Pending
<1>4. HistoryMatchesMessages'
  BY <1>1, <1>3 DEF IInv, HistoryMatchesMessages, L2!Received, L2!NULL_ROOT_TIME, Owners,
                    IsRoot, IsHandover
<1>. QED  BY <1>2, <1>4 DEF IInv

\* Every message sent by an L1 step goes to a fresh slot.
LEMMA SlotsKept ==
  ASSUME L1IInv, L1Next
  PROVE  /\ DOMAIN l1ToL2Messages \subseteq DOMAIN l1ToL2Messages'
         /\ \A g \in DOMAIN l1ToL2Messages : l1ToL2Messages'[g] = l1ToL2Messages[g]
<1>1. ASSUME NEW b \in Bridge, NEW s \in Selector, NEW p \in Payload, NEW value \in MsgValue,
             SendToL2(b, s, p, value)
      PROVE  /\ DOMAIN l1ToL2Messages \subseteq DOMAIN l1ToL2Messages'
             /\ \A g \in DOMAIN l1ToL2Messages : l1ToL2Messages'[g] = l1ToL2Messages[g]
  <2>1. b \in EthAddress /\ bridge[b].starkWorldIDAddress \in L2Address
    BY StarkStateBridgeAssumption DEF L1IInv, L1TypeOK, BridgeStorage
  <2>. QED  BY <1>1, <2>1, OtherSlotsKept DEF SendToL2
<1>. QED  BY <1>1, L1Sends DEF Sends

\* A message of another account is no root of a bridge.
LEMMA OutsiderIInv ==
  ASSUME IInv, Outsider
  PROVE  IInv'
<1>1. PICK m \in OutsiderMessage, value \in MsgValue :
        /\ Core!sendMessageToL2(m.account, StarkWorldIDAddress, m.selector, m.payload, value)
        /\ UNCHANGED <<bridge, latestRoot, published, l2Vars, executed>>
  BY DEF Outsider
<1>2. /\ m.account \in EthAddress /\ m.account \notin Bridge
      /\ m.selector \in Selector /\ m.payload \in Payload /\ StarkWorldIDAddress \in L2Address
  BY WorldIDBridgeAssumption
<1>3. L1IInv'
  BY <1>1, <1>2, SendIInv DEF IInv
<1>4. /\ DOMAIN l1ToL2Messages \subseteq DOMAIN l1ToL2Messages'
      /\ \A g \in DOMAIN l1ToL2Messages : l1ToL2Messages'[g] = l1ToL2Messages[g]
  BY <1>1, <1>2, OtherSlotsKept DEF IInv
<1>. QED  BY <1>1, <1>3, <1>4, L1StepAgrees

\* Taking a message clears its slot and nothing else on L1.
LEMMA Consumed ==
  ASSUME IInv, NEW h \in DOMAIN l1ToL2Messages, Core!consumeMessageToL2(h),
         UNCHANGED <<bridge, latestRoot, published>>
  PROVE  /\ L1IInv'
         /\ DOMAIN l1ToL2Messages' = DOMAIN l1ToL2Messages
         /\ h \in Core!Pending
         /\ Core!Pending' = Core!Pending \ {h}
<1>1. /\ l1ToL2Messages' = Core!Written(l1ToL2Messages, h, 0)
      /\ nonce' = nonce
      /\ h \in Core!Pending
  BY DEF Core!consumeMessageToL2
<1>2. l1ToL2Messages \in [DOMAIN l1ToL2Messages -> Nat]
  BY DEF IInv, L1IInv, L1TypeOK
<1>3. /\ DOMAIN l1ToL2Messages' = DOMAIN l1ToL2Messages
      /\ l1ToL2Messages' \in [DOMAIN l1ToL2Messages' -> Nat]
      /\ \A g \in DOMAIN l1ToL2Messages :
           l1ToL2Messages'[g] = IF g = h THEN 0 ELSE l1ToL2Messages[g]
  BY <1>1, <1>2 DEF Core!Written
<1>4. Core!Pending' = Core!Pending \ {h}
  BY <1>2, <1>3 DEF Core!Pending
<1>5. L1IInv'
  BY <1>1, <1>3 DEF IInv, L1IInv, L1TypeOK, NoncesUsed, CurrentIsPublished, Current,
                    OnlyPublishedRootsAreSent
<1>. QED  BY <1>1, <1>3, <1>4, <1>5

\* A message whose handler panics changes nothing on L2.
LEMMA RejectIInv ==
  ASSUME IInv, NEW h \in DOMAIN l1ToL2Messages, Reject(h)
  PROVE  IInv'
<1>1. /\ Core!consumeMessageToL2(h)
      /\ UNCHANGED <<bridge, latestRoot, published, l2Vars, executed>>
  BY DEF Reject
<1>2. L1IInv' /\ DOMAIN l1ToL2Messages' = DOMAIN l1ToL2Messages /\ Core!Pending' = Core!Pending \ {h}
  BY <1>1, Consumed
<1>3. UNCHANGED <<l1_owner, root_history, now, executed>>
  BY <1>1 DEF l2Vars
<1>4. Log'
  BY <1>2, <1>3 DEF IInv, Log, IsRoot
<1>5. HistoryMatchesMessages'
  BY <1>2, <1>3 DEF IInv, HistoryMatchesMessages, L2!Received, L2!NULL_ROOT_TIME, Owners,
                    IsRoot, IsHandover
<1>. QED  BY <1>2, <1>4, <1>5 DEF IInv

\* What the three handlers do to the storage the agreement is about.
LEMMA HandlerEffect ==
  ASSUME NEW h, Handler(h)
  PROVE  /\ h.fromAddress = l1_owner
         /\ h.toAddress = StarkWorldIDAddress
         /\ now' = now
         /\ \/ /\ IsRoot(h) /\ h.payload.value \in Root
               /\ root_history[h.payload.value] = 0
               /\ root_history' = [root_history EXCEPT ![h.payload.value] = now]
               /\ latest_root' = h.payload.value
               /\ l1_owner' = l1_owner
            \/ /\ ~IsRoot(h)
               /\ UNCHANGED <<root_history, latest_root>>
               /\ l1_owner' = l1_owner \/ (IsHandover(h) /\ l1_owner' = h.payload.value)
  BY SelectorsDiffer
     DEF Handler, Calls, IsRoot, IsHandover, L2!receive_root, L2!_receive_root,
         L2!set_root_history_expiry, L2!change_l1_state_bridge_address,
         L2!transfer_ownership, L2!only_cross_domain_owner, L2!NULL_ROOT_TIME, L2!worldIdVars

LEMMA ExecuteIInv ==
  ASSUME IInv, NEW h \in DOMAIN l1ToL2Messages, Execute(h)
  PROVE  IInv'
<1>1. /\ Handler(h)
      /\ Core!consumeMessageToL2(h)
      /\ executed' = executed \cup {h}
      /\ UNCHANGED <<bridge, latestRoot, published>>
  BY DEF Execute
<1>2. /\ L1IInv' /\ DOMAIN l1ToL2Messages' = DOMAIN l1ToL2Messages
      /\ h \in Core!Pending /\ Core!Pending' = Core!Pending \ {h}
  BY <1>1, Consumed
<1>3. h \notin executed
  BY <1>2 DEF IInv, HistoryMatchesMessages
<1>4. Log'
  BY <1>1, <1>2, HandlerEffect DEF IInv, Log, IsRoot
<1>5. Owners \subseteq Owners' /\ l1_owner \in Owners /\ l1_owner' \in Owners'
  BY <1>1, OwnersGrow, HandlerEffect DEF IInv, HistoryMatchesMessages, Owners
<1>6. \A g \in executed' : g \notin Core!Pending' /\ g.fromAddress \in Owners'
  BY <1>1, <1>2, <1>5, HandlerEffect DEF IInv, HistoryMatchesMessages
<1>7. CASE IsRoot(h)
  <2>1. /\ root_history[h.payload.value] = 0
        /\ root_history' = [root_history EXCEPT ![h.payload.value] = now]
    BY <1>1, <1>7, HandlerEffect
  <2>2. \A g \in executed : IsRoot(g) => g.payload.value # h.payload.value
    BY <1>7, <2>1 DEF IInv, HistoryMatchesMessages, L2!Received, L2!NULL_ROOT_TIME, Log
  <2>3. \A r \in Root : L2!Received(r)' <=> L2!Received(r) \/ r = h.payload.value
    BY <1>7, <2>1 DEF IInv, Log, L2!Received, L2!NULL_ROOT_TIME
  <2>4. \A r \in Root : L2!Received(r)' <=>
          \E g \in executed' : IsRoot(g) /\ g.payload.value = r
    BY <1>1, <1>7, <2>3 DEF IInv, HistoryMatchesMessages
  <2>5. \A f, g \in executed' :
          IsRoot(f) /\ IsRoot(g) /\ f.payload.value = g.payload.value => f = g
    BY <1>1, <2>2 DEF IInv, HistoryMatchesMessages
  <2>. QED  BY <1>2, <1>4, <1>5, <1>6, <2>4, <2>5 DEF IInv, HistoryMatchesMessages, IsRoot
<1>8. CASE ~IsRoot(h)
  <2>1. root_history' = root_history
    BY <1>1, <1>8, HandlerEffect
  <2>2. \A r \in Root : L2!Received(r)' <=>
          \E g \in executed' : IsRoot(g) /\ g.payload.value = r
    BY <1>1, <1>8, <2>1 DEF IInv, HistoryMatchesMessages, L2!Received, L2!NULL_ROOT_TIME
  <2>3. \A f, g \in executed' :
          IsRoot(f) /\ IsRoot(g) /\ f.payload.value = g.payload.value => f = g
    BY <1>1, <1>8 DEF IInv, HistoryMatchesMessages
  <2>. QED  BY <1>2, <1>4, <1>5, <1>6, <2>2, <2>3 DEF IInv, HistoryMatchesMessages, IsRoot
<1>. QED  BY <1>7, <1>8

LEMMA NextIInv == IInv /\ [Next]_vars => IInv'
<1>. SUFFICES ASSUME IInv, [Next]_vars PROVE IInv'
  OBVIOUS
<1>1. CASE L1Next /\ UNCHANGED <<l2Vars, executed>>
  <2>1. L1IInv'
    BY <1>1, L1NextIInv DEF IInv
  <2>. QED  BY <1>1, <2>1, SlotsKept, L1StepAgrees DEF IInv
<1>2. CASE Outsider
  BY <1>2, OutsiderIInv
<1>3. CASE Sequencer
  BY <1>3, ExecuteIInv, RejectIInv DEF Sequencer
<1>4. CASE L2!NextBlock /\ UNCHANGED <<l1Vars, executed>>
  <2>1. /\ UNCHANGED <<l1_owner, root_history, executed, bridge, latestRoot, nonce,
                       l1ToL2Messages, published>>
        /\ now' \in Nat /\ now' # 0
    BY <1>4 DEF L2!NextBlock, L2!contractVars, L2!worldIdVars, l1Vars, IInv, Log
  <2>2. L1IInv'
    BY <2>1 DEF IInv, L1IInv, L1TypeOK, NoncesUsed, CurrentIsPublished, Current,
                OnlyPublishedRootsAreSent
  <2>3. Log' /\ HistoryMatchesMessages'
    BY <2>1 DEF IInv, Log, HistoryMatchesMessages, L2!Received, L2!NULL_ROOT_TIME, Owners,
                IsRoot, IsHandover, Core!Pending
  <2>. QED  BY <2>2, <2>3 DEF IInv
<1>5. CASE UNCHANGED vars
  <2>1. UNCHANGED <<l1_owner, root_history, now, executed, bridge, latestRoot, nonce,
                    l1ToL2Messages, published>>
    BY <1>5 DEF vars, l1Vars, l2Vars
  <2>2. L1IInv'
    BY <2>1 DEF IInv, L1IInv, L1TypeOK, NoncesUsed, CurrentIsPublished, Current,
                OnlyPublishedRootsAreSent
  <2>3. Log' /\ HistoryMatchesMessages'
    BY <2>1 DEF IInv, Log, HistoryMatchesMessages, L2!Received, L2!NULL_ROOT_TIME, Owners,
                IsRoot, IsHandover, Core!Pending
  <2>. QED  BY <2>2, <2>3 DEF IInv
<1>. QED  BY <1>1, <1>2, <1>3, <1>4, <1>5 DEF Next

-----------------------------------------------------------------------------
(* The parts in the composition.  Each of the two contracts that were specified  *)
(* alone does here only what its own specification lets it do, so what is       *)
(* proved of it alone holds of it here, under the messages that really arrive.  *)

CoreTheorems ==
  INSTANCE StarknetMessagingProofs
    WITH messageCancellationDelay <- 0, MAX_UINT256 <- 0, MaxTimestamp <- 1,
         l1ToL2MessageCancellations <- <<>>, block_timestamp <- 1, canceled <- {}
L2Theorems == INSTANCE StarkWorldIDProofs

\* To the core contract a step is a message sent, a message consumed, or nothing.
LEMMA CoreStep ==
  ASSUME IInv, [Next]_vars
  PROVE  [Core!Next]_Core!vars
<1>1. ASSUME NEW sender \in EthAddress, NEW to \in L2Address, NEW s \in Selector,
             NEW p \in Payload, NEW value \in MsgValue,
             Core!sendMessageToL2(sender, to, s, p, value)
      PROVE  Core!Next
  BY <1>1 DEF Core!Next
<1>2. ASSUME NEW h \in DOMAIN l1ToL2Messages, Execute(h) \/ Reject(h)
      PROVE  Core!Next
  BY <1>2 DEF Execute, Reject, Core!Next
<1>3. CASE L1Next
  <2>1. ASSUME NEW b \in Bridge, NEW s \in Selector, NEW p \in Payload,
               NEW value \in MsgValue, Sends(b, s, p, value)
        PROVE  Core!Next
    <3>1. b \in EthAddress /\ bridge[b].starkWorldIDAddress \in L2Address
      BY StarkStateBridgeAssumption DEF IInv, L1IInv, L1TypeOK, BridgeStorage
    <3>. QED  BY <1>1, <2>1, <3>1 DEF Sends, SendToL2
  <2>. QED  BY <1>3, <2>1, L1Sends DEF IInv, Core!vars
<1>4. CASE Outsider
  BY <1>1, <1>4, WorldIDBridgeAssumption DEF Outsider
<1>5. CASE (L2!NextBlock /\ UNCHANGED <<l1Vars, executed>>) \/ UNCHANGED vars
  BY <1>5 DEF vars, l1Vars, Core!vars
<1>. QED  BY <1>2, <1>3, <1>4, <1>5 DEF Next, Sequencer

\* To the L2 contract it is a handler called by the Starknet OS, a block, or nothing.
LEMMA L2Step ==
  ASSUME IInv, [Next]_vars
  PROVE  [L2!Next]_L2!vars
<1>1. ASSUME NEW h \in DOMAIN l1ToL2Messages, Handler(h)
      PROVE  L2!Next
  <2>1. h.fromAddress \in EthAddress
    BY DEF IInv, L1IInv, L1TypeOK, Core!Hash
  <2>. QED  BY <1>1, <2>1 DEF Handler, Calls, L2!Next
<1>2. CASE UNCHANGED l2Vars
  BY <1>2 DEF l2Vars, L2!vars, L2!contractVars, L2!worldIdVars
<1>3. CASE L2!NextBlock
  BY <1>3 DEF L2!Next
<1>. QED  BY <1>1, <1>2, <1>3 DEF Next, Sequencer, Execute, Reject, Outsider, vars

\* The bridge's L2 side behaves as the contract alone does, since it is made of its
\* actions: this is how the theorems about the contract alone carry over.
LEMMA L2SideOfSpec == Spec => L2!Spec
<1>1. Init => L2!Init
  BY DEF Init
<1>2. IInv /\ [Next]_vars => [L2!Next]_L2!vars
  BY L2Step
<1>. QED  BY <1>1, <1>2, InitIInv, NextIInv, PTL DEF Spec, L2!Spec

\* The same for the core contract.
LEMMA CoreSideOfSpec == Spec => Core!Spec
<1>1. Init => Core!Init
  BY DEF Init, L1Init, Core!Init
<1>2. IInv /\ [Next]_vars => [Core!Next]_Core!vars
  BY CoreStep
<1>. QED  BY <1>1, <1>2, InitIInv, NextIInv, PTL DEF Spec, Core!Spec

\* What was proved of the core contract alone: no two messages share a nonce, and a
\* message the sequencer has taken never becomes pending again.
THEOREM CoreContractCorrect ==
  Spec => []Core!NonceNumbersMessages /\ Core!NeverPendingAgain
<1>. USE DEF Core!Pending, CoreTheorems!Pending, Core!Written, CoreTheorems!Written,
             Core!vars, CoreTheorems!vars
<1>1. Core!Init => CoreTheorems!Init
  BY DEF Core!Init, CoreTheorems!Init
<1>2. [Core!Next]_Core!vars => [CoreTheorems!Next]_CoreTheorems!vars
  BY DEF Core!Next, CoreTheorems!Next, Core!NextBlock, CoreTheorems!NextBlock,
         Core!sendMessageToL2, CoreTheorems!sendMessageToL2,
         Core!startL1ToL2MessageCancellation, CoreTheorems!startL1ToL2MessageCancellation,
         Core!cancelL1ToL2Message, CoreTheorems!cancelL1ToL2Message,
         Core!consumeMessageToL2, CoreTheorems!consumeMessageToL2,
         Core!getL1ToL2MsgHash, CoreTheorems!getL1ToL2MsgHash, Core!Read, CoreTheorems!Read
<1>3. CoreTheorems!NonceNumbersMessages => Core!NonceNumbersMessages
  BY DEF CoreTheorems!NonceNumbersMessages, Core!NonceNumbersMessages
<1>4. CoreTheorems!Spec => []CoreTheorems!NonceNumbersMessages
  BY CoreTheorems!NonceNumbersMessagesCorrect, StarkStateBridgeAssumption
<1>5. CoreTheorems!Spec => CoreTheorems!NeverPendingAgain
  BY CoreTheorems!NeverPendingAgainCorrect, StarkStateBridgeAssumption
<1>. QED
  BY <1>1, <1>2, <1>3, <1>4, <1>5, CoreSideOfSpec, PTL
     DEF Core!Spec, CoreTheorems!Spec, Core!NeverPendingAgain, CoreTheorems!NeverPendingAgain

\* What was proved of the L1 bridges alone, with nobody but their callers around,
\* holds among other accounts that use the core contract and with the sequencer
\* taking messages: bridges send only roots that were published, each message for
\* less than the limit of its own kind.
THEOREM L1ContractCorrect == Spec => []OnlyPublishedRootsAreSent /\ FeeBelowOwnLimit
<1>1. IInv => OnlyPublishedRootsAreSent
  BY DEF IInv, L1IInv
<1>2. ASSUME IInv, [Next]_vars,
             NEW h \in DOMAIN l1ToL2Messages' \ DOMAIN l1ToL2Messages,
             NEW b \in Bridge, h.fromAddress = b
      PROVE  l1ToL2Messages'[h] - 1 < OwnLimit(b, h.selector)
  <2>1. CASE L1Next
    BY <1>2, <2>1, FeeStep DEF IInv
  <2>2. CASE Outsider
    <3>1. PICK m \in OutsiderMessage, value \in MsgValue :
            Core!sendMessageToL2(m.account, StarkWorldIDAddress, m.selector, m.payload, value)
      BY <2>2 DEF Outsider
    <3>2. /\ m.account \in EthAddress /\ m.account \notin Bridge
          /\ m.selector \in Selector /\ m.payload \in Payload
          /\ StarkWorldIDAddress \in L2Address
      BY WorldIDBridgeAssumption
    <3>3. h.fromAddress = m.account
      BY <1>2, <3>1, <3>2, NewMessage DEF IInv
    <3>. QED  BY <1>2, <3>2, <3>3
  <2>3. CASE Sequencer
    <3>1. PICK g \in DOMAIN l1ToL2Messages : Execute(g) \/ Reject(g)
      BY <2>3 DEF Sequencer
    <3>2. Core!consumeMessageToL2(g) /\ UNCHANGED <<bridge, latestRoot, published>>
      BY <3>1 DEF Execute, Reject
    <3>3. DOMAIN l1ToL2Messages' = DOMAIN l1ToL2Messages
      BY <1>2, <3>2, Consumed
    <3>. QED  BY <3>3
  <2>4. CASE UNCHANGED l1Vars
    BY <2>4 DEF l1Vars
  <2>. QED  BY <1>2, <2>1, <2>2, <2>3, <2>4 DEF Next, vars
<1>3. IInv /\ [Next]_vars =>
        [\A h \in DOMAIN l1ToL2Messages' \ DOMAIN l1ToL2Messages :
           \A b \in Bridge : h.fromAddress = b =>
             l1ToL2Messages'[h] - 1 < OwnLimit(b, h.selector)]_l1Vars
  BY <1>2
<1>. QED  BY <1>1, <1>3, InitIInv, NextIInv, PTL DEF Spec, FeeBelowOwnLimit

\* What was proved of the L2 contract alone: stamps are final, the latest root is the
\* newest, a replaced root stays replaced and an expired one stays expired.
THEOREM L2ContractCorrect ==
  Spec => /\ []L2!LatestIsNewest
          /\ L2!HistoryAppendOnly
          /\ L2!SupersededForever
          /\ L2!ExpiredStaysExpired
          /\ L2!ZeroOwnerIsFinal
<1>. USE DEF L2!NULL_ROOT_TIME, L2Theorems!NULL_ROOT_TIME, L2!vars, L2Theorems!vars,
             L2!contractVars, L2Theorems!contractVars, L2!worldIdVars, L2Theorems!worldIdVars,
             L2!Received, L2Theorems!Received, L2!Superseded, L2Theorems!Superseded,
             L2!require_valid_root, L2Theorems!require_valid_root
<1>1. L2!Init => L2Theorems!Init
  BY DEF L2!Init, L2Theorems!Init, L2!validate, L2Theorems!validate
<1>2. [L2!Next]_L2!vars => [L2Theorems!Next]_L2Theorems!vars
  BY DEF L2!Next, L2Theorems!Next, L2!NextBlock, L2Theorems!NextBlock,
         L2!receive_root, L2Theorems!receive_root, L2!_receive_root, L2Theorems!_receive_root,
         L2!set_root_history_expiry, L2Theorems!set_root_history_expiry,
         L2!change_l1_state_bridge_address, L2Theorems!change_l1_state_bridge_address,
         L2!transfer_ownership, L2Theorems!transfer_ownership,
         L2!only_cross_domain_owner, L2Theorems!only_cross_domain_owner
<1>3. L2Theorems!LatestIsNewest => L2!LatestIsNewest
  BY DEF L2Theorems!LatestIsNewest, L2!LatestIsNewest
<1>. USE StarkStateBridgeAssumption, WorldIDBridgeAssumption
<1>4. L2Theorems!Spec => []L2Theorems!LatestIsNewest
  BY L2Theorems!LatestIsNewestCorrect
<1>5. L2Theorems!Spec => L2Theorems!HistoryAppendOnly
  BY L2Theorems!HistoryAppendOnlyCorrect
<1>6. L2Theorems!Spec => L2Theorems!SupersededForever
  BY L2Theorems!SupersededForeverCorrect
<1>7. L2Theorems!Spec => L2Theorems!ExpiredStaysExpired
  BY L2Theorems!ExpiredStaysExpiredCorrect
<1>8. L2Theorems!Spec => L2Theorems!ZeroOwnerIsFinal
  BY L2Theorems!ZeroOwnerIsFinalCorrect
<1>. QED
  BY <1>1, <1>2, <1>3, <1>4, <1>5, <1>6, <1>7, <1>8, L2SideOfSpec, PTL
     DEF L2!Spec, L2Theorems!Spec,
         L2!HistoryAppendOnly, L2Theorems!HistoryAppendOnly,
         L2!SupersededForever, L2Theorems!SupersededForever,
         L2!ExpiredStaysExpired, L2Theorems!ExpiredStaysExpired,
         L2!ZeroOwnerIsFinal, L2Theorems!ZeroOwnerIsFinal

\* The roots on L2 are exactly those of the root messages executed, each executed
\* once, all sent by addresses that were owner.
THEOREM HistoryMatchesMessagesCorrect == Spec => []HistoryMatchesMessages
<1>. IInv => HistoryMatchesMessages  BY DEF IInv
<1>. QED  BY InitIInv, NextIInv, PTL DEF Spec

\* A handler leaves storage of the right types: it takes only arguments that its
\* deserialization lets through.
LEMMA HandlerTypeOK ==
  ASSUME L2!TypeOK, NEW h, Handler(h)
  PROVE  L2!TypeOK'
<1>1. CASE Calls(h, HANDLE_RECEIVE_ROOT_SELECTOR, 2, Root) /\ L2!receive_root(h.fromAddress, h.payload.value)
  BY <1>1 DEF Calls, L2!receive_root, L2!_receive_root, L2!TypeOK
<1>2. CASE /\ Calls(h, HANDLE_SET_ROOT_HISTORY_EXPIRY_SELECTOR, 1, ExpiryTime)
           /\ L2!set_root_history_expiry(h.fromAddress, h.payload.value)
  BY <1>2 DEF Calls, L2!set_root_history_expiry, L2!TypeOK
<1>3. CASE /\ Calls(h, HANDLE_CHANGE_L1_STATE_BRIDGE_ADDRESS_SELECTOR, 1, EthAddress)
           /\ L2!change_l1_state_bridge_address(h.fromAddress, h.payload.value)
  BY <1>3 DEF Calls, L2!change_l1_state_bridge_address, L2!transfer_ownership, L2!worldIdVars,
              L2!TypeOK
<1>. QED  BY <1>1, <1>2, <1>3 DEF Handler

\* Both chains' storage keeps its types, and nothing is executed that was not sent.
THEOREM TypeCorrect == Spec => []TypeOK
<1>1. Init => L2!TypeOK
  BY WorldIDBridgeAssumption, StarkStateBridgeAssumption
     DEF Init, L2!Init, L2!TypeOK, L2!validate, L2!NULL_ROOT_TIME
<1>2. L2!TypeOK /\ [Next]_vars => L2!TypeOK'
  <2>. SUFFICES ASSUME L2!TypeOK, [Next]_vars PROVE L2!TypeOK'
    OBVIOUS
  <2>1. CASE UNCHANGED l2Vars
    BY <2>1 DEF l2Vars, L2!TypeOK
  <2>2. CASE L2!NextBlock
    BY <2>2, WorldIDBridgeAssumption DEF L2!NextBlock, L2!contractVars, L2!worldIdVars, L2!TypeOK
  <2>3. CASE Sequencer
    BY <2>1, <2>3, HandlerTypeOK DEF Sequencer, Execute, Reject
  <2>. QED  BY <2>1, <2>2, <2>3 DEF Next, Outsider, vars
<1>3. IInv /\ L2!TypeOK => TypeOK
  BY DEF IInv, L1IInv, Log, TypeOK
<1>. QED  BY <1>1, <1>2, <1>3, InitIInv, NextIInv, PTL DEF Spec

\* A root executed from a bridge's message was published.
LEMMA ExecutedRootsPublished ==
  ASSUME IInv, NEW h \in DOMAIN l1ToL2Messages, IsRoot(h), h.fromAddress \in Bridge
  PROVE  h.payload.value \in published
  BY DEF IInv, L1IInv, OnlyPublishedRootsAreSent, IsRoot

\* While authority stays with the bridges, no root is known on L2 that was not
\* published on L1, whatever other accounts send.
THEOREM RootsAreAuthenticCorrect == Spec => []RootsAreAuthentic
<1>1. IInv => RootsAreAuthentic
  BY ExecutedRootsPublished DEF IInv, Log, HistoryMatchesMessages, RootsAreAuthentic
<1>. QED  BY <1>1, InitIInv, NextIInv, PTL DEF Spec

\* The L2 contract changes only by a pending message of its owner.
THEOREM OnlyOwnersMessagesActCorrect == Spec => OnlyOwnersMessagesAct
<1>1. IInv /\ [Next]_vars =>
        [UNCHANGED L2!contractVars \/
         \E h \in Core!Pending :
           /\ h \notin Core!Pending'
           /\ h.fromAddress = l1_owner
           /\ h.toAddress = StarkWorldIDAddress]_vars
  <2>. SUFFICES ASSUME IInv, [Next]_vars
                PROVE  UNCHANGED L2!contractVars \/
                       \E h \in Core!Pending : /\ h \notin Core!Pending'
                                              /\ h.fromAddress = l1_owner
                                              /\ h.toAddress = StarkWorldIDAddress
    OBVIOUS
  <2>1. ASSUME NEW h \in DOMAIN l1ToL2Messages, Execute(h)
        PROVE  /\ h \in Core!Pending /\ h \notin Core!Pending'
               /\ h.fromAddress = l1_owner /\ h.toAddress = StarkWorldIDAddress
    BY <2>1, Consumed, HandlerEffect DEF Execute
  <2>2. ASSUME NEW h \in DOMAIN l1ToL2Messages, Reject(h)
        PROVE  UNCHANGED L2!contractVars
    <3>1. UNCHANGED l2Vars
      BY <2>2 DEF Reject
    <3>. QED  BY <3>1 DEF l2Vars, L2!contractVars, L2!worldIdVars
  <2>3. ASSUME (L1Next /\ UNCHANGED <<l2Vars, executed>>) \/ Outsider
               \/ L2!NextBlock \/ UNCHANGED vars
        PROVE  UNCHANGED L2!contractVars
    BY <2>3 DEF Outsider, L2!NextBlock, vars, l2Vars, L2!contractVars, L2!worldIdVars
  <2>. QED  BY <2>1, <2>2, <2>3 DEF Next, Sequencer
<1>. QED  BY <1>1, InitIInv, NextIInv, PTL DEF Spec, OnlyOwnersMessagesAct

-----------------------------------------------------------------------------
(* What a bridge writes its handlers can read.  The two contracts agree on the   *)
(* words of a root and of an address; on those of an expiry they do not.         *)

Readable ==
  \A h \in DOMAIN l1ToL2Messages : h.fromAddress \in Bridge =>
    /\ IsRoot(h) => h.payload.words = 2 /\ h.payload.value \in Root
    /\ IsHandover(h) => h.payload.words = 1 /\ h.payload.value \in EthAddress \ {ZeroAddress}

\* A bridge writes what can be read, and other accounts are no bridges.
LEMMA ReadableStep ==
  ASSUME IInv, Readable, [Next]_vars
  PROVE  Readable'
<1>1. CASE DOMAIN l1ToL2Messages' \subseteq DOMAIN l1ToL2Messages
  BY <1>1 DEF Readable, IsRoot, IsHandover
<1>2. ASSUME NEW b \in Bridge, NEW s \in Selector, NEW p \in Payload,
             NEW value \in MsgValue, Sends(b, s, p, value)
      PROVE  Readable'
  <2>1. \A h \in DOMAIN l1ToL2Messages' \ DOMAIN l1ToL2Messages :
          h.selector = s /\ h.payload = p
    BY <1>2, BridgeMessage DEF Sends, IInv
  <2>2. s = HANDLE_RECEIVE_ROOT_SELECTOR => p.words = 2 /\ p.value \in Root
    BY <1>2, StarkStateBridgeAssumption DEF Sends, uint256Payload, IInv, L1IInv, L1TypeOK
  <2>3. s = HANDLE_CHANGE_L1_STATE_BRIDGE_ADDRESS_SELECTOR =>
          p.words = 1 /\ p.value \in EthAddress \ {ZeroAddress}
    BY <1>2, StarkStateBridgeAssumption DEF Sends
  <2>. QED  BY <2>1, <2>2, <2>3 DEF Readable, IsRoot, IsHandover
<1>3. CASE L1Next
  BY <1>1, <1>2, <1>3, L1Sends DEF IInv
<1>4. CASE Outsider
  <2>1. PICK m \in OutsiderMessage, value \in MsgValue :
          Core!sendMessageToL2(m.account, StarkWorldIDAddress, m.selector, m.payload, value)
    BY <1>4 DEF Outsider
  <2>2. /\ m.account \in EthAddress /\ m.account \notin Bridge
        /\ m.selector \in Selector /\ m.payload \in Payload /\ StarkWorldIDAddress \in L2Address
    BY WorldIDBridgeAssumption
  <2>3. \A h \in DOMAIN l1ToL2Messages' \ DOMAIN l1ToL2Messages : h.fromAddress \notin Bridge
    BY <2>1, <2>2, NewMessage DEF IInv
  <2>. QED  BY <2>3 DEF Readable, IsRoot, IsHandover
<1>5. CASE Sequencer
  BY <1>1, <1>5, Consumed DEF Sequencer, Execute, Reject
<1>6. CASE (L2!NextBlock /\ UNCHANGED <<l1Vars, executed>>) \/ UNCHANGED vars
  BY <1>1, <1>6 DEF vars, l1Vars
<1>. QED  BY <1>3, <1>4, <1>5, <1>6 DEF Next

\* A handler that runs does what its message says.
LEMMA HandlerObeys ==
  ASSUME IInv, NEW h, Handler(h)
  PROVE  /\ IsRoot(h) => L2!Received(h.payload.value)'
         /\ IsHandover(h) => l1_owner' = h.payload.value
<1>1. CASE IsRoot(h)
  <2>1. root_history'[h.payload.value] # 0
    BY <1>1, HandlerEffect DEF IInv, Log
  <2>. QED  BY <1>1, <2>1, SelectorsDiffer DEF L2!Received, L2!NULL_ROOT_TIME, IsRoot, IsHandover
<1>2. CASE ~IsRoot(h)
  BY <1>2, SelectorsDiffer
     DEF Handler, Calls, IsRoot, IsHandover, L2!set_root_history_expiry,
         L2!change_l1_state_bridge_address, L2!transfer_ownership, L2!worldIdVars
<1>. QED  BY <1>1, <1>2

\* Of the messages that can be read, those of the owner are refused only for a root
\* that was received before.
LEMMA RefusedForNoReason ==
  ASSUME Readable, NEW h \in DOMAIN l1ToL2Messages, ~Runs(h), h.fromAddress = l1_owner,
         l1_owner \in Bridge, h.toAddress = StarkWorldIDAddress
  PROVE  (IsRoot(h) => L2!Received(h.payload.value)) /\ ~IsHandover(h)
<1>1. L2!only_cross_domain_owner(h.fromAddress)
  BY StarkStateBridgeAssumption DEF L2!only_cross_domain_owner
<1>2. CASE IsRoot(h)
  BY <1>1, <1>2, SelectorsDiffer
     DEF Readable, Runs, Calls, L2!Received, IsRoot, IsHandover
<1>3. CASE IsHandover(h)
  BY <1>1, <1>3 DEF Readable, Runs, Calls, IsHandover
<1>. QED  BY <1>2, <1>3

LEMMA EffectStep ==
  ASSUME IInv, Readable, [Next]_vars,
         NEW h \in Core!Pending \ Core!Pending',
         h.fromAddress = l1_owner, l1_owner \in Bridge, h.toAddress = StarkWorldIDAddress
  PROVE  /\ IsRoot(h) => L2!Received(h.payload.value)'
         /\ IsHandover(h) => l1_owner' = h.payload.value
<1>1. CASE /\ DOMAIN l1ToL2Messages \subseteq DOMAIN l1ToL2Messages'
           /\ \A g \in DOMAIN l1ToL2Messages : l1ToL2Messages'[g] = l1ToL2Messages[g]
  BY <1>1 DEF Core!Pending
<1>2. CASE L1Next
  BY <1>1, <1>2, SlotsKept DEF IInv
<1>3. CASE Outsider
  <2>1. PICK m \in OutsiderMessage, value \in MsgValue :
          Core!sendMessageToL2(m.account, StarkWorldIDAddress, m.selector, m.payload, value)
    BY <1>3 DEF Outsider
  <2>2. /\ m.account \in EthAddress /\ m.selector \in Selector /\ m.payload \in Payload
        /\ StarkWorldIDAddress \in L2Address
    BY WorldIDBridgeAssumption
  <2>. QED  BY <1>1, <2>1, <2>2, OtherSlotsKept DEF IInv
<1>4. ASSUME NEW g \in DOMAIN l1ToL2Messages, Execute(g)
      PROVE  h = g
  BY <1>4, Consumed DEF Execute
<1>5. ASSUME NEW g \in DOMAIN l1ToL2Messages, Reject(g)
      PROVE  h = g
  BY <1>5, Consumed DEF Reject
<1>6. CASE Execute(h)
  BY <1>6, HandlerObeys DEF Execute
<1>7. CASE Reject(h)
  <2>1. h \in DOMAIN l1ToL2Messages
    BY DEF Core!Pending
  <2>2. (IsRoot(h) => L2!Received(h.payload.value)) /\ ~IsHandover(h)
    BY <1>7, <2>1, RefusedForNoReason DEF Reject
  <2>. QED  BY <1>7, <2>2 DEF Reject, l2Vars, L2!Received, L2!NULL_ROOT_TIME
<1>8. CASE (L2!NextBlock /\ UNCHANGED <<l1Vars, executed>>) \/ UNCHANGED vars
  BY <1>1, <1>8 DEF vars, l1Vars
<1>. QED  BY <1>2, <1>3, <1>4, <1>5, <1>6, <1>7, <1>8 DEF Next, Sequencer

\* The words a bridge writes for a root and for a successor are those the handlers
\* of the L2 contract read, so a message of the bridge in charge is never lost on it.
THEOREM OwnersMessageTakesEffectCorrect == Spec => OwnersMessageTakesEffect
<1>1. Init => Readable
  <2>1. Init => DOMAIN l1ToL2Messages = {}
    BY DEF Init, L1Init
  <2>. QED  BY <2>1 DEF Readable
<1>2. IInv /\ Readable /\ [Next]_vars => Readable'
  BY ReadableStep
<1>3. IInv /\ Readable /\ [Next]_vars =>
        \A h \in Core!Pending \ Core!Pending' :
          h.fromAddress = l1_owner /\ l1_owner \in Bridge /\ h.toAddress = StarkWorldIDAddress =>
            /\ IsRoot(h) => L2!Received(h.payload.value)'
            /\ IsHandover(h) => l1_owner' = h.payload.value
  BY EffectStep
<1>. QED
  BY <1>1, <1>2, <1>3, InitIInv, NextIInv, PTL DEF Spec, OwnersMessageTakesEffect

-----------------------------------------------------------------------------
(* Authority stays with the bridges when their owners only ever hand the L2     *)
(* contract over to bridges.                                                    *)

AuthorityStays ==
  /\ l1_owner \in Bridge
  /\ \A h \in DOMAIN l1ToL2Messages :
       h.fromAddress \in Bridge /\ IsHandover(h) => h.payload.value \in Bridge

\* The one message a step of L1 adds, if it is a handover, names what the owner
\* was allowed to name.
LEMMA HandoverNamesSuccessor ==
  ASSUME L1IInv, L1Next,
         NEW h \in DOMAIN l1ToL2Messages' \ DOMAIN l1ToL2Messages, IsHandover(h)
  PROVE  h.payload.value \in NewL1Bridge \ {ZeroAddress}
<1>1. l1ToL2Messages' # l1ToL2Messages
  OBVIOUS
<1>2. PICK b \in Bridge, s \in Selector, p \in Payload, value \in MsgValue :
        Sends(b, s, p, value)
  BY <1>1, L1Sends
<1>3. h.selector = s /\ h.payload = p
  BY <1>2, BridgeMessage DEF Sends
<1>. QED  BY <1>2, <1>3 DEF Sends, IsHandover

LEMMA AuthorityStaysStep ==
  ASSUME IInv, AuthorityStays, [Next]_vars, NewL1Bridge \subseteq Bridge \cup {ZeroAddress}
  PROVE  AuthorityStays'
<1>1. CASE L1Next /\ UNCHANGED <<l2Vars, executed>>
  <2>1. \A h \in DOMAIN l1ToL2Messages' \ DOMAIN l1ToL2Messages :
          IsHandover(h) => h.payload.value \in Bridge
    BY <1>1, HandoverNamesSuccessor DEF IInv
  <2>. QED  BY <1>1, <2>1 DEF AuthorityStays, l2Vars, IsHandover
<1>2. CASE Outsider
  <2>1. PICK m \in OutsiderMessage, value \in MsgValue :
          /\ Core!sendMessageToL2(m.account, StarkWorldIDAddress, m.selector, m.payload, value)
          /\ UNCHANGED l2Vars
    BY <1>2 DEF Outsider
  <2>2. /\ m.account \in EthAddress /\ m.account \notin Bridge
        /\ m.selector \in Selector /\ m.payload \in Payload /\ StarkWorldIDAddress \in L2Address
    BY WorldIDBridgeAssumption
  <2>3. \A h \in DOMAIN l1ToL2Messages' \ DOMAIN l1ToL2Messages : h.fromAddress \notin Bridge
    BY <2>1, <2>2, NewMessage DEF IInv
  <2>. QED  BY <2>1, <2>3 DEF AuthorityStays, l2Vars, IsHandover
<1>3. ASSUME NEW h \in DOMAIN l1ToL2Messages, Execute(h)
      PROVE  AuthorityStays'
  <2>1. Handler(h) /\ DOMAIN l1ToL2Messages' = DOMAIN l1ToL2Messages
    BY <1>3, Consumed DEF Execute
  <2>. QED  BY <2>1, HandlerEffect DEF AuthorityStays, IsHandover
<1>4. ASSUME NEW h \in DOMAIN l1ToL2Messages, Reject(h)
      PROVE  AuthorityStays'
  <2>1. Core!consumeMessageToL2(h) /\ UNCHANGED <<bridge, latestRoot, published, l2Vars>>
    BY <1>4 DEF Reject
  <2>2. DOMAIN l1ToL2Messages' = DOMAIN l1ToL2Messages /\ l1_owner' = l1_owner
    BY <2>1, Consumed DEF l2Vars
  <2>. QED  BY <2>2 DEF AuthorityStays, IsHandover
<1>5. CASE (L2!NextBlock /\ UNCHANGED <<l1Vars, executed>>) \/ UNCHANGED vars
  BY <1>5 DEF L2!NextBlock, L2!contractVars, vars, l1Vars, l2Vars, AuthorityStays, IsHandover
<1>. QED  BY <1>1, <1>2, <1>3, <1>4, <1>5 DEF Next, Sequencer

-----------------------------------------------------------------------------
(* The bridge implements RootMirror *)

\* Nothing that may be mirrored ceases to be.
LEMMA PublishableGrows ==
  ASSUME IInv', executed \subseteq executed', published \subseteq published'
  PROVE  Publishable \subseteq Publishable' /\ Publishable' \subseteq Root
<1>1. Owners \subseteq Owners'
  BY OwnersGrow
<1>2. published' \subseteq Root
  BY StarkStateBridgeAssumption DEF IInv, L1IInv, L1TypeOK
<1>. QED  BY <1>1, <1>2 DEF Publishable

\* A root message executed was sent by an owner, hence by a bridge, which sends
\* nothing that was not published, or else authority is with somebody else already.
LEMMA ExecutedRootIsPublishable ==
  ASSUME IInv, NEW h \in DOMAIN l1ToL2Messages, IsRoot(h), Handler(h)
  PROVE  h.payload.value \in Publishable
<1>1. h.fromAddress \in Owners /\ h.payload.value \in Root
  BY HandlerEffect DEF IInv, HistoryMatchesMessages
<1>2. CASE Owners \subseteq Bridge
  BY <1>1, <1>2, ExecutedRootsPublished DEF Publishable
<1>. QED  BY <1>1, <1>2 DEF Publishable

\* What each kind of step is to the mirror: a root executed is mirrored, everything
\* else publishes at most.
LEMMA StepRefines ==
  ASSUME IInv, IInv', [Next]_vars
  PROVE  [Mirror!Next]_Mirror!vars
<1>. DEFINE mirrored == {r \in Root : L2!Received(r)}
<1>1. ASSUME executed \subseteq executed', published \subseteq published',
             UNCHANGED <<root_history, latest_root>>
      PROVE  Mirror!Publish
  <2>1. UNCHANGED <<mirrored, latest_root>>
    BY <1>1 DEF L2!Received
  <2>. QED  BY <1>1, <2>1, PublishableGrows DEF Mirror!Publish
<1>2. ASSUME NEW h \in DOMAIN l1ToL2Messages, Execute(h)
      PROVE  Mirror!Next
  <2>1. Handler(h) /\ UNCHANGED published /\ executed' = executed \cup {h}
    BY <1>2 DEF Execute
  <2>2. CASE IsRoot(h)
    <3>1. /\ h.payload.value \in Root
          /\ root_history[h.payload.value] = 0
          /\ root_history' = [root_history EXCEPT ![h.payload.value] = now]
          /\ latest_root' = h.payload.value
      BY <2>1, <2>2, HandlerEffect
    <3>2. h.payload.value \in Publishable
      BY <2>1, <2>2, ExecutedRootIsPublishable
    <3>3. mirrored' = mirrored \cup {h.payload.value} /\ h.payload.value \notin mirrored
      BY <3>1 DEF IInv, Log, L2!Received, L2!NULL_ROOT_TIME
    <3>4. UNCHANGED Publishable
      <4>1. Owners' = Owners
        BY <2>1, <2>2, SelectorsDiffer DEF Owners, IsRoot, IsHandover
      <4>. QED  BY <2>1, <4>1 DEF Publishable
    <3>. QED  BY <3>1, <3>2, <3>3, <3>4 DEF Mirror!Mirror, Mirror!Next
  <2>3. CASE ~IsRoot(h)
    BY <1>1, <2>1, <2>3, HandlerEffect DEF Mirror!Next
  <2>. QED  BY <2>2, <2>3
<1>3. ASSUME NEW h \in DOMAIN l1ToL2Messages, Reject(h)
      PROVE  Mirror!Next
  BY <1>1, <1>3 DEF Reject, l2Vars, Mirror!Next
<1>4. CASE L1Next /\ UNCHANGED <<l2Vars, executed>>
  <2>1. published \subseteq published'
    BY <1>4 DEF L1Next, Propagate, Own, propagateRoot, changeL1StateBridgeAddress,
       setRootHistoryExpiry, SendToL2, Administer, setFeeLimitPropagateRoot,
       setFeeLimitSetRootHistoryExpiry, setFeeLimitTransferOwnership,
       setWorldIDIdentityManager, setStarkWorldIDAddress, setStarknetCoreContract,
       transferOwnership, renounceOwnership, updateIdentities
  <2>. QED  BY <1>1, <1>4, <2>1 DEF l2Vars, Mirror!Next
<1>5. CASE Outsider \/ (L2!NextBlock /\ UNCHANGED <<l1Vars, executed>>) \/ UNCHANGED vars
  BY <1>1, <1>5
     DEF Outsider, L2!NextBlock, L2!contractVars, L2!worldIdVars, vars, l1Vars, l2Vars, Mirror!Next
<1>. QED  BY <1>2, <1>3, <1>4, <1>5 DEF Next, Sequencer

\* The detailed bridge implements the abstract mirror, whoever sends messages, in
\* whatever order and whoever becomes owner: roots are taken one at a time, each at
\* most once, and they are published ones as long as authority stays with bridges.
THEOREM ImplementsRootMirrorCorrect == Spec => ImplementsRootMirror
<1>1. Init => Mirror!Init
  <2>. SUFFICES ASSUME Init PROVE Mirror!Init
    OBVIOUS
  <2>1. Publishable \subseteq Root
    BY InitIInv, StarkStateBridgeAssumption DEF Publishable, IInv, L1IInv, L1TypeOK
  <2>. QED  BY <2>1 DEF Init, L2!Init, L2!Received, Mirror!Init
<1>2. IInv /\ IInv' /\ [Next]_vars => [Mirror!Next]_Mirror!vars
  BY StepRefines
<1>. QED
  BY <1>1, <1>2, InitIInv, NextIInv, PTL DEF Spec, ImplementsRootMirror, Mirror!Spec

-----------------------------------------------------------------------------
(* When everything sent has been taken, the L2 contract is at the last root sent. *)
(* That needs one bridge in charge, linked to the L2 contract and to one manager   *)
(* for good, messages taken in order, and roots that never return: without the     *)
(* last, the L2 contract refuses the root that returns and stays behind.           *)

OneBridgeInCharge(M) ==
  /\ InOrder /\ ~RootsMayReturn
  /\ Bridge = {InitialL1Owner}
  /\ M \in Manager
  /\ \A args \in DeployArgs :
       Deployable(args) => args.manager = M /\ args.starkWorldID = StarkWorldIDAddress
  /\ NewManager \subseteq {M, ZeroAddress}
  /\ NewStarkWorldID \subseteq {StarkWorldIDAddress, ZeroAddress}
  /\ NewL1Bridge \subseteq {InitialL1Owner, ZeroAddress}

\* The root messages of the bridge, and the messages the sequencer is through with.
Sent == {h \in DOMAIN l1ToL2Messages : IsRoot(h) /\ h.fromAddress \in Bridge}
Taken == DOMAIN l1ToL2Messages \ Core!Pending

Configured(M) ==
  \A b \in Bridge : /\ bridge[b].worldIDIdentityManager = M
                    /\ bridge[b].starkWorldIDAddress = StarkWorldIDAddress

\* The handler can read every root message the bridge sends.
WellAddressed ==
  \A h \in Sent : /\ h.toAddress = StarkWorldIDAddress
                  /\ h.payload.words = 2
                  /\ h.payload.value \in ManagerRoot

TakenInOrder == \A h \in Taken, g \in Core!Pending : h.nonce < g.nonce

\* A root is sent any number of times on end, but never again once another was.
SentOnEnd(M) ==
  /\ \A f, g, h \in Sent :
       f.nonce <= g.nonce /\ g.nonce <= h.nonce /\ f.payload.value = h.payload.value
         => g.payload.value = f.payload.value
  /\ \A f, g \in Sent :
       f.nonce <= g.nonce /\ f.payload.value = latestRoot[M]
         => g.payload.value = f.payload.value

\* The latest root on L2 is that of the last message taken: one that is not has a
\* later one with another root.
LatestWasTakenLast ==
  \A k \in Sent \cap Taken :
    \/ latest_root = k.payload.value
    \/ \E g \in Sent \cap Taken : g.nonce > k.nonce /\ g.payload.value # k.payload.value

SyncInv(M) ==
  /\ Configured(M) /\ WellAddressed /\ TakenInOrder /\ SentOnEnd(M) /\ LatestWasTakenLast
  /\ \A h \in executed : h.fromAddress \in Bridge

\* Nonces are numbers below the counter, one for each message.
LEMMA NoncesAreDistinct ==
  ASSUME IInv, Core!NonceNumbersMessages
  PROVE  /\ nonce \in Nat
         /\ \A h \in DOMAIN l1ToL2Messages : h.nonce \in Nat /\ h.nonce < nonce
         /\ \A g, h \in DOMAIN l1ToL2Messages : g.nonce = h.nonce => g = h
  BY DEF IInv, L1IInv, L1TypeOK, Core!Hash, Core!NonceNumbersMessages

LEMMA InitSyncInv ==
  ASSUME NEW M, OneBridgeInCharge(M), Init
  PROVE  SyncInv(M)
<1>1. DOMAIN l1ToL2Messages = {} /\ executed = {}
  BY DEF Init, L1Init
<1>2. PICK deployer \in NewOwner \ {ZeroAddress} :
        bridge \in [Bridge -> {constructor(deployer, args) :
                                 args \in {a \in DeployArgs : Deployable(a)}}]
  BY DEF Init, L1Init
<1>3. Configured(M)
  BY <1>2 DEF Configured, OneBridgeInCharge, constructor
<1>. QED
  BY <1>1, <1>3 DEF SyncInv, WellAddressed, TakenInOrder, SentOnEnd, LatestWasTakenLast, Sent,
                    Taken

\* The owner can neither unlink the bridge nor point it at another manager.
LEMMA ConfiguredStep ==
  ASSUME NEW M, OneBridgeInCharge(M), IInv, Configured(M), [Next]_vars
  PROVE  Configured(M)'
<1>1. bridge \in [Bridge -> BridgeStorage]
  BY DEF IInv, L1IInv, L1TypeOK
<1>2. CASE UNCHANGED bridge
  BY <1>2 DEF Configured
<1>3. ASSUME NEW b \in Bridge, NEW sender, Own(b, sender)
      PROVE  Configured(M)'
  <2>1. ASSUME NEW storage,
               storage.worldIDIdentityManager = M,
               storage.starkWorldIDAddress = StarkWorldIDAddress, Administer(b, storage)
        PROVE  Configured(M)'
    BY <1>1, <2>1 DEF Administer, Configured
  <2>2. /\ bridge[b].worldIDIdentityManager = M
        /\ bridge[b].starkWorldIDAddress = StarkWorldIDAddress
        /\ bridge[b] \in BridgeStorage
    BY <1>1 DEF Configured
  <2>3. CASE \E limit \in FeeLimit : \/ setFeeLimitPropagateRoot(b, sender, limit)
                                     \/ setFeeLimitSetRootHistoryExpiry(b, sender, limit)
                                     \/ setFeeLimitTransferOwnership(b, sender, limit)
    BY <2>1, <2>2, <2>3
       DEF setFeeLimitPropagateRoot, setFeeLimitSetRootHistoryExpiry,
           setFeeLimitTransferOwnership, BridgeStorage
  <2>4. CASE \E a \in NewManager : setWorldIDIdentityManager(b, sender, a)
    BY <2>1, <2>2, <2>4 DEF setWorldIDIdentityManager, BridgeStorage, OneBridgeInCharge
  <2>5. CASE \E a \in NewStarkWorldID : setStarkWorldIDAddress(b, sender, a)
    BY <2>1, <2>2, <2>5 DEF setStarkWorldIDAddress, BridgeStorage, OneBridgeInCharge
  <2>6. CASE \/ \E a \in NewCore : setStarknetCoreContract(b, sender, a)
             \/ \E a \in NewOwner : transferOwnership(b, sender, a)
             \/ renounceOwnership(b, sender)
    BY <2>1, <2>2, <2>6
       DEF setStarknetCoreContract, transferOwnership, renounceOwnership, BridgeStorage
  <2>7. CASE \/ \E a \in NewL1Bridge, value \in MsgValue :
                  changeL1StateBridgeAddress(b, sender, a, value)
             \/ \E e \in ExpiryTime, value \in MsgValue :
                  setRootHistoryExpiry(b, sender, e, value)
    BY <1>2, <2>7 DEF changeL1StateBridgeAddress, setRootHistoryExpiry, SendToL2
  <2>. QED  BY <1>3, <2>3, <2>4, <2>5, <2>6, <2>7 DEF Own
<1>4. CASE L1Next
  BY <1>2, <1>3, <1>4 DEF L1Next, Propagate, propagateRoot, SendToL2, updateIdentities
<1>. QED
  BY <1>2, <1>4 DEF Next, Outsider, Sequencer, Execute, Reject, vars, l1Vars

\* What the messages of one step have in common: the next nonce, not taken yet, and,
\* if a bridge sends a root, that of its manager.
LEMMA NewMessages ==
  ASSUME NEW M, OneBridgeInCharge(M), IInv, Configured(M), L1Next \/ Outsider
  PROVE  \A h \in DOMAIN l1ToL2Messages' \ DOMAIN l1ToL2Messages :
           /\ h.nonce = nonce
           /\ l1ToL2Messages'[h] > 0
           /\ UNCHANGED latestRoot
           /\ h.fromAddress \in Bridge /\ IsRoot(h) =>
                /\ h.toAddress = StarkWorldIDAddress
                /\ h.payload = uint256Payload(latestRoot[M])
<1>. SUFFICES ASSUME NEW h \in DOMAIN l1ToL2Messages' \ DOMAIN l1ToL2Messages
              PROVE  /\ h.nonce = nonce
                     /\ l1ToL2Messages'[h] > 0
                     /\ UNCHANGED latestRoot
                     /\ h.fromAddress \in Bridge /\ IsRoot(h) =>
                          /\ h.toAddress = StarkWorldIDAddress
                          /\ h.payload = uint256Payload(latestRoot[M])
  OBVIOUS
<1>1. \A value \in MsgValue : value + 1 > 0
  BY StarkStateBridgeAssumption
<1>2. CASE Outsider
  <2>1. PICK m \in OutsiderMessage, value \in MsgValue :
          /\ Core!sendMessageToL2(m.account, StarkWorldIDAddress, m.selector, m.payload, value)
          /\ UNCHANGED latestRoot
    BY <1>2 DEF Outsider
  <2>2. /\ m.account \in EthAddress /\ m.account \notin Bridge
        /\ m.selector \in Selector /\ m.payload \in Payload /\ StarkWorldIDAddress \in L2Address
    BY WorldIDBridgeAssumption
  <2>. QED  BY <1>1, <2>1, <2>2, NewMessage DEF IInv
<1>3. CASE L1Next
  <2>1. l1ToL2Messages' # l1ToL2Messages
    OBVIOUS
  <2>2. PICK b \in Bridge, s \in Selector, p \in Payload, value \in MsgValue :
          Sends(b, s, p, value)
    BY <1>3, <2>1, L1Sends DEF IInv
  <2>3. /\ h.fromAddress = b /\ h.toAddress = bridge[b].starkWorldIDAddress
        /\ h.nonce = nonce /\ h.selector = s /\ h.payload = p
        /\ l1ToL2Messages'[h] = value + 1
    BY <2>2, BridgeMessage DEF IInv, Sends
  <2>. QED  BY <1>1, <2>2, <2>3 DEF Sends, SendToL2, Configured, IsRoot
<1>. QED  BY <1>2, <1>3

\* A step of L1 puts what it sends behind everything sent before.
LEMMA SentSyncInv ==
  ASSUME NEW M, OneBridgeInCharge(M), IInv, IInv', Core!NonceNumbersMessages,
         Core!NonceNumbersMessages', SyncInv(M),
         L1Next \/ Outsider, UNCHANGED <<l2Vars, executed>>, Configured(M)'
  PROVE  SyncInv(M)'
<1>. DEFINE New == DOMAIN l1ToL2Messages' \ DOMAIN l1ToL2Messages
<1>1. /\ DOMAIN l1ToL2Messages \subseteq DOMAIN l1ToL2Messages'
      /\ \A g \in DOMAIN l1ToL2Messages : l1ToL2Messages'[g] = l1ToL2Messages[g]
  <2>1. CASE L1Next
    BY <2>1, SlotsKept DEF IInv
  <2>2. CASE Outsider
    BY <2>2, WorldIDBridgeAssumption, OtherSlotsKept DEF Outsider, IInv
  <2>. QED  BY <2>1, <2>2
<1>2. \A h \in New : h.nonce = nonce /\ l1ToL2Messages'[h] > 0
  BY NewMessages DEF SyncInv
<1>3. \A h \in New : h.fromAddress \in Bridge /\ IsRoot(h) =>
        /\ UNCHANGED latestRoot
        /\ h.toAddress = StarkWorldIDAddress
        /\ h.payload = uint256Payload(latestRoot[M])
  BY NewMessages DEF SyncInv
<1>4. /\ nonce \in Nat
      /\ \A h \in DOMAIN l1ToL2Messages : h.nonce \in Nat /\ h.nonce < nonce
  BY NoncesAreDistinct
<1>5. /\ Taken' = Taken
      /\ Core!Pending \subseteq Core!Pending'
      /\ Core!Pending' \subseteq Core!Pending \cup New
  BY <1>1, <1>2 DEF Taken, Core!Pending
<1>6. Sent \subseteq Sent' /\ Sent' \subseteq Sent \cup New
  BY <1>1 DEF Sent, IsRoot
<1>7. \A h \in Sent' \ Sent : /\ h \in New
                              /\ UNCHANGED latestRoot
                              /\ h.toAddress = StarkWorldIDAddress
                              /\ h.payload = uint256Payload(latestRoot[M])
  BY <1>3, <1>6 DEF Sent, IsRoot
<1>8. WellAddressed'
  <2>1. latestRoot[M] \in ManagerRoot
    BY DEF OneBridgeInCharge, IInv, L1IInv, L1TypeOK
  <2>. QED  BY <1>7, <2>1 DEF SyncInv, WellAddressed, uint256Payload
<1>9. TakenInOrder'
  BY <1>2, <1>4, <1>5 DEF SyncInv, TakenInOrder, Taken
<1>10. SentOnEnd(M)'
  <2>1. \A h \in Sent' : \/ h \in Sent /\ h.nonce < nonce
                         \/ h \notin Sent /\ h.nonce = nonce /\ h.payload.value = latestRoot[M]
    BY <1>2, <1>4, <1>7 DEF Sent, uint256Payload
  <2>2. \A h \in Sent : h.nonce \in Nat
    BY <1>4 DEF Sent
  <2>3. \A f, g, h \in Sent' :
          f.nonce <= g.nonce /\ g.nonce <= h.nonce /\ f.payload.value = h.payload.value
            => g.payload.value = f.payload.value
    BY <1>4, <2>1, <2>2 DEF SyncInv, SentOnEnd
  <2>4. CASE latestRoot' = latestRoot
    <3>1. \A f, g \in Sent' :
            f.nonce <= g.nonce /\ f.payload.value = latestRoot[M]
              => g.payload.value = f.payload.value
      BY <1>4, <2>1, <2>2 DEF SyncInv, SentOnEnd
    <3>. QED  BY <2>3, <2>4, <3>1 DEF SentOnEnd
  <2>5. CASE latestRoot' # latestRoot
    <3>1. Sent' = Sent
      BY <1>6, <1>7, <2>5
    <3>2. PICK m \in Manager, root \in ManagerRoot : updateIdentities(m, root)
      BY <2>5 DEF Outsider, L1Next, Propagate, propagateRoot, Own, changeL1StateBridgeAddress,
         setRootHistoryExpiry, SendToL2, Administer, setFeeLimitPropagateRoot,
         setFeeLimitSetRootHistoryExpiry, setFeeLimitTransferOwnership,
         setWorldIDIdentityManager, setStarkWorldIDAddress, setStarknetCoreContract,
         transferOwnership, renounceOwnership
    <3>3. root \notin published /\ latestRoot' = [latestRoot EXCEPT ![m] = root]
      BY <3>2 DEF updateIdentities, OneBridgeInCharge
    <3>4. \A h \in Sent : h.payload.value # root
      BY <3>3, ExecutedRootsPublished DEF Sent
    <3>5. latestRoot'[M] = root \/ latestRoot'[M] = latestRoot[M]
      BY <3>3 DEF IInv, L1IInv, L1TypeOK
    <3>6. \A f, g \in Sent' :
            f.nonce <= g.nonce /\ f.payload.value = latestRoot'[M]
              => g.payload.value = f.payload.value
      BY <3>1, <3>4, <3>5 DEF SyncInv, SentOnEnd
    <3>. QED  BY <2>3, <3>6 DEF SentOnEnd
  <2>. QED  BY <2>4, <2>5
<1>11. LatestWasTakenLast'
  <2>1. (Sent \cap Taken)' = Sent \cap Taken
    BY <1>5, <1>6 DEF Taken
  <2>. QED  BY <2>1 DEF SyncInv, LatestWasTakenLast, l2Vars
<1>. QED  BY <1>8, <1>9, <1>10, <1>11 DEF SyncInv

\* What taking a message does to all of it but the latest root.
LEMMA TakenOne ==
  ASSUME NEW M, OneBridgeInCharge(M), IInv, Core!NonceNumbersMessages, SyncInv(M),
         NEW h \in DOMAIN l1ToL2Messages, Takes(h), Core!consumeMessageToL2(h),
         UNCHANGED <<bridge, latestRoot, published>>, Configured(M)'
  PROVE  /\ Configured(M)' /\ WellAddressed' /\ TakenInOrder' /\ SentOnEnd(M)'
         /\ Sent' = Sent
         /\ Taken' = Taken \cup {h}
         /\ \A g \in Taken : g.nonce < h.nonce
<1>1. /\ DOMAIN l1ToL2Messages' = DOMAIN l1ToL2Messages
      /\ h \in Core!Pending /\ Core!Pending' = Core!Pending \ {h}
  BY Consumed
<1>2. Sent' = Sent /\ Taken' = Taken \cup {h}
  BY <1>1 DEF Sent, Taken, IsRoot
<1>3. \A g \in Taken : g.nonce < h.nonce
  BY <1>1 DEF SyncInv, TakenInOrder
<1>4. \A g \in Core!Pending : g # h => h.nonce < g.nonce
  <2>1. \A g \in Core!Pending : h.nonce <= g.nonce
    BY DEF Takes, OneBridgeInCharge
  <2>2. \A g \in Core!Pending : g # h => g.nonce # h.nonce /\ g.nonce \in Nat
    BY NoncesAreDistinct DEF Core!Pending
  <2>. QED  BY <2>1, <2>2, NoncesAreDistinct
<1>5. TakenInOrder'
  BY <1>1, <1>2, <1>4 DEF SyncInv, TakenInOrder
<1>6. WellAddressed' /\ SentOnEnd(M)'
  BY <1>2 DEF SyncInv, WellAddressed, SentOnEnd
<1>. QED  BY <1>2, <1>3, <1>5, <1>6

\* A root message of the bridge that panics carries the root that is the latest: the
\* root was received before, and everything taken since carried it as well.
LEMMA RejectedIsLatest ==
  ASSUME NEW M, OneBridgeInCharge(M), IInv, Core!NonceNumbersMessages, SyncInv(M),
         l1_owner \in Bridge, NEW h \in Sent, Takes(h), ~Runs(h)
  PROVE  latest_root = h.payload.value
<1>1. h \in Core!Pending /\ h \in DOMAIN l1ToL2Messages
  BY DEF Takes, Sent
<1>2. h.fromAddress = l1_owner /\ h.fromAddress # ZeroAddress
  BY StarkStateBridgeAssumption DEF Sent, OneBridgeInCharge
<1>3. /\ h.toAddress = StarkWorldIDAddress /\ h.selector = HANDLE_RECEIVE_ROOT_SELECTOR
      /\ h.payload.words = 2 /\ h.payload.value \in Root
  BY StarkStateBridgeAssumption DEF SyncInv, WellAddressed, Sent, IsRoot
<1>4. L2!Received(h.payload.value)
  BY <1>2, <1>3 DEF Runs, Calls, L2!only_cross_domain_owner, L2!Received
<1>5. PICK e \in executed : IsRoot(e) /\ e.payload.value = h.payload.value
  BY <1>3, <1>4 DEF IInv, HistoryMatchesMessages
<1>6. e \in Sent \cap Taken
  BY <1>5 DEF SyncInv, IInv, Log, HistoryMatchesMessages, Sent, Taken
<1>7. \A g \in Sent \cap Taken : g.nonce > e.nonce => g.payload.value = e.payload.value
  <2>1. \A g \in Sent \cap Taken : g.nonce \in Nat /\ g.nonce < h.nonce
    BY <1>1, NoncesAreDistinct DEF SyncInv, TakenInOrder, Sent
  <2>2. e.nonce \in Nat /\ h.nonce \in Nat
    BY <1>1, <1>6, NoncesAreDistinct DEF Sent
  <2>. QED  BY <1>5, <1>6, <2>1, <2>2 DEF SyncInv, SentOnEnd
<1>. QED  BY <1>5, <1>6, <1>7 DEF SyncInv, LatestWasTakenLast

LEMMA RejectSyncInv ==
  ASSUME NEW M, OneBridgeInCharge(M), IInv, Core!NonceNumbersMessages, SyncInv(M),
         l1_owner \in Bridge, NEW h \in DOMAIN l1ToL2Messages, Reject(h), Configured(M)'
  PROVE  SyncInv(M)'
<1>1. /\ Takes(h) /\ ~Runs(h) /\ Core!consumeMessageToL2(h)
      /\ UNCHANGED <<bridge, latestRoot, published, latest_root, executed>>
  BY DEF Reject, l2Vars
<1>2. /\ WellAddressed' /\ TakenInOrder' /\ SentOnEnd(M)'
      /\ Sent' = Sent /\ Taken' = Taken \cup {h}
  BY <1>1, TakenOne
<1>3. h \in Sent => latest_root = h.payload.value
  BY <1>1, RejectedIsLatest
<1>4. LatestWasTakenLast'
  BY <1>1, <1>2, <1>3 DEF SyncInv, LatestWasTakenLast
<1>. QED  BY <1>1, <1>2, <1>4 DEF SyncInv

\* A root message that runs is the last one taken; other messages are no roots.
LEMMA ExecuteSyncInv ==
  ASSUME NEW M, OneBridgeInCharge(M), IInv, Core!NonceNumbersMessages, SyncInv(M),
         l1_owner \in Bridge, NEW h \in DOMAIN l1ToL2Messages, Execute(h), Configured(M)'
  PROVE  SyncInv(M)'
<1>1. /\ Takes(h) /\ Handler(h) /\ Core!consumeMessageToL2(h)
      /\ executed' = executed \cup {h}
      /\ UNCHANGED <<bridge, latestRoot, published>>
  BY DEF Execute
<1>2. /\ WellAddressed' /\ TakenInOrder' /\ SentOnEnd(M)'
      /\ Sent' = Sent /\ Taken' = Taken \cup {h}
      /\ \A g \in Taken : g.nonce < h.nonce
  BY <1>1, TakenOne
<1>3. h.fromAddress \in Bridge
  BY <1>1, HandlerEffect
<1>4. CASE IsRoot(h)
  <2>1. h \in Sent /\ latest_root' = h.payload.value
    BY <1>1, <1>3, <1>4, HandlerEffect DEF Sent
  <2>2. \A k \in Sent \cap Taken : h.nonce > k.nonce
    BY <1>1, <1>2, NoncesAreDistinct DEF Sent
  <2>. QED  BY <1>1, <1>2, <1>3, <2>1, <2>2 DEF SyncInv, LatestWasTakenLast
<1>5. CASE ~IsRoot(h)
  <2>1. h \notin Sent /\ latest_root' = latest_root
    BY <1>1, <1>5, HandlerEffect DEF Sent
  <2>2. (Sent \cap Taken)' = Sent \cap Taken
    BY <1>2, <2>1
  <2>. QED  BY <1>1, <1>2, <1>3, <2>1, <2>2 DEF SyncInv, LatestWasTakenLast
<1>. QED  BY <1>4, <1>5

LEMMA NextSyncInv ==
  ASSUME NEW M, OneBridgeInCharge(M), IInv, IInv', Core!NonceNumbersMessages,
         Core!NonceNumbersMessages', AuthorityStays, SyncInv(M), [Next]_vars
  PROVE  SyncInv(M)'
<1>1. Configured(M)'
  BY ConfiguredStep DEF SyncInv
<1>2. CASE L1Next /\ UNCHANGED <<l2Vars, executed>>
  BY <1>1, <1>2, SentSyncInv
<1>3. CASE Outsider
  BY <1>1, <1>3, SentSyncInv DEF Outsider
<1>4. CASE Sequencer
  BY <1>1, <1>4, ExecuteSyncInv, RejectSyncInv DEF Sequencer, AuthorityStays
<1>5. CASE (L2!NextBlock /\ UNCHANGED <<l1Vars, executed>>) \/ UNCHANGED vars
  <2>1. UNCHANGED <<latestRoot, l1ToL2Messages, latest_root, executed>>
    BY <1>5 DEF L2!NextBlock, L2!contractVars, L2!worldIdVars, vars, l1Vars, l2Vars
  <2>. QED
    BY <1>1, <2>1 DEF SyncInv, WellAddressed, TakenInOrder, SentOnEnd, LatestWasTakenLast, Sent,
                      Taken, Core!Pending, IsRoot
<1>. QED  BY <1>2, <1>3, <1>4, <1>5 DEF Next

\* With nothing pending every root message was taken, and the last of them, which no
\* later one follows, carries the latest root.
LEMMA SyncInvSuffices ==
  ASSUME NEW M, SyncInv(M), IInv, Core!NonceNumbersMessages
  PROVE  QuiescentInSync
<1>. SUFFICES ASSUME Core!Pending = {}, NEW h \in Sent, \A g \in Sent : g.nonce <= h.nonce
              PROVE  latest_root = h.payload.value
  BY DEF QuiescentInSync, Sent
<1>1. h \in Sent \cap Taken
  BY DEF Taken, Sent
<1>2. \A g \in Sent : g.nonce \in Nat
  BY NoncesAreDistinct DEF Sent
<1>. QED  BY <1>1, <1>2 DEF SyncInv, LatestWasTakenLast

\* While one bridge is in charge, what arrives in order and never returns is mirrored
\* to the end: when nothing is pending, Starknet is at the last root that was sent.
THEOREM QuiescentInSyncCorrect ==
  ASSUME NEW M, OneBridgeInCharge(M)
  PROVE  Spec => []QuiescentInSync
<1>1. Init => AuthorityStays
  <2>1. Init => DOMAIN l1ToL2Messages = {}
    BY DEF Init, L1Init
  <2>. QED  BY <2>1 DEF Init, AuthorityStays, OneBridgeInCharge
<1>2. IInv /\ AuthorityStays /\ [Next]_vars => AuthorityStays'
  BY AuthorityStaysStep DEF OneBridgeInCharge
<1>3. Init => SyncInv(M)
  BY InitSyncInv
<1>4. IInv /\ IInv' /\ Core!NonceNumbersMessages /\ Core!NonceNumbersMessages'
        /\ AuthorityStays /\ SyncInv(M) /\ [Next]_vars => SyncInv(M)'
  BY NextSyncInv
<1>5. SyncInv(M) /\ IInv /\ Core!NonceNumbersMessages => QuiescentInSync
  BY SyncInvSuffices
<1>. QED
  BY <1>1, <1>2, <1>3, <1>4, <1>5, InitIInv, NextIInv, CoreContractCorrect, PTL DEF Spec
=============================================================================
