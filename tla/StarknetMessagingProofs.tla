----------------------- MODULE StarknetMessagingProofs -----------------------
(* Theorems about StarknetMessaging, for every set of callers and messages,     *)
(* every delay and every bound.                                                *)
EXTENDS StarknetMessaging, TLAPS

IInv == TypeOK /\ NonceNumbersMessages /\ CanceledAfterDelay

\* Writing a slot changes no other slot.
LEMMA WrittenSlots ==
  ASSUME NEW map, NEW h, NEW value
  PROVE  /\ DOMAIN Written(map, h, value) = DOMAIN map \cup {h}
         /\ Written(map, h, value)[h] = value
         /\ \A g \in DOMAIN map : g # h => Written(map, h, value)[g] = map[g]
  BY DEF Written

\* Clearing the slot of a known message keeps the invariant of the slots.
LEMMA Cleared ==
  ASSUME IInv, NEW h \in DOMAIN l1ToL2Messages,
         l1ToL2Messages' = Written(l1ToL2Messages, h, 0)
  PROVE  /\ DOMAIN l1ToL2Messages' = DOMAIN l1ToL2Messages
         /\ l1ToL2Messages' \in [DOMAIN l1ToL2Messages -> Nat]
         /\ \A g \in DOMAIN l1ToL2Messages : l1ToL2Messages'[g] \in {l1ToL2Messages[g], 0}
         /\ Pending' = Pending \ {h}
<1>1. DOMAIN l1ToL2Messages' = DOMAIN l1ToL2Messages
  BY DEF Written
<1>2. l1ToL2Messages' = [g \in DOMAIN l1ToL2Messages |->
                           IF g = h THEN 0 ELSE l1ToL2Messages[g]]
  BY DEF Written
<1>3. l1ToL2Messages \in [DOMAIN l1ToL2Messages -> Nat]
  BY DEF IInv, TypeOK
<1>. QED  BY <1>1, <1>2, <1>3 DEF Pending

\* Nothing is pending, requested or cancelled at first.
LEMMA InitIInv == Init => IInv
<1>. SUFFICES ASSUME Init PROVE IInv
  OBVIOUS
<1>1. DOMAIN l1ToL2Messages = {} /\ DOMAIN l1ToL2MessageCancellations = {}
  BY DEF Init
<1>2. TypeOK
  BY <1>1 DEF Init, TypeOK
<1>3. NonceNumbersMessages /\ CanceledAfterDelay
  BY <1>1 DEF Init, NonceNumbersMessages, CanceledAfterDelay
<1>. QED  BY <1>2, <1>3 DEF IInv

\* The nonce is fresh, so the slot sendMessageToL2 writes was never accessed.
LEMMA SendFresh ==
  ASSUME IInv, NEW sender \in EthAddress, NEW to \in L2Address, NEW s \in Selector,
         NEW p \in Payload, NEW value \in MsgValue,
         sendMessageToL2(sender, to, s, p, value)
  PROVE  /\ getL1ToL2MsgHash(sender, to, s, p, nonce) \notin DOMAIN l1ToL2Messages
         /\ getL1ToL2MsgHash(sender, to, s, p, nonce) \in Hash
  BY DEF IInv, TypeOK, NonceNumbersMessages, getL1ToL2MsgHash, Hash

LEMMA SendIInv ==
  ASSUME IInv, NEW sender \in EthAddress, NEW to \in L2Address, NEW s \in Selector,
         NEW p \in Payload, NEW value \in MsgValue,
         sendMessageToL2(sender, to, s, p, value)
  PROVE  /\ IInv'
         /\ \A g \in DOMAIN l1ToL2Messages : l1ToL2Messages'[g] = l1ToL2Messages[g]
<1>. DEFINE h == getL1ToL2MsgHash(sender, to, s, p, nonce)
<1>1. h \notin DOMAIN l1ToL2Messages /\ h \in Hash
  BY SendFresh
<1>2. /\ DOMAIN l1ToL2Messages' = DOMAIN l1ToL2Messages \cup {h}
      /\ l1ToL2Messages'[h] = value + 1
      /\ \A g \in DOMAIN l1ToL2Messages : l1ToL2Messages'[g] = l1ToL2Messages[g]
      /\ l1ToL2Messages' \in [DOMAIN l1ToL2Messages' -> Nat]
  <2>1. l1ToL2Messages' = Written(l1ToL2Messages, h, value + 1)
    BY DEF sendMessageToL2
  <2>2. value + 1 \in Nat
    BY StarknetMessagingAssumption
  <2>3. l1ToL2Messages \in [DOMAIN l1ToL2Messages -> Nat]
    BY DEF IInv, TypeOK
  <2>. HIDE DEF h
  <2>. QED  BY <1>1, <2>1, <2>2, <2>3 DEF Written
<1>3. h.nonce = nonce /\ nonce' = nonce + 1 /\ nonce \in Nat
  BY DEF sendMessageToL2, getL1ToL2MsgHash, IInv, TypeOK
<1>4. UNCHANGED <<l1ToL2MessageCancellations, block_timestamp, canceled>>
  BY DEF sendMessageToL2
<1>. HIDE DEF h
<1>5. TypeOK'
  BY <1>1, <1>2, <1>3, <1>4 DEF IInv, TypeOK
<1>6. NonceNumbersMessages'
  <2>. USE <1>2, <1>3 DEF IInv, NonceNumbersMessages
  <2>1. \A n \in 0..(nonce' - 1) : \E g \in DOMAIN l1ToL2Messages' : g.nonce = n
    <3>. TAKE n \in 0..(nonce' - 1)
    <3>1. CASE n = nonce
      BY <3>1
    <3>2. CASE n # nonce
      BY <3>2
    <3>. QED  BY <3>1, <3>2
  <2>2. \A g \in DOMAIN l1ToL2Messages' : g.nonce < nonce'
    <3>1. \A g \in DOMAIN l1ToL2Messages : g.nonce \in Nat
      BY DEF TypeOK, Hash
    <3>. QED  BY <3>1
  <2>3. \A f, g \in DOMAIN l1ToL2Messages' : f.nonce = g.nonce => f = g
    <3>1. \A g \in DOMAIN l1ToL2Messages : g.nonce # nonce
      <4>1. \A g \in DOMAIN l1ToL2Messages : g.nonce \in Nat /\ g.nonce < nonce
        BY DEF TypeOK, Hash
      <4>. QED  BY <4>1
    <3>. QED  BY <3>1
  <2>. QED  BY <2>1, <2>2, <2>3
<1>7. CanceledAfterDelay'
  BY <1>2, <1>4 DEF IInv, TypeOK, CanceledAfterDelay, Pending
<1>. QED  BY <1>2, <1>5, <1>6, <1>7 DEF IInv

\* Only a pending message can be requested, so a cancelled one keeps its stamp.
LEMMA StartIInv ==
  ASSUME IInv, NEW sender \in EthAddress, NEW to \in L2Address, NEW s \in Selector,
         NEW p \in Payload, NEW n \in 0..MaxNonce,
         startL1ToL2MessageCancellation(sender, to, s, p, n)
  PROVE  IInv' /\ UNCHANGED l1ToL2Messages
<1>. DEFINE h == getL1ToL2MsgHash(sender, to, s, p, n)
<1>1. /\ Read(l1ToL2Messages, h) > 0
      /\ l1ToL2MessageCancellations' = Written(l1ToL2MessageCancellations, h, block_timestamp)
      /\ UNCHANGED <<nonce, l1ToL2Messages, block_timestamp, canceled>>
  BY DEF startL1ToL2MessageCancellation
<1>. HIDE DEF h
<1>2. h \in DOMAIN l1ToL2Messages /\ l1ToL2Messages[h] > 0
  BY <1>1 DEF Read
<1>3. TypeOK'
  <2>1. DOMAIN l1ToL2MessageCancellations' = DOMAIN l1ToL2MessageCancellations \cup {h}
    BY <1>1, WrittenSlots
  <2>2. l1ToL2MessageCancellations' \in [DOMAIN l1ToL2MessageCancellations' -> Nat]
    BY <1>1 DEF Written, IInv, TypeOK
  <2>. QED  BY <1>1, <1>2, <2>1, <2>2 DEF IInv, TypeOK
<1>4. NonceNumbersMessages'
  BY <1>1 DEF IInv, NonceNumbersMessages
<1>5. CanceledAfterDelay'
  <2>1. h \notin canceled
    BY <1>2 DEF IInv, CanceledAfterDelay, Pending
  <2>2. \A g \in canceled : /\ g \in DOMAIN l1ToL2MessageCancellations'
                            /\ l1ToL2MessageCancellations'[g] = l1ToL2MessageCancellations[g]
    BY <1>1, <2>1 DEF Written, IInv, CanceledAfterDelay
  <2>. QED  BY <1>1, <2>2 DEF IInv, CanceledAfterDelay, Pending
<1>. QED  BY <1>1, <1>3, <1>4, <1>5 DEF IInv

LEMMA CancelIInv ==
  ASSUME IInv, NEW sender \in EthAddress, NEW to \in L2Address, NEW s \in Selector,
         NEW p \in Payload, NEW n \in 0..MaxNonce,
         cancelL1ToL2Message(sender, to, s, p, n)
  PROVE  /\ IInv'
         /\ \A g \in DOMAIN l1ToL2Messages : l1ToL2Messages'[g] \in {l1ToL2Messages[g], 0}
<1>. DEFINE h == getL1ToL2MsgHash(sender, to, s, p, n)
            requestTime == Read(l1ToL2MessageCancellations, h)
<1>1. /\ Read(l1ToL2Messages, h) # 0
      /\ requestTime # 0
      /\ block_timestamp >= requestTime + messageCancellationDelay
      /\ l1ToL2Messages' = Written(l1ToL2Messages, h, 0)
      /\ canceled' = canceled \cup {h}
      /\ UNCHANGED <<nonce, l1ToL2MessageCancellations, block_timestamp>>
  BY DEF cancelL1ToL2Message
<1>. HIDE DEF h
<1>2. /\ h \in DOMAIN l1ToL2Messages
      /\ h \in DOMAIN l1ToL2MessageCancellations
      /\ requestTime = l1ToL2MessageCancellations[h]
  BY <1>1 DEF Read
<1>3. /\ DOMAIN l1ToL2Messages' = DOMAIN l1ToL2Messages
      /\ l1ToL2Messages' \in [DOMAIN l1ToL2Messages -> Nat]
      /\ \A g \in DOMAIN l1ToL2Messages : l1ToL2Messages'[g] \in {l1ToL2Messages[g], 0}
      /\ Pending' = Pending \ {h}
  BY <1>1, <1>2, Cleared
<1>4. TypeOK'
  BY <1>1, <1>2, <1>3 DEF IInv, TypeOK
<1>5. NonceNumbersMessages'
  BY <1>1, <1>3 DEF IInv, NonceNumbersMessages
<1>6. CanceledAfterDelay'
  BY <1>1, <1>2, <1>3 DEF IInv, CanceledAfterDelay
<1>. QED  BY <1>3, <1>4, <1>5, <1>6 DEF IInv

LEMMA ConsumeIInv ==
  ASSUME IInv, NEW h \in DOMAIN l1ToL2Messages, consumeMessageToL2(h)
  PROVE  /\ IInv'
         /\ \A g \in DOMAIN l1ToL2Messages : l1ToL2Messages'[g] \in {l1ToL2Messages[g], 0}
<1>1. /\ l1ToL2Messages' = Written(l1ToL2Messages, h, 0)
      /\ UNCHANGED <<nonce, l1ToL2MessageCancellations, block_timestamp, canceled>>
  BY DEF consumeMessageToL2
<1>2. /\ DOMAIN l1ToL2Messages' = DOMAIN l1ToL2Messages
      /\ l1ToL2Messages' \in [DOMAIN l1ToL2Messages -> Nat]
      /\ \A g \in DOMAIN l1ToL2Messages : l1ToL2Messages'[g] \in {l1ToL2Messages[g], 0}
      /\ Pending' = Pending \ {h}
  BY <1>1, Cleared
<1>3. TypeOK' /\ NonceNumbersMessages' /\ CanceledAfterDelay'
  BY <1>1, <1>2 DEF IInv, TypeOK, NonceNumbersMessages, CanceledAfterDelay
<1>. QED  BY <1>2, <1>3 DEF IInv

\* What every step does to the invariant and to the slots already written.
LEMMA NextIInv ==
  ASSUME IInv, [Next]_vars
  PROVE  /\ IInv'
         /\ \A g \in DOMAIN l1ToL2Messages : l1ToL2Messages'[g] \in {l1ToL2Messages[g], 0}
<1>1. ASSUME NEW sender \in EthAddress, NEW to \in L2Address, NEW s \in Selector,
             NEW p \in Payload,
             \/ \E value \in MsgValue : sendMessageToL2(sender, to, s, p, value)
             \/ \E n \in 0..MaxNonce : startL1ToL2MessageCancellation(sender, to, s, p, n)
             \/ \E n \in 0..MaxNonce : cancelL1ToL2Message(sender, to, s, p, n)
      PROVE  /\ IInv'
             /\ \A g \in DOMAIN l1ToL2Messages : l1ToL2Messages'[g] \in {l1ToL2Messages[g], 0}
  BY <1>1, SendIInv, StartIInv, CancelIInv
<1>2. ASSUME NEW h \in DOMAIN l1ToL2Messages, consumeMessageToL2(h)
      PROVE  /\ IInv'
             /\ \A g \in DOMAIN l1ToL2Messages : l1ToL2Messages'[g] \in {l1ToL2Messages[g], 0}
  BY <1>2, ConsumeIInv
<1>3. ASSUME NextBlock \/ UNCHANGED vars
      PROVE  /\ IInv'
             /\ \A g \in DOMAIN l1ToL2Messages : l1ToL2Messages'[g] \in {l1ToL2Messages[g], 0}
  <2>1. /\ UNCHANGED <<nonce, l1ToL2Messages, l1ToL2MessageCancellations, canceled>>
        /\ block_timestamp' >= block_timestamp /\ block_timestamp' \in Nat
    BY <1>3 DEF NextBlock, vars, IInv, TypeOK
  <2>2. TypeOK' /\ NonceNumbersMessages'
    BY <2>1 DEF IInv, TypeOK, NonceNumbersMessages
  <2>3. CanceledAfterDelay'
    BY <2>1, StarknetMessagingAssumption DEF IInv, TypeOK, CanceledAfterDelay, Pending
  <2>. QED  BY <2>1, <2>2, <2>3 DEF IInv
<1>. QED  BY <1>1, <1>2, <1>3 DEF Next

\* The contract's storage keeps its types.
THEOREM TypeCorrect == Spec => []TypeOK
<1>1. IInv /\ [Next]_vars => IInv'  BY NextIInv
<1>2. IInv => TypeOK  BY DEF IInv
<1>. QED  BY <1>1, <1>2, InitIInv, PTL DEF Spec

\* Messages and nonces correspond one to one.
THEOREM NonceNumbersMessagesCorrect == Spec => []NonceNumbersMessages
<1>1. IInv /\ [Next]_vars => IInv'  BY NextIInv
<1>2. IInv => NonceNumbersMessages  BY DEF IInv
<1>. QED  BY <1>1, <1>2, InitIInv, PTL DEF Spec

\* No cancellation takes effect before the delay is over.
THEOREM CanceledAfterDelayCorrect == Spec => []CanceledAfterDelay
<1>1. IInv /\ [Next]_vars => IInv'  BY NextIInv
<1>2. IInv => CanceledAfterDelay  BY DEF IInv
<1>. QED  BY <1>1, <1>2, InitIInv, PTL DEF Spec

\* A message that was consumed or cancelled is never pending again.
THEOREM NeverPendingAgainCorrect == Spec => NeverPendingAgain
<1>1. IInv /\ [Next]_vars => IInv'  BY NextIInv
<1>2. IInv /\ [Next]_vars
        => [\A h \in DOMAIN l1ToL2Messages :
              l1ToL2Messages'[h] \in {l1ToL2Messages[h], 0}]_vars
  BY NextIInv
<1>. QED  BY <1>1, <1>2, InitIInv, PTL DEF Spec, NeverPendingAgain
=============================================================================
