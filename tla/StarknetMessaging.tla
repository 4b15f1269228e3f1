-------------------------- MODULE StarknetMessaging --------------------------
(***************************************************************************)
(* The L1 side of Starknet's L1 -> L2 messaging: the nonce, the mapping of   *)
(* pending messages and the cancellation of messages by their sender.        *)
(*                                                                          *)
(* keccak256 is taken to be injective, so a message hash is the record of    *)
(* the values hashed.  A mapping is a function on the slots written so far;   *)
(* an unwritten slot reads as 0.  Arithmetic is Solidity 0.8's: an overflow   *)
(* reverts.                                                                  *)
(***************************************************************************)
EXTENDS Integers

CONSTANTS
  EthAddress,                \* callers on L1
  L2Address, Selector, Payload,
  MsgValue,                  \* amounts of wei a call may carry
  MAX_L1_MSG_FEE,
  messageCancellationDelay,  \* set by Starknet, constant here
  MAX_UINT256,
  MaxNonce,                  \* bound on the number of messages
  MaxTimestamp               \* bound on the clock

ASSUME StarknetMessagingAssumption ==
  /\ MsgValue \subseteq Nat
  /\ MAX_L1_MSG_FEE \in Nat
  /\ messageCancellationDelay \in Nat
  /\ MAX_UINT256 \in Nat
  /\ MaxNonce \in Nat
  /\ MaxTimestamp \in Nat

VARIABLES
  nonce,                       \* l1ToL2MessageNonce()
  l1ToL2Messages,              \* hash -> fee + 1, 0 once gone
  l1ToL2MessageCancellations,  \* hash -> time of the latest request
  block_timestamp,
  canceled                     \* history: the hashes a cancellation removed

vars == <<nonce, l1ToL2Messages, l1ToL2MessageCancellations, block_timestamp, canceled>>

Hash == [fromAddress : EthAddress, toAddress : L2Address, nonce : Nat,
         selector : Selector, payload : Payload]

Written(map, h, value) ==
  [g \in DOMAIN map \cup {h} |-> IF g = h THEN value ELSE map[g]]
Read(map, h) == IF h \in DOMAIN map THEN map[h] ELSE 0

Pending == {h \in DOMAIN l1ToL2Messages : l1ToL2Messages[h] > 0}

-----------------------------------------------------------------------------
getL1ToL2MsgHash(sender, to, selector, payload, n) ==
  [fromAddress |-> sender, toAddress |-> to, nonce |-> n,
   selector |-> selector, payload |-> payload]

Init ==
  /\ nonce = 0
  /\ l1ToL2Messages = <<>>
  /\ l1ToL2MessageCancellations = <<>>
  /\ block_timestamp = 1
  /\ canceled = {}

\* Mutant: the nonce is read but never stored.
sendMessageToL2_same_nonce(sender, to, selector, payload, value) ==
  /\ 0 < value /\ value <= MAX_L1_MSG_FEE
  /\ l1ToL2Messages' =
       Written(l1ToL2Messages, getL1ToL2MsgHash(sender, to, selector, payload, nonce), value + 1)
  /\ UNCHANGED <<nonce, l1ToL2MessageCancellations, block_timestamp, canceled>>

\* Mutant: the hash is taken with the nonce already incremented.
sendMessageToL2_next_nonce(sender, to, selector, payload, value) ==
  /\ 0 < value /\ value <= MAX_L1_MSG_FEE
  /\ nonce < MaxNonce
  /\ nonce' = nonce + 1
  /\ l1ToL2Messages' =
       Written(l1ToL2Messages, getL1ToL2MsgHash(sender, to, selector, payload, nonce'), value + 1)
  /\ UNCHANGED <<l1ToL2MessageCancellations, block_timestamp, canceled>>

sendMessageToL2(sender, to, selector, payload, value) ==
  /\ 0 < value /\ value <= MAX_L1_MSG_FEE
  /\ nonce < MaxNonce
  /\ nonce' = nonce + 1
  /\ l1ToL2Messages' =
       Written(l1ToL2Messages, getL1ToL2MsgHash(sender, to, selector, payload, nonce), value + 1)
  /\ UNCHANGED <<l1ToL2MessageCancellations, block_timestamp, canceled>>

\* Mutant: a message that is no longer pending may be requested again.
startL1ToL2MessageCancellation_unchecked(sender, to, selector, payload, n) ==
  LET msgHash == getL1ToL2MsgHash(sender, to, selector, payload, n) IN
  /\ l1ToL2MessageCancellations' =
       Written(l1ToL2MessageCancellations, msgHash, block_timestamp)
  /\ UNCHANGED <<nonce, l1ToL2Messages, block_timestamp, canceled>>

\* A second request overwrites the time of the first.
startL1ToL2MessageCancellation(sender, to, selector, payload, n) ==
  LET msgHash == getL1ToL2MsgHash(sender, to, selector, payload, n) IN
  /\ Read(l1ToL2Messages, msgHash) > 0
  /\ l1ToL2MessageCancellations' =
       Written(l1ToL2MessageCancellations, msgHash, block_timestamp)
  /\ UNCHANGED <<nonce, l1ToL2Messages, block_timestamp, canceled>>

\* Mutant: unchecked addition, and no test for the overflow.
cancelL1ToL2Message_wrapping(sender, to, selector, payload, n) ==
  LET msgHash == getL1ToL2MsgHash(sender, to, selector, payload, n)
      requestTime == Read(l1ToL2MessageCancellations, msgHash)
      cancelAllowedTime == (requestTime + messageCancellationDelay) % (MAX_UINT256 + 1)
  IN
  /\ Read(l1ToL2Messages, msgHash) # 0
  /\ requestTime # 0
  /\ block_timestamp >= cancelAllowedTime
  /\ l1ToL2Messages' = Written(l1ToL2Messages, msgHash, 0)
  /\ canceled' = canceled \cup {msgHash}
  /\ UNCHANGED <<nonce, l1ToL2MessageCancellations, block_timestamp>>

cancelL1ToL2Message(sender, to, selector, payload, n) ==
  LET msgHash == getL1ToL2MsgHash(sender, to, selector, payload, n)
      requestTime == Read(l1ToL2MessageCancellations, msgHash)
      cancelAllowedTime == requestTime + messageCancellationDelay
  IN
  /\ Read(l1ToL2Messages, msgHash) # 0
  /\ requestTime # 0
  /\ cancelAllowedTime <= MAX_UINT256
  /\ block_timestamp >= cancelAllowedTime
  /\ l1ToL2Messages' = Written(l1ToL2Messages, msgHash, 0)
  /\ canceled' = canceled \cup {msgHash}
  /\ UNCHANGED <<nonce, l1ToL2MessageCancellations, block_timestamp>>

\* Starknet's state update clears a message its L2 handler has consumed.
consumeMessageToL2(h) ==
  /\ h \in Pending
  /\ l1ToL2Messages' = Written(l1ToL2Messages, h, 0)
  /\ UNCHANGED <<nonce, l1ToL2MessageCancellations, block_timestamp, canceled>>

NextBlock ==
  /\ block_timestamp < MaxTimestamp
  /\ block_timestamp' = block_timestamp + 1
  /\ UNCHANGED <<nonce, l1ToL2Messages, l1ToL2MessageCancellations, canceled>>

Next ==
  \/ \E sender \in EthAddress, to \in L2Address, s \in Selector, p \in Payload :
       \/ \E value \in MsgValue : sendMessageToL2(sender, to, s, p, value)
       \/ \E n \in 0..MaxNonce : startL1ToL2MessageCancellation(sender, to, s, p, n)
       \/ \E n \in 0..MaxNonce : cancelL1ToL2Message(sender, to, s, p, n)
  \/ \E h \in DOMAIN l1ToL2Messages : consumeMessageToL2(h)
  \/ NextBlock

Spec == Init /\ [][Next]_vars

-----------------------------------------------------------------------------
(* Properties *)

TypeOK ==
  /\ nonce \in Nat
  /\ DOMAIN l1ToL2Messages \subseteq Hash
  /\ l1ToL2Messages \in [DOMAIN l1ToL2Messages -> Nat]
  /\ DOMAIN l1ToL2MessageCancellations \subseteq DOMAIN l1ToL2Messages
  /\ l1ToL2MessageCancellations \in [DOMAIN l1ToL2MessageCancellations -> Nat]
  /\ block_timestamp \in Nat /\ block_timestamp > 0
  /\ canceled \subseteq DOMAIN l1ToL2Messages

\* Nonces number the messages: no nonce is shared by two messages, whoever sent
\* them, none is skipped and none is used ahead of the counter.
NonceNumbersMessages ==
  /\ \A n \in 0..(nonce - 1) : \E h \in DOMAIN l1ToL2Messages : h.nonce = n
  /\ \A h \in DOMAIN l1ToL2Messages : h.nonce < nonce
  /\ \A g, h \in DOMAIN l1ToL2Messages : g.nonce = h.nonce => g = h

\* What sendMessageToL2 says of its hash, "was not accessed before": a slot once
\* written keeps its fee or is cleared; a message consumed or cancelled is
\* never pending again.
NeverPendingAgain ==
  [][\A h \in DOMAIN l1ToL2Messages :
       l1ToL2Messages'[h] \in {l1ToL2Messages[h], 0}]_vars

\* A cancelled message is not pending, and Starknet had the whole delay, counted
\* from the latest request, to consume it first.
CanceledAfterDelay ==
  \A h \in canceled :
    /\ h \notin Pending
    /\ h \in DOMAIN l1ToL2MessageCancellations
    /\ block_timestamp >= l1ToL2MessageCancellations[h] + messageCancellationDelay
=============================================================================
