------------------------- MODULE RelayServiceProofs -------------------------
(* Theorems about the relay, for every fee setting, channel capacity and cache  *)
(* size, with any number of failing calls, lost connections and restarts.       *)
EXTENDS RelayService, WorldIDBridgeProofs, RootCacheProofs

TaskRecord ==
  [pc : {"idle", "compare", "fee", "fill", "send", "receipt", "exited"},
   root : Root, value : Nat, nonce : Nat, attempts : 0..retry_delays]

\* Once the fee is known it is an amount a message may cost; the nonce a task is
\* about to use was the count of mined transactions some time ago.
TasksOK ==
  /\ task \in [Task -> TaskRecord]
  /\ \A t \in Task :
       /\ task[t].pc \in {"fill", "send", "receipt"} => task[t].value \in MsgValue
       /\ At(t, "send") => task[t].nonce <= transaction_count

WalletOK ==
  /\ mempool \subseteq [by : Task, nonce : Nat, value : MsgValue]
  /\ mined \in Seq(Task)
  /\ OnePendingTransaction

QueueOK == queue \in Seq(Root) /\ Len(queue) <= CHANNEL_CAPACITY

StreamsOK ==
  /\ listener \in [pc : {"connect", "subscribe", "stream", "send", "exited"}, root : Root]
  /\ poll_signals \in 0..CHANNEL_CAPACITY
  /\ stream \in Seq(Root)
  /\ subscribed \in BOOLEAN
  /\ faults \in Nat

RelayOK == TasksOK /\ WalletOK /\ QueueOK /\ StreamsOK

ServiceInv == IInv /\ RelayOK

-----------------------------------------------------------------------------
(* How a root's handling ends *)

LEMMA WithRecord ==
  ASSUME NEW root \in Root, NEW pc \in {"idle", "compare", "fee", "exited"}
  PROVE  With(pc, root) \in TaskRecord /\ With(pc, root).pc = pc
  BY DEF With, TaskRecord, retry_delays

LEMMA EndRecords ==
  /\ Idle \in TaskRecord /\ Exited \in TaskRecord
  /\ Idle.pc = "idle" /\ Exited.pc = "exited"
  BY WithRecord, StarkStateBridgeAssumption DEF Idle, Exited

LEMMA ConnectRecord ==
  [pc |-> "connect", root |-> ZeroRoot] \in
    [pc : {"connect", "subscribe", "stream", "send", "exited"}, root : Root]
  BY StarkStateBridgeAssumption

LEMMA NoSignalsOK == 0 \in 0..CHANNEL_CAPACITY
  BY RelayServiceAssumption

LEMMA EmptyQueueOK == <<>> \in Seq(Root) /\ Len(<<>>) <= CHANNEL_CAPACITY
  BY EmptySeq, RelayServiceAssumption

\* A task that gives up, starts over or is done is left in a good state, and the
\* queue is as it was or empty.
LEMMA EndOK ==
  ASSUME TasksOK, QueueOK, mined' = mined, NEW t \in Task,
         \/ GiveUp(t)
         \/ Done(t)
         \/ FastFail(t) /\ task[t].pc \in {"fill", "send", "receipt"}
  PROVE  TasksOK' /\ QueueOK'
<1>1. CASE GiveUp(t)
  BY <1>1, EndRecords, EmptyQueueOK DEF GiveUp, TasksOK, QueueOK, At, transaction_count
<1>2. CASE Done(t)
  BY <1>2, EndRecords DEF Done, TasksOK, QueueOK, At, transaction_count
<1>3. CASE FastFail(t) /\ task[t].pc \in {"fill", "send", "receipt"}
  <2>1. CASE task[t].attempts < retry_delays
    <3>1. /\ task' = [task EXCEPT ![t].pc = "fill", ![t].attempts = @ + 1]
          /\ queue' = queue
      BY <1>3, <2>1 DEF FastFail
    <3>2. task'[t] \in TaskRecord /\ task'[t].pc = "fill" /\ task'[t].value = task[t].value
      BY <2>1, <3>1 DEF TasksOK, TaskRecord, retry_delays
    <3>. QED  BY <1>3, <3>1, <3>2 DEF TasksOK, QueueOK, At, transaction_count
  <2>2. CASE ~(task[t].attempts < retry_delays)
    BY <1>1, <1>3, <2>2 DEF FastFail
  <2>. QED  BY <2>1, <2>2
<1>. QED  BY <1>1, <1>2, <1>3

\* The fee a task goes on with is an amount a message may cost.
LEMMA FeePaid == \A root : FeeFor(root) \subseteq MsgValue
<1>. SUFFICES ASSUME NEW root PROVE FeeFor(root) \subseteq MsgValue
  OBVIOUS
<1>1. estimate_messaging_fee(root) \subseteq overall_fee
  BY DEF estimate_messaging_fee
<1>2. \A fee \in overall_fee : cap_estimated_fee(fee) \in MsgValue
  BY RelayServiceAssumption DEF cap_estimated_fee
<1>. QED  BY <1>1, <1>2, RelayServiceAssumption DEF FeeFor

\* A transaction of a task about to send can only be accepted with the next
\* nonce, and then no other is pending.
LEMMA AcceptedIsNext ==
  ASSUME TasksOK, WalletOK, NEW t \in Task, At(t, "send"), Acceptable(Transaction(t)),
         mempool' = mempool \cup {Transaction(t)}, mined' = mined
  PROVE  WalletOK'
<1>1. Transaction(t) \in [by : Task, nonce : Nat, value : MsgValue]
  BY DEF Transaction, TasksOK, TaskRecord, At
<1>2. Transaction(t).nonce = transaction_count
  <2>1. transaction_count \in Nat
    BY LenProperties DEF WalletOK, transaction_count
  <2>. QED  BY <2>1 DEF Acceptable, Transaction, TasksOK, TaskRecord
<1>3. mempool = {}
  BY <1>2 DEF Acceptable, WalletOK, OnePendingTransaction
<1>. QED  BY <1>1, <1>2, <1>3 DEF WalletOK, OnePendingTransaction, transaction_count

-----------------------------------------------------------------------------
(* The relay's steps *)

LEMMA ListenOK ==
  ASSUME RelayOK, Listen
  PROVE  RelayOK'
<1>1. CASE Connect
  BY <1>1, RelayServiceAssumption
     DEF Connect, RelayOK, TasksOK, WalletOK, QueueOK, StreamsOK, envVars, At,
         transaction_count, OnePendingTransaction
<1>2. CASE Subscribe
  BY <1>2
     DEF Subscribe, RelayOK, TasksOK, WalletOK, QueueOK, StreamsOK, At,
         transaction_count, OnePendingTransaction
<1>3. CASE ReadLog
  <2>1. Head(stream) \in Root /\ Tail(stream) \in Seq(Root)
    BY <1>3, HeadTailProperties DEF ReadLog, RelayOK, StreamsOK
  <2>2. listener' \in [pc : {"connect", "subscribe", "stream", "send", "exited"}, root : Root]
    BY <1>3, <2>1 DEF ReadLog, RelayOK, StreamsOK
  <2>. QED
    BY <1>3, <2>1, <2>2, RelayServiceAssumption
       DEF ReadLog, RelayOK, TasksOK, WalletOK, QueueOK, StreamsOK, At,
           transaction_count, OnePendingTransaction
<1>4. CASE QueueEvent
  <2>1. QueueOK'
    <3>1. listener.root \in Root /\ queue \in Seq(Root) /\ Len(queue) < CHANNEL_CAPACITY
      BY <1>4 DEF QueueEvent, RelayOK, StreamsOK, QueueOK
    <3>2. queue' \in Seq(Root) /\ Len(queue') = Len(queue) + 1
      BY <1>4, <3>1, AppendProperties DEF QueueEvent
    <3>. QED  BY <3>1, <3>2, LenProperties, RelayServiceAssumption DEF QueueOK
  <2>. QED
    BY <1>4, <2>1, StarkStateBridgeAssumption
       DEF QueueEvent, RelayOK, TasksOK, WalletOK, StreamsOK, envVars, At,
           transaction_count, OnePendingTransaction
<1>5. CASE ReceiverGone
  BY <1>5, EmptySeq, StarkStateBridgeAssumption
     DEF ReceiverGone, RelayOK, TasksOK, WalletOK, QueueOK, StreamsOK, At,
         transaction_count, OnePendingTransaction
<1>6. CASE StreamEnds
  BY <1>6
     DEF StreamEnds, RelayOK, TasksOK, WalletOK, QueueOK, StreamsOK, envVars, At,
         transaction_count, OnePendingTransaction
<1>. QED  BY <1>1, <1>2, <1>3, <1>4, <1>5, <1>6 DEF Listen

LEMMA TakeEventOK ==
  ASSUME RelayOK, TakeEvent
  PROVE  RelayOK'
<1>1. Head(queue) \in Root /\ Tail(queue) \in Seq(Root) /\ Len(Tail(queue)) = Len(queue) - 1
  BY HeadTailProperties DEF TakeEvent, RelayOK, QueueOK
<1>2. QueueOK'
  BY <1>1, LenProperties, RelayServiceAssumption DEF TakeEvent, RelayOK, QueueOK
<1>3. TasksOK'
  BY <1>1, WithRecord DEF TakeEvent, RelayOK, TasksOK, At, envVars, transaction_count
<1>. QED
  BY <1>2, <1>3 DEF TakeEvent, RelayOK, WalletOK, StreamsOK, envVars, OnePendingTransaction,
                    transaction_count

LEMMA PollOK ==
  ASSUME IInv, RelayOK, TakeSignal \/ FetchL1Root \/ CompareRoots
  PROVE  RelayOK'
<1>1. CASE TakeSignal
  BY <1>1, RelayServiceAssumption
     DEF TakeSignal, RelayOK, TasksOK, WalletOK, QueueOK, StreamsOK, envVars, At,
         transaction_count, OnePendingTransaction
<1>2. CASE FetchL1Root
  <2>1. get_l1_root_u256 \in Root
    BY RelayServiceAssumption, StarkStateBridgeAssumption
       DEF get_l1_root_u256, IInv, L1IInv, L1TypeOK
  <2>2. TasksOK'
    BY <1>2, <2>1, WithRecord DEF Task, FetchL1Root, RelayOK, TasksOK, At, envVars, transaction_count
  <2>. QED
    BY <1>2, <2>2 DEF FetchL1Root, RelayOK, WalletOK, QueueOK, StreamsOK, envVars,
                      OnePendingTransaction, transaction_count
<1>3. CASE CompareRoots
  <2>1. Poller \in Task /\ UNCHANGED <<listener, poll_signals, envVars>>
    BY <1>3 DEF CompareRoots, Task
  <2>2. TasksOK' /\ QueueOK'
    <3>1. CASE Done(Poller)
      BY <2>1, <3>1, EndOK DEF RelayOK, envVars
    <3>2. CASE task' = [task EXCEPT ![Poller].pc = "fee"] /\ UNCHANGED queue
      BY <2>1, <3>2 DEF RelayOK, TasksOK, TaskRecord, QueueOK, At, envVars, transaction_count
    <3>. QED  BY <1>3, <3>1, <3>2 DEF CompareRoots
  <2>. QED
    BY <2>1, <2>2 DEF RelayOK, WalletOK, StreamsOK, envVars, OnePendingTransaction,
                      transaction_count
<1>. QED  BY <1>1, <1>2, <1>3

\* What two tasks do with the one wallet keeps its pending transactions to one.
LEMMA PropagatingOK ==
  ASSUME RelayOK, NEW t \in Task, Propagating(t)
  PROVE  RelayOK'
<1>1. CASE Fee(t)
  <2>1. TasksOK' /\ QueueOK'
    <3>1. ASSUME NEW fee \in FeeFor(task[t].root),
                 task' = [task EXCEPT ![t].pc = "fill", ![t].value = fee], UNCHANGED queue
          PROVE  TasksOK' /\ QueueOK'
      <4>1. fee \in MsgValue /\ fee \in Nat
        BY FeePaid, StarkStateBridgeAssumption
      <4>2. /\ task'[t] \in TaskRecord /\ task'[t].pc = "fill" /\ task'[t].value = fee
            /\ \A u \in Task \ {t} : task'[u] = task[u]
            /\ task' \in [Task -> TaskRecord]
        <5>. DEFINE r == [task[t] EXCEPT !.pc = "fill", !.value = fee]
        <5>1. r \in TaskRecord /\ r.pc = "fill" /\ r.value = fee
          BY <4>1 DEF RelayOK, TasksOK, TaskRecord
        <5>2. task' = [task EXCEPT ![t] = r]
          BY <3>1
        <5>. HIDE DEF r
        <5>. QED  BY <5>1, <5>2 DEF RelayOK, TasksOK
      <4>3. UNCHANGED transaction_count
        BY <1>1 DEF Fee, envVars, transaction_count
      <4>. QED  BY <3>1, <4>1, <4>2, <4>3 DEF RelayOK, TasksOK, QueueOK, At
    <3>2. CASE GiveUp(t)
      BY <1>1, <3>2, EndOK DEF Fee, RelayOK, envVars
    <3>. QED  BY <1>1, <3>1, <3>2 DEF Fee
  <2>. QED
    BY <1>1, <2>1 DEF Fee, RelayOK, WalletOK, StreamsOK, envVars, OnePendingTransaction,
                      transaction_count
<1>2. CASE Fill(t)
  <2>1. TasksOK' /\ QueueOK'
    <3>1. CASE /\ task' = [task EXCEPT ![t].pc = "send", ![t].nonce = transaction_count]
               /\ UNCHANGED queue
      <4>1. transaction_count \in Nat
        BY LenProperties DEF RelayOK, WalletOK, transaction_count
      <4>2. /\ task'[t] \in TaskRecord /\ task'[t].value = task[t].value
            /\ task'[t].nonce = transaction_count
            /\ \A u \in Task \ {t} : task'[u] = task[u]
            /\ task' \in [Task -> TaskRecord]
        <5>. DEFINE r == [task[t] EXCEPT !.pc = "send", !.nonce = transaction_count]
        <5>1. r \in TaskRecord /\ r.value = task[t].value /\ r.nonce = transaction_count
          BY <4>1 DEF RelayOK, TasksOK, TaskRecord
        <5>2. task' = [task EXCEPT ![t] = r]
          BY <3>1
        <5>. HIDE DEF r
        <5>. QED  BY <5>1, <5>2 DEF RelayOK, TasksOK
      <4>3. transaction_count' = transaction_count /\ task[t].value \in MsgValue
        BY <1>2 DEF Fill, At, RelayOK, TasksOK, envVars, transaction_count
      <4>. QED  BY <3>1, <4>1, <4>2, <4>3 DEF RelayOK, TasksOK, QueueOK, At
    <3>2. CASE FastFail(t)
      BY <1>2, <3>2, EndOK DEF Fill, At, RelayOK, envVars
    <3>. QED  BY <1>2, <3>1, <3>2 DEF Fill
  <2>. QED
    BY <1>2, <2>1 DEF Fill, RelayOK, WalletOK, StreamsOK, envVars, OnePendingTransaction,
                      transaction_count
<1>3. CASE Send(t)
  <2>1. UNCHANGED <<listener, poll_signals, stream, subscribed, mined, faults>> /\ At(t, "send")
    BY <1>3 DEF Send
  <2>2. CASE /\ Acceptable(Transaction(t))
             /\ mempool' = mempool \cup {Transaction(t)}
             /\ task' = [task EXCEPT ![t].pc = "receipt"]
             /\ UNCHANGED queue
    <3>1. WalletOK'
      BY <2>1, <2>2, AcceptedIsNext DEF RelayOK
    <3>2. TasksOK'
      BY <2>1, <2>2 DEF RelayOK, TasksOK, TaskRecord, At, transaction_count
    <3>. QED  BY <2>1, <2>2, <3>1, <3>2 DEF RelayOK, QueueOK, StreamsOK
  <2>3. CASE FastFail(t) /\ UNCHANGED mempool
    <3>1. TasksOK' /\ QueueOK'
      BY <2>1, <2>3, EndOK DEF RelayOK, At
    <3>. QED  BY <2>1, <2>3, <3>1
              DEF RelayOK, WalletOK, StreamsOK, OnePendingTransaction, transaction_count
  <2>. QED  BY <1>3, <2>2, <2>3 DEF Send
<1>4. CASE Receipt(t) \/ ReceiptNotFound(t)
  <2>1. (Done(t) \/ GiveUp(t)) /\ UNCHANGED <<listener, poll_signals, envVars>>
    BY <1>4 DEF Receipt, ReceiptNotFound
  <2>2. TasksOK' /\ QueueOK'
    BY <2>1, EndOK DEF RelayOK, envVars
  <2>. QED
    BY <2>1, <2>2 DEF RelayOK, WalletOK, StreamsOK, envVars, OnePendingTransaction,
                      transaction_count
<1>. QED  BY <1>1, <1>2, <1>3, <1>4 DEF Propagating

-----------------------------------------------------------------------------
(* The chains and the faults *)

\* A fee limit is set by a call of the bridge's owner, which the relay does not notice.
LEMMA FeeLimitStep ==
  ASSUME LowersFeeLimit \/ RaisesFeeLimit
  PROVE  /\ L1Next /\ UNCHANGED <<l2Vars, executed>>
         /\ UNCHANGED <<relayVars, stream, subscribed, mempool, mined>>
<1>1. PICK limit \in FeeLimit : SetsFeeLimit(limit)
  BY DEF LowersFeeLimit, RaisesFeeLimit
<1>2. PICK sender \in NewOwner \ {ZeroAddress} :
        setFeeLimitPropagateRoot(bridge_l1, sender, limit)
  BY <1>1 DEF SetsFeeLimit
<1>3. L1Next
  BY <1>1, <1>2, RelayServiceAssumption DEF Own, L1Next
<1>. QED  BY <1>1, <1>3 DEF SetsFeeLimit

\* A mined transaction was the only one pending: none is left.
LEMMA ChainsOK ==
  ASSUME RelayOK, RootChanges \/ RaisesFeeLimit \/ Mine \/ Starknet
  PROVE  RelayOK'
<1>1. CASE RootChanges
  <2>1. PICK root \in ManagerRoot :
          /\ stream' = IF subscribed THEN Append(stream, root) ELSE stream
          /\ UNCHANGED <<relayVars, subscribed, mempool, mined, faults>>
    BY <1>1 DEF RootChanges
  <2>2. stream' \in Seq(Root)
    <3>1. root \in Root /\ stream \in Seq(Root)
      BY StarkStateBridgeAssumption DEF RelayOK, StreamsOK
    <3>. QED  BY <2>1, <3>1, AppendProperties
  <2>. QED
    BY <2>1, <2>2 DEF relayVars, RelayOK, TasksOK, WalletOK, QueueOK, StreamsOK, At,
                      OnePendingTransaction, transaction_count
<1>2. CASE Mine
  <2>1. PICK tx \in mempool :
          /\ mempool' = mempool \ {tx}
          /\ mined' = Append(mined, tx.by)
          /\ UNCHANGED <<relayVars, stream, subscribed, faults>>
    BY <1>2 DEF Mine
  <2>2. /\ mined' \in Seq(Task)
        /\ transaction_count \in Nat
        /\ transaction_count' = transaction_count + 1
    <3>1. mined \in Seq(Task) /\ tx.by \in Task
      BY DEF RelayOK, WalletOK
    <3>. QED  BY <2>1, <3>1, AppendProperties, LenProperties DEF transaction_count
  <2>3. WalletOK'
    BY <2>1, <2>2 DEF RelayOK, WalletOK, OnePendingTransaction
  <2>4. TasksOK'
    BY <2>1, <2>2 DEF relayVars, RelayOK, TasksOK, TaskRecord, At
  <2>. QED  BY <2>1, <2>3, <2>4 DEF relayVars, RelayOK, QueueOK, StreamsOK
<1>3. CASE Starknet
  BY <1>3 DEF Starknet, relayVars, envVars, RelayOK, TasksOK, WalletOK, QueueOK, StreamsOK, At,
              OnePendingTransaction, transaction_count
<1>4. CASE RaisesFeeLimit
  <2>1. UNCHANGED <<relayVars, envVars>>
    BY <1>4, FeeLimitStep DEF RaisesFeeLimit, envVars
  <2>. QED
    BY <2>1 DEF relayVars, envVars, RelayOK, TasksOK, WalletOK, QueueOK, StreamsOK, At,
                OnePendingTransaction, transaction_count
<1>. QED  BY <1>1, <1>2, <1>3, <1>4

\* A call that fails, whether or not it did what it was asked.
LEMMA CallFailsOK ==
  ASSUME RelayOK, NEW t \in Task, CallFails(t), faults' \in Nat
  PROVE  RelayOK'
<1>1. UNCHANGED <<listener, poll_signals, stream, subscribed, mined>>
  BY DEF CallFails
<1>2. TasksOK' /\ QueueOK'
  <2>1. \/ GiveUp(t)
        \/ Done(t)
        \/ FastFail(t) /\ task[t].pc \in {"fill", "send", "receipt"}
    BY DEF CallFails, At
  <2>. QED  BY <1>1, <2>1, EndOK DEF RelayOK
<1>3. WalletOK'
  <2>1. CASE mempool' = mempool
    BY <1>1, <2>1 DEF RelayOK, WalletOK, OnePendingTransaction, transaction_count
  <2>2. CASE /\ At(t, "send") /\ Acceptable(Transaction(t))
             /\ mempool' = mempool \cup {Transaction(t)}
    BY <1>1, <2>2, AcceptedIsNext DEF RelayOK
  <2>. QED  BY <2>1, <2>2 DEF CallFails
<1>. QED  BY <1>1, <1>2, <1>3 DEF RelayOK, StreamsOK

\* The one pending transaction is displaced by one with the same nonce.
LEMMA OutbidOK ==
  ASSUME RelayOK, NEW t \in Task, Outbid(t), faults' \in Nat
  PROVE  RelayOK'
<1>1. /\ At(t, "send")
      /\ task' = [task EXCEPT ![t].pc = "receipt"]
      /\ UNCHANGED <<listener, queue, poll_signals, stream, subscribed, mined>>
  BY DEF Outbid
<1>2. PICK tx \in mempool :
        tx.nonce = task[t].nonce /\ mempool' = (mempool \ {tx}) \cup {Transaction(t)}
  BY DEF Outbid
<1>3. Transaction(t) \in [by : Task, nonce : Nat, value : MsgValue]
  BY <1>1 DEF Transaction, RelayOK, TasksOK, TaskRecord, At
<1>4. mempool' = {Transaction(t)} /\ Transaction(t).nonce = transaction_count
  BY <1>2 DEF Transaction, RelayOK, WalletOK, OnePendingTransaction
<1>5. WalletOK'
  BY <1>1, <1>3, <1>4 DEF RelayOK, WalletOK, OnePendingTransaction, transaction_count
<1>6. TasksOK'
  BY <1>1 DEF RelayOK, TasksOK, TaskRecord, At, transaction_count
<1>. QED  BY <1>1, <1>5, <1>6 DEF RelayOK, QueueOK, StreamsOK

LEMMA FaultOK ==
  ASSUME IInv, RelayOK, Fault
  PROVE  RelayOK'
<1>1. faults' \in Nat
  BY DEF Fault, RelayOK, StreamsOK
<1>2. CASE Disconnect
  BY <1>1, <1>2 DEF Disconnect, relayVars, RelayOK, TasksOK, WalletOK, QueueOK, StreamsOK, At,
                    OnePendingTransaction, transaction_count
<1>3. CASE SubscribeFails
  BY <1>1, <1>3 DEF SubscribeFails, RelayOK, TasksOK, WalletOK, QueueOK, StreamsOK, At,
                    OnePendingTransaction, transaction_count
<1>4. CASE Redeliver
  <2>1. latestRoot[identity_manager] \in Root
    BY RelayServiceAssumption, StarkStateBridgeAssumption DEF IInv, L1IInv, L1TypeOK
  <2>2. stream' \in Seq(Root)
    <3>1. stream \in Seq(Root)
      BY DEF RelayOK, StreamsOK
    <3>. QED  BY <1>4, <2>1, <3>1, AppendProperties DEF Redeliver
  <2>. QED
    BY <1>1, <1>4, <2>2 DEF Redeliver, relayVars, RelayOK, TasksOK, WalletOK, QueueOK, StreamsOK,
                            At, OnePendingTransaction, transaction_count
<1>5. CASE Restart
  <2>1. TasksOK'
    BY <1>5, EndRecords DEF Restart, TasksOK, At
  <2>2. QueueOK'
    BY <1>5, EmptyQueueOK DEF Restart, QueueOK
  <2>3. StreamsOK'
    BY <1>1, <1>5, EmptySeq, ConnectRecord, NoSignalsOK DEF Restart, StreamsOK
  <2>. QED
    BY <1>5, <2>1, <2>2, <2>3 DEF Restart, RelayOK, WalletOK, OnePendingTransaction, transaction_count
<1>6. CASE LowersFeeLimit
  <2>1. UNCHANGED <<relayVars, stream, subscribed, mempool, mined>>
    BY <1>6, FeeLimitStep
  <2>. QED
    BY <1>1, <2>1 DEF relayVars, RelayOK, TasksOK, WalletOK, QueueOK, StreamsOK, At,
                      OnePendingTransaction, transaction_count
<1>. QED  BY <1>1, <1>2, <1>3, <1>4, <1>5, <1>6, CallFailsOK, OutbidOK DEF Fault

-----------------------------------------------------------------------------
(* The chains under the relay are the chains of WorldIDBridge *)

\* What the relay and its surroundings do to the contracts, any sender of
\* transactions could do.
LEMMA ServiceStepIsBridgeStep ==
  ASSUME RelayOK, [ServiceNext]_allVars
  PROVE  [Next]_vars
<1>1. CASE RootChanges
  <2>1. PICK root \in ManagerRoot :
          updateIdentities(identity_manager, root) /\ UNCHANGED <<l2Vars, executed>>
    BY <1>1 DEF RootChanges
  <2>. QED  BY <2>1, RelayServiceAssumption DEF L1Next, Next
<1>2. CASE Mine
  <2>1. PICK tx \in mempool :
          /\ propagateRoot(bridge_l1, tx.value) \/ UNCHANGED l1Vars
          /\ UNCHANGED <<l2Vars, executed>>
    BY <1>2 DEF Mine
  <2>2. tx.value \in MsgValue
    BY DEF RelayOK, WalletOK
  <2>3. CASE propagateRoot(bridge_l1, tx.value)
    BY <2>1, <2>2, <2>3, RelayServiceAssumption DEF Propagate, L1Next, Next
  <2>. QED  BY <2>1, <2>3 DEF vars
<1>3. CASE Starknet
  BY <1>3 DEF Starknet, Next
<1>4. CASE Listen \/ TakeEvent \/ TakeSignal \/ FetchL1Root \/ CompareRoots
  BY <1>4 DEF Listen, Connect, Subscribe, ReadLog, QueueEvent, ReceiverGone, StreamEnds,
              TakeEvent, TakeSignal, FetchL1Root, CompareRoots, chainVars
<1>5. ASSUME NEW t \in Task, Propagating(t)
      PROVE  UNCHANGED vars
  BY <1>5 DEF Propagating, Fee, Fill, Send, Receipt, ReceiptNotFound, chainVars
<1>8. CASE LowersFeeLimit \/ RaisesFeeLimit
  BY <1>8, FeeLimitStep DEF Next
<1>6. CASE Fault
  BY <1>6, <1>8 DEF Fault, Disconnect, SubscribeFails, Redeliver, Restart, CallFails, Outbid, chainVars
<1>7. CASE UNCHANGED allVars
  BY <1>7 DEF allVars, chainVars
<1>. QED  BY <1>1, <1>2, <1>3, <1>4, <1>5, <1>6, <1>7, <1>8 DEF ServiceNext

LEMMA ServiceInitInv == ServiceInit => ServiceInv
<1>. SUFFICES ASSUME ServiceInit PROVE ServiceInv
  OBVIOUS
<1>1. IInv
  BY InitIInv DEF ServiceInit
<1>2. TasksOK
  BY EndRecords DEF ServiceInit, RelayInit, TasksOK, At
<1>3. QueueOK
  BY EmptyQueueOK DEF ServiceInit, RelayInit, QueueOK
<1>4. StreamsOK
  BY EmptySeq, ConnectRecord, NoSignalsOK DEF ServiceInit, RelayInit, StreamsOK
<1>5. WalletOK
  BY EmptySeq DEF ServiceInit, WalletOK, OnePendingTransaction
<1>. QED  BY <1>1, <1>2, <1>3, <1>4, <1>5 DEF ServiceInv, RelayOK

LEMMA ServiceNextInv == ServiceInv /\ [ServiceNext]_allVars => ServiceInv'
<1>. SUFFICES ASSUME ServiceInv, [ServiceNext]_allVars PROVE ServiceInv'
  OBVIOUS
<1>1. IInv'
  BY ServiceStepIsBridgeStep, NextIInv DEF ServiceInv
<1>2. RelayOK'
  <2>1. CASE UNCHANGED allVars
    BY <2>1 DEF ServiceInv, allVars, relayVars, envVars, RelayOK, TasksOK, WalletOK, QueueOK,
                StreamsOK, At, OnePendingTransaction, transaction_count
  <2>. QED
    BY <2>1, ListenOK, TakeEventOK, PollOK, PropagatingOK, ChainsOK, FaultOK
       DEF ServiceInv, ServiceNext
<1>. QED  BY <1>1, <1>2 DEF ServiceInv

\* The relay's variables have their types: its queue and its signals stay within
\* the channels' capacity, retries within the retry delays.
THEOREM RelayTypeCorrect == ServiceSpec => []RelayTypeOK
<1>1. ServiceInv => RelayTypeOK
  BY StarkStateBridgeAssumption
     DEF ServiceInv, RelayOK, TasksOK, TaskRecord, WalletOK, QueueOK, StreamsOK, RelayTypeOK
<1>. QED  BY <1>1, ServiceInitInv, ServiceNextInv, PTL DEF ServiceSpec

\* The wallet that executor and poller share never has two transactions pending,
\* nor one that waits for another, whatever fails and however often.
THEOREM OnePendingTransactionCorrect == ServiceSpec => []OnePendingTransaction
<1>1. ServiceInv => OnePendingTransaction
  BY DEF ServiceInv, RelayOK, WalletOK
<1>. QED  BY <1>1, ServiceInitInv, ServiceNextInv, PTL DEF ServiceSpec

\* The relay with its two chains implements the bridge.
THEOREM RelayImplementsBridge == ServiceSpec => Spec
<1>1. ServiceInit => Init
  BY DEF ServiceInit
<1>2. ServiceInv /\ [ServiceNext]_allVars => [Next]_vars
  BY ServiceStepIsBridgeStep DEF ServiceInv
<1>. QED  BY <1>1, <1>2, ServiceInitInv, ServiceNextInv, PTL DEF ServiceSpec, Spec

\* Hence what holds of every run of the bridge holds when the relay drives it: no
\* root is known on L2 that was not published on L1.
THEOREM RelayedRootsAreAuthentic == ServiceSpec => []RootsAreAuthentic
  BY RelayImplementsBridge, RootsAreAuthenticCorrect, PTL

\* What the relay sends, sends again or has displaced harms nothing on L2: no stamp
\* is overwritten, no superseded root comes back, no expired root is revived.
THEOREM RelayKeepsL2Contract ==
  ServiceSpec =>
    /\ []L2!LatestIsNewest
    /\ L2!HistoryAppendOnly
    /\ L2!SupersededForever
    /\ L2!ExpiredStaysExpired
<1>1. ServiceSpec => Spec
  BY RelayImplementsBridge
<1>2. Spec => /\ []L2!LatestIsNewest
              /\ L2!HistoryAppendOnly
              /\ L2!SupersededForever
              /\ L2!ExpiredStaysExpired
  BY L2ContractCorrect
<1>. QED  BY <1>1, <1>2

\* The bridge sends for the relay only roots that were published, and never for the
\* limit or more, whatever fee the configuration or the node's estimate gives.
THEOREM RelayKeepsL1Contract ==
  ServiceSpec => []OnlyPublishedRootsAreSent /\ FeeBelowOwnLimit
<1>1. ServiceSpec => Spec
  BY RelayImplementsBridge
<1>2. Spec => []OnlyPublishedRootsAreSent /\ FeeBelowOwnLimit
  BY L1ContractCorrect
<1>. QED  BY <1>1, <1>2

\* With one bridge in charge, the relay never leaves the mirror behind for good: once
\* the sequencer has taken every message, retried and failed attempts included, the
\* latest root on L2 is the one the last of them carried.
THEOREM RelayedInSync ==
  ASSUME NEW M, OneBridgeInCharge(M)
  PROVE  ServiceSpec => []QuiescentInSync
<1>1. ServiceSpec => Spec
  BY RelayImplementsBridge
<1>2. Spec => []QuiescentInSync
  BY QuiescentInSyncCorrect
<1>. QED  BY <1>1, <1>2

-----------------------------------------------------------------------------
(* The cache and the roots queued.  A cache that is large enough and is never   *)
(* found due for clearing forgets nothing, so a root it has let through once is  *)
(* not queued again.                                                            *)

\* What is queued is cached, and only what a manager published gets into the cache.
QueueInv ==
  /\ NoRootQueuedTwice
  /\ \A i \in DOMAIN queue : queue[i] \in cache.set
  /\ listener.pc = "send" => listener.root \in cache.set
  /\ cache.order \in Seq(ManagerRoot)
  /\ stream \in Seq(ManagerRoot)
  /\ At(Poller, "compare") => task[Poller].root \in ManagerRoot

\* A step that neither caches nor queues a root.
LEMMA NothingQueued ==
  ASSUME QueueInv, cache' = cache, queue' = queue \/ queue' = <<>>,
         listener' = listener \/ listener'.pc # "send",
         stream' \in Seq(ManagerRoot),
         At(Poller, "compare")' => task'[Poller].root \in ManagerRoot
  PROVE  QueueInv'
  BY DEF QueueInv, NoRootQueuedTwice, Consistent

\* Only reading the L1 root makes a task compare.
LEMMA ComparesNoOther ==
  ASSUME TasksOK, QueueInv, NEW t \in Task,
         \/ GiveUp(t)
         \/ Done(t)
         \/ FastFail(t)
         \/ \E r \in {"fee", "fill", "send", "receipt"} :
              task'[t].pc = r /\ \A u \in Task \ {t} : task'[u] = task[u]
  PROVE  At(Poller, "compare")' => task'[Poller].root \in ManagerRoot
<1>1. Poller \in Task
  BY DEF Task
<1>2. /\ GiveUp(t) \/ Done(t) => task'[t].pc # "compare" /\ \A u \in Task \ {t} : task'[u] = task[u]
      /\ FastFail(t) => task'[t].pc # "compare" /\ \A u \in Task \ {t} : task'[u] = task[u]
  BY EndRecords DEF GiveUp, Done, FastFail, TasksOK, TaskRecord
<1>. QED  BY <1>1, <1>2 DEF QueueInv, At

LEMMA EndKeepsQueue ==
  ASSUME NEW t \in Task, GiveUp(t) \/ Done(t) \/ FastFail(t)
  PROVE  queue' = queue \/ queue' = <<>>
  BY DEF GiveUp, Done, FastFail

LEMMA ListenKeepsQueueInv ==
  ASSUME RelayOK, QueueInv, Listen, ClearsCache = {FALSE},
         IsFiniteSet(ManagerRoot), Cardinality(ManagerRoot) <= max_size
  PROVE  QueueInv'
<1>1. CASE Connect \/ Subscribe \/ StreamEnds \/ ReceiverGone
  <2>1. listener'.pc # "send"
    BY <1>1 DEF Connect, Subscribe, StreamEnds, ReceiverGone, RelayOK, StreamsOK
  <2>2. stream' = stream \/ stream' = <<>>
    BY <1>1 DEF Connect, Subscribe, StreamEnds, ReceiverGone, envVars
  <2>3. stream' \in Seq(ManagerRoot)
    BY <2>2, EmptySeq DEF QueueInv
  <2>. QED  BY <1>1, <2>1, <2>3, NothingQueued
            DEF Connect, Subscribe, StreamEnds, ReceiverGone, QueueInv, At
<1>2. CASE ReadLog
  <2>. DEFINE root == Head(stream)
  <2>1. /\ root \in ManagerRoot /\ Tail(stream) \in Seq(ManagerRoot)
        /\ stream' = Tail(stream) /\ UNCHANGED <<task, queue>>
    BY <1>2, HeadTailProperties DEF ReadLog, QueueInv
  <2>2. IF root \in cache.set
        THEN cache' = cache /\ UNCHANGED listener
        ELSE cache' = insert(cache, root) /\ listener' = [pc |-> "send", root |-> root]
    BY <1>2 DEF ReadLog, maybe_clear, contains
  <2>. HIDE DEF root
  <2>3. CASE root \in cache.set
    BY <2>1, <2>2, <2>3, NothingQueued DEF QueueInv, At
  <2>4. CASE root \notin cache.set
    <3>1. /\ Consistent(cache') /\ cache'.order \in Seq(ManagerRoot)
          /\ cache'.set = cache.set \cup {root}
      BY <2>1, <2>2, <2>4, InsertConsistent, InsertKeeps DEF QueueInv, NoRootQueuedTwice
    <3>2. listener'.pc = "send" /\ listener'.root = root
      BY <2>2, <2>4
    <3>3. \A i \in DOMAIN queue : queue[i] # root
      BY <2>4 DEF QueueInv
    <3>4. NoRootQueuedTwice'
      BY <2>1, <3>1, <3>2, <3>3 DEF QueueInv, NoRootQueuedTwice, Consistent
    <3>. QED  BY <2>1, <3>1, <3>2, <3>4 DEF QueueInv, At
  <2>. QED  BY <2>3, <2>4
<1>3. CASE QueueEvent
  <2>1. /\ queue' = Append(queue, listener.root) /\ listener.pc = "send"
        /\ listener'.pc = "stream" /\ UNCHANGED <<task, cache, stream>>
    BY <1>3 DEF QueueEvent, envVars
  <2>2. /\ listener.root \in Root /\ queue \in Seq(Root)
        /\ listener.root \in cache.set /\ \A i \in DOMAIN queue : queue[i] # listener.root
    BY <2>1 DEF RelayOK, StreamsOK, QueueOK, QueueInv, NoRootQueuedTwice
  <2>3. /\ DOMAIN queue = 1..Len(queue) /\ DOMAIN queue' = 1..(Len(queue) + 1) /\ Len(queue) \in Nat
        /\ \A i \in 1..Len(queue) : queue'[i] = queue[i]
        /\ queue'[Len(queue) + 1] = listener.root
    BY <2>1, <2>2, AppendProperties, LenProperties
  <2>4. \A i, j \in DOMAIN queue' : queue'[i] = queue'[j] => i = j
    BY <2>2, <2>3 DEF QueueInv, NoRootQueuedTwice
  <2>5. \A i \in DOMAIN queue' : queue'[i] \in cache'.set
    BY <2>1, <2>2, <2>3 DEF QueueInv
  <2>. QED  BY <2>1, <2>4, <2>5 DEF QueueInv, NoRootQueuedTwice, Consistent, At
<1>. QED  BY <1>1, <1>2, <1>3 DEF Listen

LEMMA TakeEventKeepsQueueInv ==
  ASSUME RelayOK, QueueInv, TakeEvent
  PROVE  QueueInv'
<1>1. /\ queue # <<>> /\ queue' = Tail(queue) /\ queue \in Seq(Root)
      /\ UNCHANGED <<cache, listener, stream>>
  BY DEF TakeEvent, envVars, RelayOK, QueueOK
<1>2. /\ DOMAIN queue = 1..Len(queue) /\ Len(queue) \in Nat
      /\ DOMAIN queue' = 1..(Len(queue) - 1)
      /\ \A i \in 1..(Len(queue) - 1) : queue'[i] = queue[i + 1]
  BY <1>1, HeadTailProperties, LenProperties
<1>3. \A i \in DOMAIN queue' : i \in Nat /\ i + 1 \in DOMAIN queue /\ queue'[i] = queue[i + 1]
  BY <1>2
<1>4. /\ \A i, j \in DOMAIN queue' : queue'[i] = queue'[j] => i = j
      /\ \A i \in DOMAIN queue' : queue'[i] \in cache'.set
      /\ listener'.pc = "send" => \A i \in DOMAIN queue' : queue'[i] # listener'.root
  BY <1>1, <1>3 DEF QueueInv, NoRootQueuedTwice
<1>5. At(Poller, "compare")' => task'[Poller].root \in ManagerRoot
  BY DEF TakeEvent, Executor, Poller, QueueInv, At, RelayOK, TasksOK, Task
<1>. QED  BY <1>1, <1>4, <1>5 DEF QueueInv, NoRootQueuedTwice, Consistent

LEMMA PollKeepsQueueInv ==
  ASSUME IInv, RelayOK, QueueInv, TakeSignal \/ FetchL1Root \/ CompareRoots,
         ClearsCache = {FALSE}, IsFiniteSet(ManagerRoot), Cardinality(ManagerRoot) <= max_size
  PROVE  QueueInv'
<1>1. CASE TakeSignal
  BY <1>1, NothingQueued DEF TakeSignal, envVars, QueueInv, At
<1>2. CASE FetchL1Root
  <2>1. get_l1_root_u256 \in ManagerRoot
    BY RelayServiceAssumption DEF get_l1_root_u256, IInv, L1IInv, L1TypeOK
  <2>2. task'[Poller].root \in ManagerRoot
    BY <1>2, <2>1 DEF FetchL1Root, With, RelayOK, TasksOK, Task
  <2>. QED  BY <1>2, <2>2, NothingQueued DEF FetchL1Root, envVars, QueueInv
<1>3. CASE CompareRoots
  <2>1. UNCHANGED <<listener, stream>> /\ Poller \in Task /\ At(Poller, "compare")
    BY <1>3 DEF CompareRoots, envVars, Task
  <2>2. CASE Done(Poller) /\ UNCHANGED cache
    BY <2>1, <2>2, NothingQueued, ComparesNoOther, EndKeepsQueue DEF QueueInv, RelayOK
  <2>3. CASE /\ cache' = insert(cache, task[Poller].root)
             /\ task' = [task EXCEPT ![Poller].pc = "fee"]
             /\ UNCHANGED queue
    <3>1. /\ Consistent(cache') /\ cache'.order \in Seq(ManagerRoot)
          /\ cache'.set = cache.set \cup {task[Poller].root}
      <4>. DEFINE root == task[Poller].root
      <4>1. /\ root \in ManagerRoot /\ cache' = insert(cache, root)
            /\ Consistent(cache) /\ cache.order \in Seq(ManagerRoot)
        BY <2>1, <2>3 DEF QueueInv, NoRootQueuedTwice
      <4>. HIDE DEF root
      <4>2. Consistent(insert(cache, root)) /\ insert(cache, root).order \in Seq(ManagerRoot)
        BY <4>1, InsertConsistent
      <4>3. insert(cache, root).set = cache.set \cup {root}
        BY <4>1, InsertKeeps
      <4>. QED  BY <4>1, <4>2, <4>3 DEF root
    <3>2. ~At(Poller, "compare")'
      BY <2>1, <2>3 DEF At, RelayOK, TasksOK, TaskRecord
    <3>3. NoRootQueuedTwice'
      BY <2>1, <2>3, <3>1 DEF QueueInv, NoRootQueuedTwice, Consistent
    <3>. QED  BY <2>1, <2>3, <3>1, <3>2, <3>3 DEF QueueInv
  <2>. QED  BY <1>3, <2>2, <2>3 DEF CompareRoots, maybe_clear
<1>. QED  BY <1>1, <1>2, <1>3

LEMMA PropagatingKeepsQueueInv ==
  ASSUME RelayOK, QueueInv, NEW t \in Task, Propagating(t) \/ CallFails(t) \/ Outbid(t)
  PROVE  QueueInv'
<1>1. UNCHANGED <<cache, listener, stream>>
  BY DEF Propagating, Fee, Fill, Send, Receipt, ReceiptNotFound, CallFails, Outbid, envVars
<1>2. \/ GiveUp(t) \/ Done(t) \/ FastFail(t)
      \/ /\ queue' = queue
         /\ \E r \in {"fee", "fill", "send", "receipt"} :
              task'[t].pc = r /\ \A u \in Task \ {t} : task'[u] = task[u]
  <2>1. CASE Fee(t)
    BY <2>1 DEF Fee, RelayOK, TasksOK, TaskRecord
  <2>2. CASE Fill(t)
    BY <2>2 DEF Fill, RelayOK, TasksOK, TaskRecord
  <2>3. CASE Send(t) \/ Outbid(t)
    BY <2>3 DEF Send, Outbid, RelayOK, TasksOK, TaskRecord
  <2>4. CASE Receipt(t) \/ ReceiptNotFound(t) \/ CallFails(t)
    BY <2>4 DEF Receipt, ReceiptNotFound, CallFails
  <2>. QED  BY <2>1, <2>2, <2>3, <2>4 DEF Propagating
<1>3. queue' = queue \/ queue' = <<>>
  BY <1>2, EndKeepsQueue
<1>4. At(Poller, "compare")' => task'[Poller].root \in ManagerRoot
  BY <1>2, ComparesNoOther DEF RelayOK
<1>. QED  BY <1>1, <1>3, <1>4, NothingQueued DEF QueueInv

LEMMA OthersKeepQueueInv ==
  ASSUME IInv, RelayOK, QueueInv,
         \/ RootChanges \/ LowersFeeLimit \/ RaisesFeeLimit \/ Mine \/ Starknet
         \/ Disconnect \/ SubscribeFails \/ Redeliver \/ Restart
  PROVE  QueueInv'
<1>1. CASE RootChanges \/ Redeliver
  <2>1. /\ \E root \in ManagerRoot : stream' = stream \/ stream' = Append(stream, root)
        /\ UNCHANGED relayVars
    BY <1>1, RelayServiceAssumption DEF RootChanges, Redeliver, IInv, L1IInv, L1TypeOK
  <2>2. stream' \in Seq(ManagerRoot)
    BY <2>1, AppendProperties DEF QueueInv
  <2>. QED  BY <2>1, <2>2, NothingQueued DEF relayVars, QueueInv, At
<1>2. CASE Mine \/ Starknet \/ Disconnect
  BY <1>2, NothingQueued DEF Mine, Starknet, Disconnect, relayVars, envVars, QueueInv, At
<1>3. CASE SubscribeFails
  <2>1. listener'.pc # "send"
    BY <1>3 DEF SubscribeFails, RelayOK, StreamsOK
  <2>. QED  BY <1>3, <2>1, NothingQueued DEF SubscribeFails, QueueInv, At
<1>4. CASE Restart
  <2>1. Consistent(cache') /\ cache'.order = <<>>
    BY <1>4, RootCacheAssumption DEF Restart, new, Consistent
  <2>2. ~At(Poller, "compare")' /\ listener'.pc # "send" /\ queue' = <<>> /\ stream' = <<>>
    BY <1>4, EndRecords DEF Restart, At, Task
  <2>3. NoRootQueuedTwice'
    BY <2>1, <2>2 DEF NoRootQueuedTwice, Consistent
  <2>. QED  BY <2>1, <2>2, <2>3, EmptySeq DEF QueueInv
<1>5. CASE LowersFeeLimit \/ RaisesFeeLimit
  BY <1>5, FeeLimitStep, NothingQueued DEF relayVars, QueueInv, At
<1>. QED  BY <1>1, <1>2, <1>3, <1>4, <1>5

\* A root's event that is delivered again, while its first is still on its way, is
\* never queued again: for any channel and any number of faults, if the cache has
\* room for every root a manager publishes and is not due for clearing.
THEOREM NoRootQueuedTwiceCorrect ==
  ASSUME ClearsCache = {FALSE}, IsFiniteSet(ManagerRoot), Cardinality(ManagerRoot) <= max_size
  PROVE  ServiceSpec => []NoRootQueuedTwice
<1>1. ServiceInit => QueueInv
  <2>. SUFFICES ASSUME ServiceInit PROVE QueueInv
    OBVIOUS
  <2>1. Consistent(cache) /\ cache.order = <<>>
    BY RootCacheAssumption DEF ServiceInit, RelayInit, new, Consistent
  <2>2. ~At(Poller, "compare") /\ listener.pc = "connect" /\ queue = <<>> /\ stream = <<>>
    BY EndRecords DEF ServiceInit, RelayInit, At, Task
  <2>. QED  BY <2>1, <2>2, EmptySeq DEF QueueInv, NoRootQueuedTwice
<1>2. ServiceInv /\ QueueInv /\ [ServiceNext]_allVars => QueueInv'
  <2>. SUFFICES ASSUME ServiceInv, QueueInv, [ServiceNext]_allVars PROVE QueueInv'
    OBVIOUS
  <2>1. CASE UNCHANGED allVars
    BY <2>1, NothingQueued DEF allVars, relayVars, envVars, QueueInv, At
  <2>2. CASE Fault
    BY <2>2, PropagatingKeepsQueueInv, OthersKeepQueueInv DEF ServiceInv, Fault
  <2>. QED
    BY <2>1, <2>2, ListenKeepsQueueInv, TakeEventKeepsQueueInv, PollKeepsQueueInv,
       PropagatingKeepsQueueInv, OthersKeepQueueInv
       DEF ServiceInv, ServiceNext
<1>3. QueueInv => NoRootQueuedTwice
  BY DEF QueueInv
<1>. QED  BY <1>1, <1>2, <1>3, ServiceInitInv, ServiceNextInv, PTL DEF ServiceSpec
=============================================================================
