---------------------------- MODULE RelayService ----------------------------
(***************************************************************************)
(* The relay: a listener that queues the TreeChanged events of the identity  *)
(* manager, an executor that answers each queued event with a propagateRoot   *)
(* transaction, and a poller that compares the roots of the two chains and    *)
(* propagates when they differ.  The three tasks share a root cache and one   *)
(* wallet; they run beside the contracts of WorldIDBridge.                    *)
(*                                                                          *)
(* An action is what a task does between two awaits whose outcome another     *)
(* task, a chain or a failing node can change.  Time is left out: the poller's *)
(* deadline may fire whenever it waits, whatever signals it has received, and  *)
(* backoff and retry delays last as long as they last.                         *)
(***************************************************************************)
EXTENDS WorldIDBridge, RootCache, FiniteSets

CONSTANTS
  bridge_l1, identity_manager,   \* the relay's address book
  fee_type,                      \* "Default", "Estimate" or "NoFee"
  DEFAULT_FEE, MAX_ESTIMATED_FEE_WEI, NO_FEE,
  overall_fee,                   \* fees Starknet may estimate
  CHANNEL_CAPACITY,
  ClearsCache,                   \* subset of BOOLEAN: may the cache be found due for clearing?
  MaxFaults                      \* bound on failing calls, lost connections, restarts

ASSUME RelayServiceAssumption ==
  /\ bridge_l1 \in Bridge
  /\ identity_manager \in Manager
  /\ fee_type \in {"Default", "Estimate", "NoFee"}
  /\ {DEFAULT_FEE, MAX_ESTIMATED_FEE_WEI, NO_FEE} \cup overall_fee \subseteq MsgValue
  /\ CHANNEL_CAPACITY \in Nat \ {0}
  /\ ClearsCache \subseteq BOOLEAN /\ ClearsCache # {}
  /\ MaxFaults \in Nat

VARIABLES
  task,         \* executor and poller: where each is in handling a root
  listener,     \* [pc, root]: where the listener is, the event it holds
  queue,        \* roots of the events the executor has yet to take
  poll_signals, \* how many signals the poller has yet to take
  cache,
  stream,       \* roots of the logs delivered to the listener and not yet read
  subscribed,   \* does the node deliver logs to the listener?
  mempool,      \* the wallet's transactions that are not mined: [by, nonce, value]
  mined,        \* by which task the wallet's mined transactions were sent
  faults

relayVars == <<task, listener, queue, poll_signals, cache>>
envVars == <<stream, subscribed, mempool, mined, faults>>
chainVars == vars
allVars == <<chainVars, relayVars, envVars>>

Executor == "executor"
Poller == "poller"
Task == {Executor, Poller}

retry_delays == 2    \* how many there are

\* A task at pc with a root it has just read.
With(pc, root) == [pc |-> pc, root |-> root, value |-> 0, nonce |-> 0, attempts |-> 0]

Idle == With("idle", ZeroRoot)
Exited == With("exited", ZeroRoot)

\* Tasks hold a root from the fee estimation to the end of the transaction.
At(t, pc) == task[t].pc = pc

\* The wallet's transaction count as of the latest block.
transaction_count == Len(mined)

\* Bound: no transaction is prepared or sent that could not be given a message.
WithinBound == nonce + Cardinality(mempool) < MaxNonce

RelayInit ==
  /\ task = [t \in Task |-> Idle]
  /\ listener = [pc |-> "connect", root |-> ZeroRoot]
  /\ queue = <<>>
  /\ poll_signals = 0
  /\ cache = new

ServiceInit ==
  /\ Init
  /\ RelayInit
  /\ stream = <<>> /\ subscribed = FALSE
  /\ mempool = {} /\ mined = <<>>
  /\ faults = 0

-----------------------------------------------------------------------------
(* How a root's handling ends *)

\* The error leaves execute(), whose receiver is dropped with the events in it;
\* the poller only logs it.
GiveUp(t) ==
  /\ task' = [task EXCEPT ![t] = IF t = Executor THEN Exited ELSE Idle]
  /\ queue' = IF t = Executor THEN <<>> ELSE queue

\* propagate_root_with_retry after an error that is_fast_fail.
FastFail(t) ==
  IF task[t].attempts < retry_delays
  THEN /\ task' = [task EXCEPT ![t].pc = "fill", ![t].attempts = @ + 1]
       /\ UNCHANGED queue
  ELSE GiveUp(t)

Done(t) ==
  /\ task' = [task EXCEPT ![t] = Idle]
  /\ UNCHANGED queue

-----------------------------------------------------------------------------
(* Listener: listen_internal *)

\* Connecting succeeds, and tells the poller to expedite as soon as there is room.
Connect ==
  /\ listener.pc = "connect"
  /\ poll_signals < CHANNEL_CAPACITY
  /\ poll_signals' = poll_signals + 1
  /\ listener' = [listener EXCEPT !.pc = "subscribe"]
  /\ UNCHANGED <<chainVars, task, queue, cache, envVars>>

Subscribe ==
  /\ listener.pc = "subscribe"
  /\ listener' = [listener EXCEPT !.pc = "stream"]
  /\ subscribed' = TRUE
  /\ UNCHANGED <<chainVars, task, queue, poll_signals, cache, stream, mempool, mined, faults>>

\* A log resets the poller's deadline; its root is queued unless it is cached.  (One
\* that is no TreeChanged event would reset the deadline and no more.)
ReadLog ==
  /\ listener.pc = "stream" /\ stream # <<>>
  /\ poll_signals < CHANNEL_CAPACITY
  /\ poll_signals' = poll_signals + 1
  /\ stream' = Tail(stream)
  /\ \E elapsed \in ClearsCache :
       LET root == Head(stream)
           kept == maybe_clear(cache, elapsed)
       IN  IF contains(kept, root)
           THEN cache' = kept /\ UNCHANGED listener
           ELSE cache' = insert(kept, root) /\ listener' = [pc |-> "send", root |-> root]
  /\ UNCHANGED <<chainVars, task, queue, subscribed, mempool, mined, faults>>

\* Mutant: the channel has no bound.
QueueEvent_unbounded ==
  /\ listener.pc = "send" /\ ~At(Executor, "exited")
  /\ queue' = Append(queue, listener.root)
  /\ listener' = [pc |-> "stream", root |-> ZeroRoot]
  /\ UNCHANGED <<chainVars, task, poll_signals, cache, envVars>>

\* tx.send() waits for room in the channel.
QueueEvent ==
  /\ listener.pc = "send" /\ ~At(Executor, "exited")
  /\ Len(queue) < CHANNEL_CAPACITY
  /\ queue' = Append(queue, listener.root)
  /\ listener' = [pc |-> "stream", root |-> ZeroRoot]
  /\ UNCHANGED <<chainVars, task, poll_signals, cache, envVars>>

\* Mutant: sending to a receiver that is gone never returns.
ReceiverGone_hangs == FALSE

\* tx.send() fails once the executor's receiver is gone, and the listener returns.
ReceiverGone ==
  /\ listener.pc = "send" /\ At(Executor, "exited")
  /\ listener' = [pc |-> "exited", root |-> ZeroRoot]
  /\ stream' = <<>> /\ subscribed' = FALSE
  /\ UNCHANGED <<chainVars, task, queue, poll_signals, cache, mempool, mined, faults>>

\* The logs that arrived before the connection was lost are still read.
StreamEnds ==
  /\ listener.pc = "stream" /\ stream = <<>> /\ ~subscribed
  /\ listener' = [listener EXCEPT !.pc = "connect"]
  /\ UNCHANGED <<chainVars, task, queue, poll_signals, cache, envVars>>

Listen == Connect \/ Subscribe \/ ReadLog \/ QueueEvent \/ ReceiverGone \/ StreamEnds

-----------------------------------------------------------------------------
(* Executor: execute.  The root it takes only serves to estimate the fee. *)

TakeEvent ==
  /\ At(Executor, "idle") /\ queue # <<>>
  /\ task' = [task EXCEPT ![Executor] = With("fee", Head(queue))]
  /\ queue' = Tail(queue)
  /\ UNCHANGED <<chainVars, listener, poll_signals, cache, envVars>>

-----------------------------------------------------------------------------
(* Poller: poller and get_and_compare_roots *)

TakeSignal ==
  /\ At(Poller, "idle") /\ poll_signals > 0
  /\ poll_signals' = poll_signals - 1
  /\ UNCHANGED <<chainVars, task, listener, queue, cache, envVars>>

get_l1_root_u256 == latestRoot[identity_manager]

\* NO_ROOTS_SEEN is a result too, one that equals no root.
get_l2_root_result == L2!latest_root_view

\* The deadline fires and the first of the two roots is read.
FetchL1Root ==
  /\ At(Poller, "idle")
  /\ task' = [task EXCEPT ![Poller] = With("compare", get_l1_root_u256)]
  /\ UNCHANGED <<chainVars, listener, queue, poll_signals, cache, envVars>>

\* The L2 root is read later.  An L1 root of 0 is an error.
CompareRoots ==
  /\ At(Poller, "compare")
  /\ IF task[Poller].root \in {ZeroRoot, get_l2_root_result}
     THEN Done(Poller) /\ UNCHANGED cache
     ELSE /\ \E elapsed \in ClearsCache :
               cache' = insert(maybe_clear(cache, elapsed), task[Poller].root)
          /\ task' = [task EXCEPT ![Poller].pc = "fee"]
          /\ UNCHANGED queue
  /\ UNCHANGED <<chainVars, listener, poll_signals, envVars>>

-----------------------------------------------------------------------------
(* Executor and poller: the fee and the transaction *)

\* Mutant: the estimate is paid whatever it is.
cap_estimated_fee_off(fee) == fee

cap_estimated_fee(fee) == IF fee > MAX_ESTIMATED_FEE_WEI THEN MAX_ESTIMATED_FEE_WEI ELSE fee

\* Starknet estimates by running receive_root on the root as it would run now; if
\* that panics there is no estimate.
estimate_messaging_fee(root) == IF ENABLED L2!receive_root(bridge_l1, root) THEN overall_fee ELSE {}

\* The fees the task may go on with.
FeeFor(root) ==
  CASE fee_type = "Default"  -> {DEFAULT_FEE}
    [] fee_type = "Estimate" -> {cap_estimated_fee(fee) : fee \in estimate_messaging_fee(root)}
    [] fee_type = "NoFee"    -> {NO_FEE}

Fee(t) ==
  /\ At(t, "fee")
  /\ \/ /\ \E fee \in FeeFor(task[t].root) :
               task' = [task EXCEPT ![t].pc = "fill", ![t].value = fee]
        /\ UNCHANGED queue
     \/ FeeFor(task[t].root) = {} /\ GiveUp(t)
  /\ UNCHANGED <<chainVars, listener, poll_signals, cache, envVars>>

\* Mutant: the nonce counts the pending transactions too.
Fill_pending_nonce(t) ==
  /\ At(t, "fill") /\ WithinBound
  /\ IF ENABLED propagateRoot(bridge_l1, task[t].value)
     THEN /\ task' = [task EXCEPT ![t].pc = "send",
                                  ![t].nonce = transaction_count + Cardinality(mempool)]
          /\ UNCHANGED queue
     ELSE FastFail(t)
  /\ UNCHANGED <<chainVars, listener, poll_signals, cache, envVars>>

\* The nonce is that of the latest block; the call is simulated.  Both are read in one
\* step: what happens between them is as what happens between them and Send.
Fill(t) ==
  /\ At(t, "fill") /\ WithinBound
  /\ IF ENABLED propagateRoot(bridge_l1, task[t].value)
     THEN /\ task' = [task EXCEPT ![t].pc = "send", ![t].nonce = transaction_count]
          /\ UNCHANGED queue
     ELSE FastFail(t)
  /\ UNCHANGED <<chainVars, listener, poll_signals, cache, envVars>>

Transaction(t) == [by |-> t, nonce |-> task[t].nonce, value |-> task[t].value]

\* The node takes a transaction whose nonce is neither used nor pending.
Acceptable(tx) ==
  /\ tx.nonce >= transaction_count
  /\ \A other \in mempool : other.nonce # tx.nonce

Send(t) ==
  /\ At(t, "send") /\ WithinBound
  /\ IF Acceptable(Transaction(t))
     THEN /\ mempool' = mempool \cup {Transaction(t)}
          /\ task' = [task EXCEPT ![t].pc = "receipt"]
          /\ UNCHANGED queue
     ELSE FastFail(t) /\ UNCHANGED mempool
  /\ UNCHANGED <<chainVars, listener, poll_signals, cache, stream, subscribed, mined, faults>>

MinedBy(t) == task[t].nonce < transaction_count /\ mined[task[t].nonce + 1] = t

\* Any receipt will do, that of a reverted transaction included.
Receipt(t) ==
  /\ At(t, "receipt") /\ MinedBy(t)
  /\ Done(t)
  /\ UNCHANGED <<chainVars, listener, poll_signals, cache, envVars>>

\* A transaction that another has displaced is not found any more.
ReceiptNotFound(t) ==
  /\ At(t, "receipt") /\ ~MinedBy(t) /\ Transaction(t) \notin mempool
  /\ GiveUp(t)
  /\ UNCHANGED <<chainVars, listener, poll_signals, cache, envVars>>

Propagating(t) == Fee(t) \/ Fill(t) \/ Send(t) \/ Receipt(t) \/ ReceiptNotFound(t)

-----------------------------------------------------------------------------
(* Outside the relay: the chains, the node, failures *)

\* The manager's root changes and the node reports it to whoever is subscribed.
RootChanges ==
  \E root \in ManagerRoot :
    /\ nonce < MaxNonce
    /\ updateIdentities(identity_manager, root)
    /\ stream' = IF subscribed THEN Append(stream, root) ELSE stream
    /\ UNCHANGED <<l2Vars, executed, relayVars, subscribed, mempool, mined, faults>>

\* The wallet's next transaction is mined; it is mined too if it reverts.
Mine ==
  \E tx \in mempool :
    /\ tx.nonce = transaction_count
    /\ IF ENABLED propagateRoot(bridge_l1, tx.value)
       THEN propagateRoot(bridge_l1, tx.value)
       ELSE UNCHANGED l1Vars
    /\ mempool' = mempool \ {tx}
    /\ mined' = Append(mined, tx.by)
    /\ UNCHANGED <<l2Vars, executed, relayVars, stream, subscribed, faults>>

\* The bridge's owner sets its fee limit, whatever transactions are under way.
SetsFeeLimit(limit) ==
  /\ \E sender \in NewOwner \ {ZeroAddress} :
       setFeeLimitPropagateRoot(bridge_l1, sender, limit)
  /\ UNCHANGED <<l2Vars, executed, relayVars, stream, subscribed, mempool, mined>>

\* A lowered limit counts as a fault, so that it is lowered finitely often.
LowersFeeLimit ==
  \E limit \in FeeLimit :
    limit < bridge[bridge_l1].feeLimitPropagateRoot /\ SetsFeeLimit(limit)

RaisesFeeLimit ==
  /\ \E limit \in FeeLimit :
       limit > bridge[bridge_l1].feeLimitPropagateRoot /\ SetsFeeLimit(limit)
  /\ UNCHANGED faults

Starknet == Sequencer /\ UNCHANGED <<relayVars, envVars>>

\* The connection is lost, and with it the logs of what happens until the next.
Disconnect ==
  /\ subscribed
  /\ subscribed' = FALSE
  /\ UNCHANGED <<chainVars, relayVars, stream, mempool, mined>>

\* Subscribing fails: the listener connects anew.
SubscribeFails ==
  /\ listener.pc = "subscribe"
  /\ listener' = [listener EXCEPT !.pc = "connect"]
  /\ UNCHANGED <<chainVars, task, queue, poll_signals, cache, stream, subscribed, mempool, mined>>

\* A reorganization makes the node deliver the last event once more.
Redeliver ==
  /\ subscribed
  /\ stream' = Append(stream, latestRoot[identity_manager])
  /\ UNCHANGED <<chainVars, relayVars, subscribed, mempool, mined>>

\* A call to a node fails, or its answer is lost.  Errors of the L2 node and of
\* the wallet (no funds, gas above the limit) are not tried again.
CallFails(t) ==
  /\ \/ At(t, "compare") /\ Done(t) /\ UNCHANGED mempool
     \/ At(t, "fee") /\ GiveUp(t) /\ UNCHANGED mempool
     \/ At(t, "fill") /\ FastFail(t) /\ UNCHANGED mempool
     \/ At(t, "send") /\ (FastFail(t) \/ GiveUp(t)) /\ UNCHANGED mempool
     \/ /\ At(t, "send") /\ WithinBound /\ Acceptable(Transaction(t))
        /\ mempool' = mempool \cup {Transaction(t)}
        /\ FastFail(t)
     \/ At(t, "receipt") /\ FastFail(t) /\ UNCHANGED mempool
  /\ UNCHANGED <<chainVars, listener, poll_signals, cache, stream, subscribed, mined>>

\* Fees have risen: the node lets the new transaction displace a pending one.
Outbid(t) ==
  /\ At(t, "send")
  /\ \E tx \in mempool :
       /\ tx.nonce = task[t].nonce /\ tx.by # t
       /\ mempool' = (mempool \ {tx}) \cup {Transaction(t)}
  /\ task' = [task EXCEPT ![t].pc = "receipt"]
  /\ UNCHANGED <<chainVars, listener, queue, poll_signals, cache, stream, subscribed, mined>>

\* The process ends (a task that panics, when the nonce cannot be read, ends it)
\* and is started again: all that is in memory is gone.
Restart ==
  /\ task' = [t \in Task |-> Idle]
  /\ listener' = [pc |-> "connect", root |-> ZeroRoot]
  /\ queue' = <<>> /\ poll_signals' = 0 /\ cache' = new
  /\ stream' = <<>> /\ subscribed' = FALSE
  /\ UNCHANGED <<chainVars, mempool, mined>>

Fault ==
  /\ faults < MaxFaults
  /\ faults' = faults + 1
  /\ \/ Disconnect \/ SubscribeFails \/ Redeliver \/ Restart \/ LowersFeeLimit
     \/ \E t \in Task : CallFails(t) \/ Outbid(t)

ServiceNext ==
  \/ Listen
  \/ TakeEvent
  \/ TakeSignal \/ FetchL1Root \/ CompareRoots
  \/ \E t \in Task : Propagating(t)
  \/ RootChanges \/ RaisesFeeLimit \/ Mine \/ Starknet \/ Fault

ServiceSpec == ServiceInit /\ [][ServiceNext]_allVars

\* A task whose await can end goes on; chains take what they are given.  Nothing
\* obliges a root to change or a fault to happen.
ServiceFairness ==
  /\ WF_allVars(Listen)
  /\ WF_allVars(TakeEvent \/ Propagating(Executor))
  /\ WF_allVars(TakeSignal)
  /\ WF_allVars(FetchL1Root)
  /\ WF_allVars(CompareRoots \/ Propagating(Poller))
  /\ WF_allVars(Mine)
  /\ WF_allVars(Starknet)

FairServiceSpec == ServiceSpec /\ ServiceFairness

-----------------------------------------------------------------------------
(* Properties *)

RelayTypeOK ==
  /\ task \in [Task -> [pc : {"idle", "compare", "fee", "fill", "send", "receipt", "exited"},
                        root : Root, value : Nat, nonce : Nat, attempts : 0..retry_delays]]
  /\ listener \in [pc : {"connect", "subscribe", "stream", "send", "exited"}, root : Root]
  /\ queue \in Seq(Root) /\ Len(queue) <= CHANNEL_CAPACITY
  /\ poll_signals \in 0..CHANNEL_CAPACITY
  /\ stream \in Seq(Root)
  /\ subscribed \in BOOLEAN
  /\ mempool \subseteq [by : Task, nonce : Nat, value : Nat]
  /\ mined \in Seq(Task)
  /\ faults \in Nat

\* Executor and poller share a wallet without coordination, yet it never has
\* more than one pending transaction, always the next one to be mined: a
\* transaction of one task cannot be stuck behind a gap left by the other.
OnePendingTransaction ==
  /\ \A tx \in mempool : tx.nonce = transaction_count
  /\ \A tx, other \in mempool : tx = other

\* A root is queued once, even if its event is delivered again while the first
\* is still on its way to the executor, and the cache's two halves agree.
NoRootQueuedTwice ==
  /\ Consistent(cache)
  /\ \A i, j \in DOMAIN queue : queue[i] = queue[j] => i = j
  /\ listener.pc = "send" => \A i \in DOMAIN queue : queue[i] # listener.root

\* The most the relay is configured to pay for a message.
highest_fee ==
  CASE fee_type = "Default"  -> DEFAULT_FEE
    [] fee_type = "Estimate" -> MAX_ESTIMATED_FEE_WEI
    [] fee_type = "NoFee"    -> NO_FEE

\* Through lost events, failing calls, reverted transactions, a dead executor and
\* restarts, the root the manager has becomes the latest on Starknet, unless the
\* manager moves on for ever or the bridge's limit does not admit the relay's fee.
KeepsInSync ==
  \/ []<>(latest_root = latestRoot[identity_manager])
  \/ []<><<latestRoot' # latestRoot>>_allVars
  \/ []<>ExceededFeeLimit(highest_fee, bridge[bridge_l1].feeLimitPropagateRoot)

\* The listener is never stuck with an event it cannot hand over (but for the
\* bound on transactions, which stops the executor).
ListenerGetsOn == []<>(listener.pc # "send" \/ ~WithinBound)

\* Events are answered for as long as the process runs.
ExecutorServes == ~At(Executor, "exited")
=============================================================================
