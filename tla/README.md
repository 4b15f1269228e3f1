# A TLA+ model of the Starknet World ID bridge

The bridge mirrors the root of World ID's identity tree from Ethereum to Starknet:
an L1 contract sends the root as a message, an L2 contract records it, and an
off-chain relay pays for the sending. This directory holds TLA+ modules of the
three parts and of their composition, TLC configurations that check them on small
instances, and TLAPS proofs for every value of the constants.

    tlc -workers 2 -config MCBridgeInOrder.cfg MCWorldIDBridge.tla
    tlapm WorldIDBridgeProofs.tla

`PROJECT.json` maps every definition to the lines it stands for and lists the runs,
the hazards, the mutants that each property is known to catch, and the theorems.

## 1. The system

    identity manager ──latestRoot()──▶ StarkStateBridge ──sendMessageToL2──▶ core contract
           │ TreeChanged                    ▲ propagateRoot{value}                │ (sequencer)
           ▼                                │                                     ▼
        relay: listener ─▶ executor ────────┤                          StarkWorldID l1_handler
               poller ──────────────────────┘                                     │
                 ▲────────────────────── latest_root() ───────────────────────────┘

| component | state | operations | interacts through |
|---|---|---|---|
| `StarkWorldID` (Cairo): `WorldID`, `CrossDomainOwnable`, tree-depth validator | `l1_owner`, `tree_depth`, `root_history_expiry`, `latest_root`, `root_history` | constructor; L1 handlers `receive_root`, `set_root_history_expiry`, `change_l1_state_bridge_address`; views `require_valid_root`, `latest_root`, `verify_proof` | messages the sequencer delivers, with the L1 sender |
| `StarkStateBridge` (Solidity) | owner, manager, L2 address, core contract, three fee limits | `propagateRoot` (anybody); owner: two other messages, three fee limits, three addresses, ownership | reads `latestRoot()`; calls the core contract |
| `StarknetMessaging` (Solidity, Starknet's core contract) | message nonce, fee per message hash, cancellation times | `sendMessageToL2`, start and finish a cancellation, `consumeMessageFromL2` | called by bridges and any other account; Starknet clears consumed messages |
| relay (`state_bridge.rs`, `transaction.rs`) | two bounded channels, `RootCache`, poll deadline, retry counters; nothing persistent | listener: connect, subscribe, read logs; executor: fee, transaction, receipt, retries; poller: compare, same; | WebSocket and JSON-RPC to both chains; one wallet shared by executor and poller |
| configuration (`config.rs`, `utils.rs`, CLI) | addresses, fee type | root reads, fee estimation, u256 split and join | both nodes |
| balance monitor, telemetry | interval timer, bounded balance history; gauges and counters | poll the wallet's balance and the gas price; record | the L1 node; the metrics are never read back by the relay |
| Groth16 verifier (Garaga), `NamedStorage`, interfaces, deployment, CI, documentation | | | |

What is hard in this code, and what correctness means for each part:

* **L2 contract.** Long sequences of messages from any sender over time. The latest
  root must be the newest; stamps are never rewritten; an expired root is not
  revived; only the owner's messages count.
* **Core contract.** Two parties act on one slot: a sender who cancels and Starknet
  which consumes. A message must not come back, nor be cancelled early.
* **L1 bridge.** `propagateRoot` reads the root when it executes, not when it was
  asked for; the owner changes manager, addresses and limits in between.
* **Both chains.** Messages arrive late, perhaps in another order than sent, from a
  bridge that has lost its authority, or from accounts that never had any.
* **Relay.** Three tasks with every `.await` an interleaving point; lost events,
  failing calls, answers lost after the call had its effect, an error that ends a
  task, restarts, back pressure, a wallet nonce read by two tasks. Two clocks decide
  when something is done: a poll deadline that another task moves, and a backoff that
  a connection resets though nothing may come of it.
* **Balance monitor.** An answer that takes longer than the interval must not be
  followed by a burst of polls; the history is bounded, and one of a poll's two calls
  may fail alone.
* **Encodings.** The same u256 is split and joined in three languages.

The full list, at its lines, is under `hazards` in `PROJECT.json`.

## 2. Modules

| module | models | how |
|---|---|---|
| `StarkWorldID` | the Cairo contract | a handler is a transaction, so one action each, guarded by every `assert` on its way; time is `NextBlock` |
| `StarknetMessaging` | L1→L2 half of the core contract | a hash is the record hashed; a mapping is a function on the written slots; uint256 overflow reverts |
| `StarkStateBridge` | the L1 contract, several deployments of it, the identity managers | an action per external function; calls `StarknetMessaging` by `INSTANCE` |
| `WorldIDBridge` | both chains and the sequencer | `EXTENDS StarkStateBridge`, `L2 == INSTANCE StarkWorldID`; `Execute` runs the handler a pending message names, `Reject` consumes one whose handler panics; `Runs` names the asserts that decide which |
| `RootMirror` | what the bridge promises | abstract: takes each published root at most once, forgets none |
| `RootCache` | the relay's cache | pure operators |
| `RootCacheUse` | the cache by itself | any roots, cleared at any time, beside a history of what it took in |
| `RelayService` | listener, executor, poller, wallet, node | `EXTENDS WorldIDBridge, RootCache`; an action is what a task does between two awaits; untimed |
| `RelayClock` | when the listener connects and the poller polls | listener and poller again, with time: the deadline that `Reset` and `Expedite` move, `BackoffIter`, the count of attempts, the connection gauge |
| `BalanceMonitor` | `balance_monitor.rs` and the metrics it sets | a poll begins and ends in actions of their own; the interval with `MissedTickBehavior::Skip` |
| `RootEncoding` | `uint256` in Solidity, Cairo, Rust | operators on a width that is a parameter, applied to any root |
| `*Proofs` | theorems | one module per component; `RelayPartsProofs` has those of cache, balance monitor and encodings, `RootCacheProofs` the lemmas on the cache that it shares with `RelayServiceProofs` |
| `MCRelayParts` | `RelayClock`, `BalanceMonitor`, `RootCacheUse`, `RootEncoding`, each by itself | they share no state, so one run explores them side by side without their product |
| other `MC*` | instances for TLC | model values, sets of inputs |

Abstractions. A root, an address, a payload is a model value; a payload keeps how
many words it has, because that is what a handler's deserialization can fail on. The
selector constants of `Constants.sol` and of `constants.rs` were compared with the
keccak of the handlers' names; the model uses the names. Events, wording, gas and signatures are left
out. `published`, `executed` and `canceled` are history variables. No action reads
them, but for one premise: where roots are not to return (`RootsMayReturn` FALSE),
`updateIdentities` takes none that is in `published`.

In `RelayService`, the pc of a task is the await it is at: `compare` (L1 root read, L2
root not yet), `fee`, `fill` (nonce and simulation), `send`, `receipt`. `mempool` and
`mined` are the shared wallet's transactions on Ethereum; a transaction is mined in
nonce order, and also if it reverts (its receipt then counts as success in
`wait_for_tx_receipt`). Errors are those of `is_fast_fail`: tried again twice by
`FastFail`, otherwise `GiveUp`, which ends the executor but not the poller. `Fill` reads the nonce and
simulates the call in one step; a chain that moves in between has the effect of one that
moves before `Send`. A log that does not decode, which only resets the deadline, is left
out here; in `RelayClock` it is a `ReadsLog` that hands nothing over.
Here the listener reconnects for ever, as with the `max_retries` of 0 that `bin/relay.rs`
sets; `RelayClock` has the limit. Faults are a single budget
`MaxFaults`: a failing call at any await, a broadcast whose answer is lost, a lost
connection with its events, a failing subscription, an event delivered again, a
transaction displaced by the other task's, a restart that loses everything in memory, and
the bridge's fee limit lowered while a transaction is under way, which then fails in its
simulation or is mined and reverts. The limit may be raised again at any time.

In `RelayClock`, time stands still while a task can go on by itself: a timer that is due
fires, a signal that waits is taken. Everything that waits for the network (connecting,
subscribing, a log, a poll) takes any time and may fail any number of times. A connection
and the `Expedite` it sends, a log's `Reset` and its event's way to the executor, are
steps of their own, since each send waits for room. `last_log`,
`poll_end`, `unpolled` and `tries` are history variables, as are `recorded` in
`BalanceMonitor` and `inserted` in `RootCacheUse`. `BalanceMonitor` takes one time for a
poll where the code reads the clock twice (`metrics.rs:161`, `metrics.rs:292`): that the
gauge of the last update equals the newest snapshot's timestamp is exact up to the second
that may pass in between.

## 3. Runs

| run | instance | shows |
|---|---|---|
| `stark_world_id` | 3 senders, 3 roots, expiries 0, 1, 3 and the constructor's 2, timestamps 1..6 | the history properties and `ZeroOwnerIsFinal`; 7,950 states |
| `starknet_messaging` | 2 senders of one identical message, 3 nonces, delay 2, MAX_UINT256 = 5 so that the sum overflows | nonces, slots, cancellation; 142,729 states |
| `stark_state_bridge` | 2 managers, zero and wrong addresses as inputs, fees 0..3, limits 0, 1, 3, fee cap 2 | roots come from a configured manager, each function its own limit; 125,496 states |
| `bridge_unordered` | 2 bridges, an outsider who may even become owner, messages in any order, the first bridge starts with a placeholder address, its successor linked and at another identity manager, 3 messages, the sequencer fair | authority, history, a handover completes, the owner's messages are understood, refinement of `RootMirror` through all of it; 277,015 states |
| `bridge_in_order` | 1 bridge, 3 roots, order kept, roots do not return, 4 messages | liveness of the mirror, `QuiescentInSync`; 93,420 states |
| `relay_service` | 3 roots, channel of 1, 2 messages, 1 fault anywhere, after which no third root comes, fee limits 1 and 2 with a fee of 1 | nonces, queue, back pressure (`ListenerGetsOn`), `KeepsInSync`; 447,723 states |
| `relay_parts` | interval 4, reconnection delay 2, delays 1 and 2, `max_retries` 3, channel of 2, clock up to 10; monitor's interval 3, history of 2; cache of 2 and 5 insertions of 4 roots; words of 2 bits | when polls and attempts come, the balance history, the cache at its limit, the encodings; 1,491,607 states |
| `zero_root`, `root_returns`, `new_expiry`, `executor_exits`, `max_retries` | | the disagreements of section 6 |

Bounds. Every counter has a named one: `MaxNonce` (messages), `MaxTime` and
`MaxTimestamp`, `MaxClock`, `MaxFaults`, `MaxInserts`. Three messages suffice for a handover with one message of
either bridge overtaking it (a bridge whose own manager is replaced is in
`stark_state_bridge`; for the mirror the theorem covers it); four for two roots, a duplicate and an outsider; a
channel of one is full after one event and so shows what a channel of 100 shows after
a hundred. Two roots are enough for the poller and the executor to race on one
while the other is current; with a third, the listener waits with one root until the
executor takes another from the full channel, or is gone. A clock
that goes twice round the poll interval sees a deadline moved, expedited and reached
again; one that goes three times round the monitor's sees several ticks missed at once.
A cache of two evicts at the third root. Two-bit words have a carry, an overflow and
both words in use, and `RelayPartsProofs` has every width.
Because every counter is bounded, every behaviour stops in the end, so runs use
`CHECK_DEADLOCK FALSE`; that no component is stuck is said by the liveness properties.
The exception is `stark_state_bridge`, where the owner can always set something, and
deadlock is checked.
`MCRelayService` and `MCWorldIDBridge` fix the order of the first roots by symmetry;
the first also leaves out behaviours in which the third root follows a fault, so that a
burst and a fault are combined in one order only, and in which fee limits change once the
third root is there.

Fairness. `FairSpec` asks only that the sequencer takes a pending message sooner or
later. `ServiceFairness` adds weak fairness of each await of the tasks: the listener's
loop; the executor's `TakeEvent` or next step of `propagate_root`; the poller's
`TakeSignal`, `FetchL1Root` and, once it has read the L1 root, its comparison or next
step; and of mining. This is what the tokio scheduler gives a task whose await can end;
what is assumed of the outside is that calls return (they may fail) and that a
pending transaction is mined. Nobody is obliged to change a root, call the bridge or
fail. Weak fairness of `FetchL1Root` says that the poller's deadline fires although
signals move it. `RelayClock` is the justification: `PollComes` shows that only logs put
a poll off, each by at most `POLL_INTERVAL`, and a run has finitely many of them. If
logs came faster than the poll interval for ever, the code would not justify it;
`KeepsInSync` is therefore a statement for an L1 that is quiet for longer than
`POLL_INTERVAL` now and then, and it allows for the manager moving on.

What `KeepsInSync` rests on: the poller alone. A dead executor, lost events and
failing calls, and reverted transactions whose receipt passed for success, are made good
by the next comparison of the two roots, as long as the capped fee is below the L1 limit
in the end and roots do not return. A limit that stays at or below the fee is the third
way out of the property; one that is lowered and raised again is not.

## 4. Proofs

Every theorem holds for all values of the constants under the named assumptions of the
modules (a live chain's timestamps are not 0, the zero address is not a bridge, and the
like); TLC evaluates those assumptions in every run.

* **`StarkWorldIDProofs`** – inductive invariant `TypeOK /\ LatestIsNewest`: a stamp is
  the time of a past block, so a new one is at least as large as all the others. It gives
  `HistoryAppendOnly` (a stamped root fails `_receive_root`), from it
  `SupersededForever`; with a clock that does not go back, `ExpiredStaysExpired`.
* **`StarknetMessagingProofs`** – `TypeOK /\ NonceNumbersMessages /\
  CanceledAfterDelay`: all nonces used are below the counter, so the slot a send writes
  was never written, and the request time of a cancelled message cannot move any more.
* **`StarkStateBridgeProofs`** – `L1IInv`, which adds to type and property that nonces in
  use are behind the counter and that `Current(bridge, latestRoot) \subseteq published`:
  without the second, the root `propagateRoot` reads would not be known to be published.
  `FeeBelowOwnLimit` follows from it: the slot a step adds is the one it sent, so its
  fee and its selector are those the limit was checked for.
* **`WorldIDBridgeProofs`** – `L1IInv /\ Log /\ HistoryMatchesMessages`: each received
  root has exactly one executed message, of an owner. `RootsAreAuthentic` follows with
  `OnlyPublishedRootsAreSent`. The refinement theorem,
  `Spec => ImplementsRootMirror`, has no further premise: the mapping takes as published
  (`Publishable`) what was published for as long as all owners of the L2 contract so far
  are bridges, and any root from then on. Each step maps to `Publish`, `Mirror` or a
  stutter, whatever the order of messages: the step that matters is a root executed, which
  an owner sent, a bridge sends only what was published, and anybody else makes
  `Publishable` all roots by becoming owner.
* **`OwnersMessageTakesEffect`** (`WorldIDBridgeProofs`) – the safety half of
  `HandoverCompletes` and `CurrentRootArrives`. The invariant is `Readable`: a bridge
  writes a root in two words and a successor other than address 0 in one, as the handlers
  read them. So of the owner's messages only a root received before can be refused.
  An expiry is not in it: it is written in two words and read as one (`new_expiry`).
* **The parts in the composition** (`WorldIDBridgeProofs`) – `Execute` calls the actions of
  both contracts, so by construction every step of the bridge is a step of the core
  contract or none, and a step of the L2 contract or none (lemmas `CoreSideOfSpec` and
  `L2SideOfSpec`). What that is good for: the theorems proved of each contract alone are
  instantiated and carry over, `CoreContractCorrect` and `L2ContractCorrect`. The L1
  bridge does not run alone here, since other accounts send too; that it keeps its
  promises among them is `L1ContractCorrect`.
* **`QuiescentInSync`** (`WorldIDBridgeProofs`) – premises, named `OneBridgeInCharge`:
  messages are taken in order, roots do not return, there is one bridge, deployed with its
  manager and L2 address, and the owner is not going to name others. `root_returns` shows
  what happens without the second; without the others the last root sent may be refused,
  overtaken, or go elsewhere. The inductive invariant is `SyncInv`, beside `AuthorityStays`
  (the L2 owner is a bridge, as is every successor a bridge's message names): what is pending is
  behind everything taken (`TakenInOrder`); a root is sent any number of times on end but
  never again once another was, nor after the manager has left it (`SentOnEnd`); and the
  latest root is that of the last root message taken (`LatestWasTakenLast`). The
  step that matters is a message whose handler panics: it was addressed to the contract by
  its owner with the right number of words, so only the root can be why, hence it was received
  before, and as roots do not return and messages are in order it is the latest root still.
* **`RelayServiceProofs`** – `IInv /\ RelayOK`: every pending transaction carries the
  next nonce, and the nonce a task has read is never beyond it. So a node that refuses
  used and taken nonces accepts a transaction only when none is pending, which gives
  `OnePendingTransaction` for any number of faults. As fees are amounts a message may
  cost, each relay step is a step of the bridge or none: `ServiceSpec => Spec`, and
  `RootsAreAuthentic` holds under the relay too.
  `NoRootQueuedTwice` is proved for a cache with room for every published root that is
  not cleared in the meantime: by a pigeonhole argument on `order` nothing is evicted, so
  whatever is queued, or on its way into the queue, is still cached and the listener
  drops its event. Both premises are needed: an evicted root is queued again.
  What was proved of the bridge holds of the relay: `RelayKeepsL1Contract`,
  `RelayKeepsL2Contract`, and, with one bridge in charge, `RelayedInSync`, whatever is
  retried, sent twice by executor and poller, or fails half-way.
* **`RelayClockProofs`** – for every schedule, interval, channel and limit. `PollComes`
  rests on `DeadlineInv`: the deadline is no later than an interval after the last log or
  poll, and a `Reset` still in the channel was sent now or while the poller polled, so
  that taking it late puts nothing off further. `CatchUpAfterReconnect` rests on
  `CatchUpInv`: as long as no log or poll has followed a connection, either the deadline
  has been brought forward, or the `Expedite` is in the channel and the poller is free to
  take it at this very time. `RetryPaced` rests on `PaceInv`: an attempt has been paid for
  with a delay by the time of the next one.
* **`RelayPartsProofs`** – `SlidingWindow` (`RootCacheProofs`): appending to the window on
  the last n elements of a sequence and dropping the oldest gives the window on the
  longer sequence. Both bounded queues rest on it: the cache holds the last `max_size`
  roots it took in, in queue and set alike (`CacheIsWindow`, for every size and also for
  0, where nothing is ever known), and the history the last `max_balance_history`
  snapshots. The monitor's timer is always at a multiple of the interval and the last poll
  began before it, so a poll that begins is in a later interval (`NoBurst`). Split and
  join of a uint256 are inverse for every word size, by the uniqueness of quotient and
  remainder.

Every safety property that a passing run checks is a theorem. Only model-checked is
liveness, which needs fairness and ENABLED and is out of this prover's reach:
`CurrentRootArrives`, `HandoverCompletes`, `KeepsInSync`, `ListenerGetsOn`. For the same
reason `Reject` names the failing asserts by `Runs` and does not say that `Handler` is not
ENABLED. Were there a message that neither ran nor was given up, it would block those
behind it and `CurrentRootArrives` would fail; one that could be either would let
`HandoverCompletes` fail.

## 5. Not modelled

Groth16 verification and its generated constants (arithmetic out of reach; the root
check in front of it is modelled); `consumeMessageFromL2` (no contract here sends
messages to L1); the debug build of the relay; the metrics that are only incremented
and their HTTP exporter; parsing of environment and command line; deployment scripts
(their placeholder state is an initial state), CI and the documentation site. The unit
tests of the L2 contract run at timestamp 0, where a stamp equals "never received"; the
model assumes a live chain.

## 6. Where code and documentation disagree

* `zero_root` – before the first message `require_valid_root(0)` passes, though 0 is not
  in the history.
* `root_returns` – a root that returns is refused with `CANNOT_OVERWRITE_ROOT`, so the L2
  contract does not go back to it. A relay that goes on propagating does not help.
* `new_expiry` – `setRootHistoryExpiry` sends two words to a handler that reads one, so
  no expiry arrives.
* `executor_exits` – a queued root that reaches L2 by the poller's transaction makes the
  executor's fee estimate fail, and the `?` ends the executor. From then on only the
  poller propagates, every `POLL_INTERVAL`.
* `max_retries` – where `subscribe_logs` fails after a successful connection, the listener
  sleeps and tries again without looking at `max_retries`: a node that refuses
  subscriptions is tried for ever, and each connection starts the backoff anew. On the
  other hand the count of attempts is never reset, so a listener that has connected
  `max_retries` times in its life gives up at the next failure to connect.

Observed on the way, without a run of their own: a fee equal to a limit is refused
(`>=`) though the error is documented for fees "higher than limit"
(`StarkStateBridge.sol:93`); the comment "0.001 ETH" at `constants.rs:32` stands above
10^13 wei, which is 0.00001 ETH; the gauge documented as "1 = connected, 0 =
disconnected" (`metrics.rs:61`) stays at 1 when the listener returns because the executor
is gone; and a log puts off the poll that a reconnection has just brought forward.

## 7. Plan

Done: the modules of section 2, in the order L2 contract, core contract, L1 bridge,
composition and `RootMirror`, cache and relay, the relay's clock, the balance monitor
and the encodings, with the proofs of section 4.

Next, in this order:

1. The safety half of `ListenerGetsOn` and `KeepsInSync`, as `OwnersMessageTakesEffect`
   is that of the bridge's liveness: a listener that waits for room in a channel has a
   reader or ends; a poller that finds the roots different has a fee the L1 limit admits.
2. `RelayService` and `RelayClock` describe the same listener and poller, one without
   time: that each step of the second is one of the first.
3. `consumeMessageFromL2`, should a contract of the bridge ever send to L1.

Further questions take the place of runs that they include, so that the runs stay
few.
