---------------------------- MODULE BalanceMonitor ----------------------------
(***************************************************************************)
(* The balance monitor: at every tick of an interval it asks the L1 node for  *)
(* the wallet's balance and the gas price, sets the gauges of the metrics and  *)
(* keeps a bounded history.  Units (wei, ether, gwei) are left out.            *)
(***************************************************************************)
EXTENDS Naturals, Sequences

CONSTANTS
  balance_poll_interval, max_balance_history,
  Balance, GasPrice,   \* what the node may answer
  MaxClock              \* bound on the clock

ASSUME BalanceMonitorAssumption ==
  /\ balance_poll_interval \in Nat \ {0}
  /\ max_balance_history \in Nat
  /\ Balance \subseteq Nat /\ GasPrice \subseteq Nat \ {0}
  /\ MaxClock \in Nat

VARIABLES
  clock,
  interval_timer,   \* when it ticks next
  querying,         \* is a poll waiting for the node's answers?
  metrics,
  snapshots,        \* the balance history
  recorded          \* history: all snapshots there have been

monitorVars == <<clock, interval_timer, querying, metrics, snapshots, recorded>>

None == 0   \* no gas price

MonitorInit ==
  /\ clock = 0 /\ interval_timer = 0 /\ querying = FALSE
  /\ metrics = [balance_polls_success |-> 0, balance_polls_failed |-> 0, l1_balance |-> 0,
                l1_gas_price |-> 0, last_balance_update |-> 0, service_uptime |-> 0]
  /\ snapshots = <<>> /\ recorded = <<>>

-----------------------------------------------------------------------------
(* Metrics and BalanceHistory *)

record_balance_poll_success(m, balance) ==
  [m EXCEPT !.balance_polls_success = @ + 1, !.l1_balance = balance, !.last_balance_update = clock]

record_balance_poll_failure(m) == [m EXCEPT !.balance_polls_failed = @ + 1]

\* Mutant: a gas price that could not be had is shown as none.
update_gas_price_none(m, price) == [m EXCEPT !.l1_gas_price = price]

update_gas_price(m, price) == IF price = None THEN m ELSE [m EXCEPT !.l1_gas_price = price]

\* The code reads the time once for the gauge and once for the snapshot: they may be
\* a second apart, which is less than the clock here tells apart.
BalanceSnapshot(balance, price) ==
  [timestamp |-> clock, l1_balance_eth |-> balance, l1_gas_price_gwei |-> price]

\* Mutant: a history that is full takes no more.
add_snapshot_when_room(history, snapshot) ==
  IF Len(history) < max_balance_history THEN Append(history, snapshot) ELSE history

add_snapshot(history, snapshot) ==
  LET all == Append(history, snapshot)
  IN  IF Len(all) > max_balance_history THEN Tail(all) ELSE all

get_recent_snapshots(history, count) ==
  SubSeq(history, (IF Len(history) > count THEN Len(history) - count ELSE 0) + 1, Len(history))

-----------------------------------------------------------------------------
(* start and poll_balances *)

\* Mutant: missed ticks are caught up with (MissedTickBehavior::Burst).
NextTick_burst(timer) == timer + balance_poll_interval

\* MissedTickBehavior::Skip: the next multiple of the interval.
NextTick(timer) == clock + balance_poll_interval - ((clock - timer) % balance_poll_interval)

TimerTicks ==
  /\ ~querying /\ clock >= interval_timer
  /\ interval_timer' = NextTick(interval_timer)
  /\ metrics' = [metrics EXCEPT !.service_uptime = clock]
  /\ querying' = TRUE
  /\ UNCHANGED <<clock, snapshots, recorded>>

\* The balance is needed, the gas price is not.
poll_balances ==
  /\ querying
  /\ querying' = FALSE
  /\ \/ \E balance \in Balance, price \in GasPrice \cup {None} :
          LET snapshot == BalanceSnapshot(balance, price)
          IN  /\ metrics' = update_gas_price(record_balance_poll_success(metrics, balance), price)
              /\ snapshots' = add_snapshot(snapshots, snapshot)
              /\ recorded' = Append(recorded, snapshot)
     \/ /\ metrics' = record_balance_poll_failure(metrics)
        /\ UNCHANGED <<snapshots, recorded>>
  /\ UNCHANGED <<clock, interval_timer>>

\* Time stands still while the timer is due.
MonitorTick ==
  /\ querying \/ clock < interval_timer
  /\ clock < MaxClock
  /\ clock' = clock + 1
  /\ UNCHANGED <<interval_timer, querying, metrics, snapshots, recorded>>

MonitorNext == TimerTicks \/ poll_balances \/ MonitorTick

MonitorSpec == MonitorInit /\ [][MonitorNext]_monitorVars

-----------------------------------------------------------------------------
(* Properties *)

\* The history is what it would be if every snapshot had been kept and the last
\* max_balance_history of them were looked at, in the order they were taken.
HistoryIsLatest == snapshots = get_recent_snapshots(recorded, max_balance_history)

\* However long the node takes to answer, it is asked at most once in each
\* interval: polls that were missed are not made up for.  (The uptime is the time
\* of the last poll, once there has been one.)
NoBurst ==
  [][~querying /\ querying' =>
       \/ metrics.balance_polls_success + metrics.balance_polls_failed = 0
       \/ metrics.service_uptime \div balance_poll_interval
            < clock \div balance_poll_interval]_monitorVars

\* The gauges are those of one snapshot, the newest, except for the gas price,
\* which is the newest one known.
GaugesShowNewest ==
  /\ recorded # <<>> =>
       LET newest == recorded[Len(recorded)]
       IN  /\ metrics.l1_balance = newest.l1_balance_eth
           /\ metrics.last_balance_update = newest.timestamp
  /\ \A i \in DOMAIN recorded :
       (/\ recorded[i].l1_gas_price_gwei # None
        /\ \A j \in DOMAIN recorded : j > i => recorded[j].l1_gas_price_gwei = None)
         => metrics.l1_gas_price = recorded[i].l1_gas_price_gwei
=============================================================================
