--------------------------- MODULE RelayPartsProofs ---------------------------
(* The parts of the relay that share nothing with one another: the cache, the   *)
(* balance monitor and the encoding of a root, for any sizes and any interval.  *)
EXTENDS BalanceMonitor, RootEncoding, RootCacheUse, RootCacheProofs

-----------------------------------------------------------------------------
(* The cache *)

CacheInv ==
  /\ CacheIsWindow
  /\ cache.order \in Seq(CacheRoot)
  /\ inserted \in Seq(CacheRoot)

LEMMA EmptyCache ==
  Consistent(new) /\ Window(new, <<>>) /\ new.order \in Seq(CacheRoot)
<1>1. new.order = <<>> /\ new.set = {} /\ Len(<<>>) = 0 /\ DOMAIN <<>> = {}
  BY DEF new
<1>2. Consistent(new)
  BY <1>1, RootCacheAssumption DEF Consistent
<1>3. Window(new, <<>>)
  <2>1. SubSeq(<<>>, 1, 0) = <<>>
    BY SubSeqEmpty
  <2>2. ~(0 > max_size)
    BY RootCacheAssumption
  <2> QED BY <1>1, <2>1, <2>2 DEF Window
<1> QED BY <1>1, <1>2, <1>3

LEMMA CacheStep ==
  ASSUME CacheInv, UsesCache
  PROVE  CacheInv'
<1>1. PICK r \in CacheRoot, elapsed \in BOOLEAN :
        LET kept == maybe_clear(cache, elapsed)
            before == IF elapsed THEN <<>> ELSE inserted
        IN  /\ cache' = insert(kept, r)
            /\ inserted' = IF contains(kept, r) THEN before ELSE Append(before, r)
  BY DEF UsesCache
<1> DEFINE kept == maybe_clear(cache, elapsed)
           before == IF elapsed THEN <<>> ELSE inserted
<1>2. /\ Consistent(kept) /\ Window(kept, before)
      /\ kept.order \in Seq(CacheRoot) /\ before \in Seq(CacheRoot)
  BY EmptyCache DEF CacheInv, CacheIsWindow, maybe_clear
<1>3. /\ cache' = insert(kept, r)
      /\ inserted' = IF r \in kept.set THEN before ELSE Append(before, r)
  BY <1>1 DEF contains
<1> HIDE DEF kept, before
<1>4. Consistent(cache') /\ cache'.order \in Seq(CacheRoot)
  BY <1>2, <1>3, InsertConsistent
<1>5. inserted' \in Seq(CacheRoot)
  BY <1>2, <1>3
<1>6. Window(cache', inserted')
  <2>1. CASE r \in kept.set
    BY <1>2, <1>3, <2>1 DEF insert
  <2>2. CASE r \notin kept.set
    BY <1>2, <1>3, <2>2, InsertWindow
  <2> QED BY <2>1, <2>2
<1> QED BY <1>4, <1>5, <1>6 DEF CacheInv, CacheIsWindow, Consistent, Window

\* For every maximal size, 0 included: queue and set hold the same roots, the last
\* max_size of those taken in since the cache was cleared.
THEOREM CacheIsWindowCorrect == CacheSpec => []CacheIsWindow
<1>1. CacheInit => CacheInv
  BY EmptyCache DEF CacheInit, CacheInv, CacheIsWindow
<1>2. CacheInv /\ [UsesCache]_cacheVars => CacheInv'
  <2>1. CacheInv /\ UNCHANGED cacheVars => CacheInv'
    BY DEF CacheInv, CacheIsWindow, Consistent, Window, cacheVars
  <2> QED BY <2>1, CacheStep
<1>3. CacheInv => CacheIsWindow
  BY DEF CacheInv
<1> QED BY <1>1, <1>2, <1>3, PTL DEF CacheSpec

-----------------------------------------------------------------------------
(* The balance monitor *)

Metrics ==
  [balance_polls_success : Nat, balance_polls_failed : Nat, l1_balance : Nat,
   l1_gas_price : Nat, last_balance_update : Nat, service_uptime : Nat]

Snapshot == [timestamp : Nat, l1_balance_eth : Nat, l1_gas_price_gwei : Nat]

MonitorTypeOK ==
  /\ clock \in Nat /\ interval_timer \in Nat /\ querying \in BOOLEAN
  /\ metrics \in Metrics
  /\ snapshots \in Seq(Snapshot) /\ recorded \in Seq(Snapshot)

\* What another poll leaves behind.
LEMMA PollMetrics ==
  ASSUME clock \in Nat, NEW m \in Metrics, NEW balance \in Nat, NEW price \in Nat
  PROVE  LET after == update_gas_price(record_balance_poll_success(m, balance), price)
         IN  /\ after \in Metrics
             /\ after.balance_polls_success = m.balance_polls_success + 1
             /\ after.balance_polls_failed = m.balance_polls_failed
             /\ after.l1_balance = balance
             /\ after.last_balance_update = clock
             /\ after.service_uptime = m.service_uptime
             /\ after.l1_gas_price = IF price = None THEN m.l1_gas_price ELSE price
<1> DEFINE counted == [m EXCEPT !.balance_polls_success = m.balance_polls_success + 1]
           shown == [counted EXCEPT !.l1_balance = balance]
           polled == [shown EXCEPT !.last_balance_update = clock]
<1>1. record_balance_poll_success(m, balance) = polled
  BY DEF record_balance_poll_success
<1>2. /\ counted \in Metrics
      /\ counted.balance_polls_success = m.balance_polls_success + 1
      /\ counted.balance_polls_failed = m.balance_polls_failed
      /\ counted.l1_gas_price = m.l1_gas_price
      /\ counted.service_uptime = m.service_uptime
  BY DEF Metrics
<1> HIDE DEF counted
<1>3. /\ shown \in Metrics
      /\ shown.balance_polls_success = m.balance_polls_success + 1
      /\ shown.balance_polls_failed = m.balance_polls_failed
      /\ shown.l1_gas_price = m.l1_gas_price
      /\ shown.service_uptime = m.service_uptime
      /\ shown.l1_balance = balance
  BY <1>2 DEF Metrics
<1> HIDE DEF shown
<1>4. /\ polled \in Metrics
      /\ polled.balance_polls_success = m.balance_polls_success + 1
      /\ polled.balance_polls_failed = m.balance_polls_failed
      /\ polled.l1_gas_price = m.l1_gas_price
      /\ polled.service_uptime = m.service_uptime
      /\ polled.l1_balance = balance
      /\ polled.last_balance_update = clock
  BY <1>3 DEF Metrics
<1> HIDE DEF polled
<1>5. CASE price = None
  BY <1>1, <1>4, <1>5 DEF update_gas_price
<1>6. CASE price # None
  BY <1>1, <1>4, <1>6 DEF update_gas_price, Metrics
<1> QED BY <1>5, <1>6

LEMMA FailureMetrics ==
  ASSUME NEW m \in Metrics
  PROVE  /\ record_balance_poll_failure(m) \in Metrics
         /\ record_balance_poll_failure(m) =
              [m EXCEPT !.balance_polls_failed = m.balance_polls_failed + 1]
         /\ record_balance_poll_failure(m).balance_polls_success = m.balance_polls_success
         /\ record_balance_poll_failure(m).balance_polls_failed = m.balance_polls_failed + 1
         /\ record_balance_poll_failure(m).l1_balance = m.l1_balance
         /\ record_balance_poll_failure(m).l1_gas_price = m.l1_gas_price
         /\ record_balance_poll_failure(m).last_balance_update = m.last_balance_update
         /\ record_balance_poll_failure(m).service_uptime = m.service_uptime
  BY DEF record_balance_poll_failure, Metrics

-----------------------------------------------------------------------------
(* The history *)

\* Dropping the oldest of a full history is the same as looking at the last ones of
\* all snapshots.
LEMMA HistoryWindow ==
  ASSUME NEW all \in Seq(Snapshot), NEW snapshot \in Snapshot
  PROVE  add_snapshot(get_recent_snapshots(all, max_balance_history), snapshot)
           = get_recent_snapshots(Append(all, snapshot), max_balance_history)
<1> DEFINE m == max_balance_history
           longer == Append(all, snapshot)
<1>1. m \in Nat /\ longer \in Seq(Snapshot) /\ Len(all) \in Nat /\ Len(longer) \in Nat
  BY BalanceMonitorAssumption
<1>2. /\ get_recent_snapshots(all, m) = LastOf(all, m)
      /\ get_recent_snapshots(longer, m) = LastOf(longer, m)
  BY <1>1 DEF get_recent_snapshots, LastOf, First
<1> DEFINE full == Append(LastOf(all, m), snapshot)
<1>3. (IF Len(full) > m THEN Tail(full) ELSE full) = LastOf(longer, m)
  BY <1>1, SlidingWindow
<1>4. add_snapshot(LastOf(all, m), snapshot) = IF Len(full) > m THEN Tail(full) ELSE full
  BY DEF add_snapshot
<1> QED BY <1>2, <1>3, <1>4

-----------------------------------------------------------------------------
(* Steps *)

\* What a successful poll does, with the answers named.
Answered(balance, price) ==
  /\ metrics' = update_gas_price(record_balance_poll_success(metrics, balance), price)
  /\ snapshots' = add_snapshot(snapshots, BalanceSnapshot(balance, price))
  /\ recorded' = Append(recorded, BalanceSnapshot(balance, price))

LEMMA PollCases ==
  ASSUME poll_balances
  PROVE  /\ querying /\ querying' = FALSE /\ UNCHANGED <<clock, interval_timer>>
         /\ \/ \E balance \in Balance, price \in GasPrice \cup {None} : Answered(balance, price)
            \/ metrics' = record_balance_poll_failure(metrics) /\ UNCHANGED <<snapshots, recorded>>
  BY DEF poll_balances, Answered

LEMMA Answers == \A balance \in Balance, price \in GasPrice \cup {None} :
                   balance \in Nat /\ price \in Nat
  BY BalanceMonitorAssumption DEF None

LEMMA AnsweredMetrics ==
  ASSUME MonitorTypeOK, NEW balance \in Balance, NEW price \in GasPrice \cup {None},
         Answered(balance, price)
  PROVE  /\ metrics' \in Metrics
         /\ metrics'.balance_polls_success = metrics.balance_polls_success + 1
         /\ metrics'.balance_polls_failed = metrics.balance_polls_failed
         /\ metrics'.l1_balance = balance
         /\ metrics'.last_balance_update = clock
         /\ metrics'.service_uptime = metrics.service_uptime
         /\ metrics'.l1_gas_price = IF price = None THEN metrics.l1_gas_price ELSE price
<1>1. balance \in Nat /\ price \in Nat /\ clock \in Nat /\ metrics \in Metrics
  BY Answers DEF MonitorTypeOK
<1> DEFINE after == update_gas_price(record_balance_poll_success(metrics, balance), price)
<1>2. /\ after \in Metrics
      /\ after.balance_polls_success = metrics.balance_polls_success + 1
      /\ after.balance_polls_failed = metrics.balance_polls_failed
      /\ after.l1_balance = balance
      /\ after.last_balance_update = clock
      /\ after.service_uptime = metrics.service_uptime
      /\ after.l1_gas_price = IF price = None THEN metrics.l1_gas_price ELSE price
  BY <1>1, PollMetrics
<1>3. metrics' = after
  BY DEF Answered
<1> QED BY <1>2, <1>3

LEMMA MonitorInitType == MonitorInit => MonitorTypeOK /\ HistoryIsLatest
<1> SUFFICES ASSUME MonitorInit PROVE MonitorTypeOK /\ HistoryIsLatest
  OBVIOUS
<1>1. MonitorTypeOK
  <2>1. metrics \in Metrics
    BY DEF MonitorInit, Metrics
  <2>2. <<>> \in Seq(Snapshot)
    OBVIOUS
  <2> QED BY <2>1, <2>2 DEF MonitorInit, MonitorTypeOK
<1>2. Len(recorded) = 0 /\ max_balance_history \in Nat
  BY BalanceMonitorAssumption DEF MonitorInit
<1>3. get_recent_snapshots(recorded, max_balance_history) = SubSeq(recorded, 1, 0)
  BY <1>2 DEF get_recent_snapshots
<1>4. SubSeq(recorded, 1, 0) = <<>>
  BY SubSeqEmpty
<1> QED BY <1>1, <1>3, <1>4 DEF MonitorInit, HistoryIsLatest

\* The timer's next tick: some intervals on, and in the future.
LEMMA NextTickAligned ==
  ASSUME clock \in Nat, interval_timer \in Nat, clock >= interval_timer
  PROVE  \E q \in Nat : /\ NextTick(interval_timer) = interval_timer + (q + 1) * balance_poll_interval
                        /\ clock < NextTick(interval_timer)
<1> DEFINE I == balance_poll_interval
           late == clock - interval_timer
           q == late \div I
<1>1. I \in Nat /\ I > 0 /\ late \in Nat
  BY BalanceMonitorAssumption
<1>2. q \in Nat /\ late = I * q + (late % I) /\ (late % I) \in 0..(I - 1)
  <2> HIDE DEF I, late
  <2>1. q \in Int /\ late = I * q + (late % I) /\ (late % I) \in 0..(I - 1)
    BY <1>1, SMTT(30)
  <2>2. q >= 0
    BY <1>1, <2>1, SMTT(30)
  <2> QED BY <2>1, <2>2
<1>3. (q + 1) * I = I * q + I /\ q * I = I * q /\ I * q \in Nat
  <2> HIDE DEF I, q
  <2> QED BY <1>1, <1>2
<1>4. NextTick(interval_timer) = interval_timer + (q + 1) * I
  <2>1. NextTick(interval_timer) = clock + I - (late % I)
    BY DEF NextTick
  <2>2. clock = interval_timer + late
    OBVIOUS
  <2> HIDE DEF I, q, late
  <2> QED BY <1>1, <1>2, <1>3, <2>1, <2>2
<1>5. clock < NextTick(interval_timer)
  <2>1. NextTick(interval_timer) = clock + I - (late % I)
    BY DEF NextTick
  <2> HIDE DEF I, q, late
  <2> QED BY <1>1, <1>2, <2>1
<1> QED BY <1>2, <1>4, <1>5

LEMMA MonitorStepType ==
  ASSUME MonitorTypeOK, HistoryIsLatest, [MonitorNext]_monitorVars
  PROVE  MonitorTypeOK' /\ HistoryIsLatest'
<1>1. CASE TimerTicks
  <2>1. interval_timer' \in Nat
    <3>1. clock \in Nat /\ interval_timer \in Nat /\ clock >= interval_timer
      BY <1>1 DEF TimerTicks, MonitorTypeOK
    <3>2. PICK q \in Nat : interval_timer' = interval_timer + (q + 1) * balance_poll_interval
      BY <1>1, <3>1, NextTickAligned DEF TimerTicks
    <3> QED BY <3>1, <3>2, BalanceMonitorAssumption
  <2>2. metrics' \in Metrics
    BY <1>1 DEF TimerTicks, MonitorTypeOK, Metrics
  <2> QED BY <1>1, <2>1, <2>2 DEF TimerTicks, MonitorTypeOK, HistoryIsLatest
<1>2. CASE poll_balances
  <2>1. ASSUME NEW balance \in Balance, NEW price \in GasPrice \cup {None}, Answered(balance, price)
        PROVE  MonitorTypeOK' /\ HistoryIsLatest'
    <3> DEFINE snapshot == BalanceSnapshot(balance, price)
    <3>1. snapshot \in Snapshot /\ metrics' \in Metrics
      BY <2>1, Answers, AnsweredMetrics DEF BalanceSnapshot, Snapshot, MonitorTypeOK
    <3> HIDE DEF snapshot
    <3>2. snapshots' = get_recent_snapshots(Append(recorded, snapshot), max_balance_history)
      BY <2>1, <3>1, HistoryWindow DEF Answered, MonitorTypeOK, HistoryIsLatest, snapshot
    <3>3. recorded' = Append(recorded, snapshot) /\ recorded' \in Seq(Snapshot)
      BY <2>1, <3>1 DEF Answered, MonitorTypeOK, snapshot
    <3>4. snapshots' \in Seq(Snapshot)
      <4>1. Append(snapshots, snapshot) \in Seq(Snapshot) /\ Append(snapshots, snapshot) # <<>>
        BY <3>1 DEF MonitorTypeOK
      <4>2. Tail(Append(snapshots, snapshot)) \in Seq(Snapshot)
        BY <4>1, HeadTailProperties
      <4>3. snapshots' = add_snapshot(snapshots, snapshot)
        BY <2>1 DEF Answered, snapshot
      <4> QED BY <4>1, <4>2, <4>3 DEF add_snapshot
    <3> QED BY <1>2, <3>1, <3>2, <3>3, <3>4, PollCases DEF MonitorTypeOK, HistoryIsLatest
  <2>2. CASE metrics' = record_balance_poll_failure(metrics) /\ UNCHANGED <<snapshots, recorded>>
    <3>1. metrics' \in Metrics
      BY <2>2, FailureMetrics DEF MonitorTypeOK
    <3> QED BY <1>2, <2>2, <3>1, PollCases DEF MonitorTypeOK, HistoryIsLatest
  <2> QED BY <1>2, <2>1, <2>2, PollCases
<1>3. CASE MonitorTick
  BY <1>3 DEF MonitorTick, MonitorTypeOK, HistoryIsLatest
<1>4. CASE UNCHANGED monitorVars
  BY <1>4 DEF monitorVars, MonitorTypeOK, HistoryIsLatest
<1> QED BY <1>1, <1>2, <1>3, <1>4 DEF MonitorNext

\* The history holds the newest snapshots, as many as it may, in their order.
THEOREM HistoryCorrect == MonitorSpec => []HistoryIsLatest
  BY MonitorInitType, MonitorStepType, PTL DEF MonitorSpec

-----------------------------------------------------------------------------
(* The pace *)

\* Has a poll begun?
Asked == querying \/ metrics.balance_polls_success + metrics.balance_polls_failed # 0

\* The timer stands at a multiple of the interval, and the last poll, if there has
\* been one, began before that.
PaceInv ==
  \E k \in Nat :
    /\ interval_timer = k * balance_poll_interval
    /\ Asked => metrics.service_uptime < interval_timer

LEMMA PaceInit == MonitorInit => PaceInv
<1>1. 0 * balance_poll_interval = 0
  BY BalanceMonitorAssumption
<1>2. MonitorInit => ~Asked /\ interval_timer = 0
  BY DEF MonitorInit, Asked
<1> QED BY <1>1, <1>2 DEF PaceInv

LEMMA PaceStep ==
  ASSUME MonitorTypeOK, PaceInv, [MonitorNext]_monitorVars
  PROVE  PaceInv'
<1> DEFINE I == balance_poll_interval
<1>0. I \in Nat /\ clock \in Nat /\ interval_timer \in Nat
  BY BalanceMonitorAssumption DEF MonitorTypeOK
<1>1. PICK k \in Nat : /\ interval_timer = k * I
                       /\ Asked => metrics.service_uptime < interval_timer
  BY DEF PaceInv
<1>2. CASE TimerTicks
  <2>1. PICK q \in Nat : /\ interval_timer' = interval_timer + (q + 1) * I
                         /\ clock < interval_timer'
    BY <1>0, <1>2, NextTickAligned DEF TimerTicks
  <2>2. k * I + (q + 1) * I = (k + q + 1) * I /\ k + q + 1 \in Nat
    <3> HIDE DEF I
    <3> QED BY <1>0, <1>1, <2>1
  <2>3. metrics'.service_uptime = clock
    BY <1>2 DEF TimerTicks, MonitorTypeOK, Metrics
  <2> HIDE DEF I
  <2> QED BY <1>1, <2>1, <2>2, <2>3 DEF PaceInv, I
<1>3. CASE poll_balances
  <2>1. metrics'.service_uptime = metrics.service_uptime
    <3>1. metrics \in Metrics
      BY DEF MonitorTypeOK
    <3> QED BY <1>3, <3>1, PollCases, AnsweredMetrics, FailureMetrics
  <2>2. Asked /\ interval_timer' = interval_timer
    BY <1>3, PollCases DEF Asked
  <2> QED BY <1>1, <2>1, <2>2 DEF PaceInv
<1>4. CASE MonitorTick \/ UNCHANGED monitorVars
  <2>1. UNCHANGED <<interval_timer, querying, metrics>>
    BY <1>4 DEF MonitorTick, monitorVars
  <2> QED BY <1>1, <2>1 DEF PaceInv, Asked
<1> QED BY <1>2, <1>3, <1>4 DEF MonitorNext

\* A time before a multiple of n is in an earlier interval than one after it.
LEMMA EarlierInterval ==
  ASSUME NEW n \in Nat \ {0}, NEW k \in Nat, NEW s \in Nat, NEW t \in Nat,
         s < k * n, k * n <= t
  PROVE  s \div n < t \div n
<1> DEFINE a == s \div n
           b == t \div n
<1>1. /\ a \in Int /\ s = n * a + (s % n) /\ (s % n) \in 0..(n - 1)
      /\ b \in Int /\ t = n * b + (t % n) /\ (t % n) \in 0..(n - 1)
  BY SMTT(30)
<1> HIDE DEF a, b
<1>2. n * a < n * k /\ n * k < n * (b + 1)
  BY <1>1, SMTT(30)
<1>3. a < k /\ k < b + 1
  BY <1>1, <1>2, SMTT(30)
<1> QED BY <1>1, <1>3 DEF a, b

\* The node is asked at most once per interval.
THEOREM AtMostOncePerInterval == MonitorSpec => NoBurst
<1>1. MonitorTypeOK /\ PaceInv /\ [MonitorNext]_monitorVars =>
        [~querying /\ querying' =>
           \/ metrics.balance_polls_success + metrics.balance_polls_failed = 0
           \/ metrics.service_uptime \div balance_poll_interval
                < clock \div balance_poll_interval]_monitorVars
  <2>1. SUFFICES ASSUME MonitorTypeOK, PaceInv, [MonitorNext]_monitorVars,
                        ~querying, querying', Asked
                 PROVE  metrics.service_uptime \div balance_poll_interval
                          < clock \div balance_poll_interval
    BY DEF Asked
  <2>2. TimerTicks
    BY <2>1 DEF MonitorNext, poll_balances, MonitorTick, monitorVars
  <2>3. PICK k \in Nat : /\ metrics.service_uptime < k * balance_poll_interval
                         /\ k * balance_poll_interval <= clock
    BY <2>1, <2>2, BalanceMonitorAssumption DEF PaceInv, TimerTicks, MonitorTypeOK
  <2>4. metrics.service_uptime \in Nat /\ clock \in Nat
    BY <2>1 DEF MonitorTypeOK, Metrics
  <2> QED BY <2>3, <2>4, EarlierInterval, BalanceMonitorAssumption
<1>2. MonitorTypeOK /\ PaceInv /\ [MonitorNext]_monitorVars => PaceInv'
  BY PaceStep
<1> QED
  BY <1>1, <1>2, MonitorInitType, MonitorStepType, PaceInit, PTL DEF MonitorSpec, NoBurst

-----------------------------------------------------------------------------
(* The gauges *)

LEMMA GaugesStep ==
  ASSUME MonitorTypeOK, GaugesShowNewest, [MonitorNext]_monitorVars
  PROVE  GaugesShowNewest'
<1>1. CASE TimerTicks
  <2>1. /\ metrics'.l1_balance = metrics.l1_balance
        /\ metrics'.l1_gas_price = metrics.l1_gas_price
        /\ metrics'.last_balance_update = metrics.last_balance_update
        /\ recorded' = recorded
    BY <1>1 DEF TimerTicks, MonitorTypeOK, Metrics
  <2> QED BY <2>1 DEF GaugesShowNewest
<1>2. CASE poll_balances
  <2>1. ASSUME NEW balance \in Balance, NEW price \in GasPrice \cup {None}, Answered(balance, price)
        PROVE  GaugesShowNewest'
    <3> DEFINE snapshot == BalanceSnapshot(balance, price)
               n == Len(recorded)
    <3>1. snapshot \in Snapshot /\ snapshot.l1_balance_eth = balance
          /\ snapshot.timestamp = clock /\ snapshot.l1_gas_price_gwei = price
      BY Answers DEF BalanceSnapshot, Snapshot, MonitorTypeOK
    <3>2. /\ metrics'.l1_balance = balance
          /\ metrics'.last_balance_update = clock
          /\ metrics'.l1_gas_price = IF price = None THEN metrics.l1_gas_price ELSE price
      BY <2>1, AnsweredMetrics
    <3>3. recorded' = Append(recorded, snapshot)
      BY <2>1 DEF Answered
    <3> HIDE DEF snapshot
    <3>4. /\ n \in Nat /\ DOMAIN recorded = 1..n /\ DOMAIN recorded' = 1..(n + 1)
          /\ Len(recorded') = n + 1 /\ recorded'[n + 1] = snapshot
          /\ \A i \in 1..n : recorded'[i] = recorded[i]
      BY <3>1, <3>3 DEF MonitorTypeOK
    <3> HIDE DEF n
    <3>5. ASSUME NEW i \in 1..(n + 1),
                 recorded'[i].l1_gas_price_gwei # None,
                 \A j \in 1..(n + 1) : j > i => recorded'[j].l1_gas_price_gwei = None
          PROVE  metrics'.l1_gas_price = recorded'[i].l1_gas_price_gwei
      <4>1. CASE i = n + 1
        BY <3>1, <3>2, <3>4, <3>5, <4>1
      <4>2. CASE i # n + 1
        <5>1. i \in 1..n /\ n + 1 > i /\ n + 1 \in 1..(n + 1)
          BY <3>4, <4>2
        <5>2. price = None
          BY <3>1, <3>4, <3>5, <5>1
        <5>3. \A j \in 1..n : j \in 1..(n + 1) /\ recorded'[j] = recorded[j]
          BY <3>4
        <5>4. /\ recorded[i].l1_gas_price_gwei # None
              /\ \A j \in 1..n : j > i => recorded[j].l1_gas_price_gwei = None
          BY <3>5, <5>1, <5>3
        <5>5. metrics.l1_gas_price = recorded[i].l1_gas_price_gwei
          BY <3>4, <5>1, <5>4 DEF GaugesShowNewest
        <5> QED BY <3>2, <5>1, <5>2, <5>3, <5>5
      <4> QED BY <4>1, <4>2
    <3> QED BY <3>1, <3>2, <3>4, <3>5 DEF GaugesShowNewest
  <2>2. CASE metrics' = record_balance_poll_failure(metrics) /\ UNCHANGED <<snapshots, recorded>>
    <3>1. /\ metrics'.l1_balance = metrics.l1_balance
          /\ metrics'.l1_gas_price = metrics.l1_gas_price
          /\ metrics'.last_balance_update = metrics.last_balance_update
      <4>1. metrics \in Metrics
        BY DEF MonitorTypeOK
      <4> QED BY <2>2, <4>1, FailureMetrics
    <3>2. recorded' = recorded
      BY <2>2
    <3> QED BY <3>1, <3>2 DEF GaugesShowNewest
  <2> QED BY <1>2, <2>1, <2>2, PollCases
<1>3. CASE MonitorTick \/ UNCHANGED monitorVars
  BY <1>3 DEF MonitorTick, monitorVars, GaugesShowNewest
<1> QED BY <1>1, <1>2, <1>3 DEF MonitorNext

\* The gauges show the newest snapshot, and the newest gas price there is.
THEOREM GaugesCorrect == MonitorSpec => []GaugesShowNewest
<1>1. MonitorInit => GaugesShowNewest
  BY DEF MonitorInit, GaugesShowNewest
<1>2. MonitorTypeOK /\ GaugesShowNewest /\ [MonitorNext]_monitorVars => GaugesShowNewest'
  BY GaugesStep
<1> QED BY <1>1, <1>2, MonitorInitType, MonitorStepType, PTL DEF MonitorSpec

-----------------------------------------------------------------------------
(* The encoding of a root *)

\* A root's words are each less than half a word's range and add up to it.
LEMMA WordsAddUp ==
  ASSUME root \in 0..(UINT256_SIZE - 1)
  PROVE  /\ root % UINT256_PART_SIZE \in 0..(UINT256_PART_SIZE - 1)
         /\ root \div UINT256_PART_SIZE \in 0..(UINT256_PART_SIZE - 1)
         /\ (root % UINT256_PART_SIZE) + (root \div UINT256_PART_SIZE) * UINT256_PART_SIZE = root
<1> DEFINE P == UINT256_PART_SIZE
           low == root % P
           high == root \div P
<1>1. P \in Nat /\ P > 0 /\ root \in Nat /\ root < P * P
  BY RootEncodingAssumption DEF UINT256_SIZE
<1>2. low \in Int /\ high \in Int /\ 0 <= low /\ low < P /\ root = P * high + low
  BY <1>1, SMTT(30)
<1>3. high >= 0
  BY <1>1, <1>2, SMTT(30)
<1>4. high < P
  BY <1>1, <1>2, SMTT(30)
<1> QED BY <1>1, <1>2, <1>3, <1>4

\* On every value there is, the three encodings agree.
LEMMA RoundTrip ==
  ASSUME root \in 0..(UINT256_SIZE - 1)
  PROVE  EncodingsAgree
<1> DEFINE P == UINT256_PART_SIZE
           low == root % P
           high == root \div P
<1>1. /\ P \in Nat /\ P > 0 /\ root \in Int /\ root < P * P /\ UINT256_SIZE = P * P
  BY RootEncodingAssumption DEF UINT256_SIZE
<1>2. low \in 0..(P - 1) /\ high \in 0..(P - 1) /\ low + high * P = root
  BY WordsAddUp
<1>3. into_felt(root) = uint256_words(root)
  BY DEF into_felt, uint256_words
<1>4. deserialize(uint256_words(root)) = root
  BY <1>1, <1>2 DEF deserialize, uint256_words
<1>5. felts_to_u256(uint256_words(root)) = root
  <2>1. high * P \in Nat /\ high * P < P * P
    BY <1>1, <1>2, SMTT(30)
  <2>2. (high * P) % UINT256_SIZE = high * P
    <3> DEFINE n == high * P
               m == P * P
    <3>1. n \in Nat /\ m \in Nat /\ n < m
      BY <1>1, <2>1
    <3> HIDE DEF n, m
    <3>2. n % m = n
      BY <3>1, SMTT(30)
    <3> QED BY <3>2, <1>1 DEF n, m
  <2> QED BY <1>1, <1>2, <2>2 DEF felts_to_u256, uint256_words
<1> QED BY <1>3, <1>4, <1>5 DEF EncodingsAgree

\* Whatever the width of a word, the three encodings agree on every root.
THEOREM EncodingsAgreeCorrect == EncodingSpec => []EncodingsAgree
<1> DEFINE Inv == root \in 0..(UINT256_SIZE - 1)
<1>1. EncodingInit => Inv
  BY RootEncodingAssumption DEF EncodingInit, UINT256_SIZE
<1>2. Inv /\ [NewRoot]_root => Inv'
  BY DEF NewRoot
<1>3. Inv => EncodingsAgree
  BY RoundTrip
<1> QED BY <1>1, <1>2, <1>3, PTL DEF EncodingSpec
=============================================================================
