--------------------------- MODULE RelayClockProofs ---------------------------
(* The deadlines the relay keeps, for any intervals, delays and limits.       *)
EXTENDS RelayClock, TLAPS

\* A delay is one of the schedule's, so between the shortest and the longest.
LEMMA DelayInSchedule ==
  ASSUME NEW idx \in Nat
  PROVE  /\ next_delay(idx) \in Nat /\ shortest_delay \in Nat /\ longest_delay \in Nat
         /\ shortest_delay <= next_delay(idx) /\ next_delay(idx) <= longest_delay
<1>1. backoff_schedule \in Seq(Nat) /\ Len(backoff_schedule) \in Nat \ {0}
  BY RelayClockAssumption
<1>2. \A i \in DOMAIN backoff_schedule : backoff_schedule[i] \in Nat
  BY <1>1
<1>3. DOMAIN backoff_schedule = 1..Len(backoff_schedule)
  BY <1>1
<1>4. \A i, j \in DOMAIN backoff_schedule :
        i <= j => backoff_schedule[i] <= backoff_schedule[j]
  BY RelayClockAssumption
<1>5. CASE idx < Len(backoff_schedule)
  <2>1. idx + 1 \in DOMAIN backoff_schedule /\ 1 \in DOMAIN backoff_schedule
        /\ Len(backoff_schedule) \in DOMAIN backoff_schedule
    BY <1>1, <1>3, <1>5
  <2> QED BY <1>1, <1>2, <1>4, <1>5, <2>1 DEF next_delay, shortest_delay, longest_delay
<1>6. CASE ~(idx < Len(backoff_schedule))
  <2>1. 1 \in DOMAIN backoff_schedule /\ Len(backoff_schedule) \in DOMAIN backoff_schedule
    BY <1>1, <1>3
  <2> QED BY <1>1, <1>2, <1>4, <1>6, <2>1 DEF next_delay, shortest_delay, longest_delay
<1> QED BY <1>5, <1>6

\* What going to sleep makes of the listener.
LEMMA AsleepListener ==
  ASSUME now \in Nat, NEW listener \in Listener
  PROVE  /\ Asleep(listener) \in Listener
         /\ Asleep(listener).pc = "sleep"
         /\ Asleep(listener).attempt = listener.attempt
         /\ Asleep(listener).wake = now + next_delay(listener.idx)
<1>1. next_delay(listener.idx) \in Nat /\ now + next_delay(listener.idx) \in Nat
  BY DelayInSchedule DEF Listener
<1> QED BY <1>1 DEF Asleep, Listener

\* What another attempt makes of it.
LEMMA AttemptedListener ==
  ASSUME ws \in Listener
  PROVE  /\ Attempted \in Listener
         /\ Attempted.attempt = ws.attempt + 1
         /\ Attempted.idx = ws.idx
  BY DEF Attempted, Listener

LEMMA ClockInitType == ClockInit => ClockTypeOK
  BY RelayClockAssumption DEF ClockInit, ClockTypeOK, Listener

LEMMA ClockStepType ==
  ASSUME ClockTypeOK, [ClockNext]_clockVars
  PROVE  ClockTypeOK'
<1> USE RelayClockAssumption DEF ClockTypeOK
<1>1. CASE Connects
  <2>1. ws' \in Listener
    BY <1>1, AttemptedListener DEF Connects, Listener
  <2>2. unpolled' \subseteq Nat
    BY <1>1 DEF Connects
  <2>3. /\ tries' = tries + 1 /\ websocket_connection_status' = 1
        /\ UNCHANGED <<now, pollerVars, last_log, poll_end>>
    BY <1>1, Zenon DEF Connects
  <2> QED BY <2>1, <2>2, <2>3 DEF pollerVars
<1>2. CASE ConnectFails
  <2>1. ws' \in Listener
    <3>1. [Attempted EXCEPT !.pc = "gave_up"] \in Listener
      BY AttemptedListener DEF Listener
    <3> QED BY <1>2, <3>1, AttemptedListener, AsleepListener DEF ConnectFails
  <2>2. UNCHANGED <<now, next_deadline, poll_rx, poller_pc, last_log, unpolled, poll_end>>
    BY <1>2 DEF ConnectFails, pollerVars
  <2> QED BY <1>2, <2>1, <2>2 DEF ConnectFails
<1>3. CASE Subscribes
  <2>1. ws' \in Listener
    BY <1>3 DEF Subscribes, Listener
  <2> QED BY <1>3, <2>1 DEF Subscribes, pollerVars
<1>4. CASE SubscribeFails
  BY <1>4, AsleepListener DEF SubscribeFails, pollerVars
<1>5. CASE ReadsLog
  <2>1. ws' \in Listener
    BY <1>5 DEF ReadsLog, Listener
  <2>2. poll_rx' \in Seq({"Reset", "Expedite"}) /\ Len(poll_rx') <= CHANNEL_CAPACITY
    BY <1>5 DEF ReadsLog, HasRoom
  <2> QED BY <1>5, <2>1, <2>2 DEF ReadsLog
<1>6. CASE StreamEnds
  BY <1>6, AsleepListener DEF StreamEnds, pollerVars
<1>7. CASE Wakes
  <2>1. ws' \in Listener
    BY <1>7 DEF Wakes, Listener
  <2> QED BY <1>7, <2>1 DEF Wakes, pollerVars
<1>8. CASE PollBegins
  BY <1>8 DEF PollBegins
<1>9. CASE PollEnds
  BY <1>9 DEF PollEnds
<1>10. CASE TakesSignal
  BY <1>10 DEF TakesSignal, compute_next_poll_deadline
<1>11. CASE Tick
  BY <1>11 DEF Tick, ClockTicks, pollerVars
<1>12. CASE UNCHANGED clockVars
  BY <1>12 DEF clockVars
<1>13. CASE Expedites
  <2>1. ws' \in Listener
    BY <1>13 DEF Expedites, Listener
  <2>2. poll_rx' \in Seq({"Reset", "Expedite"}) /\ Len(poll_rx') <= CHANNEL_CAPACITY
    BY <1>13 DEF Expedites, HasRoom
  <2>3. UNCHANGED <<now, next_deadline, poller_pc, websocket_connection_status,
                    last_log, poll_end, unpolled, tries>>
    BY <1>13, Zenon DEF Expedites
  <2> QED BY <2>1, <2>2, <2>3
<1>14. CASE HandsOver
  <2>1. ws' \in Listener
    BY <1>14 DEF HandsOver, Listener
  <2> QED BY <1>14, <2>1 DEF HandsOver, pollerVars
<1> QED
  BY <1>1, <1>2, <1>3, <1>4, <1>5, <1>6, <1>7, <1>8, <1>9, <1>10, <1>11, <1>12, <1>13, <1>14
  DEF ClockNext, listen_internal, poller

\* The variables are of their types; in particular the channel keeps to its capacity.
THEOREM ClockTypeCorrect == ClockSpec => []ClockTypeOK
  BY ClockInitType, ClockStepType, PTL DEF ClockSpec

-----------------------------------------------------------------------------
(* The poller's deadline *)

HasReset(signals) == \E i \in DOMAIN signals : signals[i] = "Reset"

\* The deadline is not past, and no later than the property says; a log's signal
\* that has yet to be taken was sent now or while the poller polled.
DeadlineInv ==
  /\ last_log <= now
  /\ poller_pc = "select" =>
       /\ now <= next_deadline
       /\ next_deadline <= LaterOf(last_log, poll_end) + POLL_INTERVAL
       /\ HasReset(poll_rx) => now <= LaterOf(last_log, poll_end)

\* The listener is about to tell the poller of a connection.
Telling == ws.pc = "expedite"

\* A connection without a log or a poll since has either moved the deadline
\* already, or its signal is the last one there or about to be sent, and the poller
\* takes it now.
CatchUpInv ==
  /\ unpolled # {} /\ poll_rx # <<>> => poll_rx[Len(poll_rx)] = "Expedite" \/ Telling
  /\ poller_pc = "polling" /\ unpolled # {} => poll_rx # <<>> \/ Telling
  /\ poller_pc = "select" =>
       \A t \in unpolled :
         \/ ~HasReset(poll_rx) /\ next_deadline <= LaterOf(t, poll_end) + RECONNECT_POLL_DELAY
         \/ (poll_rx # <<>> \/ Telling) /\ now <= LaterOf(t, poll_end)

\* An attempt has been paid for with a delay by the time of the next one.
PaceInv ==
  /\ ws.attempt * shortest_delay <= now + shortest_delay
  /\ ws.pc = "connect" => ws.attempt * shortest_delay <= now
  /\ ws.pc = "sleep" =>
       ws.attempt * shortest_delay <= ws.wake /\ ws.wake <= now + longest_delay

Signal == {"Reset", "Expedite"}

\* What sending and taking a signal do to the logs' signals and to the last one.
LEMMA SendSignal ==
  ASSUME NEW signals \in Seq(Signal), NEW signal \in Signal
  PROVE  /\ HasReset(Append(signals, signal)) <=> HasReset(signals) \/ signal = "Reset"
         /\ Append(signals, signal) # <<>>
         /\ Append(signals, signal)[Len(Append(signals, signal))] = signal
  BY DEF HasReset

LEMMA TakeSignal ==
  ASSUME NEW signals \in Seq(Signal), signals # <<>>
  PROVE  /\ Head(signals) \in Signal
         /\ Head(signals) = "Reset" => HasReset(signals)
         /\ HasReset(Tail(signals)) => HasReset(signals)
         /\ Tail(signals) = <<>> => signals[Len(signals)] = Head(signals) /\ ~HasReset(Tail(signals))
         /\ Tail(signals) # <<>> => Tail(signals)[Len(Tail(signals))] = signals[Len(signals)]
<1>1. Len(signals) \in Nat \ {0} /\ Tail(signals) \in Seq(Signal)
      /\ Len(Tail(signals)) = Len(signals) - 1
  BY DEF Signal
<1>2. \A i \in 1..Len(Tail(signals)) : Tail(signals)[i] = signals[i + 1]
  BY <1>1
<1>3. HasReset(Tail(signals)) => HasReset(signals)
  BY <1>1, <1>2 DEF HasReset
<1>4. Tail(signals) = <<>> => Len(signals) = 1
  <2> DEFINE rest == Tail(signals)
  <2>1. rest = <<>> => Len(rest) = 0
    <3> HIDE DEF rest
    <3> QED OBVIOUS
  <2> QED BY <1>1, <2>1
<1>5. Tail(signals) # <<>> => Len(Tail(signals)) \in 1..Len(Tail(signals))
  <2> DEFINE rest == Tail(signals)
  <2>1. rest \in Seq(Signal)
    BY <1>1
  <2> HIDE DEF rest
  <2>2. rest # <<>> => Len(rest) \in 1..Len(rest)
    BY <2>1
  <2> QED BY <2>2 DEF rest
<1>6. Head(signals) = signals[1] /\ 1 \in DOMAIN signals /\ Head(signals) \in Signal
  BY <1>1
<1>7. Tail(signals) = <<>> => ~HasReset(Tail(signals))
  BY DEF HasReset
<1>8. Tail(signals) # <<>> => Tail(signals)[Len(Tail(signals))] = signals[Len(signals)]
  BY <1>1, <1>2, <1>5
<1>9. Head(signals) = "Reset" => HasReset(signals)
  BY <1>6 DEF HasReset
<1> QED BY <1>3, <1>4, <1>6, <1>7, <1>8, <1>9

\* Where a signal moves the deadline: never past an interval from now by a log,
\* never back by a connection.
LEMMA SignalMovesDeadline ==
  ASSUME now \in Nat, next_deadline \in Nat, now <= next_deadline,
         NEW signal \in Signal
  PROVE  LET moved == compute_next_poll_deadline(now, next_deadline, signal)
         IN  /\ moved \in Nat /\ now <= moved
             /\ signal = "Reset" => moved = now + POLL_INTERVAL
             /\ signal = "Expedite" =>
                  moved <= next_deadline /\ moved <= now + RECONNECT_POLL_DELAY
  BY RelayClockAssumption DEF compute_next_poll_deadline, Signal

LEMMA DeadlineInit == ClockInit => DeadlineInv
  BY RelayClockAssumption DEF ClockInit, DeadlineInv, LaterOf, HasReset

LEMMA DeadlineStep ==
  ASSUME ClockTypeOK, DeadlineInv, [ClockNext]_clockVars
  PROVE  DeadlineInv'
<1> USE RelayClockAssumption DEF ClockTypeOK, LaterOf
<1>1. CASE Expedites
  <2>1. HasReset(poll_rx') <=> HasReset(poll_rx)
    BY <1>1, SendSignal DEF Expedites, Signal
  <2> QED BY <1>1, <2>1 DEF Expedites, DeadlineInv
<1>2. CASE ReadsLog
  <2>1. last_log' = now /\ UNCHANGED <<now, next_deadline, poller_pc, poll_end>>
    BY <1>2, Zenon DEF ReadsLog
  <2>2. poller_pc = "select" =>
          /\ now <= next_deadline
          /\ next_deadline <= LaterOf(now, poll_end) + POLL_INTERVAL
          /\ now <= LaterOf(now, poll_end)
    BY DEF DeadlineInv
  <2> QED BY <2>1, <2>2 DEF DeadlineInv
<1>3. CASE PollBegins
  BY <1>3 DEF PollBegins, DeadlineInv
<1>4. CASE PollEnds
  BY <1>4 DEF PollEnds, DeadlineInv
<1>5. CASE TakesSignal
  <2>1. poll_rx \in Seq(Signal) /\ poll_rx # <<>> /\ now <= next_deadline
    BY <1>5 DEF TakesSignal, DeadlineInv, Signal
  <2>2. now <= next_deadline' /\ next_deadline' <= LaterOf(last_log, poll_end) + POLL_INTERVAL
    <3> DEFINE signal == Head(poll_rx)
    <3>1. signal \in Signal /\ (signal = "Reset" => HasReset(poll_rx))
      BY <2>1, TakeSignal
    <3>2. next_deadline' = compute_next_poll_deadline(now, next_deadline, signal)
      BY <1>5 DEF TakesSignal
    <3> HIDE DEF signal
    <3>3. /\ next_deadline' \in Nat /\ now <= next_deadline'
          /\ signal = "Reset" => next_deadline' = now + POLL_INTERVAL
          /\ signal = "Expedite" => next_deadline' <= next_deadline
      BY <2>1, <3>1, <3>2, SignalMovesDeadline
    <3> QED BY <1>5, <3>1, <3>3 DEF TakesSignal, DeadlineInv, Signal
  <2>3. HasReset(poll_rx') => HasReset(poll_rx)
    BY <1>5, <2>1, TakeSignal DEF TakesSignal
  <2> QED BY <1>5, <2>2, <2>3 DEF TakesSignal, DeadlineInv
<1>6. CASE Tick
  <2>1. poller_pc = "select" => now < next_deadline /\ poll_rx = <<>>
    BY <1>6 DEF Tick, ClockTicks, Due
  <2>2. ~HasReset(<<>>)
    BY DEF HasReset
  <2> QED BY <1>6, <2>1, <2>2 DEF Tick, ClockTicks, pollerVars, DeadlineInv
<1>7. CASE UNCHANGED <<now, pollerVars, last_log, poll_end>>
  BY <1>7 DEF pollerVars, DeadlineInv
<1>8. CASE Connects \/ ConnectFails \/ Subscribes \/ SubscribeFails \/ HandsOver \/ StreamEnds
             \/ Wakes \/ UNCHANGED clockVars
  BY <1>7, <1>8
  DEF Connects, ConnectFails, Subscribes, SubscribeFails, HandsOver, StreamEnds, Wakes,
      clockVars, pollerVars
<1> QED
  BY <1>1, <1>2, <1>3, <1>4, <1>5, <1>6, <1>8 DEF ClockNext, listen_internal, poller

\* Whatever the connection does, a poll begins within an interval of the last log
\* or poll.
THEOREM PollNotPostponed == ClockSpec => []PollComes
<1>1. ClockTypeOK /\ DeadlineInv => PollComes
  BY RelayClockAssumption DEF ClockTypeOK, DeadlineInv, PollComes, LaterOf
<1>2. ClockTypeOK /\ DeadlineInv /\ [ClockNext]_clockVars => DeadlineInv'
  BY DeadlineStep
<1> QED BY <1>1, <1>2, DeadlineInit, ClockTypeCorrect, PTL DEF ClockSpec

LEMMA CatchUpInit == ClockInit => CatchUpInv
  BY DEF ClockInit, CatchUpInv

LEMMA CatchUpStep ==
  ASSUME ClockTypeOK, DeadlineInv, CatchUpInv, [ClockNext]_clockVars
  PROVE  CatchUpInv'
<1> USE RelayClockAssumption DEF ClockTypeOK, LaterOf
<1>1. CASE Expedites
  <2>1. /\ ~HasReset(poll_rx) => ~HasReset(poll_rx')
        /\ poll_rx' # <<>>
        /\ poll_rx'[Len(poll_rx')] = "Expedite"
    BY <1>1, SendSignal DEF Expedites, Signal
  <2> QED BY <1>1, <2>1 DEF Expedites, CatchUpInv
<1>8. CASE Connects
  <2>1. Telling' /\ UNCHANGED <<now, poll_rx, next_deadline, poller_pc, poll_end>>
    BY <1>8, AttemptedListener DEF Connects, Telling, Listener, pollerVars
  <2>2. \A t \in unpolled' : t \in unpolled \/ t = now
    BY <1>8 DEF Connects
  <2>3. ASSUME poller_pc = "select", NEW t \in unpolled'
        PROVE  \/ ~HasReset(poll_rx) /\ next_deadline <= LaterOf(t, poll_end) + RECONNECT_POLL_DELAY
               \/ now <= LaterOf(t, poll_end)
    <3>1. CASE t \in unpolled
      BY <2>3, <3>1 DEF CatchUpInv
    <3>2. CASE t = now
      BY <3>2
    <3> QED BY <2>2, <2>3, <3>1, <3>2
  <2> QED BY <2>1, <2>3 DEF CatchUpInv
<1>2. CASE ReadsLog \/ PollBegins
  BY <1>2 DEF ReadsLog, PollBegins, CatchUpInv
<1>3. CASE PollEnds
  <2>1. \A t \in unpolled : (poll_rx # <<>> \/ Telling) /\ now <= LaterOf(t, poll_end')
    BY <1>3 DEF PollEnds, CatchUpInv
  <2> QED BY <1>3, <2>1 DEF PollEnds, CatchUpInv, Telling
<1>4. CASE TakesSignal
  <2> DEFINE signal == Head(poll_rx)
  <2>1. poll_rx \in Seq(Signal) /\ poll_rx # <<>> /\ now <= next_deadline
    BY <1>4 DEF TakesSignal, DeadlineInv, Signal
  <2>2. /\ signal \in Signal
        /\ signal = "Reset" => HasReset(poll_rx)
        /\ HasReset(poll_rx') => HasReset(poll_rx)
        /\ poll_rx' = <<>> => poll_rx[Len(poll_rx)] = signal /\ ~HasReset(poll_rx')
        /\ poll_rx' # <<>> => poll_rx'[Len(poll_rx')] = poll_rx[Len(poll_rx)]
    BY <1>4, <2>1, TakeSignal DEF TakesSignal
  <2>3. next_deadline' = compute_next_poll_deadline(now, next_deadline, signal)
    BY <1>4 DEF TakesSignal
  <2> HIDE DEF signal
  <2>4. /\ next_deadline' \in Nat
        /\ signal = "Expedite" =>
             next_deadline' <= next_deadline /\ next_deadline' <= now + RECONNECT_POLL_DELAY
    BY <2>1, <2>2, <2>3, SignalMovesDeadline
  <2>5. ASSUME NEW t \in unpolled
        PROVE  \/ ~HasReset(poll_rx') /\ next_deadline' <= LaterOf(t, poll_end) + RECONNECT_POLL_DELAY
               \/ (poll_rx' # <<>> \/ Telling) /\ now <= LaterOf(t, poll_end)
    <3>1. CASE ~HasReset(poll_rx) /\ next_deadline <= LaterOf(t, poll_end) + RECONNECT_POLL_DELAY
      <4>1. signal = "Expedite" /\ ~HasReset(poll_rx')
        BY <2>2, <3>1 DEF Signal
      <4> QED BY <2>4, <3>1, <4>1
    <3>2. CASE now <= LaterOf(t, poll_end) /\ (poll_rx' # <<>> \/ Telling)
      BY <3>2
    <3>3. CASE now <= LaterOf(t, poll_end) /\ poll_rx' = <<>> /\ ~Telling
      <4>1. signal = "Expedite" /\ ~HasReset(poll_rx')
        BY <2>1, <2>2, <3>3 DEF CatchUpInv
      <4> QED BY <2>4, <3>3, <4>1
    <3> QED BY <1>4, <3>1, <3>2, <3>3 DEF TakesSignal, CatchUpInv
  <2> QED BY <1>4, <2>1, <2>2, <2>5 DEF TakesSignal, CatchUpInv, Telling
<1>5. CASE Tick
  <2>1. poller_pc = "select" => poll_rx = <<>> /\ ~Telling
    <3>1. Len(<<>>) < CHANNEL_CAPACITY
      OBVIOUS
    <3> QED BY <1>5, <3>1 DEF Tick, ClockTicks, Due, HasRoom, Telling
  <2> QED BY <1>5, <2>1 DEF Tick, ClockTicks, pollerVars, CatchUpInv, Telling
<1>6. CASE UNCHANGED <<now, pollerVars, poll_end, unpolled, Telling>>
  BY <1>6 DEF pollerVars, CatchUpInv
<1>7. CASE \/ ConnectFails \/ Subscribes \/ SubscribeFails \/ HandsOver \/ StreamEnds
           \/ Wakes \/ UNCHANGED clockVars
  <2>1. UNCHANGED <<now, pollerVars, poll_end, unpolled>>
    BY <1>7
    DEF ConnectFails, Subscribes, SubscribeFails, HandsOver, StreamEnds, Wakes, clockVars, pollerVars
  <2>2. UNCHANGED Telling
    <3>1. CASE ConnectFails
      BY <3>1, AttemptedListener, AsleepListener DEF ConnectFails, Telling, Listener
    <3>2. CASE SubscribeFails \/ StreamEnds
      BY <3>2, AsleepListener DEF SubscribeFails, StreamEnds, Telling
    <3>3. CASE Subscribes \/ HandsOver \/ Wakes \/ UNCHANGED clockVars
      BY <3>3 DEF Subscribes, HandsOver, Wakes, clockVars, Telling, Listener
    <3> QED BY <1>7, <3>1, <3>2, <3>3
  <2> QED BY <1>6, <2>1, <2>2
<1> QED
  BY <1>1, <1>2, <1>3, <1>4, <1>5, <1>7, <1>8 DEF ClockNext, listen_internal, poller

\* After a connection a poll begins within the reconnection delay, unless a log
\* arrives or a poll is going on.
THEOREM ReconnectionCaughtUp == ClockSpec => []CatchUpAfterReconnect
<1>1. ClockTypeOK /\ DeadlineInv /\ CatchUpInv => CatchUpAfterReconnect
  BY RelayClockAssumption DEF ClockTypeOK, DeadlineInv, CatchUpInv, CatchUpAfterReconnect, LaterOf
<1>2. ClockTypeOK /\ DeadlineInv /\ [ClockNext]_clockVars => DeadlineInv'
  BY DeadlineStep
<1>3. ClockTypeOK /\ DeadlineInv /\ CatchUpInv /\ [ClockNext]_clockVars => CatchUpInv'
  BY CatchUpStep
<1> QED BY <1>1, <1>2, <1>3, DeadlineInit, CatchUpInit, ClockTypeCorrect, PTL DEF ClockSpec

-----------------------------------------------------------------------------
(* The listener's pace and its gauge *)

LEMMA OneMoreTimes ==
  ASSUME NEW n \in Nat, NEW d \in Nat
  PROVE  n * d \in Nat /\ (n + 1) * d = n * d + d
  OBVIOUS

LEMMA PaceInit == ClockInit => PaceInv
<1>1. 0 * shortest_delay = 0 /\ shortest_delay \in Nat
  BY DelayInSchedule
<1> QED BY <1>1 DEF ClockInit, PaceInv

\* Going to sleep pays for the attempts made.
LEMMA AsleepPays ==
  ASSUME now \in Nat, NEW listener \in Listener,
         listener.attempt * shortest_delay <= now + shortest_delay
  PROVE  /\ listener.attempt * shortest_delay <= Asleep(listener).wake
         /\ Asleep(listener).wake <= now + longest_delay
<1> DEFINE paid == listener.attempt * shortest_delay
           delay == next_delay(listener.idx)
<1>1. /\ delay \in Nat /\ shortest_delay \in Nat /\ longest_delay \in Nat
      /\ shortest_delay <= delay /\ delay <= longest_delay
  BY DelayInSchedule DEF Listener
<1>2. Asleep(listener).wake = now + delay
  BY AsleepListener
<1>3. paid \in Nat /\ paid <= now + shortest_delay
  BY <1>1, OneMoreTimes DEF Listener
<1> HIDE DEF paid, delay
<1>4. paid <= now + delay /\ now + delay <= now + longest_delay
  BY <1>1, <1>3
<1> QED BY <1>2, <1>4 DEF paid

LEMMA PaceStep ==
  ASSUME ClockTypeOK, PaceInv, [ClockNext]_clockVars
  PROVE  PaceInv'
<1> DEFINE paid == ws.attempt * shortest_delay
<1>0. /\ now \in Nat /\ ws \in Listener /\ ws.attempt \in Nat
      /\ shortest_delay \in Nat /\ longest_delay \in Nat
      /\ shortest_delay' = shortest_delay /\ longest_delay' = longest_delay
      /\ paid \in Nat /\ paid <= now + shortest_delay
  BY DelayInSchedule, OneMoreTimes DEF ClockTypeOK, Listener, PaceInv, shortest_delay, longest_delay
<1>1. ASSUME ws.pc = "connect"
      PROVE  /\ Attempted \in Listener
             /\ Attempted.attempt * shortest_delay = paid + shortest_delay
             /\ Attempted.attempt * shortest_delay <= now + shortest_delay
  <2>1. paid <= now
    BY <1>1 DEF PaceInv
  <2>2. Attempted \in Listener /\ Attempted.attempt = ws.attempt + 1
    BY <1>0, AttemptedListener
  <2>3. (ws.attempt + 1) * shortest_delay = paid + shortest_delay
    BY <1>0, OneMoreTimes
  <2> QED BY <1>0, <2>1, <2>2, <2>3
<1>2. CASE Connects
  <2>1. ws'.attempt = Attempted.attempt /\ ws'.pc = "expedite" /\ now' = now
    BY <1>1, <1>2 DEF Connects, Listener
  <2> QED BY <1>0, <1>1, <1>2, <2>1 DEF Connects, PaceInv
<1>3. CASE ConnectFails
  <2>1. CASE ws' = Asleep(Attempted)
    BY <1>0, <1>1, <1>3, <2>1, AsleepPays, AsleepListener DEF ConnectFails, PaceInv
  <2>2. CASE ws' = [Attempted EXCEPT !.pc = "gave_up"]
    <3>1. ws'.attempt = Attempted.attempt /\ ws'.pc = "gave_up" /\ now' = now
      BY <1>1, <1>3, <2>2 DEF ConnectFails, Listener
    <3> QED BY <1>0, <1>1, <1>3, <3>1 DEF ConnectFails, PaceInv
  <2> QED BY <1>3, <2>1, <2>2 DEF ConnectFails
<1>4. CASE SubscribeFails \/ StreamEnds
  <2>1. ws' = Asleep(ws) /\ now' = now
    BY <1>4 DEF SubscribeFails, StreamEnds
  <2>2. ws'.attempt = ws.attempt /\ ws'.pc = "sleep"
    BY <1>0, <2>1, AsleepListener
  <2>3. paid <= ws'.wake /\ ws'.wake <= now + longest_delay
    BY <1>0, <2>1, AsleepPays
  <2> QED BY <1>0, <2>1, <2>2, <2>3 DEF PaceInv
<1>5. CASE Expedites \/ Subscribes \/ ReadsLog \/ HandsOver
  <2>1. ws'.attempt = ws.attempt /\ ws'.pc \notin {"connect", "sleep"} /\ now' = now
    BY <1>0, <1>5 DEF Expedites, Subscribes, ReadsLog, HandsOver, Listener
  <2> QED BY <1>0, <2>1 DEF PaceInv
<1>6. CASE Wakes
  <2>1. ws'.attempt = ws.attempt /\ ws'.pc = "connect" /\ now' = now
    BY <1>0, <1>6 DEF Wakes, Listener
  <2>2. paid <= now
    <3>1. paid <= ws.wake /\ ws.wake <= now /\ ws.wake \in Nat
      BY <1>0, <1>6 DEF Wakes, PaceInv, Listener
    <3> HIDE DEF paid
    <3> QED BY <1>0, <3>1
  <2> QED BY <1>0, <2>1, <2>2 DEF PaceInv
<1>7. CASE Tick
  <2>1. ws' = ws /\ now' = now + 1
    BY <1>7 DEF Tick, ClockTicks
  <2>2. ws.wake \in Nat
    BY <1>0 DEF Listener
  <2> QED BY <1>0, <2>1, <2>2 DEF PaceInv
<1>8. CASE poller \/ UNCHANGED clockVars
  <2>1. ws' = ws /\ now' = now
    BY <1>8 DEF poller, PollBegins, PollEnds, TakesSignal, clockVars
  <2> QED BY <1>0, <2>1 DEF PaceInv
<1> QED
  BY <1>2, <1>3, <1>4, <1>5, <1>6, <1>7, <1>8 DEF ClockNext, listen_internal

\* Attempts keep at least the shortest delay apart on average, sleeps are no longer
\* than the longest.
THEOREM AttemptsPaced == ClockSpec => []RetryPaced
<1>1. PaceInv => RetryPaced
  BY DEF PaceInv, RetryPaced
<1>2. ClockTypeOK /\ PaceInv /\ [ClockNext]_clockVars => PaceInv'
  BY PaceStep
<1> QED BY <1>1, <1>2, PaceInit, ClockTypeCorrect, PTL DEF ClockSpec

\* The gauge follows the connection until the listener returns.
THEOREM GaugeFollows == ClockSpec => []GaugeShowsConnection
<1>1. ClockInit => GaugeShowsConnection
  BY DEF ClockInit, GaugeShowsConnection
<1>2. ASSUME ClockTypeOK, GaugeShowsConnection, [ClockNext]_clockVars
      PROVE  GaugeShowsConnection'
  <2>0. now \in Nat /\ ws \in Listener
    BY <1>2 DEF ClockTypeOK
  <2>1. CASE Connects
    BY <2>0, <2>1, AttemptedListener DEF Connects, GaugeShowsConnection, Listener
  <2>2. CASE ConnectFails
    <3>1. ws'.pc \in {"gave_up", "sleep"}
      BY <2>0, <2>2, AttemptedListener, AsleepListener DEF ConnectFails, Listener
    <3> QED BY <2>2, <3>1 DEF ConnectFails, GaugeShowsConnection
  <2>3. CASE SubscribeFails \/ StreamEnds
    <3>1. ws'.pc = "sleep" /\ websocket_connection_status' = 0
      BY <2>0, <2>3, AsleepListener DEF SubscribeFails, StreamEnds
    <3> QED BY <3>1 DEF GaugeShowsConnection
  <2>4. CASE Expedites \/ Subscribes \/ ReadsLog \/ HandsOver
    BY <1>2, <2>0, <2>4
    DEF Expedites, Subscribes, ReadsLog, HandsOver, GaugeShowsConnection, Listener
  <2>5. CASE Wakes
    BY <1>2, <2>0, <2>5 DEF Wakes, GaugeShowsConnection, Listener
  <2>6. CASE UNCHANGED <<ws, websocket_connection_status>>
    BY <1>2, <2>6 DEF GaugeShowsConnection
  <2>7. CASE poller \/ Tick \/ UNCHANGED clockVars
    BY <2>6, <2>7 DEF poller, PollBegins, PollEnds, TakesSignal, Tick, clockVars
  <2> QED BY <1>2, <2>1, <2>2, <2>3, <2>4, <2>5, <2>7 DEF ClockNext, listen_internal
<1> QED BY <1>1, <1>2, ClockTypeCorrect, PTL DEF ClockSpec
=============================================================================
