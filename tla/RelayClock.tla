------------------------------ MODULE RelayClock ------------------------------
(***************************************************************************)
(* The relay's two clocks: the poller's deadline, which the listener's        *)
(* signals move, and the delays between the listener's connection attempts.   *)
(* What is done with an event or a poll is RelayService's; here is when.       *)
(*                                                                          *)
(* Time stands still while a task can go on by itself: a task whose timer is   *)
(* due, or that has a signal to take, does not sleep on.  Connecting,          *)
(* subscribing, the next log and a poll take as long as they take.             *)
(***************************************************************************)
EXTENDS Naturals, Sequences

CONSTANTS
  POLL_INTERVAL, RECONNECT_POLL_DELAY,
  backoff_schedule,    \* delays, the shortest first
  max_retries,         \* 0: no limit
  CHANNEL_CAPACITY,
  MaxTime              \* bound on the clock

ASSUME RelayClockAssumption ==
  /\ POLL_INTERVAL \in Nat /\ RECONNECT_POLL_DELAY \in Nat
  /\ backoff_schedule \in Seq(Nat) /\ backoff_schedule # <<>>
  /\ \A i, j \in DOMAIN backoff_schedule :
       i <= j => backoff_schedule[i] <= backoff_schedule[j]
  /\ max_retries \in Nat
  /\ CHANNEL_CAPACITY \in Nat \ {0}
  /\ MaxTime \in Nat

VARIABLES
  now,
  ws,              \* [pc, attempt, idx, wake]: the listener, its count of attempts,
                   \* its place in the schedule, the end of its sleep
  poll_rx,         \* the signals the poller has yet to take
  next_deadline,   \* the poller's
  poller_pc,       \* "select", or "polling" in get_and_compare_roots
  websocket_connection_status,
  last_log,        \* history: when the last log was read,
  poll_end,        \* when the last poll ended,
  unpolled,        \* of the connections no log and no poll has followed: {when the first was},
  tries            \* connection attempts since logs were last subscribed to

clockVars == <<now, ws, poll_rx, next_deadline, poller_pc, websocket_connection_status,
               last_log, poll_end, unpolled, tries>>
pollerVars == <<poll_rx, next_deadline, poller_pc>>

LaterOf(s, t) == IF s > t THEN s ELSE t

ClockInit ==
  /\ now = 0
  /\ ws = [pc |-> "connect", attempt |-> 0, idx |-> 0, wake |-> 0]
  /\ poll_rx = <<>> /\ next_deadline = POLL_INTERVAL /\ poller_pc = "select"
  /\ websocket_connection_status = 0
  /\ last_log = 0 /\ poll_end = 0 /\ unpolled = {} /\ tries = 0

-----------------------------------------------------------------------------
(* Backoff *)

shortest_delay == backoff_schedule[1]
longest_delay == backoff_schedule[Len(backoff_schedule)]

\* The last delay repeats.
next_delay(idx) ==
  IF idx < Len(backoff_schedule) THEN backoff_schedule[idx + 1] ELSE longest_delay

\* The listener as it goes to sleep.
Asleep(listener) ==
  [pc |-> "sleep", attempt |-> listener.attempt, idx |-> listener.idx + 1,
   wake |-> now + next_delay(listener.idx)]

-----------------------------------------------------------------------------
(* Listener: listen_internal *)

Attempted == [ws EXCEPT !.attempt = @ + 1]

HasRoom == Len(poll_rx) < CHANNEL_CAPACITY

Connects ==
  /\ ws.pc = "connect"
  /\ ws' = [Attempted EXCEPT !.pc = "expedite"]
  /\ tries' = tries + 1
  /\ websocket_connection_status' = 1
  /\ unpolled' = IF unpolled = {} THEN {now} ELSE unpolled
  /\ UNCHANGED <<now, pollerVars, last_log, poll_end>>

\* Mutant: the connection is made known to nobody.
Expedites_nothing ==
  /\ ws.pc = "expedite"
  /\ ws' = [ws EXCEPT !.pc = "subscribe", !.idx = 0]
  /\ UNCHANGED <<now, pollerVars, websocket_connection_status, last_log, poll_end, unpolled, tries>>

\* The signal to the poller waits for room in the channel.
Expedites ==
  /\ ws.pc = "expedite" /\ HasRoom
  /\ poll_rx' = Append(poll_rx, "Expedite")
  /\ ws' = [ws EXCEPT !.pc = "subscribe", !.idx = 0]
  /\ UNCHANGED <<now, next_deadline, poller_pc, websocket_connection_status,
                 last_log, poll_end, unpolled, tries>>

ConnectFails ==
  /\ ws.pc = "connect"
  /\ ws' = IF max_retries > 0 /\ Attempted.attempt > max_retries
           THEN [Attempted EXCEPT !.pc = "gave_up"]
           ELSE Asleep(Attempted)
  /\ tries' = tries + 1
  /\ websocket_connection_status' = 0
  /\ UNCHANGED <<now, pollerVars, last_log, poll_end, unpolled>>

Subscribes ==
  /\ ws.pc = "subscribe"
  /\ ws' = [ws EXCEPT !.pc = "stream"]
  /\ tries' = 0
  /\ UNCHANGED <<now, pollerVars, websocket_connection_status, last_log, poll_end, unpolled>>

\* Mutant: the listener connects anew at once.
SubscribeFails_no_delay ==
  /\ ws.pc = "subscribe"
  /\ ws' = [ws EXCEPT !.pc = "connect"]
  /\ websocket_connection_status' = 0
  /\ UNCHANGED <<now, pollerVars, last_log, poll_end, unpolled, tries>>

\* The limit on attempts is not looked at here.
SubscribeFails ==
  /\ ws.pc = "subscribe"
  /\ ws' = Asleep(ws)
  /\ websocket_connection_status' = 0
  /\ UNCHANGED <<now, pollerVars, last_log, poll_end, unpolled, tries>>

\* Mutant: the signal does not wait for room.
ReadsLog_unbounded ==
  /\ ws.pc = "stream"
  /\ poll_rx' = Append(poll_rx, "Reset")
  /\ \E pc \in {"stream", "send"} : ws' = [ws EXCEPT !.pc = pc]
  /\ last_log' = now /\ unpolled' = {}
  /\ UNCHANGED <<now, next_deadline, poller_pc, websocket_connection_status, poll_end, tries>>

\* Every log signals; what is not cached is also handed to the executor.
ReadsLog ==
  /\ ws.pc = "stream" /\ HasRoom
  /\ poll_rx' = Append(poll_rx, "Reset")
  /\ \E pc \in {"stream", "send"} : ws' = [ws EXCEPT !.pc = pc]
  /\ last_log' = now /\ unpolled' = {}
  /\ UNCHANGED <<now, next_deadline, poller_pc, websocket_connection_status, poll_end, tries>>

\* The executor takes its time, or is gone: then the listener returns.
HandsOver ==
  /\ ws.pc = "send"
  /\ \E pc \in {"stream", "returned"} : ws' = [ws EXCEPT !.pc = pc]
  /\ UNCHANGED <<now, pollerVars, websocket_connection_status, last_log, poll_end, unpolled, tries>>

\* Mutant: the gauge is left as it was.
StreamEnds_gauge_kept ==
  /\ ws.pc = "stream"
  /\ ws' = Asleep(ws)
  /\ UNCHANGED <<now, pollerVars, websocket_connection_status, last_log, poll_end, unpolled, tries>>

StreamEnds ==
  /\ ws.pc = "stream"
  /\ ws' = Asleep(ws)
  /\ websocket_connection_status' = 0
  /\ UNCHANGED <<now, pollerVars, last_log, poll_end, unpolled, tries>>

Wakes ==
  /\ ws.pc = "sleep" /\ now >= ws.wake
  /\ ws' = [ws EXCEPT !.pc = "connect"]
  /\ UNCHANGED <<now, pollerVars, websocket_connection_status, last_log, poll_end, unpolled, tries>>

listen_internal ==
  \/ Connects \/ ConnectFails \/ Expedites
  \/ Subscribes \/ SubscribeFails
  \/ ReadsLog \/ HandsOver \/ StreamEnds
  \/ Wakes

-----------------------------------------------------------------------------
(* Poller *)

\* Mutant: an expedited poll is put off as well as brought forward.
compute_next_poll_deadline_later(at, current_deadline, signal) ==
  at + IF signal = "Reset" THEN POLL_INTERVAL ELSE RECONNECT_POLL_DELAY

compute_next_poll_deadline(at, current_deadline, signal) ==
  IF signal = "Reset" THEN at + POLL_INTERVAL
  ELSE IF at + RECONNECT_POLL_DELAY < current_deadline THEN at + RECONNECT_POLL_DELAY
  ELSE current_deadline

PollBegins ==
  /\ poller_pc = "select" /\ now >= next_deadline
  /\ poller_pc' = "polling" /\ unpolled' = {}
  /\ UNCHANGED <<now, ws, poll_rx, next_deadline, websocket_connection_status,
                 last_log, poll_end, tries>>

PollEnds ==
  /\ poller_pc = "polling"
  /\ poller_pc' = "select"
  /\ next_deadline' = now + POLL_INTERVAL
  /\ poll_end' = now
  /\ UNCHANGED <<now, ws, poll_rx, websocket_connection_status, last_log, unpolled, tries>>

\* Signals wait while it polls; one that is there when the deadline is due may
\* come first.
TakesSignal ==
  /\ poller_pc = "select" /\ poll_rx # <<>>
  /\ next_deadline' = compute_next_poll_deadline(now, next_deadline, Head(poll_rx))
  /\ poll_rx' = Tail(poll_rx)
  /\ UNCHANGED <<now, ws, poller_pc, websocket_connection_status,
                 last_log, poll_end, unpolled, tries>>

poller == PollBegins \/ PollEnds \/ TakesSignal

-----------------------------------------------------------------------------
\* A timer is due, or a signal or the room for one there, for a task that waits for it.
Due ==
  \/ ws.pc = "sleep" /\ now >= ws.wake
  \/ ws.pc = "expedite" /\ HasRoom
  \/ poller_pc = "select" /\ (now >= next_deadline \/ poll_rx # <<>>)

ClockTicks ==
  /\ ~Due /\ now < MaxTime
  /\ now' = now + 1

Tick ==
  /\ ClockTicks
  /\ UNCHANGED <<ws, pollerVars, websocket_connection_status, last_log, poll_end, unpolled, tries>>

ClockNext == listen_internal \/ poller \/ Tick

ClockSpec == ClockInit /\ [][ClockNext]_clockVars

-----------------------------------------------------------------------------
(* Properties *)

Listener ==
  [pc : {"connect", "expedite", "subscribe", "stream", "send", "sleep", "gave_up", "returned"},
   attempt : Nat, idx : Nat, wake : Nat]

ClockTypeOK ==
  /\ now \in Nat
  /\ ws \in Listener
  /\ poll_rx \in Seq({"Reset", "Expedite"}) /\ Len(poll_rx) <= CHANNEL_CAPACITY
  /\ next_deadline \in Nat /\ poller_pc \in {"select", "polling"}
  /\ websocket_connection_status \in 0..1
  /\ last_log \in Nat /\ poll_end \in Nat /\ unpolled \subseteq Nat /\ tries \in Nat

\* Only logs put a poll off: whatever the connection does, a poll begins an
\* interval after the last log or poll at the latest.
PollComes == poller_pc = "select" => now <= LaterOf(last_log, poll_end) + POLL_INTERVAL

\* What was missed while the connection was down is looked for soon: a poll
\* begins within the reconnection delay of a connection, or of the end of a poll
\* that was going on then, unless a log arrives first.
CatchUpAfterReconnect ==
  poller_pc = "select" => \A t \in unpolled : now <= LaterOf(t, poll_end) + RECONNECT_POLL_DELAY

\* However connecting, subscribing and the stream fail by turns, attempts are on
\* average no closer than the shortest delay, and no sleep is longer than the
\* longest one.
RetryPaced ==
  /\ ws.attempt * shortest_delay <= now + shortest_delay
  /\ ws.pc = "sleep" => ws.wake <= now + longest_delay

\* The gauge shows a connection while there is one and not after, unless the
\* listener has returned: it then leaves the gauge behind as it was.
GaugeShowsConnection ==
  ws.pc # "returned" =>
    (websocket_connection_status = 1 <=>
       ws.pc \in {"expedite", "subscribe", "stream", "send"})

\* What max_retries is documented to be, a maximum of reconnection attempts: after
\* the first attempt, or the loss of a stream, there are no more than that in
\* which the listener does not get its logs.
MaxRetriesHonoured == max_retries > 0 => tries <= max_retries + 1
=============================================================================
