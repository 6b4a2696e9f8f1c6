------------------------------ MODULE GsSession ------------------------------
(***************************************************************************)
(* What the ground station takes for a flight session.  Three threads:     *)
(*   - ConnectionMonitor (connection_monitor.py) watches the tunnel's rx   *)
(*     records and polls the drone over HTTP, and publishes the edges;     *)
(*   - EventBus (events.py) caches the published state under its lock and  *)
(*     then calls the subscribers, on the monitor's thread, outside it;    *)
(*   - DynamicLinkController (dynlink/controller.py) marshals an edge onto *)
(*     its own event loop, where the policy is re-keyed and reset and the  *)
(*     flight log (dynlink/flightlog.py) begins a file.  The operator      *)
(*     starts, stops and reconfigures it while edges are on their way.     *)
(*                                                                         *)
(* Durations are abstract: the tunnel is fresh or stale, a trip is         *)
(* suspect and later confirmed.  The drone is 0 when it is off.            *)
(***************************************************************************)
EXTENDS Naturals, Sequences, FiniteSets

CONSTANTS
    Drones,         \* adapter ids of the drones that may be switched on
    FailCount,      \* http_fail_count
    MaxChanges,     \* bound: the drone switched on, off or exchanged
    MaxGaps,        \* bound: stale tunnel while the drone is on
    MaxLosses,      \* bound: failed HTTP calls while the drone is on
    MaxStarts       \* bound: starts of the controller

ASSUME SessionAssumption ==
    /\ 0 \notin Drones
    /\ FailCount \in Nat \ {0}

Widths == {10, 20}          \* linkWidth
Unbound == <<0, 0>>         \* UNBOUND_KEY of the learned prior

VARIABLES
    drone, fresh,           \* the drone switched on, _tunnel_fresh()
    changes, gaps, losses,  \* counters of the bounds
    mon, ev, fail, bad,     \* _state; where _evaluate is; _fail; _bad_since
    bus,                    \* EventBus._state["drone"], with its number
    ctl, queue, cal,        \* controller loop, call_soon queue, _pending_cal
    pol,                    \* _policy: learned-prior key, session it was reset for
    flight,                 \* FlightLog: file open, sessions whose records it holds
    width, starts           \* _snapshot["linkWidth"]; counter of the bound

monVars == <<mon, ev, fail, bad, bus>>
ctlVars == <<ctl, queue, cal, pol, flight, width, starts>>
envVars == <<drone, fresh, changes, gaps, losses>>
vars == <<envVars, monVars, ctlVars>>

NoPolicy == [up |-> FALSE, key |-> Unbound, n |-> 0]
NoFlight == [open |-> FALSE, of |-> {}]

Init ==
    /\ drone = 0 /\ fresh = FALSE
    /\ changes = 0 /\ gaps = 0 /\ losses = 0
    /\ mon = "disconnected" /\ ev = "idle" /\ fail = 0 /\ bad = "no"
    /\ bus = [up |-> FALSE, drone |-> 0, n |-> 0]
    /\ ctl = "off" /\ queue = <<>> /\ cal = <<0, 0>>
    /\ pol = NoPolicy /\ flight = NoFlight
    /\ width = 20 /\ starts = 0

(***************************************************************************)
(* The link, the drone, time.                                              *)
(***************************************************************************)
SwitchDrone ==
    /\ changes < MaxChanges
    /\ drone' \in (Drones \cup {0}) \ {drone}
    /\ changes' = changes + 1
    /\ UNCHANGED <<fresh, gaps, losses, monVars, ctlVars>>

\* _on_stats_event: a tunnel rx record.
TunnelRx ==
    /\ drone # 0 /\ ~fresh
    /\ fresh' = TRUE
    /\ UNCHANGED <<drone, changes, gaps, losses, monVars, ctlVars>>

\* tunnel_stale_s pass without one.
TunnelStale ==
    /\ drone = 0 /\ fresh
    /\ fresh' = FALSE
    /\ UNCHANGED <<drone, changes, gaps, losses, monVars, ctlVars>>

TunnelGap ==
    /\ drone # 0 /\ fresh /\ gaps < MaxGaps
    /\ fresh' = FALSE
    /\ gaps' = gaps + 1
    /\ UNCHANGED <<drone, changes, losses, monVars, ctlVars>>

GraceElapses ==
    /\ bad = "suspect"
    /\ bad' = "confirmed"
    /\ UNCHANGED <<envVars, mon, ev, fail, bus, ctlVars>>

\* An HTTP call of the monitor returns: the drone answers, or the call fails.
HttpAnswers(ok) ==
    \/ ok /\ drone # 0 /\ UNCHANGED losses
    \/ ~ok /\ drone = 0 /\ UNCHANGED losses
    \/ ~ok /\ drone # 0 /\ losses < MaxLosses /\ losses' = losses + 1

(***************************************************************************)
(* ConnectionMonitor._evaluate, one step per stretch between awaits.       *)
(***************************************************************************)
\* Faulty variant of Evaluate: armed is not retried.
EvaluateArmedOnce ==
    /\ ev = "idle"
    /\ \/ /\ mon = "disconnected" /\ fresh
          /\ mon' = "armed" /\ ev' = "status"
       \/ /\ mon = "connected"
          /\ mon' = "connected" /\ ev' \in {"health", "judge"}
    /\ UNCHANGED <<envVars, fail, bad, bus, ctlVars>>

\* Disconnected with a fresh tunnel, or armed: ask for the status.  Connected:
\* a heartbeat when http_poll_s have passed, else straight to the judgement.
Evaluate ==
    /\ ev = "idle"
    /\ \/ /\ mon = "disconnected" /\ fresh
          /\ mon' = "armed" /\ ev' = "status"
       \/ /\ mon = "armed"
          /\ mon' = "armed" /\ ev' = "status"
       \/ /\ mon = "connected"
          /\ mon' = "connected" /\ ev' \in {"health", "judge"}
    /\ UNCHANGED <<envVars, fail, bad, bus, ctlVars>>

\* _enter_connected, publish() up to the release of the bus lock.
EnterConnected ==
    /\ mon' = "connected" /\ fail' = 0 /\ bad' = "no"
    /\ bus' = [up |-> TRUE, drone |-> drone, n |-> bus.n + 1]
    /\ ev' = "dispatch"

EnterDisconnected ==
    /\ mon' = "disconnected" /\ fail' = 0 /\ bad' = "no"
    /\ bus' = [up |-> FALSE, drone |-> 0, n |-> bus.n]
    /\ ev' = "dispatch"

StatusReturns ==
    /\ ev = "status"
    /\ \E ok \in BOOLEAN :
          /\ HttpAnswers(ok)
          /\ IF ok
             THEN EnterConnected
             ELSE /\ mon' = IF fresh THEN "armed" ELSE "disconnected"
                  /\ ev' = "idle"
                  /\ UNCHANGED <<fail, bad, bus>>
    /\ UNCHANGED <<drone, fresh, changes, gaps, ctlVars>>

HealthReturns ==
    /\ ev = "health"
    /\ \E ok \in BOOLEAN :
          /\ HttpAnswers(ok)
          /\ fail' = IF ok THEN 0 ELSE IF fail < FailCount THEN fail + 1 ELSE fail
    /\ ev' = "judge"
    /\ UNCHANGED <<drone, fresh, changes, gaps, mon, bad, bus, ctlVars>>

\* Faulty variant of Judge: no confirmation, the first bad look disconnects.
JudgeAtOnce ==
    /\ ev = "judge"
    /\ IF fresh /\ fail = 0
       THEN /\ bad' = "no" /\ ev' = "idle" /\ UNCHANGED <<mon, fail, bus>>
       ELSE EnterDisconnected
    /\ UNCHANGED <<envVars, ctlVars>>

\* The end of _evaluate: the freshness is read again after the await.
Judge ==
    /\ ev = "judge"
    /\ IF fresh /\ fail < FailCount
       THEN /\ bad' = "no" /\ ev' = "idle" /\ UNCHANGED <<mon, fail, bus>>
       ELSE \/ /\ bad = "no"
               /\ bad' = "suspect" /\ ev' = "idle" /\ UNCHANGED <<mon, fail, bus>>
            \/ /\ bad = "suspect"
               /\ ev' = "idle" /\ UNCHANGED <<mon, fail, bad, bus>>
            \/ /\ bad = "confirmed"
               /\ EnterDisconnected
    /\ UNCHANGED <<envVars, ctlVars>>

\* The rest of publish(): _on_drone_connected / _on_drone_disconnected, on the
\* monitor's thread, marshal onto the controller's loop if there is one.
Dispatch ==
    /\ ev = "dispatch"
    /\ ev' = "idle"
    /\ cal' = IF bus.up THEN <<bus.drone, bus.n>> ELSE cal
    /\ queue' = IF ctl = "off" THEN queue
                ELSE Append(queue, IF bus.up THEN "connected" ELSE "disconnected")
    /\ UNCHANGED <<envVars, mon, fail, bad, bus, ctl, pol, flight, width, starts>>

(***************************************************************************)
(* DynamicLinkController.                                                  *)
(***************************************************************************)
\* start(), or the second half of set_config(): the thread sets _loop.
StartLoop ==
    /\ ctl = "off" /\ starts < MaxStarts
    /\ ctl' = "boot"
    /\ starts' = starts + 1
    /\ width' \in Widths
    /\ UNCHANGED <<envVars, monVars, queue, cal, pol, flight>>

\* FlightLog._open: a file with the next free number, or an OSError.
Opened == {NoFlight, [open |-> TRUE, of |-> {}]}

\* _run up to the await of the tap endpoint: policy and flight log are built.
BuildPolicy ==
    /\ ctl = "boot"
    /\ ctl' = "built"
    /\ pol' = [up |-> TRUE, key |-> Unbound, n |-> 0]
    /\ flight' \in Opened
    /\ UNCHANGED <<envVars, monVars, queue, cal, width, starts>>

\* Faulty variant of BeginFlight: a file that holds records is kept.
BeginFlightKeeps(f) == IF f.open THEN {f} ELSE Opened

\* FlightLog.begin_flight, with roll().
BeginFlight(f) == IF f.open /\ f.of = {} THEN {f} ELSE Opened

\* _connected_inloop: bind the calibration, reset the policy, begin a flight.
ConnectedInloop(radio) ==
    /\ pol' = [pol EXCEPT !.key = <<radio[1], width>>, !.n = radio[2]]
    /\ flight' \in BeginFlight(flight)

\* Faulty variant of SeedAndRun: a connection made before the loop is missed.
RunUnseeded ==
    /\ ctl = "built"
    /\ ctl' = "run"
    /\ UNCHANGED <<envVars, monVars, queue, cal, pol, flight, width, starts>>

\* _run after the await: _stop_event, started, _seed_from_cached_connection.
SeedAndRun ==
    /\ ctl = "built"
    /\ ctl' = "run"
    /\ IF bus.up
       THEN /\ cal' = <<bus.drone, bus.n>>
            /\ ConnectedInloop(<<bus.drone, bus.n>>)
       ELSE UNCHANGED <<cal, pol, flight>>
    /\ UNCHANGED <<envVars, monVars, queue, width, starts>>

\* A marshalled edge runs on the loop; without a policy it returns.
RunCallback ==
    /\ ctl # "off" /\ queue # <<>>
    /\ queue' = Tail(queue)
    /\ IF Head(queue) = "connected" /\ pol.up
       THEN ConnectedInloop(cal)
       ELSE UNCHANGED <<pol, flight>>
    /\ UNCHANGED <<envVars, monVars, ctl, cal, width, starts>>

\* A tick writes its record; a closed log is reopened now and then.
Record ==
    /\ ctl \in {"built", "run", "stopping"}
    /\ \E f \in IF flight.open THEN {flight} ELSE Opened :
          flight' = IF f.open THEN [f EXCEPT !.of = @ \cup {pol.n}] ELSE f
    /\ UNCHANGED <<envVars, monVars, ctl, queue, cal, pol, width, starts>>

\* stop(), or the first half of set_config(): _stop_event.set on the loop.
StopLoop ==
    /\ ctl = "run"
    /\ ctl' = "stopping"
    /\ UNCHANGED <<envVars, monVars, queue, cal, pol, flight, width, starts>>

\* The finally of _run and of _thread_main: what was marshalled is dropped.
LoopEnds ==
    /\ ctl = "stopping"
    /\ ctl' = "off"
    /\ queue' = <<>>
    /\ pol' = NoPolicy
    /\ flight' = NoFlight
    /\ UNCHANGED <<envVars, monVars, cal, width, starts>>

\* _run raises before its try: the loop ends with _policy left behind.
LoopCrashes ==
    /\ ctl \in {"boot", "built"}
    /\ ctl' = "off"
    /\ queue' = <<>>
    /\ UNCHANGED <<envVars, monVars, cal, pol, flight, width, starts>>

Monitor == Evaluate \/ StatusReturns \/ HealthReturns \/ Judge \/ Dispatch

Next ==
    \/ SwitchDrone \/ TunnelRx \/ TunnelStale \/ TunnelGap \/ GraceElapses
    \/ Monitor
    \/ StartLoop \/ BuildPolicy \/ SeedAndRun \/ RunCallback \/ Record
    \/ StopLoop \/ LoopEnds \/ LoopCrashes

\* The monitor's loop always runs, time passes, a switched-on drone is heard.
Spec == Init /\ [][Next]_vars
        /\ WF_vars(Monitor)
        /\ WF_vars(TunnelRx) /\ WF_vars(TunnelStale) /\ WF_vars(GraceElapses)

-----------------------------------------------------------------------------
(***************************************************************************)
(* Properties.                                                             *)
(***************************************************************************)
\* Whenever the controller's loop has worked off what was marshalled, its
\* policy was reset for the session the bus announces and learns under that
\* drone's adapter and the configured width (_seed_from_cached_connection and
\* _connected_inloop), however start, stop and set_config interleaved with
\* the edge.
PolicyFollowsSession ==
    ctl = "run" /\ queue = <<>> /\ ev # "dispatch" /\ bus.up =>
        pol.n = bus.n /\ pol.key = <<bus.drone, width>>

\* No flight file holds records of two sessions (begin_flight's docstring:
\* "Ensure a fresh file is open for a new flight").
OneSessionPerFlight == Cardinality(flight.of) <= 1

\* Confirm-before-publish: a session ends only because the drone was off, the
\* tunnel was stale or FailCount polls failed; so sessions are no more than
\* such events, and a single dropped poll never opens a new one (the comment
\* in _evaluate).
NoSpuriousSession ==
    bus.n <= changes + gaps + (losses \div FailCount)

\* The monitor ends with the truth: a drone that stays on is announced, one
\* that stays off is not.
MonitorConverges == <>[](bus.up <=> drone # 0)

=============================================================================
