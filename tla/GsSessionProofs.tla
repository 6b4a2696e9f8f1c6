--------------------------- MODULE GsSessionProofs ---------------------------
(***************************************************************************)
(* One policy, one flight file and one cause per session, for any number   *)
(* of drones, starts, gaps and lost polls.                                 *)
(***************************************************************************)
EXTENDS GsSession, Integers, FiniteSetTheorems, TLAPS

Ids == Drones \cup {0}
Edges == {"connected", "disconnected"}

MonitorType ==
    /\ drone \in Ids /\ fresh \in BOOLEAN
    /\ changes \in Nat /\ gaps \in Nat /\ losses \in Nat
    /\ mon \in {"disconnected", "armed", "connected"}
    /\ ev \in {"idle", "status", "health", "judge", "dispatch"}
    /\ fail \in 0 .. FailCount
    /\ bus \in [up: BOOLEAN, drone: Ids, n: Nat]
    /\ ev = "status" => mon = "armed"
    /\ ev \in {"health", "judge"} => mon = "connected"

ControllerType ==
    /\ queue \in Seq(Edges)
    /\ cal \in Ids \X Nat
    /\ pol \in [up: BOOLEAN, key: Ids \X (Widths \cup {0}), n: Nat]
    /\ flight \in [open: BOOLEAN, of: SUBSET Nat]
    /\ width \in Widths

\* What the link, the drone and time do is not seen by the controller; of the
\* monitor's steps only Dispatch is.
LEMMA ControllerApart ==
  ASSUME \/ UNCHANGED vars
         \/ SwitchDrone \/ TunnelRx \/ TunnelStale \/ TunnelGap \/ GraceElapses
         \/ Evaluate \/ StatusReturns \/ HealthReturns \/ Judge
  PROVE  UNCHANGED ctlVars
  BY Zenon DEF vars, SwitchDrone, TunnelRx, TunnelStale, TunnelGap, GraceElapses, Evaluate,
         StatusReturns, HealthReturns, Judge

\* And what the controller does is not seen by the monitor.
LEMMA MonitorApart ==
  ASSUME \/ UNCHANGED vars
         \/ StartLoop \/ BuildPolicy \/ SeedAndRun \/ RunCallback \/ Record
         \/ StopLoop \/ LoopEnds \/ LoopCrashes
  PROVE  UNCHANGED <<envVars, monVars>>
  BY Zenon DEF vars, StartLoop, BuildPolicy, SeedAndRun, RunCallback, Record, StopLoop,
         LoopEnds, LoopCrashes

\* The count of polls that failed stays a natural number.
LEMMA HttpType ==
  ASSUME NEW ok \in BOOLEAN, HttpAnswers(ok), losses \in Nat
  PROVE  losses' \in Nat
  BY DEF HttpAnswers

\* What the monitor publishes is an event of the bus.
LEMMA BusType ==
  ASSUME NEW d \in Ids, NEW n \in Nat
  PROVE  /\ [up |-> TRUE, drone |-> d, n |-> n] \in [up: BOOLEAN, drone: Ids, n: Nat]
         /\ [up |-> FALSE, drone |-> d, n |-> n] \in [up: BOOLEAN, drone: Ids, n: Nat]
  OBVIOUS

\* An edge of the monitor leaves a monitor state and a cached event.
LEMMA EntersType ==
  ASSUME MonitorType, EnterConnected \/ EnterDisconnected
  PROVE  /\ mon' \in {"disconnected", "armed", "connected"}
         /\ ev' = "dispatch" /\ fail' = 0
         /\ bus' \in [up: BOOLEAN, drone: Ids, n: Nat]
  <1>1. bus.n \in Nat /\ bus.n + 1 \in Nat /\ drone \in Ids /\ 0 \in Ids
    BY DEF MonitorType, Ids
  <1>2. bus' \in [up: BOOLEAN, drone: Ids, n: Nat]
    <2>1. CASE EnterConnected
      BY <1>1, <2>1, BusType DEF EnterConnected
    <2>2. CASE EnterDisconnected
      BY <1>1, <2>2, BusType DEF EnterDisconnected
    <2> QED
      BY <2>1, <2>2
  <1> QED
    BY <1>2, Zenon DEF EnterConnected, EnterDisconnected

\* No step of the monitor, the tunnel or the drone breaks the monitor's types.
LEMMA MonitorTypeStep ==
  ASSUME MonitorType, [Next]_vars
  PROVE  MonitorType'
  <1> USE SessionAssumption DEF MonitorType
  <1>1. CASE UNCHANGED <<envVars, monVars>>
    BY <1>1 DEF envVars, monVars
  <1>2. CASE SwitchDrone \/ TunnelRx \/ TunnelStale \/ TunnelGap
    <2>1. changes' \in Nat /\ gaps' \in Nat /\ losses' \in Nat
      BY <1>2 DEF SwitchDrone, TunnelRx, TunnelStale, TunnelGap
    <2>2. drone' \in Ids /\ fresh' \in BOOLEAN /\ UNCHANGED monVars
      BY <1>2, Zenon DEF SwitchDrone, TunnelRx, TunnelStale, TunnelGap, Ids
    <2> QED
      BY <2>1, <2>2, Zenon DEF monVars
  <1>3. CASE GraceElapses \/ Evaluate \/ Dispatch
    BY <1>3 DEF GraceElapses, Evaluate, Dispatch, envVars
  <1>4. CASE StatusReturns
    <2>1. PICK ok \in BOOLEAN :
             /\ HttpAnswers(ok)
             /\ \/ EnterConnected
                \/ /\ mon' = (IF fresh THEN "armed" ELSE "disconnected") /\ ev' = "idle"
                   /\ UNCHANGED <<fail, bad, bus>>
      BY <1>4 DEF StatusReturns
    <2>2. UNCHANGED <<drone, fresh, changes, gaps>>
      BY <1>4 DEF StatusReturns
    <2>3. losses' \in Nat
      BY <2>1, HttpType
    <2>4. CASE EnterConnected
      BY <2>2, <2>3, <2>4, EntersType
    <2>5. CASE /\ mon' = (IF fresh THEN "armed" ELSE "disconnected") /\ ev' = "idle"
               /\ UNCHANGED <<fail, bad, bus>>
      BY <2>2, <2>3, <2>5
    <2> QED
      BY <2>1, <2>4, <2>5
  <1>5. CASE HealthReturns
    <2>1. losses' \in Nat
      BY <1>5, HttpType DEF HealthReturns
    <2>2. fail' \in 0 .. FailCount
      BY <1>5 DEF HealthReturns
    <2> QED
      BY <1>5, <2>1, <2>2 DEF HealthReturns
  <1>6. CASE Judge
    <2>1. \/ EnterDisconnected
          \/ ev' = "idle" /\ UNCHANGED <<mon, fail, bus>>
      BY <1>6, Zenon DEF Judge
    <2>2. UNCHANGED envVars
      BY <1>6 DEF Judge
    <2>3. CASE EnterDisconnected
      BY <2>2, <2>3, EntersType DEF envVars
    <2>4. CASE ev' = "idle" /\ UNCHANGED <<mon, fail, bus>>
      BY <2>2, <2>4 DEF envVars
    <2> QED
      BY <2>1, <2>3, <2>4
  <1> QED
    BY <1>1, <1>2, <1>3, <1>4, <1>5, <1>6, MonitorApart DEF Next, Monitor

\* A monitor that was just built has its types.
LEMMA MonitorTypeInit == Init => MonitorType
  <1>1. 0 \in Ids /\ 0 \in 0 .. FailCount /\ 0 \in Nat
    BY SessionAssumption DEF Ids
  <1>2. ASSUME Init PROVE bus \in [up: BOOLEAN, drone: Ids, n: Nat]
    BY <1>1, <1>2, BusType DEF Init
  <1> QED
    BY <1>1, <1>2, Zenon DEF Init, MonitorType

(***************************************************************************)
(* The controller's state.                                                 *)
(***************************************************************************)
LEMMA OpenedType == Opened \subseteq [open: BOOLEAN, of: {{}}]
  BY DEF Opened, NoFlight

\* Binding to a radio yields a policy of its type, and a file without records
\* or none.
LEMMA ConnectedType ==
  ASSUME ControllerType, NEW radio \in Ids \X Nat, ConnectedInloop(radio)
  PROVE  /\ pol' \in [up: BOOLEAN, key: Ids \X (Widths \cup {0}), n: Nat]
         /\ pol'.up = pol.up /\ pol'.n = radio[2] /\ pol'.key = <<radio[1], width>>
         /\ flight' \in [open: BOOLEAN, of: SUBSET Nat] /\ flight'.of = {}
  <1>1. radio[1] \in Ids /\ radio[2] \in Nat
    OBVIOUS
  <1>2. pol' = [pol EXCEPT !.key = <<radio[1], width>>, !.n = radio[2]]
    BY DEF ConnectedInloop
  <1>3. <<radio[1], width>> \in Ids \X (Widths \cup {0})
    BY <1>1 DEF ControllerType
  <1>4. flight' \in [open: BOOLEAN, of: SUBSET Nat] /\ flight'.of = {}
    <2>1. flight' \in IF flight.open /\ flight.of = {} THEN {flight} ELSE Opened
      BY DEF ConnectedInloop, BeginFlight
    <2>2. CASE flight' \in Opened
      BY <2>2, OpenedType
    <2>3. CASE flight' = flight /\ flight.of = {}
      BY <2>3 DEF ControllerType
    <2> QED
      BY <2>1, <2>2, <2>3
  <1> QED
    BY <1>1, <1>2, <1>3, <1>4, Zenon DEF ControllerType

\* No step of the controller's loop or of its callbacks breaks its types.
LEMMA ControllerTypeStep ==
  ASSUME MonitorType, ControllerType, [Next]_vars
  PROVE  ControllerType'
  <1>1. CASE UNCHANGED ctlVars
    BY <1>1 DEF ControllerType, ctlVars
  <1>2. <<bus.drone, bus.n>> \in Ids \X Nat
    BY DEF MonitorType
  <1>3. CASE Dispatch
    <2>1. cal' \in Ids \X Nat
      BY <1>2, <1>3 DEF Dispatch, ControllerType
    <2>2. queue' \in Seq(Edges)
      BY <1>3 DEF Dispatch, ControllerType, Edges
    <2> QED
      BY <1>3, <2>1, <2>2 DEF Dispatch, ControllerType
  <1>4. CASE StartLoop \/ StopLoop \/ LoopCrashes
    <2>1. UNCHANGED <<cal, pol, flight>> /\ (width' = width \/ width' \in Widths)
      BY <1>4, Zenon DEF StartLoop, StopLoop, LoopCrashes
    <2>2. queue' = queue \/ queue' = <<>>
      BY <1>4, Zenon DEF StartLoop, StopLoop, LoopCrashes
    <2>3. queue' \in Seq(Edges)
      <3>1. <<>> \in Seq(Edges) /\ queue \in Seq(Edges)
        BY DEF ControllerType
      <3> QED
        BY <2>2, <3>1, Zenon
    <2> QED
      BY <2>1, <2>3 DEF ControllerType
  <1>5. CASE BuildPolicy
    <2>1. Unbound \in Ids \X (Widths \cup {0})
      BY DEF Unbound, Ids
    <2>2. pol' \in [up: BOOLEAN, key: Ids \X (Widths \cup {0}), n: Nat]
      BY <1>5, <2>1 DEF BuildPolicy
    <2>3. flight' \in [open: BOOLEAN, of: SUBSET Nat]
      BY <1>5, OpenedType DEF BuildPolicy
    <2> QED
      BY <1>5, <2>2, <2>3 DEF BuildPolicy, ControllerType
  <1>6. CASE SeedAndRun
    BY <1>2, <1>6, ConnectedType DEF SeedAndRun, ControllerType
  <1>7. CASE RunCallback
    BY <1>7, ConnectedType DEF RunCallback, ControllerType
  <1>8. CASE Record
    <2>1. PICK f \in IF flight.open THEN {flight} ELSE Opened :
             flight' = IF f.open THEN [f EXCEPT !.of = @ \cup {pol.n}] ELSE f
      BY <1>8, Zenon DEF Record
    <2>2. f \in [open: BOOLEAN, of: SUBSET Nat] /\ pol.n \in Nat
      BY <2>1, OpenedType DEF ControllerType
    <2>3. flight' \in [open: BOOLEAN, of: SUBSET Nat]
      BY <2>1, <2>2
    <2> QED
      BY <1>8, <2>3 DEF Record, ControllerType
  <1>9. CASE LoopEnds
    BY <1>9 DEF LoopEnds, NoPolicy, NoFlight, Unbound, Ids, ControllerType
  <1> QED
    BY <1>1, <1>3, <1>4, <1>5, <1>6, <1>7, <1>8, <1>9, ControllerApart DEF Next, Monitor

\* A controller that was not started has its types.
LEMMA ControllerTypeInit == Init => ControllerType
  BY DEF Init, ControllerType, NoPolicy, NoFlight, Unbound, Ids, Widths

\* The types of both hold throughout.
LEMMA SessionTypes == Spec => [](MonitorType /\ ControllerType)
  <1>1. Init => MonitorType /\ ControllerType
    BY MonitorTypeInit, ControllerTypeInit
  <1>2. MonitorType /\ ControllerType /\ [Next]_vars => (MonitorType /\ ControllerType)'
    BY MonitorTypeStep, ControllerTypeStep
  <1> QED
    BY <1>1, <1>2, PTL DEF Spec

(***************************************************************************)
(* A flight file holds records of one session: the one the policy was      *)
(* reset for.  A new session begins an empty file, or none.                *)
(***************************************************************************)
FlightInv == flight.of \subseteq {pol.n}

\* No start, stop, crash, callback or record breaks the flight file's invariant.
LEMMA FlightStep ==
  ASSUME MonitorType, ControllerType, FlightInv, [Next]_vars
  PROVE  FlightInv'
  <1>1. CASE UNCHANGED <<pol, flight>>
    BY <1>1 DEF FlightInv
  <1>2. CASE flight'.of = {}
    BY <1>2 DEF FlightInv
  <1>3. CASE Record
    <2>1. PICK f \in IF flight.open THEN {flight} ELSE Opened :
             flight' = IF f.open THEN [f EXCEPT !.of = @ \cup {pol.n}] ELSE f
      BY <1>3, Zenon DEF Record
    <2>2. f \in [open: BOOLEAN, of: SUBSET Nat] /\ f.of \subseteq {pol.n}
      BY <2>1, OpenedType DEF ControllerType, FlightInv
    <2>3. flight'.of \subseteq f.of \cup {pol.n}
      BY <2>1, <2>2
    <2>4. pol' = pol
      BY <1>3 DEF Record
    <2> QED
      BY <2>2, <2>3, <2>4 DEF FlightInv
  <1>4. ASSUME BuildPolicy \/ LoopEnds PROVE flight'.of = {}
    BY <1>4, OpenedType DEF BuildPolicy, LoopEnds, NoFlight
  <1>5. ASSUME SeedAndRun PROVE flight'.of = {} \/ UNCHANGED <<pol, flight>>
    <2>1. <<bus.drone, bus.n>> \in Ids \X Nat
      BY DEF MonitorType
    <2> QED
      BY <1>5, <2>1, ConnectedType DEF SeedAndRun
  <1>6. ASSUME RunCallback PROVE flight'.of = {} \/ UNCHANGED <<pol, flight>>
    <2>1. cal \in Ids \X Nat
      BY DEF ControllerType
    <2> QED
      BY <1>6, <2>1, ConnectedType DEF RunCallback
  <1>7. ASSUME Dispatch \/ StartLoop \/ StopLoop \/ LoopCrashes PROVE UNCHANGED <<pol, flight>>
    BY <1>7, Zenon DEF Dispatch, StartLoop, StopLoop, LoopCrashes
  <1>8. ASSUME UNCHANGED ctlVars PROVE UNCHANGED <<pol, flight>>
    BY <1>8, Zenon DEF ctlVars
  <1> QED
    BY <1>1, <1>2, <1>3, <1>4, <1>5, <1>6, <1>7, <1>8, ControllerApart DEF Next, Monitor

\* FlightLog.begin_flight with roll(): whatever the order of edges, starts,
\* stops and ticks, no flight file holds records of two sessions.
THEOREM OneFlightOneSession == Spec => []OneSessionPerFlight
  <1>1. Init => FlightInv
    BY DEF Init, FlightInv, NoFlight
  <1>2. MonitorType /\ ControllerType /\ FlightInv /\ [Next]_vars => FlightInv'
    BY FlightStep
  <1>3. FlightInv => OneSessionPerFlight
    <2> SUFFICES ASSUME FlightInv PROVE Cardinality(flight.of) <= 1
      BY DEF OneSessionPerFlight
    <2>1. flight.of = {} \/ flight.of = {pol.n}
      BY DEF FlightInv
    <2>2. Cardinality(flight.of) \in {0, 1}
      BY <2>1, FS_EmptySet, FS_Singleton, Zenon
    <2> QED
      BY <2>2
  <1> QED
    BY <1>1, <1>2, <1>3, SessionTypes, PTL DEF Spec

(***************************************************************************)
(* The policy follows the session.                                         *)
(*                                                                         *)
(* _pending_cal is the announced session as soon as the edge has been      *)
(* dispatched.  A running loop has then either been reset for it, or the   *)
(* last callback marshalled onto it will do that.                          *)
(***************************************************************************)
Bound == pol.n = bus.n /\ pol.key = <<bus.drone, width>>

WillBind == queue # <<>> /\ queue[Len(queue)] = "connected"

FollowInv ==
    /\ ctl \in {"built", "run", "stopping"} => pol.up
    /\ bus.up /\ ev # "dispatch" => cal = <<bus.drone, bus.n>>
    /\ ctl = "run" /\ bus.up /\ ev # "dispatch" => Bound \/ WillBind

\* Of the monitor's steps, those that announce nothing leave it as it is; the
\* others stop short of the subscribers.
LEMMA MonitorAnnounces ==
  ASSUME \/ UNCHANGED vars
         \/ SwitchDrone \/ TunnelRx \/ TunnelStale \/ TunnelGap \/ GraceElapses
         \/ Evaluate \/ StatusReturns \/ HealthReturns \/ Judge
  PROVE  \/ bus' = bus /\ (ev' = "dispatch" <=> ev = "dispatch")
         \/ ev' = "dispatch"
  <1>1. CASE UNCHANGED vars
    BY <1>1 DEF vars, monVars
  <1>2. CASE SwitchDrone \/ TunnelRx \/ TunnelStale \/ TunnelGap \/ GraceElapses
    BY <1>2, Zenon DEF SwitchDrone, TunnelRx, TunnelStale, TunnelGap, GraceElapses, monVars
  <1>3. CASE Evaluate \/ HealthReturns
    BY <1>3 DEF Evaluate, HealthReturns
  <1>4. CASE StatusReturns
    BY <1>4 DEF StatusReturns, EnterConnected
  <1>5. CASE Judge
    BY <1>5, Zenon DEF Judge, EnterDisconnected
  <1> QED
    BY <1>1, <1>2, <1>3, <1>4, <1>5

\* An edge that the bus dispatches is queued for a running loop.
LEMMA FollowDispatch ==
  ASSUME ControllerType, FollowInv, Dispatch
  PROVE  FollowInv'
  <1>1. UNCHANGED <<bus, ctl, pol, width>>
    BY Zenon DEF Dispatch
  <1>2. bus.up => cal' = <<bus.drone, bus.n>>
    BY Zenon DEF Dispatch
  <1>3. ctl = "run" /\ bus.up => queue' = Append(queue, "connected")
    BY Zenon DEF Dispatch
  <1>4. queue' = Append(queue, "connected") => WillBind'
    BY DEF ControllerType, WillBind
  <1> QED
    BY <1>1, <1>2, <1>3, <1>4, Zenon DEF FollowInv

\* What is left of a queue ends as the queue did.
LEMMA LastRemains ==
  ASSUME NEW q \in Seq(Edges), Len(q) > 1
  PROVE  Tail(q) # <<>> /\ Tail(q)[Len(Tail(q))] = q[Len(q)]
  <1>1. Len(q) \in Nat /\ Len(Tail(q)) = Len(q) - 1 /\ Tail(q) \in Seq(Edges)
    OBVIOUS
  <1>2. \A i \in 1 .. Len(q) - 1 : Tail(q)[i] = q[i + 1]
    OBVIOUS
  <1>3. Len(Tail(q)) \in 1 .. Len(q) - 1 /\ Len(Tail(q)) + 1 = Len(q)
    BY <1>1
  <1>4. Tail(q) # <<>>
    <2>1. Len(Tail(q)) # 0
      BY <1>1
    <2>2. Len(<<>>) = 0
      OBVIOUS
    <2> QED
      BY <2>1, <2>2, Zenon
  <1> QED
    BY <1>2, <1>3, <1>4

\* A callback that the loop runs resets the policy for its own edge.
LEMMA FollowCallback ==
  ASSUME ControllerType, FollowInv, RunCallback
  PROVE  FollowInv'
  <1>1. /\ queue # <<>> /\ queue' = Tail(queue)
        /\ UNCHANGED <<bus, ev, ctl, cal, width>>
    BY Zenon DEF RunCallback, monVars
  <1>2. \/ Head(queue) = "connected" /\ ConnectedInloop(cal)
        \/ ~ (Head(queue) = "connected" /\ pol.up) /\ pol' = pol
    BY Zenon DEF RunCallback
  <1>3. pol'.up = pol.up
    BY <1>2, ConnectedType DEF ControllerType
  <1>4. ASSUME ctl = "run", bus.up, ev # "dispatch"
        PROVE  Bound' \/ WillBind'
    <2>1. pol.up /\ cal = <<bus.drone, bus.n>> /\ (Bound \/ WillBind)
      BY <1>4, Zenon DEF FollowInv
    <2>2. CASE ConnectedInloop(cal)
      BY <1>1, <2>1, <2>2, ConnectedType, Zenon DEF ControllerType, Bound
    <2>3. CASE Head(queue) # "connected" /\ pol' = pol
      <3>1. CASE Bound
        BY <1>1, <2>3, <3>1 DEF Bound
      <3>2. CASE WillBind
        <4>1. Len(queue) > 1
          BY <1>1, <2>3, <3>2 DEF WillBind, ControllerType
        <4> QED
          BY <1>1, <3>2, <4>1, LastRemains, Zenon DEF WillBind, ControllerType
      <3> QED
        BY <2>1, <3>1, <3>2
    <2> QED
      BY <1>2, <2>1, <2>2, <2>3
  <1> QED
    BY <1>1, <1>3, <1>4, Zenon DEF FollowInv

\* No step of the monitor, the bus or the loop breaks FollowInv.
LEMMA FollowStep ==
  ASSUME MonitorType, ControllerType, FollowInv, [Next]_vars
  PROVE  FollowInv'
  <1>1. CASE UNCHANGED vars
    BY <1>1, Zenon DEF vars, monVars, ctlVars, FollowInv, Bound, WillBind
  <1>2. CASE \/ SwitchDrone \/ TunnelRx \/ TunnelStale \/ TunnelGap \/ GraceElapses
             \/ Evaluate \/ StatusReturns \/ HealthReturns \/ Judge
    <2>1. UNCHANGED ctlVars
      BY <1>2, ControllerApart
    <2>2. \/ bus' = bus /\ (ev' = "dispatch" <=> ev = "dispatch")
          \/ ev' = "dispatch"
      BY <1>2, MonitorAnnounces
    <2> QED
      BY <2>1, <2>2, Zenon DEF ctlVars, FollowInv, Bound, WillBind
  <1>3. CASE StartLoop \/ StopLoop \/ LoopEnds \/ LoopCrashes
    <2>1. /\ UNCHANGED <<bus, ev, cal>> /\ ctl' # "run"
          /\ ctl' = "stopping" => ctl = "run" /\ pol' = pol
          /\ ctl' # "built"
      BY <1>3, Zenon DEF StartLoop, StopLoop, LoopEnds, LoopCrashes, monVars
    <2> QED
      BY <2>1, Zenon DEF FollowInv
  <1>4. CASE BuildPolicy
    <2>1. UNCHANGED <<bus, ev, cal>> /\ ctl' = "built" /\ pol'.up
      BY <1>4 DEF BuildPolicy, monVars
    <2> QED
      BY <2>1, Zenon DEF FollowInv
  <1>5. CASE SeedAndRun
    <2>1. <<bus.drone, bus.n>> \in Ids \X Nat
      BY DEF MonitorType
    <2>2. ctl = "built" /\ UNCHANGED <<bus, ev, width>>
      BY <1>5, Zenon DEF SeedAndRun, monVars
    <2>3. CASE bus.up
      <3>1. cal' = <<bus.drone, bus.n>> /\ ConnectedInloop(<<bus.drone, bus.n>>)
        BY <1>5, <2>3, Zenon DEF SeedAndRun
      <3>2. Bound' /\ pol'.up = pol.up
        BY <2>1, <2>2, <3>1, ConnectedType DEF Bound
      <3> QED
        BY <2>2, <3>1, <3>2, Zenon DEF FollowInv
    <2>4. CASE ~ bus.up
      BY <1>5, <2>2, <2>4, Zenon DEF SeedAndRun, FollowInv
    <2> QED
      BY <2>3, <2>4
  <1>6. CASE Record
    BY <1>6, Zenon DEF Record, monVars, FollowInv, Bound, WillBind
  <1> QED
    BY <1>1, <1>2, <1>3, <1>4, <1>5, <1>6, FollowDispatch, FollowCallback, Zenon
       DEF Next, Monitor

\* _connected_inloop and _seed_from_cached_connection: once a running loop has
\* worked off its callbacks, its policy belongs to the announced session, under
\* that drone's adapter and the configured width.
THEOREM PolicyIsTheSessions == Spec => []PolicyFollowsSession
  <1>1. Init => FollowInv
    BY DEF Init, FollowInv
  <1>2. MonitorType /\ ControllerType /\ FollowInv /\ [Next]_vars => FollowInv'
    BY FollowStep
  <1>3. FollowInv => PolicyFollowsSession
    BY Zenon DEF FollowInv, PolicyFollowsSession, Bound, WillBind
  <1> QED
    BY <1>1, <1>2, <1>3, SessionTypes, PTL DEF Spec

(***************************************************************************)
(* Every session has a cause.                                              *)
(*                                                                         *)
(* An account in failed polls: a change of the drone and a gap of the      *)
(* tunnel are worth FailCount of them, a session costs FailCount, and Owed *)
(* is what the monitor's state still entitles it to spend without another  *)
(* event.  Armed with a stale tunnel it can open a session that ends at    *)
(* once, and then another: twice.                                          *)
(***************************************************************************)
Owed(m, d, f, k) ==
    CASE m = "connected" -> IF d = 0 THEN FailCount
                            ELSE k + (IF f THEN 0 ELSE FailCount)
      [] m = "armed" -> IF d = 0 \/ f THEN FailCount ELSE FailCount + FailCount
      [] m = "disconnected" -> IF d = 0 /\ ~ f THEN 0 ELSE FailCount

Balance(c, g, l, n) == FailCount * (c + g) + l - FailCount * n

Solvent == Owed(mon, drone, fresh, fail) <= Balance(changes, gaps, losses, bus.n)

\* What the events and a session are worth.
LEMMA Worth ==
  ASSUME MonitorType
  PROVE  /\ Balance(changes, gaps, losses, bus.n) \in Int
         /\ Balance(changes + 1, gaps, losses, bus.n)
               = Balance(changes, gaps, losses, bus.n) + FailCount
         /\ Balance(changes, gaps + 1, losses, bus.n)
               = Balance(changes, gaps, losses, bus.n) + FailCount
         /\ Balance(changes, gaps, losses + 1, bus.n)
               = Balance(changes, gaps, losses, bus.n) + 1
         /\ Balance(changes, gaps, losses, bus.n + 1)
               = Balance(changes, gaps, losses, bus.n) - FailCount
  <1>1. /\ FailCount \in Nat
        /\ changes \in Nat /\ gaps \in Nat /\ losses \in Nat /\ bus.n \in Nat
    BY SessionAssumption DEF MonitorType
  <1>2. ASSUME NEW x \in Nat
        PROVE  FailCount * x \in Nat /\ FailCount * (x + 1) = FailCount * x + FailCount
    BY <1>1
  <1> DEFINE n == bus.n
             e == changes + gaps
             events == FailCount * e
             sessions == FailCount * n
  <1>3. e \in Nat /\ (changes + 1) + gaps = e + 1 /\ changes + (gaps + 1) = e + 1 /\ n \in Nat
    BY <1>1
  <1> HIDE DEF e, n
  <1>4. /\ events \in Nat /\ FailCount * (e + 1) = events + FailCount
        /\ sessions \in Nat /\ FailCount * (n + 1) = sessions + FailCount
    BY <1>2, <1>3
  <1>5. /\ Balance(changes, gaps, losses, n) = events + losses - sessions
        /\ Balance(changes, gaps, losses + 1, n) = events + (losses + 1) - sessions
        /\ Balance(changes + 1, gaps, losses, n) = FailCount * (e + 1) + losses - sessions
        /\ Balance(changes, gaps + 1, losses, n) = FailCount * (e + 1) + losses - sessions
        /\ Balance(changes, gaps, losses, n + 1) = events + losses - FailCount * (n + 1)
    BY <1>3 DEF Balance, e
  <1> HIDE DEF events, sessions
  <1> QED
    BY <1>1, <1>4, <1>5 DEF n

\* Owed is at most what two causes are worth.
LEMMA OwedCases ==
  ASSUME NEW d, NEW f \in BOOLEAN, NEW k \in Nat
  PROVE  /\ d = 0 => Owed("connected", d, f, k) = FailCount
         /\ d # 0 /\ f => Owed("connected", d, f, k) = k
         /\ d # 0 /\ ~ f => Owed("connected", d, f, k) = k + FailCount
         /\ d = 0 \/ f => Owed("armed", d, f, k) = FailCount
         /\ d # 0 /\ ~ f => Owed("armed", d, f, k) = FailCount + FailCount
         /\ d = 0 /\ ~ f => Owed("disconnected", d, f, k) = 0
         /\ d # 0 \/ f => Owed("disconnected", d, f, k) = FailCount
  <1>1. FailCount \in Nat
    BY SessionAssumption
  <1> QED
    BY <1>1 DEF Owed

\* The link and the drone: a change and a gap pay for what they allow, a fresh
\* tunnel and a stale one of an absent drone allow nothing new.
LEMMA SolventLink ==
  ASSUME MonitorType, Solvent, SwitchDrone \/ TunnelRx \/ TunnelStale \/ TunnelGap
  PROVE  Solvent'
  <1> DEFINE w == Balance(changes, gaps, losses, bus.n)
  <1>1. /\ fail \in Nat /\ fail <= FailCount /\ FailCount \in Nat
        /\ mon \in {"disconnected", "armed", "connected"} /\ fresh \in BOOLEAN
    BY SessionAssumption DEF MonitorType
  <1>2. /\ w \in Int
        /\ Balance(changes + 1, gaps, losses, bus.n) = w + FailCount
        /\ Balance(changes, gaps + 1, losses, bus.n) = w + FailCount
    BY Worth, Zenon
  <1>3. UNCHANGED <<losses, mon, fail, bus>>
    BY Zenon DEF SwitchDrone, TunnelRx, TunnelStale, TunnelGap, monVars
  <1>4. Owed(mon, drone, fresh, fail) <= w
    BY DEF Solvent
  <1> HIDE DEF w
  <1>5. CASE SwitchDrone
    <2>1. /\ Owed(mon, drone', fresh, fail) <= w + FailCount
      BY <1>1, <1>2, <1>4, <1>5, OwedCases DEF SwitchDrone
    <2> QED
      BY <1>2, <1>3, <1>5, <2>1, Zenon DEF SwitchDrone, Solvent
  <1>6. CASE TunnelGap
    <2>1. drone # 0 /\ fresh /\ ~ fresh' /\ fresh' \in BOOLEAN /\ drone' = drone
      BY <1>6, Zenon DEF TunnelGap
    <2>2. Owed(mon, drone, fresh', fail) <= w + FailCount
      <3>1. /\ Owed("connected", drone, fresh, fail) = fail
            /\ Owed("armed", drone, fresh, fail) = FailCount
            /\ Owed("disconnected", drone, fresh, fail) = FailCount
        BY <1>1, <2>1 DEF Owed
      <3>2. /\ Owed("connected", drone, fresh', fail) = fail + FailCount
            /\ Owed("armed", drone, fresh', fail) = FailCount + FailCount
            /\ Owed("disconnected", drone, fresh', fail) = FailCount
        BY <1>1, <2>1 DEF Owed
      <3> QED
        BY <1>1, <1>2, <1>4, <3>1, <3>2
    <2> QED
      BY <1>2, <1>3, <1>6, <2>2, Zenon DEF TunnelGap, Solvent
  <1>7. CASE TunnelRx
    <2>1. drone # 0 /\ ~ fresh /\ fresh' /\ fresh' \in BOOLEAN /\ drone' = drone
      BY <1>7, Zenon DEF TunnelRx
    <2>2. Owed(mon, drone, fresh', fail) <= w
      <3>1. /\ Owed("connected", drone, fresh, fail) = fail + FailCount
            /\ Owed("armed", drone, fresh, fail) = FailCount + FailCount
            /\ Owed("disconnected", drone, fresh, fail) = FailCount
        BY <1>1, <2>1 DEF Owed
      <3>2. /\ Owed("connected", drone, fresh', fail) = fail
            /\ Owed("armed", drone, fresh', fail) = FailCount
            /\ Owed("disconnected", drone, fresh', fail) = FailCount
        BY <1>1, <2>1 DEF Owed
      <3> QED
        BY <1>1, <1>2, <1>4, <3>1, <3>2
    <2> QED
      BY <1>3, <1>7, <2>2, Zenon DEF TunnelRx, Solvent, w
  <1>8. CASE TunnelStale
    <2>1. drone = 0 /\ fresh /\ ~ fresh' /\ fresh' \in BOOLEAN /\ drone' = drone
      BY <1>8, Zenon DEF TunnelStale
    <2>2. Owed(mon, drone, fresh', fail) <= w
      <3>1. /\ Owed("connected", drone, fresh, fail) = FailCount
            /\ Owed("armed", drone, fresh, fail) = FailCount
            /\ Owed("disconnected", drone, fresh, fail) = FailCount
        BY <1>1, <2>1 DEF Owed
      <3>2. /\ Owed("connected", drone, fresh', fail) = FailCount
            /\ Owed("armed", drone, fresh', fail) = FailCount
            /\ Owed("disconnected", drone, fresh', fail) = 0
        BY <1>1, <2>1 DEF Owed
      <3> QED
        BY <1>1, <1>2, <1>4, <3>1, <3>2
    <2> QED
      BY <1>3, <1>8, <2>2, Zenon DEF TunnelStale, Solvent, w
  <1> QED
    BY <1>5, <1>6, <1>7, <1>8

\* The monitor: a poll that fails while the drone is on is a loss; a session is
\* opened by an armed monitor, and ended with the tunnel stale, the drone off
\* or FailCount polls failed.
LEMMA SolventMonitor ==
  ASSUME MonitorType, Solvent, Evaluate \/ StatusReturns \/ HealthReturns \/ Judge
  PROVE  Solvent'
  <1> DEFINE w == Balance(changes, gaps, losses, bus.n)
  <1>1. /\ fail \in Nat /\ fail <= FailCount /\ FailCount \in Nat \ {0}
        /\ mon \in {"disconnected", "armed", "connected"} /\ fresh \in BOOLEAN
    BY SessionAssumption DEF MonitorType
  <1>2. /\ w \in Int
        /\ Balance(changes, gaps, losses + 1, bus.n) = w + 1
        /\ Balance(changes, gaps, losses, bus.n + 1) = w - FailCount
    BY Worth, Zenon
  <1>3. Owed(mon, drone, fresh, fail) <= w
    BY DEF Solvent
  <1> HIDE DEF w
  <1>4. CASE Evaluate
    <2>1. /\ UNCHANGED <<drone, fresh, changes, gaps, losses, fail, bus>>
          /\ mon' = mon \/ (mon = "disconnected" /\ fresh /\ mon' = "armed")
      BY <1>4, Zenon DEF Evaluate, envVars
    <2>2. CASE mon' = mon
      BY <2>1, <2>2, <1>3, Zenon DEF Solvent, w
    <2>3. CASE mon = "disconnected" /\ fresh /\ mon' = "armed"
      <3>1. Owed("armed", drone, fresh, fail) = Owed(mon, drone, fresh, fail)
        BY <1>1, <2>3 DEF Owed
      <3> QED
        BY <1>3, <2>1, <2>3, <3>1, Zenon DEF Solvent, w
    <2> QED
      BY <2>1, <2>2, <2>3
  <1>5. CASE StatusReturns
    <2>1. mon = "armed" /\ UNCHANGED <<drone, fresh, changes, gaps>>
      BY <1>5 DEF StatusReturns, MonitorType
    <2>2. PICK ok \in BOOLEAN :
             /\ HttpAnswers(ok)
             /\ \/ ok /\ EnterConnected
                \/ /\ ~ ok /\ mon' = IF fresh THEN "armed" ELSE "disconnected"
                   /\ UNCHANGED <<fail, bus>>
      BY <1>5 DEF StatusReturns
    <2>3. CASE ok /\ EnterConnected
      <3>1. drone # 0 /\ losses' = losses
        BY <2>2, <2>3 DEF HttpAnswers
      <3>2. mon' = "connected" /\ fail' = 0 /\ bus'.n = bus.n + 1
        BY <2>3 DEF EnterConnected
      <3>3. Owed("connected", drone, fresh, 0) <= w - FailCount
        BY <1>1, <1>2, <1>3, <2>1, <3>1, OwedCases
      <3> QED
        BY <1>2, <2>1, <3>1, <3>2, <3>3, Zenon DEF Solvent
    <2>4. CASE /\ mon' = IF fresh THEN "armed" ELSE "disconnected"
               /\ UNCHANGED <<fail, bus>>
      <3>1. Owed(mon', drone, fresh, fail) <= w /\ w <= w + 1
        BY <1>1, <1>2, <1>3, <2>1, <2>4, OwedCases
      <3>2. losses' = losses \/ losses' = losses + 1
        BY <2>2 DEF HttpAnswers
      <3>3. Owed(mon', drone, fresh, fail) <= w + 1
        BY <1>1, <1>2, <1>3, <2>1, <2>4, OwedCases
      <3> QED
        BY <1>2, <2>1, <2>4, <3>1, <3>2, <3>3, Zenon DEF Solvent, w
    <2> QED
      BY <2>2, <2>3, <2>4
  <1>6. CASE HealthReturns
    <2>1. mon = "connected" /\ UNCHANGED <<drone, fresh, changes, gaps, mon, bus>>
      BY <1>6 DEF HealthReturns, MonitorType
    <2>2. PICK ok \in BOOLEAN :
             /\ HttpAnswers(ok)
             /\ fail' = IF ok THEN 0 ELSE IF fail < FailCount THEN fail + 1 ELSE fail
      BY <1>6 DEF HealthReturns
    <2>3. fail' \in Nat /\ fail' <= FailCount /\ fail' <= fail + 1 /\ (ok => fail' = 0)
      BY <1>1, <2>2
    <2>4. \/ losses' = losses /\ (drone = 0 \/ ok)
          \/ losses' = losses + 1
      BY <2>2 DEF HttpAnswers
    <2>5. CASE losses' = losses /\ (drone = 0 \/ ok)
      <3>1. Owed("connected", drone, fresh, fail') <= w
        BY <1>1, <1>2, <1>3, <2>1, <2>3, <2>5, OwedCases
      <3> QED
        BY <2>1, <2>5, <3>1, Zenon DEF Solvent, w
    <2>6. CASE losses' = losses + 1
      <3>1. Owed("connected", drone, fresh, fail') <= w + 1
        BY <1>1, <1>2, <1>3, <2>1, <2>3, OwedCases
      <3> QED
        BY <1>2, <2>1, <2>6, <3>1, Zenon DEF Solvent
    <2> QED
      BY <2>4, <2>5, <2>6
  <1>7. CASE Judge
    <2>1. mon = "connected" /\ UNCHANGED <<drone, fresh, changes, gaps, losses>>
      BY <1>7 DEF Judge, MonitorType, envVars
    <2>2. CASE UNCHANGED <<mon, fail, bus>>
      BY <1>3, <2>1, <2>2, Zenon DEF Solvent, w
    <2>3. CASE EnterDisconnected /\ ~ (fresh /\ fail < FailCount)
      <3>1. mon' = "disconnected" /\ fail' = 0 /\ bus'.n = bus.n
        BY <2>3 DEF EnterDisconnected
      <3>2. Owed("disconnected", drone, fresh, 0) <= w
        BY <1>1, <1>2, <1>3, <2>1, <2>3, OwedCases
      <3> QED
        BY <2>1, <3>1, <3>2, Zenon DEF Solvent, w
    <2> QED
      BY <1>7, <2>2, <2>3, Zenon DEF Judge
  <1> QED
    BY <1>4, <1>5, <1>6, <1>7

\* No step spends more failed polls than the account holds.
LEMMA SolventStep ==
  ASSUME MonitorType, Solvent, [Next]_vars
  PROVE  Solvent'
  <1>1. ASSUME \/ UNCHANGED vars
               \/ StartLoop \/ BuildPolicy \/ SeedAndRun \/ RunCallback \/ Record
               \/ StopLoop \/ LoopEnds \/ LoopCrashes
               \/ GraceElapses \/ Dispatch
        PROVE  Solvent'
    <2>1. UNCHANGED <<envVars, mon, fail, bus>>
      BY <1>1, MonitorApart, Zenon DEF GraceElapses, Dispatch, monVars
    <2> QED
      BY <2>1, Zenon DEF envVars, Solvent
  <1> QED
    BY <1>1, SolventLink, SolventMonitor DEF Next, Monitor

\* The confirmation in _evaluate: however the drone, the tunnel and the polls
\* behave, there are no more sessions than changes of the drone, gaps of the
\* tunnel and runs of http_fail_count lost polls.
THEOREM SessionsHaveACause == Spec => []NoSpuriousSession
  <1>1. Init => Solvent
    <2> SUFFICES ASSUME Init PROVE Solvent
      OBVIOUS
    <2>1. Owed("disconnected", 0, FALSE, 0) = 0
      BY OwedCases, Zenon
    <2>2. Balance(0, 0, 0, 0) = 0
      BY SessionAssumption DEF Balance
    <2>3. bus.n = 0
      BY DEF Init
    <2>4. Owed(mon, drone, fresh, fail) = 0 /\ Balance(changes, gaps, losses, bus.n) = 0
      BY <2>1, <2>2, <2>3, Zenon DEF Init
    <2> QED
      BY <2>4 DEF Solvent
  <1>2. MonitorType /\ Solvent /\ [Next]_vars => Solvent'
    BY SolventStep
  <1>3. MonitorType /\ Solvent => NoSpuriousSession
    <2> SUFFICES ASSUME MonitorType, Solvent
                 PROVE  bus.n <= changes + gaps + (losses \div FailCount)
      BY DEF NoSpuriousSession
    <2>1. /\ changes + gaps \in Nat /\ losses \in Nat /\ bus.n \in Nat
          /\ FailCount \in Nat \ {0} /\ fail \in Nat /\ fresh \in BOOLEAN
          /\ mon \in {"disconnected", "armed", "connected"}
      BY SessionAssumption DEF MonitorType
    <2>2. Owed(mon, drone, fresh, fail) \in Nat
      BY <2>1, OwedCases
    <2> DEFINE e == changes + gaps
               q == losses \div FailCount
    <2>3. 0 <= FailCount * e + losses - FailCount * bus.n
      BY <2>1, <2>2 DEF Solvent, Balance
    <2>4. q \in Nat /\ losses < FailCount * q + FailCount
      BY <2>1
    <2> HIDE DEF e, q
    <2>5. bus.n <= e + q
      BY <2>1, <2>3, <2>4 DEF e
    <2> QED
      BY <2>5 DEF e, q
  <1> QED
    BY <1>1, <1>2, <1>3, SessionTypes, PTL DEF Spec
==============================================================================
