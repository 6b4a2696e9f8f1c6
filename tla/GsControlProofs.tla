-------------------------- MODULE GsControlProofs --------------------------
(***************************************************************************)
(* Proofs about what the ground station's daemon controls: its             *)
(* configuration path (GsConfig), the engine's life cycle (GsEngine) and   *)
(* the supervisors of its child processes (GsSupervision).  Each part is   *)
(* proved on its own: the specification of one says nothing of the state   *)
(* of another.                                                             *)
(***************************************************************************)
EXTENDS GsConfig, GsEngine, GsSupervision, TLAPS

(***************************************************************************)
(* Proofs about the configuration path, for any cards, patches, defaults   *)
(* and number of requests and crashes, as long as requests are served one  *)
(* at a time: OneHandler is the assumption that api.py does not enforce    *)
(* (see the hazards at api.py:104 and config.py:121).                      *)
(***************************************************************************)
OneHandler == \E h \in Handlers : Handlers = {h}

\* The handlers' three functions stay functions on Handlers.
Shaped ==
    /\ pc = [h \in Handlers |-> pc[h]]
    /\ p = [h \in Handlers |-> p[h]]
    /\ e = [h \in Handlers |-> e[h]]

\* A daemon that has not booted yet satisfies the invariant.
LEMMA ConfigInit == Init => ConfigInv
BY DefaultsAssumption DEF Init, ConfigInv

\* Steps that leave the store, the handlers and the running parts alone keep
\* the invariant.
LEMMA ConfigFrame ==
    ASSUME ConfigInv, UNCHANGED <<up, store, pc, p, e, running, wasReset>>
    PROVE  ConfigInv'
BY DEF ConfigInv, HandlerInv, Given, EngineFollows, ControllerFollows, PlayerFollows,
       Valid, BlocksValid, View, Tuned, Snapshot, store, running, rest

\* No step of a request, a boot, a crash or the armer breaks it.
LEMMA ConfigStep ==
    ASSUME OneHandler, ConfigInv, [Next]_vars
    PROVE  ConfigInv'
<1>1. PICK h \in Handlers : Handlers = {h}
    BY DEF OneHandler
<1> USE <1>1
<1>2. CASE ArmerStep \/ UNCHANGED vars
    BY <1>2, ConfigFrame DEF ArmerStep, vars
<1>3. CASE Boot
    BY <1>3 DEF Boot, Restarts, RestartFails, On, Off, ConfigInv, HandlerInv, Given,
       EngineFollows, ControllerFollows, PlayerFollows, Snapshot, NoSnapshot
<1>4. CASE Crash
    BY <1>4 DEF Crash, ConfigInv, HandlerInv, store
<1>5. CASE Patch(h)
    BY <1>5 DEF Patch, Arrives, At, ConfigInv, HandlerInv, Given, EngineFollows,
       ControllerFollows, PlayerFollows, running, rest
<1>6. CASE BeginApply(h)
    BY <1>6 DEF BeginApply, Arrives, At, Goto, ConfigInv, HandlerInv, Given, EngineFollows,
       ControllerFollows, PlayerFollows, running, rest, store
<1>7. CASE Reset(h)
    BY <1>7, DefaultsAssumption DEF Reset, Arrives, At, Goto, ConfigInv, HandlerInv, Given,
       EngineFollows, ControllerFollows, PlayerFollows, running, rest
<1>8. CASE Validate(h)
    BY <1>8 DEF Validate, Respond, At, Goto, ConfigInv, HandlerInv, Given, EngineFollows,
       ControllerFollows, PlayerFollows, running, rest, store
<1>9. CASE ApplyLink(h)
    BY <1>9 DEF ApplyLink, LinkChanged, Link, WfbChanged, Live, View, Tuned, Restarts,
       RestartFails, On, Off, At, Goto, ConfigInv, HandlerInv, Given, EngineFollows,
       ControllerFollows, PlayerFollows, rest, store
<1>10. CASE Rollback(h)
    <2>1. UNCHANGED <<up, store, rest, wasReset>> /\ up = "up" /\ HandlerInv(h)
        BY <1>10 DEF Rollback, At, ConfigInv
    <2>2. EngineFollows(effective)'
        BY <1>10, <2>1 DEF Rollback, At, HandlerInv, Restarts, RestartFails, On, Off,
           EngineFollows, store
    <2>3. pc'[h] = "idle" /\ Shaped'
        BY <1>10 DEF Rollback, Respond, Goto, ConfigInv, Shaped
    <2>4. HandlerInv(h)'
        BY <1>10, <2>1, <2>2, <2>3 DEF Rollback, At, HandlerInv, Given, ControllerFollows,
           PlayerFollows, store, rest
    <2>5. QED BY <2>1, <2>3, <2>4 DEF ConfigInv, Shaped, store
<1>11. CASE RouteDynamicLink(h)
    <2>1. up = "up" /\ HandlerInv(h) /\ e[h] = effective /\ pc[h] = "dl"
        BY <1>11 DEF RouteDynamicLink, At, ConfigInv, HandlerInv
    <2>2. wasReset = "no" => ControllerFollows(p[h])'
        <3>1. CASE e[h].dl = p[h].dl /\ (e[h].dl = "off" \/ e[h].width = p[h].width)
            BY <1>11, <2>1, <3>1 DEF RouteDynamicLink, HandlerInv, Given,
               ControllerFollows, Snapshot, NoSnapshot
        <3>2. CASE ~(e[h].dl = p[h].dl /\ (e[h].dl = "off" \/ e[h].width = p[h].width))
            BY <1>11, <3>2 DEF RouteDynamicLink, ControllerFollows, Snapshot, NoSnapshot
        <3>3. QED BY <3>1, <3>2
    <2>3. pc'[h] = "pp" /\ Shaped'
        BY <1>11 DEF RouteDynamicLink, Goto, ConfigInv, Shaped
    <2>4. HandlerInv(h)'
        BY <1>11, <2>1, <2>2, <2>3 DEF RouteDynamicLink, HandlerInv, Given,
           EngineFollows, ControllerFollows, PlayerFollows, store
    <2>5. QED BY <1>11, <2>3, <2>4 DEF RouteDynamicLink, At, ConfigInv, Shaped, store
<1>12. CASE RouteRest(h)
    BY <1>12 DEF RouteRest,
       At, Goto, ConfigInv, HandlerInv, Given, EngineFollows,
       ControllerFollows, PlayerFollows, store
<1>13. CASE Commit(h)
    BY <1>13 DEF Commit, Respond,
       At, Goto, ConfigInv, HandlerInv, Given, EngineFollows,
       ControllerFollows, PlayerFollows, running, rest
<1>14. CASE ResetEngine(h)
    <2>1. UNCHANGED <<up, store, rest, wasReset>> /\ up = "up" /\ HandlerInv(h)
        BY <1>14 DEF ResetEngine, At, ConfigInv
    <2>2. EngineFollows(effective)'
        BY <1>14, <2>1 DEF ResetEngine, At, HandlerInv, Restarts, RestartFails, On, Off,
           EngineFollows, store
    <2>3. pc'[h] = "idle" /\ Shaped'
        BY <1>14 DEF ResetEngine, Respond, Goto, ConfigInv, Shaped
    <2>4. HandlerInv(h)'
        BY <1>14, <2>1, <2>2, <2>3 DEF ResetEngine, At, HandlerInv, Given, ControllerFollows,
           PlayerFollows, store, rest
    <2>5. QED BY <2>1, <2>3, <2>4 DEF ConfigInv, Shaped, store
<1>15. CASE HandlerTick(h) \/ HandlerArms(h)
    BY <1>15 DEF HandlerTick, HandlerArms, Respond,
       At, Goto, ConfigInv, HandlerInv, Given, EngineFollows,
       ControllerFollows, PlayerFollows, running, rest, store
<1>16. QED
    BY <1>2, <1>3, <1>4, <1>5, <1>6, <1>7, <1>8, <1>9, <1>10, <1>11, <1>12, <1>13,
       <1>14, <1>15 DEF Next, Handler

\* With requests served one at a time, config.json can always be booted from,
\* wherever in a request the daemon crashes (commit() writes what
\* validate_effective accepted).
THEOREM DiskBootsHolds ==
    ASSUME OneHandler
    PROVE  Spec => []DiskBoots
<1>1. ConfigInv => DiskBoots
    BY DEF ConfigInv, DiskBoots
<1>2. ConfigInv /\ [Next]_vars => ConfigInv'
    BY ConfigStep
<1>3. QED BY <1>1, <1>2, ConfigInit, PTL DEF Spec

\* With requests served one at a time, what runs between them is what
\* GET /gs/config shows, after any failed apply, rollback, retune or write.
THEOREM RunningIsEffectiveHolds ==
    ASSUME OneHandler
    PROVE  Spec => []RunningIsEffective
<1>1. ConfigInv => RunningIsEffective
    BY DEF OneHandler, ConfigInv, HandlerInv, Given, Idle, RunningIsEffective
<1>2. ConfigInv /\ [Next]_vars => ConfigInv'
    BY ConfigStep
<1>3. QED BY <1>1, <1>2, ConfigInit, PTL DEF Spec

\* With requests served one at a time, config.json only ever becomes the
\* defaults or a configuration the engine was given successfully.
THEOREM OnlyAppliedPersistsHolds ==
    ASSUME OneHandler
    PROVE  Spec => OnlyAppliedPersists
<1> DEFINE A == disk' # disk => disk' = Defaults \/ wasReset = "failed" \/ EngineFollows(disk')
<1>1. ASSUME ConfigInv, [Next]_vars PROVE [A]_vars
    <2>1. PICK h \in Handlers : Handlers = {h}
        BY DEF OneHandler
    <2>2. CASE Commit(h)
        BY <1>1, <2>2 DEF Commit, At, ConfigInv, HandlerInv, Given, EngineFollows
    <2>3. CASE Reset(h)
        BY <2>3 DEF Reset
    <2>4. CASE ~Commit(h) /\ ~Reset(h)
        <3>1. disk' = disk
            BY <1>1, <2>1, <2>4 DEF Next, Handler, Boot, Crash, ArmerStep, Patch, BeginApply,
               Validate, ApplyLink, Rollback, RouteDynamicLink, RouteRest, ResetEngine,
               HandlerTick, HandlerArms, vars, store
        <3>2. QED BY <3>1
    <2>5. QED BY <2>2, <2>3, <2>4
<1>2. ConfigInv /\ [Next]_vars => ConfigInv'
    BY ConfigStep
<1>3. QED BY <1>1, <1>2, ConfigInit, PTL DEF Spec, OnlyAppliedPersists

(***************************************************************************)
(* Proofs about the engine's life cycle, for any number of starts,         *)
(* restarts and respawns: EngineInv is inductive, and it implies that a    *)
(* thread that ended left nothing running and that a closed hub is hidden. *)
(***************************************************************************)
\* A WfbEngine before its first start() satisfies the invariant.
LEMMA EngineInit == LifeInit => EngineInv
<1> SUFFICES ASSUME LifeInit PROVE EngineInv
    OBVIOUS
<1>1. HubInv
    BY DEF LifeInit, HubInv, NoHub
<1>2. TickInv /\ OpenInv
    BY DEF LifeInit, TickInv, OpenInv
<1>3. QED BY <1>1, <1>2 DEF EngineInv

\* No step of the callers, the thread, its ticker, the children or the reader
\* breaks it.
LEMMA EngineStep == EngineInv /\ [LifeNext]_lifeVars => EngineInv'
<1> SUFFICES ASSUME EngineInv, [LifeNext]_lifeVars PROVE EngineInv'
    OBVIOUS
<1> USE DEF EngineInv, NoHub
<1>1. CASE CallStart
    <2>1. HubInv'
        BY <1>1 DEF CallStart, SpawnThread, plane, HubInv
    <2>2. TickInv'
        BY <1>1 DEF CallStart, SpawnThread, plane, HubInv, TickInv
    <2>3. OpenInv'
        BY <1>1 DEF CallStart, SpawnThread, plane, TickInv, OpenInv, Services
    <2>4. QED BY <2>1, <2>2, <2>3
<1>2. CASE StartWaitEnds
    BY <1>2 DEF StartWaitEnds, thread, plane, HubInv, TickInv, OpenInv
<1>3. CASE CallStop
    BY <1>3 DEF CallStop, plane, HubInv, TickInv, OpenInv
<1>4. CASE StopJoined
    <2>1. HubInv'
        BY <1>4 DEF StopJoined, SpawnThread, thread, plane, HubInv
    <2>2. TickInv'
        BY <1>4 DEF StopJoined, SpawnThread, thread, plane, HubInv, TickInv
    <2>3. OpenInv'
        BY <1>4 DEF StopJoined, SpawnThread, thread, plane, TickInv, OpenInv, Services
    <2>4. QED BY <2>1, <2>2, <2>3
<1>5. CASE SetupChildren
    <2>1. HubInv'
        BY <1>5 DEF SetupChildren, ThreadEnds, HubInv
    <2>2. TickInv'
        BY <1>5 DEF SetupChildren, ThreadEnds, HubInv, TickInv
    <2>3. OpenInv'
        BY <1>5 DEF SetupChildren, ThreadEnds, Reaped, TickInv, OpenInv, Services
    <2>4. QED BY <2>1, <2>2, <2>3
<1>6. CASE StartServices
    <2>1. closed \cup {hubs} \subseteq 1..hubs
        BY <1>6 DEF StartServices, HubInv
    <2>2. closed' \in {closed, closed \cup {hubs}} /\ hubs' = hubs
        BY <1>6 DEF StartServices, WiringFails, HubInv
    <2>3. closed' \subseteq 1..hubs'
        BY <2>1, <2>2 DEF HubInv
    <2>4. HubInv'
        BY <1>6, <2>3 DEF StartServices, WiringFails, HubInv
    <2>5. TickInv'
        BY <1>6 DEF StartServices, WiringFails, HubInv, TickInv
    <2>6. OpenInv'
        BY <1>6 DEF StartServices, WiringFails, TickInv, OpenInv, Services
    <2>7. QED BY <2>4, <2>5, <2>6
<1>7. CASE Publish
    <2>1. HubInv'
        BY <1>7 DEF Publish, HubInv
    <2>2. TickInv'
        BY <1>7 DEF Publish, HubInv, TickInv
    <2>3. OpenInv'
        BY <1>7 DEF Publish, TickInv, OpenInv, Services
    <2>4. QED BY <2>1, <2>2, <2>3
<1>8. CASE StartStats
    <2>1. closed \cup {hubs} \subseteq 1..hubs
        BY <1>8 DEF StartStats, HubInv
    <2>2. closed' \in {closed, closed \cup {hubs}} /\ hubs' = hubs
        BY <1>8 DEF StartStats, WiringFails, HubInv
    <2>3. closed' \subseteq 1..hubs'
        BY <2>1, <2>2 DEF HubInv
    <2>4. HubInv'
        BY <1>8, <2>3 DEF StartStats, WiringFails, HubInv
    <2>5. TickInv'
        BY <1>8 DEF StartStats, WiringFails, HubInv, TickInv
    <2>6. OpenInv'
        BY <1>8 DEF StartStats, WiringFails, TickInv, OpenInv, Services
    <2>7. QED BY <2>4, <2>5, <2>6
<1>9. CASE StartNodes
    <2>1. HubInv'
        BY <1>9 DEF StartNodes, HubInv
    <2>2. TickInv'
        BY <1>9 DEF StartNodes, HubInv, TickInv
    <2>3. OpenInv'
        BY <1>9 DEF StartNodes, TickInv, OpenInv, Services
    <2>4. QED BY <2>1, <2>2, <2>3
<1>10. CASE CleanUpFailed
    <2>1. HubInv'
        BY <1>10 DEF CleanUpFailed, ThreadEnds, HubInv
    <2>2. TickInv'
        BY <1>10 DEF CleanUpFailed, ThreadEnds, HubInv, TickInv
    <2>3. OpenInv'
        BY <1>10 DEF CleanUpFailed, ThreadEnds, TickInv, OpenInv, Services
    <2>4. QED BY <2>1, <2>2, <2>3
<1>11. CASE BeginTeardown
    <2>1. closed \cup {hubs} \subseteq 1..hubs
        BY <1>11 DEF BeginTeardown, HubInv
    <2>2. closed' \in {closed, closed \cup {hubs}} /\ hubs' = hubs
        BY <1>11 DEF BeginTeardown, DropHub, ThreadEnds, HubInv
    <2>3. closed' \subseteq 1..hubs'
        BY <2>1, <2>2 DEF HubInv
    <2>4. HubInv'
        BY <1>11, <2>3 DEF BeginTeardown, DropHub, ThreadEnds, HubInv
    <2>5. TickInv'
        BY <1>11 DEF BeginTeardown, DropHub, ThreadEnds, HubInv, TickInv
    <2>6. OpenInv'
        BY <1>11 DEF BeginTeardown, DropHub, ThreadEnds, TickInv, OpenInv, Services
    <2>7. QED BY <2>4, <2>5, <2>6
<1>12. CASE NodesStopped
    <2>1. closed \cup {hubs} \subseteq 1..hubs
        BY <1>12 DEF NodesStopped, HubInv
    <2>2. closed' \in {closed, closed \cup {hubs}} /\ hubs' = hubs
        BY <1>12 DEF NodesStopped, DropHub, ThreadEnds, HubInv
    <2>3. closed' \subseteq 1..hubs'
        BY <2>1, <2>2 DEF HubInv
    <2>4. HubInv'
        BY <1>12, <2>3 DEF NodesStopped, DropHub, ThreadEnds, HubInv
    <2>5. TickInv'
        BY <1>12 DEF NodesStopped, DropHub, ThreadEnds, HubInv, TickInv
    <2>6. OpenInv'
        BY <1>12 DEF NodesStopped, DropHub, ThreadEnds, TickInv, OpenInv, Services
    <2>7. QED BY <2>4, <2>5, <2>6
<1>13. CASE StopTheRest
    <2>1. HubInv'
        BY <1>13 DEF StopTheRest, ThreadEnds, HubInv
    <2>2. TickInv'
        BY <1>13 DEF StopTheRest, ThreadEnds, HubInv, TickInv
    <2>3. OpenInv'
        BY <1>13 DEF StopTheRest, ThreadEnds, TickInv, OpenInv, Services
    <2>4. QED BY <2>1, <2>2, <2>3
<1>14. CASE Reader
    BY <1>14 DEF Reader, ReadHub, Subscribe, Woken, thread, plane, HubInv, TickInv, OpenInv
<1>15. CASE \E switched \in BOOLEAN : Tick(switched)
    BY <1>15 DEF Tick, thread, HubInv, TickInv, OpenInv
<1>16. CASE \E l \in Legs : ChildDies(l) \/ ChildRespawns(l) \/ ChildListens(l) \/ ChildFaults(l)
    <2>1. UNCHANGED <<thread, plane>>
        BY <1>16 DEF ChildDies, ChildRespawns, ChildListens, ChildFaults
    <2>2. QED BY <2>1 DEF thread, plane, HubInv, TickInv, OpenInv
<1>17. CASE UNCHANGED lifeVars
    BY <1>17 DEF lifeVars, thread, plane, HubInv, TickInv, OpenInv
<1>18. QED
    BY <1>1, <1>2, <1>3, <1>4, <1>5, <1>6, <1>7, <1>8, <1>9, <1>10, <1>11,
       <1>12, <1>13, <1>14, <1>15, <1>16, <1>17
    DEF LifeNext, Thread

\* A thread that ended left nothing of _setup running, and only an engine with
\* remote cards can have its teardown cut short.
THEOREM StopReleasesAllHolds == LifeSpec => []StopReleasesAll
<1>1. EngineInv => StopReleasesAll
    BY DEF EngineInv, HubInv, TickInv, OpenInv, StopReleasesAll
<1>2. QED BY <1>1, EngineInit, EngineStep, PTL DEF LifeSpec

\* A hub that was closed is not visible as self.hub, outside the exception path
\* of _setup.
THEOREM ClosedHubHiddenHolds == LifeSpec => []ClosedHubHidden
<1>1. EngineInv => ClosedHubHidden
    BY DEF EngineInv, HubInv, ClosedHubHidden, NoHub
<1>2. QED BY <1>1, EngineInit, EngineStep, PTL DEF LifeSpec

(***************************************************************************)
(* Proofs about the child supervisors, for every restart budget and every  *)
(* backoff limit: SupInv is inductive, it implies the two invariants, and  *)
(* every step is a step of SupervisedProcess or leaves its state alone.    *)
(***************************************************************************)
USE SupervisionAssumption

\* The Boolean part of the type invariant, for steps of their own.
FlagsOK ==
    /\ want \in BOOLEAN /\ supervise \in BOOLEAN /\ fault \in BOOLEAN
    /\ stable \in BOOLEAN /\ reported \in BOOLEAN

\* A supervisor before its first start() satisfies the invariant.
LEMMA SupInit == SupervisorInit => SupInv
<1> SUFFICES ASSUME SupervisorInit PROVE SupInv
    OBVIOUS
<1>1. FlagsOK
    BY DEF SupervisorInit, FlagsOK
<1>2. QED BY <1>1 DEF SupervisorInit, SupInv, SupTypeOK, FlagsOK

\* A charge to the crash-loop budget keeps the invariant: the watch backs off
\* within the budget, or ends in a fault that leaves nothing behind.
LEMMA ChargeStep ==
    ASSUME SupInv, NEW left \in {"none", "exited"}, Charge(left),
           kind # "node", supervise, want, op = "idle", ~fault,
           UNCHANGED <<kind, want, op, delay, stable, reported>>
    PROVE  SupInv'
<1> USE DEF SupInv, SupTypeOK
<1>1. recent \in Nat /\ recent + 1 \in 0..(MaxRestarts + 1) /\ recent' = recent + 1
    BY DEF Charge
<1>2. CASE recent + 1 > MaxRestarts
    <2>1. fault' = TRUE /\ supervise' = FALSE /\ proc' = "none"
          /\ watch' = IF kind = "process" THEN "wait" ELSE "done"
        BY <1>2 DEF Charge, Asyncio
    <2>2. FlagsOK'
        BY <2>1 DEF FlagsOK
    <2>3. QED BY <1>1, <2>1, <2>2 DEF FlagsOK
<1>3. CASE ~(recent + 1 > MaxRestarts)
    <2>1. watch' = "backoff" /\ proc' = left /\ UNCHANGED <<fault, supervise>>
        BY <1>3 DEF Charge
    <2>2. QED BY <1>1, <1>3, <2>1
<1>4. QED BY <1>2, <1>3

\* A respawn keeps the invariant, whatever it left.
LEMMA RespawnStep ==
    ASSUME SupInv, watch \in {"spawn", "settle"},
           NEW left \in {"none", "up", "exited"}, RespawnReturns(left),
           UNCHANGED <<kind, want, op, delay, stable>>
    PROVE  SupInv'
<1>1. CASE left = "none" /\ kind \in {"rx", "tx"}
    <2>1. Charge("none") /\ UNCHANGED reported
        BY <1>1 DEF RespawnReturns
    <2>2. supervise /\ want /\ op = "idle" /\ ~fault
        BY DEF SupInv
    <2>3. QED BY <1>1, <2>1, <2>2, ChargeStep
<1>2. CASE left = "none" /\ kind = "node"
    BY <1>2 DEF RespawnReturns, SupInv, SupTypeOK
<1>3. CASE left # "none" \/ kind = "process"
    <2>1. /\ proc' = left /\ watch' = "wait"
          /\ reported' = (reported \/ kind = "node")
          /\ UNCHANGED <<supervise, fault, recent>>
        BY <1>3 DEF RespawnReturns
    <2>2. FlagsOK'
        BY <2>1 DEF FlagsOK, SupInv, SupTypeOK
    <2>3. QED BY <2>1, <2>2 DEF FlagsOK, SupInv, SupTypeOK
<1>4. QED BY <1>1, <1>2, <1>3 DEF SupInv, SupTypeOK

\* No step of the operator, the watch or the child breaks the invariant.
LEMMA SupStep == SupInv /\ [SupervisorNext]_supervisorVars => SupInv'
<1> SUFFICES ASSUME SupInv, [SupervisorNext]_supervisorVars PROVE SupInv'
    OBVIOUS
<1> USE DEF SupInv, SupTypeOK
<1>1. CASE Start
    <2>1. FlagsOK'
        BY <1>1 DEF Start, FlagsOK
    <2>2. QED BY <1>1, <2>1 DEF Start, FlagsOK
<1>2. CASE StartSpawn
    BY <1>2 DEF StartSpawn, StartReturns, Settles
<1>3. CASE StartReady
    BY <1>3 DEF StartReady, StartReturns, Judged
<1>4. CASE Stop
    BY <1>4 DEF Stop, Asyncio
<1>5. CASE Killed
    BY <1>5 DEF Killed
<1>6. CASE NoticeExit
    <2>1. supervise /\ want /\ op = "idle" /\ ~fault /\ kind # "node"
        BY <1>6 DEF NoticeExit
    <2>2. PICK left \in {"none", "exited"} : Charge(left)
        BY <1>6 DEF NoticeExit
    <2>3. QED BY <1>6, <2>1, <2>2, ChargeStep DEF NoticeExit
<1>7. CASE NoticeNodeDown
    <2>1. FlagsOK'
        BY <1>7 DEF NoticeNodeDown, FlagsOK
    <2>2. QED BY <1>7, <2>1 DEF NoticeNodeDown, FlagsOK
<1>8. CASE BackoffEnds
    BY <1>8 DEF BackoffEnds
<1>9. CASE RespawnSpawn
    <2>1. CASE \E left \in {"none", "up"} : RespawnReturns(left)
        BY <1>9, <2>1, RespawnStep DEF RespawnSpawn
    <2>2. CASE /\ proc' = "up" /\ watch' = "settle" /\ Settles
               /\ UNCHANGED <<supervise, fault, recent, reported>>
        BY <1>9, <2>2 DEF RespawnSpawn, Settles
    <2>3. QED BY <1>9, <2>1, <2>2 DEF RespawnSpawn
<1>10. CASE RespawnReady
    <2>1. PICK left \in {"none", "up", "exited"} : RespawnReturns(left)
        BY <1>10 DEF RespawnReady, Judged
    <2>2. QED BY <1>10, <2>1, RespawnStep DEF RespawnReady
<1>11. CASE ChildExits
    BY <1>11 DEF ChildExits
<1>12. CASE ForgetCrash
    BY <1>12 DEF ForgetCrash
<1>13. CASE BecomeStable
    BY <1>13 DEF BecomeStable
<1>14. CASE UNCHANGED supervisorVars
    BY <1>14 DEF supervisorVars
<1>15. QED BY <1>1, <1>2, <1>3, <1>4, <1>5, <1>6, <1>7, <1>8, <1>9, <1>10, <1>11,
          <1>12, <1>13, <1>14 DEF SupervisorNext, Watcher

\* The type invariant of the supervisors' fields.
THEOREM SupTypes == SupervisorSpec => []SupTypeOK
<1>1. SupInv => SupTypeOK
    BY DEF SupInv
<1>2. QED BY <1>1, SupInit, SupStep, PTL DEF SupervisorSpec

\* A child is never left dead, unfaulted and unwatched (the docstring of
\* WfbChild._watch), by any of the supervisors.
THEOREM NoSilentDeathHolds == SupervisorSpec => []NoSilentDeath
<1>1. SupInv => NoSilentDeath
    BY DEF SupInv, SupTypeOK, NoSilentDeath
<1>2. QED BY <1>1, SupInit, SupStep, PTL DEF SupervisorSpec

\* After stop() has returned there is no process and nothing about to start
\* one.
THEOREM StopIsFinalHolds == SupervisorSpec => []StopIsFinal
<1>1. SupInv => StopIsFinal
    BY DEF SupInv, SupTypeOK, StopIsFinal
<1>2. QED BY <1>1, SupInit, SupStep, PTL DEF SupervisorSpec

\* A supervisor before its first start() is an abstract one at rest.
LEMMA AbsInit == SupervisorInit => Abs!Init
BY DEF SupervisorInit, Abs!Init

\* Every step of a supervisor is one of the abstract supervisor, or none.
LEMMA AbsStep == SupInv /\ [SupervisorNext]_supervisorVars => [Abs!Next]_(Abs!svars)
<1> SUFFICES ASSUME SupInv, [SupervisorNext]_supervisorVars PROVE [Abs!Next]_(Abs!svars)
    OBVIOUS
<1> USE DEF SupInv, SupTypeOK, Abs!Next, Abs!svars
<1>1. CASE Start
    BY <1>1 DEF Start, Abs!Start
<1>2. CASE StartSpawn
    BY <1>2 DEF StartSpawn, StartReturns, Settles, Abs!Up
<1>3. CASE StartReady
    BY <1>3 DEF StartReady, StartReturns, Judged, Abs!Down
<1>4. CASE Stop
    BY <1>4 DEF Stop, Asyncio, Abs!Stop
<1>5. CASE Killed
    BY <1>5 DEF Killed, Abs!Down
<1>6. CASE NoticeExit
    BY <1>6 DEF NoticeExit, Charge, Asyncio, Abs!GiveUp
<1>7. CASE NoticeNodeDown
    BY <1>7 DEF NoticeNodeDown
<1>8. CASE BackoffEnds
    BY <1>8 DEF BackoffEnds
<1>9. CASE RespawnSpawn
    BY <1>9 DEF RespawnSpawn, RespawnReturns, Charge, Asyncio, Settles, Abs!Up, Abs!GiveUp
<1>10. CASE RespawnReady
    BY <1>10 DEF RespawnReady, RespawnReturns, Charge, Asyncio, Judged, Abs!Down, Abs!GiveUp
<1>11. CASE ChildExits
    BY <1>11 DEF ChildExits, Abs!Down
<1>12. CASE ForgetCrash
    BY <1>12 DEF ForgetCrash
<1>13. CASE BecomeStable
    BY <1>13 DEF BecomeStable
<1>14. CASE UNCHANGED supervisorVars
    BY <1>14 DEF supervisorVars
<1>15. QED BY <1>1, <1>2, <1>3, <1>4, <1>5, <1>6, <1>7, <1>8, <1>9, <1>10, <1>11,
          <1>12, <1>13, <1>14 DEF SupervisorNext, Watcher

\* WfbChild, NodeSession and ProcessSupervisor implement one abstract
\* supervisor: a child comes up only while the operator wants it, and giving
\* up is final until the next start().
THEOREM SupervisorsImplement == SupervisorSpec => ImplementsSupervised
<1>1. Abs!Init /\ [][Abs!Next]_(Abs!svars) => Abs!Spec
    BY DEF Abs!Spec
<1>2. QED BY <1>1, SupInit, SupStep, AbsInit, AbsStep, PTL
          DEF SupervisorSpec, ImplementsSupervised

=============================================================================
