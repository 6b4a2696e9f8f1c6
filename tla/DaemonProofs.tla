---------------------------- MODULE DaemonProofs ----------------------------
(***************************************************************************)
(* Proofs about Daemon, for every set of configurations, any number of     *)
(* faults and any number of deferred workers.                              *)
(***************************************************************************)
EXTENDS Daemon, TLAPS

Stages == {"txPower", "mtu", "fec", "radio", "finish"}

Valid == {c \in Configs : Validate(c)}

\* What is effective, staged, kept aside or on disk has passed validate().
CfgType ==
    /\ effective \in Valid /\ pending \in Valid /\ old \in Valid
    /\ disk \in Valid \cup {None}
DlType == dl \in [running : BOOLEAN, cfg : {Snapshot(c) : c \in Configs}]
PcType == pc \in {"boot", "idle", "teardown", "rebuild", "encoder", "route"} \cup Stages

\* The controller and the probe pair are as configuration c asks.
Follows(c) ==
    /\ dl.running = c.enabled
    /\ dl.running => dl.cfg = Snapshot(c)
    /\ probe = (c.enabled /\ c.probe)

\* The strengthening: which configuration the controller follows at each
\* step of apply().  Without children it need not run where it should, but
\* never runs where it should not; that is what a later rebuild relies on.
RouteInv ==
    /\ pc = "boot" => ~dl.running /\ ~up
    /\ pc = "rebuild" => ~up
    /\ trust # "torn" =>
        /\ pc \in {"idle"} \cup Stages =>
               (dl.running => effective.enabled) /\ (up => Follows(effective))
        /\ pc \in {"teardown", "encoder", "route"} =>
               (dl.running => old.enabled) /\ (up => Follows(old))
        /\ pc = "rebuild" => ~dl.running

IInv == CfgType /\ DlType /\ PcType /\ RouteInv

----------------------------------------------------------------------------
(* Lemmas.                                                                 *)

\* A configuration's switches are Boolean.
LEMMA Switches == ASSUME NEW c \in Configs
                  PROVE  c.enabled \in BOOLEAN /\ c.probe \in BOOLEAN
BY ConfigsAssumption

\* loadEffective returns a configuration.
LEMMA Loaded == CfgType => LoadEffective \in Valid
BY ConfigsAssumption DEF CfgType, LoadEffective, Valid

\* The configurations in use are members of Configs.
LEMMA Configured == CfgType => effective \in Configs /\ pending \in Configs /\ old \in Configs
BY DEF CfgType, Valid

\* A stopped controller has the controller's type.
LEMMA StoppedType ==
    /\ Stopped \in [running : BOOLEAN, cfg : {Snapshot(c) : c \in Configs}]
    /\ Stopped.running = FALSE
BY ConfigsAssumption DEF Stopped

\* NeedsReload misses no field of the snapshot: when apply() does not hand a
\* running controller a new snapshot, the one it has is still right.
LEMMA ReloadComplete ==
    ASSUME NEW a, NEW b, ~NeedsReload(a, b)
    PROVE  Snapshot(a) = Snapshot(b)
<1>1. \A f \in {"probe", "knobs", "radiotap", "width", "mtu", "fps"} : a[f] = b[f]
  BY DEF NeedsReload, SubsDynamicLink, VideoRadiotap, Differ
<1> QED BY <1>1 DEF Snapshot

\* The hot path's routing moves the controller and the probe pair from the
\* old configuration to the new one.
LEMMA RoutingFollows ==
    ASSUME CfgType, DlType,
           dl.running => old.enabled,
           dl' = RoutedController, probe' = RoutedProbe, UNCHANGED config
    PROVE  /\ dl'.running => effective.enabled
           /\ Follows(old) => Follows(effective)'
<1>1. /\ old.enabled \in BOOLEAN /\ old.probe \in BOOLEAN
      /\ effective.enabled \in BOOLEAN /\ effective.probe \in BOOLEAN
      /\ dl.running \in BOOLEAN
  BY Switches, Configured DEF DlType
<1>2. effective' = effective
  BY DEF config, committed
<1>3. CASE ~old.enabled /\ effective.enabled
  <2>1. dl' = [running |-> TRUE, cfg |-> Snapshot(effective)]
    BY <1>3 DEF RoutedController
  <2>2. probe' = (probe \/ effective.probe)
    BY <1>3 DEF RoutedProbe
  <2> QED BY <1>1, <1>2, <1>3, <2>1, <2>2 DEF Follows, Snapshot
<1>4. CASE old.enabled /\ ~effective.enabled
  <2>1. dl' = Stopped /\ probe' = FALSE
    BY <1>4 DEF RoutedController, RoutedProbe
  <2>2. dl'.running = FALSE
    BY <2>1, StoppedType
  <2> QED BY <1>1, <1>2, <1>4, <2>1, <2>2, Zenon DEF Follows
<1>5. CASE old.enabled /\ effective.enabled
  <2>1. dl' = IF dl.running /\ NeedsReload(old, effective) THEN [dl EXCEPT !.cfg = Snapshot(effective)] ELSE dl
    BY <1>5 DEF RoutedController
  <2>2. dl'.running = dl.running
    BY <2>1 DEF DlType
  <2>3. (dl.running => dl.cfg = Snapshot(old)) => (dl.running => dl'.cfg = Snapshot(effective))
    BY <2>1, ReloadComplete DEF DlType
  <2>4. probe' = IF old.probe # effective.probe THEN effective.probe ELSE probe
    BY <1>5 DEF RoutedProbe
  <2>5. probe = (old.enabled /\ old.probe) => probe' = (effective.enabled /\ effective.probe)
    BY <1>1, <1>5, <2>4
  <2>6. Snapshot(effective)' = Snapshot(effective)
    BY <1>2 DEF Snapshot
  <2> QED BY <1>1, <1>2, <1>5, <2>2, <2>3, <2>5, <2>6, Zenon DEF Follows
<1>6. CASE ~old.enabled /\ ~effective.enabled
  <2>1. dl' = dl /\ probe' = probe
    BY <1>6 DEF RoutedController, RoutedProbe
  <2> QED BY <1>1, <1>2, <1>6, <2>1 DEF Follows
<1> QED BY <1>1, <1>3, <1>4, <1>5, <1>6

\* BringUp leaves the controller and the probe pair as c asks, provided the
\* controller is not still running from before.
LEMMA BringUpFollows ==
    ASSUME NEW c \in Configs, DlType, BringUp(c), effective' = c, ~dl.running
    PROVE  Follows(effective)' /\ DlType'
<1>1. c.enabled \in BOOLEAN /\ c.probe \in BOOLEAN /\ dl.running \in BOOLEAN
  BY Switches DEF DlType
<1>2. CASE c.enabled
  <2>1. dl' = [running |-> TRUE, cfg |-> Snapshot(c)] /\ probe' = c.probe
    BY <1>1, <1>2 DEF BringUp
  <2> QED BY <1>1, <1>2, <2>1 DEF Follows, DlType, Snapshot
<1>3. CASE ~c.enabled
  <2>1. dl' = dl /\ probe' = FALSE
    BY <1>1, <1>3 DEF BringUp
  <2> QED BY <1>1, <1>3, <2>1, Zenon DEF Follows, DlType, Snapshot
<1> QED BY <1>1, <1>2, <1>3

\* Steps that touch neither the controller, the probe pair, the children nor
\* what is effective, and keep a torn commit torn.
Aside ==
    /\ UNCHANGED <<effective, up, probe, dl>>
    /\ trust' # "torn" => trust # "torn"

\* Steps beside the routing of the controller keep its invariant.
LEMMA AsideKeeps ==
    ASSUME DlType, RouteInv, Aside,
           \/ pc' = pc /\ old' = old
           \/ pc \in {"idle"} \cup Stages /\ pc' \in {"idle"} \cup Stages
           \/ pc = "encoder" /\ pc' = "route" /\ old' = old
    PROVE  DlType' /\ RouteInv'
<1>1. /\ Follows(effective)' = Follows(effective)
      /\ old' = old => Follows(old)' = Follows(old)
  BY DEF Aside, Follows, Snapshot
<1>2. DlType'
  BY DEF Aside, DlType, Snapshot
<1>3. RouteInv'
  BY <1>1 DEF Aside, RouteInv, Stages
<1> QED BY <1>2, <1>3

----------------------------------------------------------------------------
(* The invariant.                                                          *)

\* A daemon that has not booted satisfies the invariant.
LEMMA InitIInv == Init => IInv
<1> SUFFICES ASSUME Init PROVE IInv
  OBVIOUS
<1>1. CfgType
  BY ConfigsAssumption DEF Init, CfgType, Valid
<1>2. DlType
  BY ConfigsAssumption DEF Init, Stopped, DlType
<1>3. PcType /\ RouteInv
  BY DEF Init, Stopped, PcType, RouteInv, Stages
<1> QED BY <1>1, <1>2, <1>3 DEF IInv

\* The configurations stay configurations and pc a step.
LEMMA NextCfgType == CfgType /\ PcType /\ [Next]_vars => CfgType' /\ PcType'
<1> SUFFICES ASSUME CfgType, PcType, [Next]_vars PROVE CfgType' /\ PcType'
  OBVIOUS
<1>1. CASE Bootstrap
  BY <1>1, Loaded DEF Bootstrap, Return, CfgType, PcType
<1>2. CASE PowerLoss
  BY <1>2 DEF PowerLoss, CfgType, PcType, config, committed
<1>3. ASSUME NEW c \in Configs, PatchPending(c) PROVE CfgType' /\ PcType'
  BY <1>3 DEF PatchPending, CfgType, PcType, Valid
<1>4. CASE Reset
  BY <1>4, ConfigsAssumption DEF Reset, CfgType, PcType, Valid
<1>5. CASE ApplyRefused
  BY <1>5 DEF ApplyRefused, CfgType, PcType, config, committed
<1>6. CASE ApplyThrows
  BY <1>6 DEF ApplyThrows, Return, CfgType, PcType
<1>7. CASE ApplyCommit
  BY <1>7 DEF ApplyCommit, Persist, CfgType, PcType
<1>8. CASE Teardown
  BY <1>8 DEF Teardown, CfgType, PcType, config, committed
<1>9. CASE Rebuild
  BY <1>9 DEF Rebuild, CfgType, PcType, config, committed, Return
<1>10. CASE RestartEncoder
  BY <1>10 DEF RestartEncoder, CfgType, PcType, config, committed
<1>11. CASE RouteController
  BY <1>11 DEF RouteController, CfgType, PcType, config, committed, Stages
<1>12. CASE PushTxPower \/ PushMtu \/ PushFec \/ PushRadio
  BY <1>12 DEF PushTxPower, PushMtu, PushFec, PushRadio, Push, CfgType, PcType, config, committed, Return, Stages
<1>13. CASE FinishApply
  BY <1>13 DEF FinishApply, CfgType, PcType, config, committed, Return
<1>14. ASSUME NEW b \in BOOLEAN, DeferredRetune(b) PROVE CfgType' /\ PcType'
  BY <1>14 DEF DeferredRetune, CfgType, PcType, config, committed
<1>15. CASE AdaptRadio \/ AdaptTxPower \/ AdaptEncoder
  BY <1>15 DEF AdaptRadio, AdaptTxPower, AdaptEncoder, CfgType, PcType, config, committed
<1>16. CASE UNCHANGED vars
  BY <1>16 DEF vars, CfgType, PcType, config, committed
<1> QED BY <1>1, <1>2, <1>3, <1>4, <1>5, <1>6, <1>7, <1>8, <1>9, <1>10, <1>11,
           <1>12, <1>13, <1>14, <1>15, <1>16 DEF Next, ApplyStep

\* Every step keeps the controller on the configuration RouteInv names.
LEMMA NextRoute == IInv /\ [Next]_vars => DlType' /\ RouteInv'
<1> SUFFICES ASSUME IInv, [Next]_vars PROVE DlType' /\ RouteInv'
  OBVIOUS
<1>a. CfgType /\ DlType /\ PcType /\ RouteInv
  BY DEF IInv
<1>1. CASE Bootstrap
  <2>1. LoadEffective \in Configs /\ effective' = LoadEffective /\ pc' = "idle" /\ ~dl.running
    BY <1>a, <1>1, Loaded DEF Bootstrap, Return, RouteInv, Valid
  <2>2. CASE BringUp(LoadEffective)
    <3>1. Follows(effective)' /\ DlType'
      BY <1>a, <2>1, <2>2, BringUpFollows
    <3>2. LoadEffective.enabled \in BOOLEAN
      BY <2>1, Switches
    <3> QED BY <2>1, <3>1, <3>2 DEF RouteInv, Follows, Stages
  <2>3. CASE UNCHANGED running /\ Fault /\ trust' = "unpushed"
    <3>1. up' = up /\ dl' = dl /\ probe' = probe
      BY <2>3 DEF running
    <3>2. ~up
      BY <1>a, <1>1 DEF RouteInv, Bootstrap
    <3>3. DlType'
      BY <1>a, <3>1 DEF DlType, Snapshot
    <3> QED BY <2>1, <3>1, <3>2, <3>3 DEF RouteInv, Stages
  <2> QED BY <1>1, <2>2, <2>3 DEF Bootstrap
<1>2. CASE PowerLoss
  <2>1. dl'.running = FALSE /\ DlType'
    BY <1>2, StoppedType DEF PowerLoss, DlType, Snapshot
  <2> QED BY <1>2, <2>1 DEF PowerLoss, RouteInv, Stages
<1>3. ASSUME NEW c \in Configs, PatchPending(c) PROVE DlType' /\ RouteInv'
  BY <1>a, <1>3, AsideKeeps DEF PatchPending, Aside, running
<1>4. CASE Reset
  BY <1>a, <1>4, AsideKeeps DEF Reset, Aside, running
<1>5. CASE ApplyRefused
  BY <1>a, <1>5, AsideKeeps DEF ApplyRefused, Aside, running, config, committed
<1>6. CASE ApplyThrows
  <2>1. dl' = dl /\ pc = "idle" /\ pc' = "idle"
    BY <1>6 DEF ApplyThrows, Return
  <2>2. CASE UNCHANGED <<effective, disk>> /\ (trust' # "torn" => trust # "torn")
    BY <1>a, <1>6, <2>2, <2>1, AsideKeeps DEF ApplyThrows, Aside
  <2>3. CASE trust' = "torn"
    BY <1>a, <2>1, <2>3 DEF RouteInv, DlType, Snapshot
  <2> QED BY <1>6, <2>2, <2>3 DEF ApplyThrows
<1>7. CASE ApplyCommit
  <2>1. /\ UNCHANGED <<up, probe, dl, trust>> /\ old' = effective /\ pc = "idle"
        /\ pc' \in {"teardown", "encoder"}
    BY <1>7 DEF ApplyCommit
  <2>2. Follows(effective) => Follows(old)'
    BY <2>1 DEF Follows, Snapshot
  <2>3. DlType'
    BY <1>a, <2>1 DEF DlType, Snapshot
  <2> QED BY <1>a, <2>1, <2>2, <2>3 DEF RouteInv, Stages
<1>8. CASE Teardown
  <2>1. /\ dl' = IF old.enabled THEN Stopped ELSE dl
        /\ pc' = "rebuild" /\ pc = "teardown" /\ trust' = trust
    BY <1>8 DEF Teardown
  <2>2. DlType' /\ (old.enabled => ~dl'.running)
    BY <1>a, <2>1, StoppedType, Zenon DEF DlType, Snapshot
  <2>3. trust # "torn" => ~dl'.running
    BY <1>a, <2>1, <2>2 DEF RouteInv
  <2>4. ~up'
    BY <1>8 DEF Teardown
  <2> QED BY <2>1, <2>2, <2>3, <2>4 DEF RouteInv, Stages
<1>9. CASE Rebuild
  <2>1. pc = "rebuild" /\ pc' = "idle" /\ effective' = effective
    BY <1>9 DEF Rebuild, config, committed, Return
  <2>2. effective \in Configs /\ effective.enabled \in BOOLEAN /\ effective.probe \in BOOLEAN
    BY <1>a, Switches, Configured
  <2>3. CASE BringUp(effective) /\ (trust' # "torn" => trust # "torn")
    <3>1. CASE ~dl.running
      <4>1. Follows(effective)' /\ DlType'
        BY <1>a, <2>1, <2>2, <2>3, <3>1, BringUpFollows
      <4> QED BY <2>1, <2>2, <4>1 DEF RouteInv, Follows, Stages
    <3>2. CASE trust' = "torn"
      <4>1. DlType'
        BY <1>a, <2>2, <2>3 DEF BringUp, DlType, Snapshot
      <4> QED BY <2>1, <3>2, <4>1 DEF RouteInv
    <3> QED BY <1>a, <2>1, <2>3, <3>1, <3>2 DEF RouteInv
  <2>4. CASE UNCHANGED running /\ (trust' # "torn" => trust # "torn")
    <3>1. up' = up /\ dl' = dl /\ probe' = probe
      BY <2>4 DEF running
    <3>2. ~up
      BY <1>a, <2>1 DEF RouteInv
    <3>3. DlType'
      BY <1>a, <3>1 DEF DlType, Snapshot
    <3> QED BY <1>a, <2>1, <2>4, <3>1, <3>2, <3>3 DEF RouteInv, Stages
  <2> QED BY <1>9, <2>3, <2>4 DEF Rebuild
<1>10. CASE RestartEncoder
  BY <1>a, <1>10, AsideKeeps DEF RestartEncoder, Aside, config, committed
<1>11. CASE RouteController
  <2>1. /\ dl' = RoutedController /\ probe' = RoutedProbe /\ UNCHANGED config
        /\ UNCHANGED <<effective, up>> /\ pc = "route" /\ pc' = "txPower"
        /\ trust' # "torn" => trust # "torn"
    BY <1>11 DEF RouteController, config, committed
  <2>2. DlType'
    BY <1>a, <2>1, StoppedType, Configured, Zenon DEF RoutedController, DlType, Snapshot
  <2>3. trust # "torn" => (dl.running => old.enabled) /\ (up => Follows(old))
    BY <1>a, <2>1 DEF RouteInv
  <2>4. trust # "torn" => (dl'.running => effective.enabled) /\ (up => Follows(effective)')
    BY <1>a, <2>1, <2>3, RoutingFollows
  <2> QED BY <2>1, <2>2, <2>4 DEF RouteInv, Stages
<1>12. CASE PushTxPower \/ PushMtu \/ PushFec \/ PushRadio
  <2>1. Aside /\ pc \in Stages /\ pc' \in {"idle"} \cup Stages
    BY <1>12 DEF PushTxPower, PushMtu, PushFec, PushRadio, Push, Aside, config, committed, Return, Stages
  <2> QED BY <1>a, <2>1, AsideKeeps
<1>13. CASE FinishApply
  BY <1>a, <1>13, AsideKeeps DEF FinishApply, Aside, config, committed, Return, Stages
<1>14. ASSUME NEW b \in BOOLEAN, DeferredRetune(b) PROVE DlType' /\ RouteInv'
  BY <1>a, <1>14, AsideKeeps DEF DeferredRetune, Aside, config, committed
<1>15. CASE AdaptRadio \/ AdaptTxPower \/ AdaptEncoder
  BY <1>a, <1>15, AsideKeeps DEF AdaptRadio, AdaptTxPower, AdaptEncoder, Aside, config, committed
<1>16. CASE UNCHANGED vars
  BY <1>a, <1>16, AsideKeeps DEF vars, Aside, config, committed, running
<1> QED BY <1>1, <1>2, <1>3, <1>4, <1>5, <1>6, <1>7, <1>8, <1>9, <1>10, <1>11,
           <1>12, <1>13, <1>14, <1>15, <1>16 DEF Next, ApplyStep

\* The invariant holds throughout.
LEMMA Invariant == Spec => []IInv
<1>1. IInv /\ [Next]_vars => IInv'
  BY NextCfgType, NextRoute DEF IInv
<1> QED BY InitIInv, <1>1, PTL DEF Spec

\* Whatever configurations are staged and applied, in whatever order, with
\* whatever failures, deferred retunes and power losses in between: once a
\* handler of the daemon is done and the children are up, the dynamic-link
\* controller runs exactly if the effective configuration enables it and
\* holds its snapshot (daemon.cpp 369-439), unless a write of waybeam.json
\* threw between the commit and the routing.
THEOREM ControllerAlwaysFollows == Spec => []ControllerFollowsConfig
<1>1. IInv => ControllerFollowsConfig
  BY DEF IInv, RouteInv, Follows, ControllerFollowsConfig
<1> QED BY <1>1, Invariant, PTL

\* The same of the probe pair: it exists exactly while dynamic link and its
\* probe are enabled (addProbeStream, removeProbeStream, seedOrchestrator).
THEOREM ProbeAlwaysFollows == Spec => []ProbeFollowsConfig
<1>1. IInv => ProbeFollowsConfig
  BY Zenon DEF IInv, RouteInv, Follows, ProbeFollowsConfig
<1> QED BY <1>1, Invariant, PTL

----------------------------------------------------------------------------
(* The file.                                                               *)

\* From bootstrap on, also in the middle of an apply, the file holds the
\* effective configuration or is gone.
DiskInv == pc # "boot" => disk \in {effective, None}

\* A power loss at any point comes back with the configuration that was
\* effective, or with the defaults after a reset (daemon.cpp 334-336, 549-554).
THEOREM DiskAlwaysEffective == Spec => []DiskIsEffective
<1>1. Init => DiskInv
  BY DEF Init, DiskInv
<1>2. DiskInv /\ [Next]_vars => DiskInv'
  <2> SUFFICES ASSUME DiskInv, [Next]_vars PROVE DiskInv'
    OBVIOUS
  <2>1. CASE Bootstrap
    BY <2>1 DEF Bootstrap, LoadEffective, DiskInv
  <2>2. CASE PowerLoss
    BY <2>2 DEF PowerLoss, DiskInv
  <2>3. ASSUME NEW c \in Configs, PatchPending(c) PROVE DiskInv'
    BY <2>3 DEF PatchPending, DiskInv
  <2>4. CASE Reset
    BY <2>4 DEF Reset, DiskInv
  <2>5. CASE ApplyRefused \/ ApplyThrows \/ ApplyCommit
    BY <2>5 DEF ApplyRefused, ApplyThrows, ApplyCommit, Persist, DiskInv, config, committed, Return
  <2>6. CASE ApplyStep
    BY <2>6 DEF ApplyStep, Teardown, Rebuild, RestartEncoder, RouteController, PushTxPower,
                PushMtu, PushFec, PushRadio, Push, FinishApply, DiskInv, config, committed, Return
  <2>7. ASSUME NEW b \in BOOLEAN, DeferredRetune(b) PROVE DiskInv'
    BY <2>7 DEF DeferredRetune, DiskInv, config, committed
  <2>8. CASE AdaptRadio \/ AdaptTxPower \/ AdaptEncoder
    BY <2>8 DEF AdaptRadio, AdaptTxPower, AdaptEncoder, DiskInv, config, committed
  <2>9. CASE UNCHANGED vars
    BY <2>9 DEF vars, DiskInv, config, committed
  <2> QED BY <2>1, <2>2, <2>3, <2>4, <2>5, <2>6, <2>7, <2>8, <2>9 DEF Next
<1>3. DiskInv => DiskIsEffective
  BY DEF DiskInv, DiskIsEffective
<1> QED BY <1>1, <1>2, <1>3, PTL DEF Spec

----------------------------------------------------------------------------
(* The type invariant.                                                     *)

\* The rest of the state, but for the deferred workers.
FlagType ==
    /\ lastOk \in BOOLEAN /\ up \in BOOLEAN /\ probe \in BOOLEAN /\ relay \in BOOLEAN
    /\ trust \in {"clean", "unpushed", "torn"}
    /\ faults \in 0 .. MaxFaults

\* An apply on the hot path that will need a worker has room for it.
DeferInv ==
    /\ deferred \in [BOOLEAN -> 0 .. MaxDeferred]
    /\ pc \in {"encoder", "route"} \cup Stages /\ NicChannel(old, effective) =>
           \A b \in BOOLEAN : deferred[b] < MaxDeferred

\* Deferring a worker keeps the count within its bound.
LEMMA OneWorkerMore ==
    ASSUME NEW d \in [BOOLEAN -> 0 .. MaxDeferred], NEW b \in BOOLEAN, d[b] < MaxDeferred
    PROVE  [d EXCEPT ![b] = @ + 1] \in [BOOLEAN -> 0 .. MaxDeferred]
BY BoundsAssumption

\* A worker that was deferred is due.
LEMMA WorkerCounts ==
    ASSUME NEW d \in [BOOLEAN -> Nat], NEW e, e = [d EXCEPT ![TRUE] = @ + 1]
    PROVE  e[TRUE] # 0
<1>1. e[TRUE] = d[TRUE] + 1 /\ d[TRUE] \in Nat
  BY Zenon
<1>2. \A n \in Nat : n + 1 # 0
  OBVIOUS
<1> QED BY <1>1, <1>2, Zenon

\* A worker that ran leaves a count within its bound.
LEMMA OneWorkerLess ==
    ASSUME NEW d \in [BOOLEAN -> 0 .. MaxDeferred], NEW b \in BOOLEAN, d[b] > 0
    PROVE  [d EXCEPT ![b] = @ - 1] \in [BOOLEAN -> 0 .. MaxDeferred]
BY BoundsAssumption

\* A fault keeps the count of faults within its bound.
LEMMA OneFaultMore == FlagType /\ Fault => faults' \in 0 .. MaxFaults
BY BoundsAssumption DEF FlagType, Fault

\* A daemon that has not booted has its types, and room for workers.
LEMMA InitTypes == Init => FlagType /\ DeferInv
<1>1. Init => FlagType
  <2>1. 0 \in 0 .. MaxFaults
    BY BoundsAssumption
  <2> QED BY <2>1, Zenon DEF Init, FlagType
<1>2. Init => DeferInv
  BY BoundsAssumption DEF Init, DeferInv, Stages
<1> QED BY <1>1, <1>2

\* No step of the daemon breaks the types of its flags and counters.
LEMMA NextFlags == CfgType /\ FlagType /\ [Next]_vars => FlagType'
<1> SUFFICES ASSUME CfgType, FlagType, [Next]_vars PROVE FlagType'
  OBVIOUS
<1>a. Fault => faults' \in 0 .. MaxFaults
  BY OneFaultMore
<1>1. CASE Bootstrap
  <2>1. (LoadEffective.enabled /\ LoadEffective.probe) \in BOOLEAN
    OBVIOUS
  <2> QED BY <1>1, <1>a, <2>1, Zenon DEF Bootstrap, BringUp, running, FlagType
<1>2. CASE PowerLoss
  BY <1>2, <1>a, Zenon DEF PowerLoss, FlagType
<1>3. ASSUME NEW c \in Configs, PatchPending(c) PROVE FlagType'
  BY <1>3 DEF PatchPending, FlagType, running
<1>4. CASE Reset
  BY <1>4 DEF Reset, FlagType, running
<1>5. CASE ApplyRefused
  BY <1>5, <1>a, Zenon DEF ApplyRefused, FlagType, running
<1>6. CASE ApplyThrows
  BY <1>6, <1>a DEF ApplyThrows, FlagType
<1>7. CASE ApplyCommit
  BY <1>7 DEF ApplyCommit, FlagType
<1>8. CASE Teardown
  BY <1>8, Zenon DEF Teardown, FlagType
<1>9. CASE Rebuild
  BY <1>9, <1>a, Zenon DEF Rebuild, BringUp, running, FlagType
<1>10. CASE RestartEncoder
  BY <1>10 DEF RestartEncoder, FlagType
<1>11. CASE RouteController
  <2>1. RoutedProbe \in BOOLEAN
    <3>1. old.probe \in BOOLEAN /\ effective.probe \in BOOLEAN
          /\ old.enabled \in BOOLEAN /\ effective.enabled \in BOOLEAN
      BY Switches, Configured
    <3> QED BY <3>1, Zenon DEF RoutedProbe, FlagType
  <2> QED BY <1>11, <1>a, <2>1 DEF RouteController, FlagType
<1>12. CASE PushTxPower \/ PushMtu \/ PushFec \/ PushRadio
  BY <1>12, <1>a, Zenon DEF PushTxPower, PushMtu, PushFec, PushRadio, Push, FlagType
<1>13. CASE FinishApply
  BY <1>13 DEF FinishApply, FlagType
<1>14. ASSUME NEW b \in BOOLEAN, DeferredRetune(b) PROVE FlagType'
  BY <1>14, <1>a, Zenon DEF DeferredRetune, FlagType
<1>15. CASE AdaptRadio \/ AdaptTxPower \/ AdaptEncoder
  BY <1>15 DEF AdaptRadio, AdaptTxPower, AdaptEncoder, FlagType
<1>16. CASE UNCHANGED vars
  BY <1>16 DEF vars, running, FlagType
<1> QED BY <1>1, <1>2, <1>3, <1>4, <1>5, <1>6, <1>7, <1>8, <1>9, <1>10, <1>11,
           <1>12, <1>13, <1>14, <1>15, <1>16 DEF Next, ApplyStep

\* An apply that will defer a worker has room for it, at every step.
LEMMA NextDefer == DeferInv /\ [Next]_vars => DeferInv'
<1> SUFFICES ASSUME DeferInv, [Next]_vars PROVE DeferInv'
  OBVIOUS
<1>a. deferred \in [BOOLEAN -> 0 .. MaxDeferred]
  BY DEF DeferInv
<1>b. ASSUME deferred' = deferred, pc' \notin {"encoder", "route"} \cup Stages PROVE DeferInv'
  BY <1>a, <1>b DEF DeferInv
<1>c. ASSUME deferred' = deferred, effective' = effective, old' = old,
             pc' \in {"encoder", "route"} \cup Stages => pc \in {"encoder", "route"} \cup Stages
      PROVE  DeferInv'
  BY <1>c DEF DeferInv, NicChannel, Differ
<1>1. CASE Bootstrap
  BY <1>1, <1>b DEF Bootstrap, Return, Stages
<1>2. CASE PowerLoss
  BY <1>2, BoundsAssumption DEF PowerLoss, DeferInv, Stages
<1>3. ASSUME NEW c \in Configs, PatchPending(c) PROVE DeferInv'
  BY <1>3, <1>c DEF PatchPending
<1>4. CASE Reset
  BY <1>4, <1>c DEF Reset
<1>5. CASE ApplyRefused
  BY <1>5, <1>c DEF ApplyRefused, config, committed
<1>6. CASE ApplyThrows
  BY <1>6, <1>b DEF ApplyThrows, Return, Stages
<1>7. CASE ApplyCommit
  <2>1. /\ old' = effective /\ effective' = pending /\ deferred' = deferred
        /\ NicChannel(effective, pending) => \A b \in BOOLEAN : deferred[b] < MaxDeferred
    BY <1>7 DEF ApplyCommit
  <2> QED BY <1>a, <2>1 DEF DeferInv, NicChannel, Differ
<1>8. CASE Teardown
  BY <1>8, <1>b DEF Teardown, Stages
<1>9. CASE Rebuild
  BY <1>9, <1>b DEF Rebuild, Return, Stages
<1>10. CASE RestartEncoder
  BY <1>10, <1>c DEF RestartEncoder, config, committed
<1>11. CASE RouteController
  BY <1>11, <1>c DEF RouteController, config, committed
<1>12. CASE PushTxPower \/ PushMtu \/ PushFec \/ PushRadio
  <2>1. deferred' = deferred /\ effective' = effective /\ pc \in Stages
        /\ (pc' = "idle" \/ (pc' \in Stages /\ old' = old))
    BY <1>12 DEF PushTxPower, PushMtu, PushFec, PushRadio, Push, Return, committed, Stages
  <2> QED BY <2>1, <1>b, <1>c DEF Stages
<1>13. CASE FinishApply
  <2> DEFINE b == old.width # effective.width
  <2>1. b \in BOOLEAN
    OBVIOUS
  <2>2. /\ pc' = "idle" /\ pc \in Stages
        /\ deferred' = IF NicChannel(old, effective)
                       THEN [deferred EXCEPT ![b] = @ + 1] ELSE deferred
    BY <1>13 DEF FinishApply, Return, Stages
  <2> HIDE DEF b
  <2>3. NicChannel(old, effective) => deferred[b] < MaxDeferred
    BY <2>1, <2>2, Zenon DEF DeferInv
  <2>4. deferred' \in [BOOLEAN -> 0 .. MaxDeferred]
    BY <1>a, <2>1, <2>2, <2>3, OneWorkerMore, Zenon
  <2> QED BY <2>2, <2>4 DEF DeferInv, Stages
<1>14. ASSUME NEW b \in BOOLEAN, DeferredRetune(b) PROVE DeferInv'
  <2>1. /\ pc = "idle" /\ pc' = pc /\ deferred[b] > 0
        /\ deferred' = [deferred EXCEPT ![b] = @ - 1]
    BY <1>14 DEF DeferredRetune
  <2>2. deferred' \in [BOOLEAN -> 0 .. MaxDeferred]
    BY <1>a, <2>1, OneWorkerLess, Zenon
  <2> QED BY <2>1, <2>2 DEF DeferInv, Stages
<1>15. CASE AdaptRadio \/ AdaptTxPower \/ AdaptEncoder
  BY <1>15, <1>c DEF AdaptRadio, AdaptTxPower, AdaptEncoder, config, committed
<1>16. CASE UNCHANGED vars
  BY <1>16, <1>c DEF vars, config, committed
<1> QED BY <1>1, <1>2, <1>3, <1>4, <1>5, <1>6, <1>7, <1>8, <1>9, <1>10, <1>11,
           <1>12, <1>13, <1>14, <1>15, <1>16 DEF Next, ApplyStep

\* What is effective, what is staged and what a restart loads always satisfies
\* validate(), through every PATCH, apply, reset, failure and power loss, and
\* the rest of the daemon's state keeps its type.
THEOREM DaemonTypes == Spec => []DaemonTypeOK
<1>1. FlagType /\ DeferInv /\ IInv /\ [Next]_vars
        => (FlagType /\ DeferInv)'
  BY NextFlags, NextDefer DEF IInv
<1>2. FlagType /\ DeferInv /\ IInv => DaemonTypeOK
  <2> SUFFICES ASSUME CfgType, FlagType, DeferInv, DlType, PcType PROVE DaemonTypeOK
    BY DEF IInv
  <2>1. {effective, pending, old} \subseteq {c \in Configs : Validate(c)}
        /\ disk \in Configs \cup {None}
    BY DEF CfgType, Valid
  <2>2. dl.running \in BOOLEAN /\ dl.cfg \in {Snapshot(c) : c \in Configs}
    BY DEF DlType
  <2>3. {lastOk, up, probe, relay, dl.running} \subseteq BOOLEAN
    BY <2>2 DEF FlagType
  <2>4. pc \in {"boot", "idle", "teardown", "rebuild", "encoder", "route",
                "txPower", "mtu", "fec", "radio", "finish"}
    BY DEF PcType, Stages
  <2> QED BY <2>1, <2>2, <2>3, <2>4, Zenon DEF DaemonTypeOK, FlagType, DeferInv
<1> QED BY <1>1, <1>2, InitTypes, Invariant, PTL DEF Spec

----------------------------------------------------------------------------
(* The static link.  What the NIC, the transmitter, the encoder and        *)
(* beamforming run with is followed separately, at each step of apply();   *)
(* every clause but the first is about a daemon on which no push failed.   *)

\* The three records keep their fields.
NicShape ==
    /\ DOMAIN nic = {"channel", "width", "txPower", "mtu"}
    /\ nic = [f \in DOMAIN nic |-> nic[f]]
AirShape ==
    /\ DOMAIN air = {"mcs", "radiotap", "width", "fec"}
    /\ air = [f \in DOMAIN air |-> air[f]]
EncShape ==
    /\ DOMAIN enc = {"bitrate", "owned", "fps", "gop", "size"}
    /\ enc = [f \in DOMAIN enc |-> enc[f]]
Shapes == NicShape /\ AirShape /\ EncShape

\* The children only fail to run after a recorded failure.
AliveInv == trust = "clean" /\ pc \notin {"boot", "rebuild"} => up

MtuInv == trust = "clean" =>
    /\ pc \in {"idle", "fec", "radio", "finish"} => nic.mtu = effective.mtu
    /\ pc \in {"teardown", "rebuild", "encoder", "route", "txPower", "mtu"} =>
           nic.mtu = old.mtu

BfInv == trust = "clean" /\ pc = "idle" => bf = BfOf(effective)

\* The encoder has c's structure, and c's bitrate if the controller is off.
ShapeIs(c) == enc.gop = c.gop /\ enc.size = c.size
EncSettled == ShapeIs(effective) /\ (~effective.enabled => enc.bitrate = effective.bitrate)

\* Before routing, the bitrate is the configured one only if the controller
\* is off on both sides of the change; a restart still has to happen.
EncBefore ==
    /\ ShapeIs(effective)
    /\ ~old.enabled /\ ~effective.enabled => enc.bitrate = effective.bitrate

EncInv == trust = "clean" =>
    /\ pc \in {"idle"} \cup Stages => EncSettled
    /\ pc = "route" => EncBefore
    /\ pc = "encoder" => EncRestart(old, effective) \/ EncBefore

RadioIs(c) ==
    air.mcs = c.mcs /\ air.radiotap = c.radiotap /\ air.width = ModulationWidth(c.width)

\* A worker still to push a width may leave the radiotap behind.
WidthDue == deferred[TRUE] # 0
Transmits(c) == air.fec = c.fec /\ (WidthDue \/ RadioIs(c))

\* Until its push, each part is the old configuration's, unless routing
\* restated it; a change of width is left to the worker of FinishApply.
AirIdle   == ~effective.enabled => Transmits(effective)
AirBefore == ~old.enabled => Transmits(old)
AirRouted == ~effective.enabled =>
    /\ old.enabled => air.fec = effective.fec /\ RadioIs(effective)
    /\ ~old.enabled => Transmits(old)
AirFec    == ~effective.enabled =>
    /\ air.fec = effective.fec
    /\ old.enabled => RadioIs(effective)
    /\ ~old.enabled => WidthDue \/ RadioIs(old)
AirPushed == ~effective.enabled =>
    /\ air.fec = effective.fec
    /\ WidthDue \/ old.width # effective.width \/ RadioIs(effective)

AirInv == trust = "clean" =>
    /\ pc = "idle" => AirIdle
    /\ pc \in {"encoder", "route"} => AirBefore
    /\ pc \in {"txPower", "mtu", "fec"} => AirRouted
    /\ pc = "radio" => AirFec
    /\ pc = "finish" => AirPushed

StaticInv == Shapes /\ AliveInv /\ MtuInv /\ BfInv /\ EncInv /\ AirInv

\* The NIC is tuned in one place at a time.
LEMMA NicTuned ==
    ASSUME NicShape, NEW v, NEW w
    PROVE  /\ nic' = [nic EXCEPT !.txPower = v] => NicShape' /\ nic'.mtu = nic.mtu
           /\ nic' = [nic EXCEPT !.mtu = v] => NicShape' /\ nic'.mtu = v
           /\ nic' = [nic EXCEPT !.channel = v, !.width = w] => NicShape' /\ nic'.mtu = nic.mtu
BY Zenon DEF NicShape

\* Setting the radio keeps FEC, and setting FEC keeps the radio.
LEMMA RadioSet ==
    ASSUME NEW c, air' = SetRadio(c)
    PROVE  /\ AirShape' /\ air'.fec = air.fec
           /\ air'.mcs = c.mcs /\ air'.radiotap = c.radiotap /\ air'.width = ModulationWidth(c.width)
BY DEF AirShape, SetRadio, AirOf

\* Setting the FEC leaves the rest of the transmitter alone.
LEMMA FecSet ==
    ASSUME AirShape, NEW v, air' = [air EXCEPT !.fec = v]
    PROVE  /\ AirShape' /\ air'.fec = v
           /\ air'.mcs = air.mcs /\ air'.radiotap = air.radiotap /\ air'.width = air.width
BY DEF AirShape

\* Pushing radio and FEC leaves the transmitter on both.
LEMMA BothSet ==
    ASSUME NEW c, NEW v, air' = [SetRadio(c) EXCEPT !.fec = v]
    PROVE  /\ AirShape' /\ air'.fec = v
           /\ air'.mcs = c.mcs /\ air'.radiotap = c.radiotap /\ air'.width = ModulationWidth(c.width)
BY Zenon DEF AirShape, SetRadio, AirOf

\* What a child starts with is what the configuration says.
LEMMA Started ==
    ASSUME NEW c
    PROVE  /\ nic' = NicOf(c) => NicShape' /\ nic'.mtu = c.mtu
           /\ air' = AirOf(c) => /\ AirShape' /\ air'.fec = c.fec /\ air'.mcs = c.mcs
                                 /\ air'.radiotap = c.radiotap
                                 /\ air'.width = ModulationWidth(c.width)
           /\ enc' = EncOf(c) => /\ EncShape' /\ enc'.gop = c.gop /\ enc'.size = c.size
                                 /\ enc'.bitrate = c.bitrate
BY DEF NicOf, AirOf, EncOf, NicShape, AirShape, EncShape

\* A daemon that has not booted satisfies StaticInv.
LEMMA InitStatic == Init => StaticInv
<1>1. Init => Shapes
  BY DEF Init, Shapes, NicShape, AirShape, EncShape, NicOf, AirOf, EncOf
<1> QED BY <1>1 DEF Init, StaticInv, AliveInv, MtuInv, BfInv, EncInv, AirInv

\* No step breaks the shape of the backends' records.
LEMMA NextShapes == Shapes /\ [Next]_vars => Shapes'
<1> SUFFICES ASSUME NicShape, AirShape, EncShape, [Next]_vars PROVE NicShape' /\ AirShape' /\ EncShape'
  BY DEF Shapes
<1>n. nic' = nic => NicShape'
  BY DEF NicShape
<1>a. air' = air => AirShape'
  BY DEF AirShape
<1>e. enc' = enc => EncShape'
  BY DEF EncShape
<1>1. CASE Bootstrap
  BY <1>1, <1>n, <1>a, <1>e, Started, Zenon DEF Bootstrap, BringUp, running
<1>2. CASE PowerLoss
  BY <1>2, <1>n, <1>a, <1>e DEF PowerLoss
<1>3. ASSUME NEW c \in Configs, PatchPending(c) PROVE NicShape' /\ AirShape' /\ EncShape'
  BY <1>3, <1>n, <1>a, <1>e DEF PatchPending, running
<1>4. CASE Reset
  BY <1>4, <1>n, <1>a, <1>e DEF Reset, running
<1>5. CASE ApplyRefused
  BY <1>5, <1>n, <1>a, <1>e DEF ApplyRefused, running
<1>6. CASE ApplyThrows \/ ApplyCommit
  <2>1. enc' = LivePushed /\ nic' = nic /\ air' = air
    BY <1>6 DEF ApplyThrows, ApplyCommit
  <2>2. EncShape'
    BY <2>1, <1>e DEF LivePushed, EncShape
  <2> QED BY <2>1, <2>2, <1>n, <1>a
<1>7. CASE Teardown
  BY <1>7, <1>n, <1>a, <1>e DEF Teardown
<1>8. CASE Rebuild
  BY <1>8, <1>n, <1>a, <1>e, Started, Zenon DEF Rebuild, BringUp, running
<1>9. CASE RestartEncoder
  BY <1>9, <1>n, <1>a, <1>e, Started, Zenon DEF RestartEncoder
<1>10. CASE RouteController
  <2>1. CASE UNCHANGED <<air, nic, enc>>
    BY <2>1, <1>n, <1>a, <1>e
  <2>2. ASSUME NEW done \in SUBSET Restated, RestateStaticLink(done)
        PROVE  NicShape' /\ AirShape' /\ EncShape'
    <3>1. NicShape'
      BY <2>2, <1>n, NicTuned, Zenon DEF RestateStaticLink
    <3>2. EncShape'
      BY <2>2 DEF RestateStaticLink, EncShape
    <3>3. \/ air' = SetRadio(effective) \/ air' = air
          \/ air' = [SetRadio(effective) EXCEPT !.fec = effective.fec]
          \/ air' = [air EXCEPT !.fec = effective.fec]
      BY <2>2 DEF RestateStaticLink
    <3> QED BY <3>1, <3>2, <3>3, <1>a, RadioSet, FecSet, BothSet, Zenon
  <2> QED BY <1>10, <2>1, <2>2 DEF RouteController
<1>11. CASE PushTxPower \/ PushMtu \/ PushFec \/ PushRadio
  <2>1. /\ enc' = enc
        /\ \/ nic' = nic \/ nic' = [nic EXCEPT !.txPower = effective.txPower]
           \/ nic' = [nic EXCEPT !.mtu = effective.mtu]
        /\ \/ air' = air \/ air' = [air EXCEPT !.fec = effective.fec]
           \/ air' = SetRadio(effective)
    BY <1>11, Zenon DEF PushTxPower, PushMtu, PushFec, PushRadio, Push
  <2> QED BY <2>1, <1>n, <1>a, <1>e, NicTuned, RadioSet, FecSet, Zenon
<1>12. CASE FinishApply
  BY <1>12, <1>n, <1>a, <1>e DEF FinishApply
<1>13. ASSUME NEW b \in BOOLEAN, DeferredRetune(b) PROVE NicShape' /\ AirShape' /\ EncShape'
  <2>1. /\ enc' = enc
        /\ nic' = nic \/ nic' = [nic EXCEPT !.channel = effective.channel, !.width = effective.width]
        /\ air' = air \/ air' = SetRadio(effective)
    BY <1>13 DEF DeferredRetune
  <2> QED BY <2>1, <1>n, <1>a, <1>e, NicTuned, RadioSet, Zenon
<1>14. CASE AdaptRadio
  BY <1>14, <1>n, <1>e DEF AdaptRadio, AirShape
<1>15. CASE AdaptTxPower
  BY <1>15, <1>a, <1>e, NicTuned, Zenon DEF AdaptTxPower
<1>16. CASE AdaptEncoder
  BY <1>16, <1>n, <1>a, Zenon DEF AdaptEncoder, EncShape
<1>17. CASE UNCHANGED vars
  BY <1>17, <1>n, <1>a, <1>e DEF vars, running
<1> QED BY <1>1, <1>2, <1>3, <1>4, <1>5, <1>6, <1>7, <1>8, <1>9, <1>10, <1>11,
           <1>12, <1>13, <1>14, <1>15, <1>16, <1>17 DEF Next, ApplyStep

\* A daemon that trusts its pushes has its children up, the interface on the
\* MTU of the step it is at, and beamforming as configured between handlers.
LEMMA NextPlain ==
    ASSUME Shapes, AliveInv, MtuInv, BfInv, [Next]_vars
    PROVE  AliveInv' /\ MtuInv' /\ BfInv'
<1> SUFFICES ASSUME trust' = "clean" PROVE AliveInv' /\ MtuInv' /\ BfInv'
  BY DEF AliveInv, MtuInv, BfInv
<1> USE DEF Stages
<1>a. NicShape
  BY DEF Shapes
<1>1. CASE Bootstrap
  <2>1. /\ pc' = "idle" /\ effective' = LoadEffective /\ up' = TRUE
        /\ nic' = NicOf(LoadEffective) /\ bf' = BfOf(LoadEffective)
    BY <1>1 DEF Bootstrap, BringUp, Return
  <2>2. nic'.mtu = LoadEffective.mtu
    BY <2>1, Started, Zenon
  <2>3. BfOf(effective)' = BfOf(LoadEffective)
    BY <2>1 DEF BfOf
  <2> QED BY <2>1, <2>2, <2>3 DEF AliveInv, MtuInv, BfInv
<1>2. CASE PowerLoss
  BY <1>2 DEF PowerLoss, AliveInv, MtuInv, BfInv
<1>3. ASSUME UNCHANGED <<effective, old, pc, up, nic, bf, trust>> PROVE AliveInv' /\ MtuInv' /\ BfInv'
  BY <1>3 DEF AliveInv, MtuInv, BfInv, BfOf
<1>4. ASSUME NEW c \in Configs, PatchPending(c) PROVE AliveInv' /\ MtuInv' /\ BfInv'
  BY <1>3, <1>4 DEF PatchPending, running
<1>5. CASE Reset \/ ApplyRefused
  BY <1>3, <1>5 DEF Reset, ApplyRefused, running, config, committed
<1>6. CASE ApplyThrows
  BY <1>6 DEF ApplyThrows
<1>7. CASE ApplyCommit
  BY <1>7 DEF ApplyCommit, AliveInv, MtuInv, BfInv
<1>8. CASE Teardown
  BY <1>8 DEF Teardown, AliveInv, MtuInv, BfInv, config, committed
<1>9. CASE Rebuild
  <2>1. /\ pc = "rebuild" /\ pc' = "idle" /\ effective' = effective /\ up' = TRUE
        /\ bf' = BfOf(effective)
        /\ nic' = IF SubsRadio(old, effective) THEN NicOf(effective) ELSE nic
        /\ ~SubsRadio(old, effective) => trust = "clean"
    BY <1>9 DEF Rebuild, BringUp, Return, committed
  <2>2. nic'.mtu = effective.mtu
    <3>1. CASE SubsRadio(old, effective)
      BY <2>1, <3>1, Started, Zenon
    <3>2. CASE ~SubsRadio(old, effective)
      <4>1. old.mtu = effective.mtu
        BY <3>2 DEF SubsRadio, Differ, LinkFields
      <4> QED BY <2>1, <3>2, <4>1 DEF MtuInv
    <3> QED BY <3>1, <3>2
  <2>3. BfOf(effective)' = BfOf(effective)
    BY <2>1 DEF BfOf
  <2> QED BY <2>1, <2>2, <2>3 DEF AliveInv, MtuInv, BfInv
<1>10. CASE RestartEncoder
  BY <1>10 DEF RestartEncoder, AliveInv, MtuInv, BfInv, config, committed
<1>11. CASE RouteController
  <2>1. /\ pc = "route" /\ pc' = "txPower" /\ UNCHANGED <<effective, old, up, bf>>
        /\ trust = "clean"
        /\ nic' = nic \/ nic' = [nic EXCEPT !.txPower = effective.txPower]
    BY <1>11 DEF RouteController, RestateStaticLink, config, committed
  <2>2. nic'.mtu = nic.mtu
    BY <2>1, <1>a, NicTuned, Zenon
  <2> QED BY <2>1, <2>2 DEF AliveInv, MtuInv, BfInv
<1>12. CASE PushTxPower
  <2>1. /\ pc = "txPower" /\ pc' = "mtu" /\ UNCHANGED <<effective, old, up, bf>>
        /\ trust = "clean"
        /\ nic' = nic \/ nic' = [nic EXCEPT !.txPower = effective.txPower]
    BY <1>12 DEF PushTxPower, Push, committed
  <2>2. nic'.mtu = nic.mtu
    BY <2>1, <1>a, NicTuned, Zenon
  <2> QED BY <2>1, <2>2 DEF AliveInv, MtuInv, BfInv
<1>13. CASE PushMtu
  <2>1. /\ pc = "mtu" /\ pc' = "fec" /\ UNCHANGED <<effective, old, up, bf>>
        /\ trust = "clean"
        /\ \/ nic' = nic /\ old.mtu = effective.mtu
           \/ nic' = [nic EXCEPT !.mtu = effective.mtu]
    BY <1>13 DEF PushMtu, Push, committed
  <2>2. nic'.mtu = effective.mtu
    <3>1. nic.mtu = old.mtu
      BY <2>1 DEF MtuInv
    <3> QED BY <2>1, <3>1, <1>a, NicTuned, Zenon
  <2> QED BY <2>1, <2>2 DEF AliveInv, MtuInv, BfInv
<1>14. CASE PushFec \/ PushRadio
  <2>1. /\ pc \in {"fec", "radio"} /\ pc' \in {"radio", "finish"}
        /\ UNCHANGED <<effective, old, up, bf, nic>> /\ trust = "clean"
    BY <1>14 DEF PushFec, PushRadio, Push, committed
  <2> QED BY <2>1 DEF AliveInv, MtuInv, BfInv
<1>15. CASE FinishApply
  BY <1>15 DEF FinishApply, Return, committed, AliveInv, MtuInv, BfInv, BfOf
<1>16. ASSUME NEW b \in BOOLEAN, DeferredRetune(b) PROVE AliveInv' /\ MtuInv' /\ BfInv'
  <2>1. /\ UNCHANGED <<effective, old, up, bf, pc>> /\ trust = "clean"
        /\ nic' = [nic EXCEPT !.channel = effective.channel, !.width = effective.width]
    BY <1>16 DEF DeferredRetune, config, committed
  <2>2. nic'.mtu = nic.mtu
    BY <2>1, <1>a, NicTuned, Zenon
  <2> QED BY <2>1, <2>2 DEF AliveInv, MtuInv, BfInv, BfOf
<1>17. CASE AdaptTxPower
  <2>1. /\ UNCHANGED <<effective, old, up, bf, pc, trust>>
        /\ nic' = [nic EXCEPT !.txPower = Adaptive]
    BY <1>17 DEF AdaptTxPower, config, committed
  <2>2. nic'.mtu = nic.mtu
    BY <2>1, <1>a, NicTuned, Zenon
  <2> QED BY <2>1, <2>2 DEF AliveInv, MtuInv, BfInv, BfOf
<1>18. CASE AdaptRadio \/ AdaptEncoder
  BY <1>3, <1>18 DEF AdaptRadio, AdaptEncoder, config, committed
<1>19. CASE UNCHANGED vars
  BY <1>3, <1>19 DEF vars, running, config, committed
<1> QED BY <1>1, <1>2, <1>4, <1>5, <1>6, <1>7, <1>8, <1>9, <1>10, <1>11, <1>12,
           <1>13, <1>14, <1>15, <1>16, <1>17, <1>18, <1>19, Zenon DEF Next, ApplyStep

\* A change that does not restart the encoder reaches it live before the
\* commit, but for the bitrate while the controller is to own it.
LEMMA LiveReaches ==
    ASSUME EncShape, enc' = LivePushed,
           ~NeedsRebuild(effective, pending), ~EncRestart(effective, pending),
           ShapeIs(effective)
    PROVE  /\ enc'.gop = pending.gop /\ enc'.size = pending.size
           /\ ~pending.enabled /\ enc.bitrate = effective.bitrate => enc'.bitrate = pending.bitrate
<1>1. effective.size = pending.size
  BY DEF EncRestart
<1>2. /\ effective.gop # pending.gop <=> "gop" \in LiveFields(effective, pending)
      /\ ~pending.enabled => (effective.bitrate # pending.bitrate
                                <=> "bitrate" \in LiveFields(effective, pending))
      /\ "size" \notin LiveFields(effective, pending)
  BY DEF LiveFields
<1> DEFINE L == LiveFields(effective, pending)
<1>3. enc' = IF L # {} THEN [f \in DOMAIN enc |-> IF f \in L THEN pending[f] ELSE enc[f]] ELSE enc
  BY DEF LivePushed, PushLive, EncLive
<1> HIDE DEF L
<1>4. /\ effective.gop # pending.gop <=> "gop" \in L
      /\ ~pending.enabled => (effective.bitrate # pending.bitrate <=> "bitrate" \in L)
      /\ "size" \notin L
  BY <1>2 DEF L
<1>5. /\ enc'.gop = IF "gop" \in L THEN pending.gop ELSE enc.gop
      /\ enc'.bitrate = IF "bitrate" \in L THEN pending.bitrate ELSE enc.bitrate
      /\ enc'.size = IF "size" \in L THEN pending.size ELSE enc.size
  BY <1>3 DEF EncShape
<1> QED BY <1>1, <1>4, <1>5 DEF ShapeIs

\* No step of an apply or of the controller breaks what is claimed of the encoder.
LEMMA NextEnc ==
    ASSUME IInv, Shapes, AliveInv, EncInv, [Next]_vars
    PROVE  EncInv'
<1> SUFFICES ASSUME trust' = "clean" PROVE EncInv'
  BY Zenon DEF EncInv
<1>a. EncShape /\ RouteInv
  BY Zenon DEF Shapes, IInv
<1>b. trust = "clean" =>
        /\ pc \in {"idle"} \cup Stages => EncSettled
        /\ pc = "route" => EncBefore
        /\ pc = "encoder" => EncRestart(old, effective) \/ EncBefore
  BY Zenon DEF EncInv
<1>c. /\ pc' \in {"idle"} \cup Stages /\ EncSettled' => EncInv'
      /\ pc' \in {"boot", "teardown", "rebuild"} => EncInv'
      /\ pc' \in {"encoder", "route"} /\ EncBefore' => EncInv'
      /\ pc' = "encoder" /\ EncRestart(old, effective)' => EncInv'
  BY DEF EncInv, Stages
<1>1. CASE Bootstrap
  <2>1. pc' = "idle" /\ effective' = LoadEffective /\ enc' = EncOf(LoadEffective)
    BY <1>1 DEF Bootstrap, BringUp, Return
  <2>2. enc'.gop = LoadEffective.gop /\ enc'.size = LoadEffective.size
        /\ enc'.bitrate = LoadEffective.bitrate
    BY <2>1, Started, Zenon
  <2>3. EncSettled'
    BY <2>1, <2>2, Zenon DEF EncSettled, ShapeIs
  <2> QED BY <1>c, <2>1, <2>3, Zenon
<1>2. CASE PowerLoss
  BY <1>c, <1>2, Zenon DEF PowerLoss
<1>3. ASSUME UNCHANGED <<effective, old, pc, enc, trust>> PROVE EncInv'
  <2>1. /\ EncSettled' = EncSettled /\ EncBefore' = EncBefore
        /\ EncRestart(old, effective)' = EncRestart(old, effective)
    BY <1>3 DEF EncSettled, EncBefore, ShapeIs, EncRestart
  <2> QED BY <1>3, <2>1, <1>b, Zenon DEF EncInv
<1>4. ASSUME NEW c \in Configs, PatchPending(c) PROVE EncInv'
  BY <1>3, <1>4, Zenon DEF PatchPending, running
<1>5. CASE Reset \/ ApplyRefused
  BY <1>3, <1>5, Zenon DEF Reset, ApplyRefused, running, config, committed
<1>6. CASE ApplyThrows
  BY <1>6 DEF ApplyThrows
<1>7. CASE ApplyCommit
  <2>1. /\ pc = "idle" /\ trust = "clean" /\ enc' = LivePushed
        /\ effective' = pending /\ old' = effective
        /\ pc' = IF NeedsRebuild(effective, pending) THEN "teardown" ELSE "encoder"
    BY <1>7, Zenon DEF ApplyCommit
  <2>2. EncSettled
    BY <1>b, <2>1, Zenon
  <2>3. CASE NeedsRebuild(effective, pending)
    BY <1>c, <2>1, <2>3, Zenon
  <2>4. CASE ~NeedsRebuild(effective, pending) /\ EncRestart(effective, pending)
    <3>1. EncRestart(old, effective)' = EncRestart(effective, pending)
      BY <2>1, Zenon DEF EncRestart
    <3> QED BY <1>c, <2>1, <2>4, <3>1, Zenon
  <2>5. CASE ~NeedsRebuild(effective, pending) /\ ~EncRestart(effective, pending)
    <3>1. /\ enc'.gop = pending.gop /\ enc'.size = pending.size
          /\ ~pending.enabled /\ enc.bitrate = effective.bitrate => enc'.bitrate = pending.bitrate
      BY <1>a, <2>1, <2>2, <2>5, LiveReaches DEF EncSettled
    <3>2. EncBefore'
      BY <2>1, <2>2, <3>1, Zenon DEF EncSettled, EncBefore, ShapeIs
    <3> QED BY <1>c, <2>1, <2>5, <3>2, Zenon
  <2> QED BY <2>3, <2>4, <2>5, Zenon
<1>8. CASE Teardown
  BY <1>c, <1>8, Zenon DEF Teardown
<1>9. CASE Rebuild
  <2>1. pc' = "idle" /\ effective' = effective /\ enc' = EncOf(effective)
    BY <1>9 DEF Rebuild, BringUp, Return, committed
  <2>2. enc'.gop = effective.gop /\ enc'.size = effective.size /\ enc'.bitrate = effective.bitrate
    BY <2>1, Started, Zenon
  <2>3. EncSettled'
    BY <2>1, <2>2, Zenon DEF EncSettled, ShapeIs
  <2> QED BY <1>c, <2>1, <2>3, Zenon
<1>10. CASE RestartEncoder
  <2>1. /\ pc = "encoder" /\ pc' = "route" /\ effective' = effective /\ old' = old
        /\ trust = "clean"
        /\ enc' = IF EncRestart(old, effective) /\ up THEN EncOf(effective) ELSE enc
    BY <1>10 DEF RestartEncoder, config, committed
  <2>2. up
    BY <2>1 DEF AliveInv
  <2>3. CASE EncRestart(old, effective)
    <3>1. enc'.gop = effective.gop /\ enc'.size = effective.size /\ enc'.bitrate = effective.bitrate
      BY <2>1, <2>2, <2>3, Started, Zenon
    <3>2. EncBefore'
      BY <2>1, <3>1, Zenon DEF EncBefore, ShapeIs
    <3> QED BY <1>c, <2>1, <3>2, Zenon
  <2>4. CASE ~EncRestart(old, effective)
    <3>1. EncBefore /\ enc' = enc
      BY <1>b, <2>1, <2>4, Zenon
    <3>2. EncBefore'
      BY <2>1, <3>1, Zenon DEF EncBefore, ShapeIs
    <3> QED BY <1>c, <2>1, <3>2, Zenon
  <2> QED BY <2>3, <2>4
<1>11. CASE RouteController
  <2>1. /\ pc = "route" /\ pc' = "txPower" /\ effective' = effective /\ old' = old
        /\ trust = "clean"
    BY <1>11 DEF RouteController, config, committed
  <2>2. EncBefore /\ pc' \in {"idle"} \cup Stages
    BY <1>b, <2>1, Zenon DEF Stages
  <2>3. CASE old.enabled /\ ~effective.enabled
    <3>1. RestateStaticLink(Restated)
      BY <1>11, <2>3, Zenon DEF RouteController
    <3>2. enc' = [enc EXCEPT !.bitrate = effective.bitrate]
      BY <3>1 DEF RestateStaticLink, Restated
    <3>3. enc'.gop = enc.gop /\ enc'.size = enc.size /\ enc'.bitrate = effective.bitrate
      BY <1>a, <3>2 DEF EncShape
    <3>4. EncSettled'
      BY <2>1, <2>2, <3>3, Zenon DEF EncBefore, EncSettled, ShapeIs
    <3> QED BY <1>c, <2>2, <3>4, Zenon
  <2>4. CASE ~(old.enabled /\ ~effective.enabled)
    <3>1. enc' = enc
      BY <1>11, <2>4, Zenon DEF RouteController
    <3>2. EncSettled'
      BY <2>1, <2>2, <2>4, <3>1, Zenon DEF EncBefore, EncSettled, ShapeIs
    <3> QED BY <1>c, <2>2, <3>2, Zenon
  <2> QED BY <2>3, <2>4, Zenon
<1>12. CASE PushTxPower \/ PushMtu \/ PushFec \/ PushRadio
  <2>1. /\ pc \in Stages /\ pc' \in Stages
        /\ UNCHANGED <<effective, old, enc>> /\ trust = "clean"
    BY <1>12 DEF PushTxPower, PushMtu, PushFec, PushRadio, Push, committed, Stages
  <2>2. EncSettled
    BY <1>b, <2>1, Zenon
  <2>3. EncSettled'
    BY <2>1, <2>2, Zenon DEF EncSettled, ShapeIs
  <2> QED BY <1>c, <2>1, <2>3, Zenon
<1>13. CASE FinishApply
  <2>1. /\ pc \in Stages /\ pc' = "idle" /\ UNCHANGED <<effective, enc, trust>>
    BY <1>13 DEF FinishApply, Return, committed, Stages
  <2>2. EncSettled
    BY <1>b, <2>1, Zenon
  <2>3. EncSettled'
    BY <2>1, <2>2, Zenon DEF EncSettled, ShapeIs
  <2> QED BY <1>c, <2>1, <2>3, Zenon
<1>14. ASSUME NEW b \in BOOLEAN, DeferredRetune(b) PROVE EncInv'
  <2>1. trust = "clean" /\ UNCHANGED <<effective, old, pc, enc>>
    BY <1>14 DEF DeferredRetune, config, committed
  <2> QED BY <1>3, <2>1
<1>15. CASE AdaptRadio \/ AdaptTxPower
  BY <1>3, <1>15, Zenon DEF AdaptRadio, AdaptTxPower, config, committed
<1>16. CASE AdaptEncoder
  <2>1. /\ dl.running /\ UNCHANGED <<effective, old, pc, trust>>
        /\ enc' = [enc EXCEPT !.bitrate = Adaptive, !.fps = dl.cfg.fps]
    BY <1>16 DEF AdaptEncoder, config, committed
  <2>2. enc'.gop = enc.gop /\ enc'.size = enc.size
    BY <1>a, <2>1 DEF EncShape
  <2>3. /\ pc \in {"idle"} \cup Stages => effective.enabled
        /\ pc \in {"encoder", "route"} => old.enabled
    BY <1>a, <2>1 DEF RouteInv, Stages
  <2>4. /\ effective.enabled /\ EncSettled => EncSettled'
        /\ old.enabled /\ EncBefore => EncBefore'
        /\ EncRestart(old, effective)' = EncRestart(old, effective)
    BY <2>1, <2>2 DEF EncSettled, EncBefore, ShapeIs, EncRestart
  <2> QED BY <1>b, <2>1, <2>3, <2>4, Zenon DEF EncInv
<1>17. CASE UNCHANGED vars
  BY <1>3, <1>17, Zenon DEF vars, running, config, committed
<1> QED BY <1>1, <1>2, <1>4, <1>5, <1>6, <1>7, <1>8, <1>9, <1>10, <1>11, <1>12,
           <1>13, <1>14, <1>15, <1>16, <1>17, Zenon DEF Next, ApplyStep

\* The transmitter.  The worker due after a change of width is the only one
\* that may leave the radiotap behind, and pushes what is effective when it
\* runs; the controller only writes where the configuration enables it.
LEMMA NextAir ==
    ASSUME IInv, Shapes, DeferInv, AirInv, [Next]_vars
    PROVE  AirInv'
<1> SUFFICES ASSUME trust' = "clean" PROVE AirInv'
  BY Zenon DEF AirInv
<1>a. AirShape /\ RouteInv
  BY Zenon DEF Shapes, IInv
<1>b. trust = "clean" =>
        /\ pc = "idle" => AirIdle
        /\ pc \in {"encoder", "route"} => AirBefore
        /\ pc \in {"txPower", "mtu", "fec"} => AirRouted
        /\ pc = "radio" => AirFec
        /\ pc = "finish" => AirPushed
  BY Zenon DEF AirInv
<1>c. /\ pc' = "idle" /\ AirIdle' => AirInv'
      /\ pc' \in {"boot", "teardown", "rebuild"} => AirInv'
      /\ pc' \in {"encoder", "route"} /\ AirBefore' => AirInv'
      /\ pc' \in {"txPower", "mtu", "fec"} /\ AirRouted' => AirInv'
      /\ pc' = "radio" /\ AirFec' => AirInv'
      /\ pc' = "finish" /\ AirPushed' => AirInv'
  BY DEF AirInv
<1>1. CASE Bootstrap
  <2>1. pc' = "idle" /\ effective' = LoadEffective /\ air' = AirOf(LoadEffective)
    BY <1>1 DEF Bootstrap, BringUp, Return
  <2>2. /\ air'.fec = LoadEffective.fec /\ air'.mcs = LoadEffective.mcs
        /\ air'.radiotap = LoadEffective.radiotap
        /\ air'.width = ModulationWidth(LoadEffective.width)
    BY <2>1, Started, Zenon
  <2>3. AirIdle'
    BY <2>1, <2>2 DEF AirIdle, Transmits, RadioIs
  <2> QED BY <1>c, <2>1, <2>3, Zenon
<1>2. CASE PowerLoss
  BY <1>c, <1>2, Zenon DEF PowerLoss
<1>3. ASSUME UNCHANGED <<effective, old, pc, air, deferred, trust>> PROVE AirInv'
  <2>1. /\ AirIdle' = AirIdle /\ AirBefore' = AirBefore /\ AirRouted' = AirRouted
        /\ AirFec' = AirFec /\ AirPushed' = AirPushed
    BY <1>3, Zenon DEF AirIdle, AirBefore, AirRouted, AirFec, AirPushed, Transmits, RadioIs, WidthDue
  <2> QED BY <1>3, <2>1, <1>b, Zenon DEF AirInv
<1>4. ASSUME NEW c \in Configs, PatchPending(c) PROVE AirInv'
  BY <1>3, <1>4, Zenon DEF PatchPending, running
<1>5. CASE Reset \/ ApplyRefused
  BY <1>3, <1>5, Zenon DEF Reset, ApplyRefused, running, config, committed
<1>6. CASE ApplyThrows
  BY <1>6 DEF ApplyThrows
<1>7. CASE ApplyCommit
  <2>1. /\ pc = "idle" /\ pc' \in {"teardown", "encoder"} /\ trust = "clean"
        /\ old' = effective /\ UNCHANGED <<air, deferred>>
    BY <1>7 DEF ApplyCommit
  <2>2. AirBefore'
    BY <1>b, <2>1, Zenon DEF AirIdle, AirBefore, Transmits, RadioIs, WidthDue
  <2> QED BY <1>c, <2>1, <2>2
<1>8. CASE Teardown
  BY <1>c, <1>8, Zenon DEF Teardown
<1>9. CASE Rebuild
  <2>1. pc' = "idle" /\ effective' = effective /\ air' = AirOf(effective)
    BY <1>9 DEF Rebuild, BringUp, Return, committed
  <2>2. /\ air'.fec = effective.fec /\ air'.mcs = effective.mcs
        /\ air'.radiotap = effective.radiotap
        /\ air'.width = ModulationWidth(effective.width)
    BY <2>1, Started, Zenon
  <2>3. AirIdle'
    BY <2>1, <2>2 DEF AirIdle, Transmits, RadioIs
  <2> QED BY <1>c, <2>1, <2>3, Zenon
<1>10. CASE RestartEncoder
  <2>1. /\ pc = "encoder" /\ pc' = "route" /\ trust = "clean"
        /\ UNCHANGED <<old, air, deferred>>
    BY <1>10 DEF RestartEncoder, config, committed
  <2>2. AirBefore'
    BY <1>b, <2>1, Zenon DEF AirBefore, Transmits, RadioIs, WidthDue
  <2> QED BY <1>c, <2>1, <2>2, Zenon
<1>11. CASE RouteController
  <2>1. /\ pc = "route" /\ pc' = "txPower" /\ effective' = effective /\ old' = old
        /\ deferred' = deferred
    BY <1>11 DEF RouteController, config, committed
  <2>2. CASE old.enabled /\ ~effective.enabled
    <3>1. RestateStaticLink(Restated)
      BY <1>11, <2>2, Zenon DEF RouteController
    <3>2. air' = [SetRadio(effective) EXCEPT !.fec = effective.fec]
      BY <3>1 DEF RestateStaticLink, Restated
    <3>3. /\ air'.fec = effective.fec /\ air'.mcs = effective.mcs
          /\ air'.radiotap = effective.radiotap
          /\ air'.width = ModulationWidth(effective.width)
      BY <3>2, BothSet, Zenon
    <3>4. AirRouted'
      BY <2>1, <2>2, <3>3 DEF AirRouted, RadioIs
    <3> QED BY <1>c, <2>1, <3>4, Zenon
  <2>3. CASE ~(old.enabled /\ ~effective.enabled)
    <3>1. trust = "clean" /\ air' = air
      BY <1>11, <2>3, Zenon DEF RouteController
    <3>2. AirRouted'
      BY <1>b, <2>1, <2>3, <3>1, Zenon DEF AirRouted, AirBefore, Transmits, RadioIs, WidthDue
    <3> QED BY <1>c, <2>1, <3>2, Zenon
  <2> QED BY <2>2, <2>3
<1>12. CASE PushTxPower \/ PushMtu
  <2>1. /\ pc \in {"txPower", "mtu"} /\ pc' \in {"mtu", "fec"} /\ trust = "clean"
        /\ UNCHANGED <<effective, old, air, deferred>>
    BY <1>12 DEF PushTxPower, PushMtu, Push, committed
  <2>2. AirRouted'
    BY <1>b, <2>1, Zenon DEF AirRouted, Transmits, RadioIs, WidthDue
  <2> QED BY <1>c, <2>1, <2>2
<1>13. CASE PushFec
  <2>1. /\ pc = "fec" /\ pc' = "radio" /\ trust = "clean"
        /\ UNCHANGED <<effective, old, deferred>>
        /\ \/ air' = air /\ (~effective.enabled => old.fec = effective.fec)
           \/ air' = [air EXCEPT !.fec = effective.fec]
    BY <1>13 DEF PushFec, Push, committed
  <2>2. AirRouted
    BY <1>b, <2>1, Zenon
  <2>3. CASE air' = [air EXCEPT !.fec = effective.fec]
    <3>1. /\ air'.fec = effective.fec /\ air'.mcs = air.mcs
          /\ air'.radiotap = air.radiotap /\ air'.width = air.width
      BY <1>a, <2>3, FecSet, Zenon
    <3> QED BY <1>c, <2>1, <2>2, <3>1, Zenon DEF AirRouted, AirFec, Transmits, RadioIs, WidthDue
  <2>4. CASE air' = air /\ (~effective.enabled => old.fec = effective.fec)
    BY <1>c, <2>1, <2>2, <2>4, Zenon DEF AirRouted, AirFec, Transmits, RadioIs, WidthDue
  <2> QED BY <2>1, <2>3, <2>4, Zenon
<1>14. CASE PushRadio
  <2>1. /\ pc = "radio" /\ pc' = "finish" /\ trust = "clean"
        /\ UNCHANGED <<effective, old, deferred>>
        /\ \/ /\ air' = air
              /\ ~effective.enabled /\ old.width = effective.width =>
                     ~VideoRadiotap(old, effective)
           \/ air' = SetRadio(effective)
    BY <1>14 DEF PushRadio, Push, committed
  <2>2. AirFec
    BY <1>b, <2>1, Zenon
  <2>3. CASE air' = SetRadio(effective)
    <3>1. /\ air'.fec = air.fec /\ air'.mcs = effective.mcs
          /\ air'.radiotap = effective.radiotap
          /\ air'.width = ModulationWidth(effective.width)
      BY <2>3, RadioSet, Zenon
    <3> QED BY <1>c, <2>1, <2>2, <3>1 DEF AirFec, AirPushed, RadioIs
  <2>4. CASE /\ air' = air
             /\ ~effective.enabled /\ old.width = effective.width =>
                    ~VideoRadiotap(old, effective)
    <3>1. ~effective.enabled /\ old.width = effective.width =>
              old.mcs = effective.mcs /\ old.radiotap = effective.radiotap
      BY <2>4 DEF VideoRadiotap, Differ
    <3> QED BY <1>c, <2>1, <2>2, <2>4, <3>1, Zenon DEF AirFec, AirPushed, RadioIs, WidthDue
  <2> QED BY <2>1, <2>3, <2>4, Zenon
<1>15. CASE FinishApply
  <2>1. /\ pc = "finish" /\ pc' = "idle" /\ UNCHANGED <<effective, air, trust>>
        /\ deferred' = IF NicChannel(old, effective)
                       THEN [deferred EXCEPT ![old.width # effective.width] = @ + 1]
                       ELSE deferred
    BY <1>15 DEF FinishApply, Return, committed
  <2>2. deferred \in [BOOLEAN -> Nat]
    BY BoundsAssumption DEF DeferInv
  <2>3. CASE old.width = effective.width
    <3>1. (old.width # effective.width) = FALSE
      BY <2>3
    <3>2. deferred' = deferred \/ deferred' = [deferred EXCEPT ![FALSE] = @ + 1]
      BY <2>1, <3>1, Zenon
    <3>3. deferred'[TRUE] = deferred[TRUE]
      BY <2>2, <3>2, Zenon
    <3> QED BY <1>b, <1>c, <2>1, <2>3, <3>3, Zenon DEF AirPushed, AirIdle, Transmits, RadioIs, WidthDue
  <2>4. CASE old.width # effective.width
    <3>1. NicChannel(old, effective) /\ (old.width # effective.width) = TRUE
      BY <2>4 DEF NicChannel, Differ
    <3>2. deferred' = [deferred EXCEPT ![TRUE] = @ + 1]
      BY <2>1, <3>1, Zenon
    <3>3. WidthDue'
      BY <2>2, <3>2, WorkerCounts, Zenon DEF WidthDue
    <3> QED BY <1>b, <1>c, <2>1, <3>3 DEF AirPushed, AirIdle, Transmits
  <2> QED BY <2>3, <2>4
<1>16. ASSUME NEW b \in BOOLEAN, DeferredRetune(b) PROVE AirInv'
  <2>1. /\ pc = "idle" /\ UNCHANGED <<effective, pc>> /\ trust = "clean"
        /\ air' = IF b THEN SetRadio(effective) ELSE air
        /\ deferred' = [deferred EXCEPT ![b] = @ - 1]
    BY <1>16 DEF DeferredRetune, config, committed
  <2>2. AirIdle
    BY <1>b, <2>1, Zenon
  <2>3. CASE b = TRUE
    <3>1. /\ air'.fec = air.fec /\ air'.mcs = effective.mcs
          /\ air'.radiotap = effective.radiotap
          /\ air'.width = ModulationWidth(effective.width)
      BY <2>1, <2>3, RadioSet, Zenon
    <3> QED BY <1>c, <2>1, <2>2, <3>1 DEF AirIdle, Transmits, RadioIs
  <2>4. CASE b = FALSE
    <3>1. air' = air
      BY <2>1, <2>4
    <3>2. deferred'[TRUE] = deferred[TRUE]
      BY <2>1, <2>4, Zenon DEF DeferInv
    <3> QED BY <1>c, <2>1, <2>2, <3>1, <3>2, Zenon DEF AirIdle, Transmits, RadioIs, WidthDue
  <2> QED BY <2>3, <2>4, Zenon
<1>17. CASE AdaptRadio
  <2>1. dl.running /\ UNCHANGED <<effective, old, pc, trust>>
    BY <1>17 DEF AdaptRadio, config, committed
  <2>2. /\ pc \in {"idle"} \cup Stages => effective.enabled
        /\ pc \in {"encoder", "route"} => old.enabled
    BY <1>a, <2>1 DEF RouteInv, Stages
  <2>3. /\ effective.enabled => AirIdle' /\ AirRouted' /\ AirFec' /\ AirPushed'
        /\ old.enabled => AirBefore'
    BY <2>1 DEF AirIdle, AirBefore, AirRouted, AirFec, AirPushed
  <2> QED BY <2>1, <2>2, <2>3 DEF AirInv, Stages
<1>18. CASE AdaptTxPower \/ AdaptEncoder
  BY <1>3, <1>18, Zenon DEF AdaptTxPower, AdaptEncoder, config, committed
<1>19. CASE UNCHANGED vars
  BY <1>3, <1>19, Zenon DEF vars, running, config, committed
<1> QED BY <1>1, <1>2, <1>4, <1>5, <1>6, <1>7, <1>8, <1>9, <1>10, <1>11, <1>12,
           <1>13, <1>14, <1>15, <1>16, <1>17, <1>18, <1>19, Zenon DEF Next, ApplyStep

\* With dynamic link off, no push failed and no worker due, the transmitter,
\* beamforming, the MTU and the encoder hold exactly the static configuration,
\* whatever the changes that led there combined: an on/off toggle with a new
\* width, FEC or bitrate, a rebuild, a worker that outlived two applies
\* (daemon.cpp: apply, restateStaticLink, the deferred channel worker).
THEOREM StaticLinkComesBack == Spec => []StaticLinkRestored
<1>1. IInv /\ DeferInv /\ StaticInv /\ [Next]_vars => StaticInv'
  BY NextShapes, NextPlain, NextEnc, NextAir DEF StaticInv
<1>2. IInv /\ StaticInv => StaticLinkRestored
  <2> SUFFICES ASSUME IInv, StaticInv, pc = "idle", up, trust = "clean", NoWorkers, ~dl.running
               PROVE  /\ air = AirOf(effective) /\ bf = BfOf(effective)
                      /\ nic.mtu = effective.mtu
                      /\ enc.bitrate = effective.bitrate /\ enc.gop = effective.gop
                      /\ enc.size = effective.size
    BY DEF StaticLinkRestored
  <2>1. ~effective.enabled
    BY DEF IInv, RouteInv, Follows
  <2>2. ~WidthDue
    BY DEF NoWorkers, WidthDue
  <2>3. air.fec = effective.fec /\ RadioIs(effective) /\ AirShape
    BY <2>1, <2>2 DEF StaticInv, AirInv, AirIdle, Transmits, Shapes
  <2>4. air = AirOf(effective)
    BY <2>3 DEF AirShape, AirOf, RadioIs
  <2>5. bf = BfOf(effective) /\ nic.mtu = effective.mtu
    BY DEF StaticInv, BfInv, MtuInv
  <2>6. ShapeIs(effective) /\ enc.bitrate = effective.bitrate
    BY <2>1, Zenon DEF StaticInv, EncInv, EncSettled
  <2> QED BY <2>4, <2>5, <2>6 DEF ShapeIs
<1>3. Spec => []DeferInv
  BY InitTypes, NextDefer, PTL DEF Spec
<1> QED BY <1>1, <1>2, <1>3, InitStatic, Invariant, PTL DEF Spec
=============================================================================
