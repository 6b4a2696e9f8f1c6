------------------------------- MODULE Daemon -------------------------------
(***************************************************************************)
(* The drone daemon's configuration lifecycle (drone/src/daemon.cpp):      *)
(* PATCH stages a configuration in pending_, POST /apply commits it and    *)
(* drives the running system to it, POST /reset drops the file, bootstrap  *)
(* brings everything up from the file.                                     *)
(*                                                                         *)
(* apply() holds mu_ throughout, so no other handler interleaves with it;  *)
(* the dynamic-link controller's thread does, and so does a loss of power. *)
(* apply() is therefore a sequence of steps, pc naming the next one.  The  *)
(* deferred channel worker (a detached thread) needs mu_ too and runs      *)
(* between handlers, with whatever configuration is effective by then.     *)
(*                                                                         *)
(* A configuration is a record with one field for each class of settings   *)
(* that the code treats alike.  What runs is kept apart from it: the NIC,  *)
(* the video transmitter's radiotap and FEC, the encoder, beamforming, the *)
(* supervised children and the controller.  The controller is the abstract *)
(* form of DlController: while it runs it may at any time push what a      *)
(* decision implies, and every pushed value is the one value Adaptive.     *)
(* version_ (a count of successful applies) and the OSD line are left out. *)
(***************************************************************************)
EXTENDS Naturals, FiniteSets

CONSTANTS Configs,      \* the configurations a PATCH body may lead to
          Default,      \* Config{}, the code defaults
          Adaptive,     \* any value the dynamic-link controller chose
          None,         \* no configuration file
          MaxFaults,    \* bound on failures and power losses together
          MaxDeferred   \* bound on deferred workers of each kind

Fields == {"enabled", "probe", "knobs",                  \* dynamicLink.*
           "mcs", "fec", "txPower",                      \* link.*, locked
           "radiotap", "width", "channel", "mtu", "linkId", "beamforming",
           "bitrate", "owned",                           \* video.*, locked
           "fps", "gop", "size",                         \* video.*, image.*
           "tree"}                                       \* telemetry, services

\* lock.cpp kLockedPaths: what PATCH may not write under dynamic link
\* ("owned" stands for video.qpDelta and video.roi).
Locked == {"mcs", "fec", "txPower", "bitrate", "owned"}

LinkFields == {"mcs", "fec", "txPower", "radiotap", "width", "channel",
               "mtu", "linkId", "beamforming"}

ModulationWidth(w) == IF w \in {5, 10} THEN 20 ELSE w

\* validate(): the one rule that relates two of these fields.
Validate(c) == c.enabled => c.width \notin {5, 40}

ASSUME ConfigsAssumption ==
    /\ Default \in Configs /\ Validate(Default)
    /\ \A c \in Configs : /\ DOMAIN c = Fields
                          /\ c.enabled \in BOOLEAN /\ c.probe \in BOOLEAN
                          /\ c.width \in {5, 10, 20, 40}
    /\ None \notin Configs

ASSUME BoundsAssumption == MaxFaults \in Nat /\ MaxDeferred \in Nat

VARIABLES effective,   \* effective_
          pending,     \* pending_
          disk,        \* /etc/fpvd/config.json
          lastOk,      \* lastApply_.ok
          pc,          \* the next step of apply() or bootstrap(), or "idle"
          old,         \* effective_ before the apply in progress
          up,          \* the orchestrator is seeded and its children run
          probe,       \* the probe pair is among them
          relay,       \* bootstrap started the IDR relay and the OSD thread
          dl,          \* the controller: running, and its snapshot
          nic,         \* what the interface was last tuned to
          air,         \* what the video transmitter was last told
          enc,         \* what the encoder was last told
          bf,          \* what beamforming was last reconciled to
          deferred,    \* detached channel workers, by pushWidth
          trust,       \* "clean": every push since the last bring-up worked
          faults       \* failures and power losses so far

committed == <<effective, pending, disk>>
config  == <<committed, old>>
running == <<up, probe, relay, dl, nic, air, enc, bf>>
vars    == <<config, lastOk, pc, running, deferred, trust, faults>>

----------------------------------------------------------------------------
(* The diffs apply() takes between the old and the new configuration.      *)

Differ(a, b, fs) == \E f \in fs : a[f] # b[f]

\* diffSubsystems
SubsRadio(a, b)       == Differ(a, b, LinkFields)
SubsDynamicLink(a, b) == Differ(a, b, {"enabled", "probe", "knobs", "mtu", "fps"})

\* Faulty variant: a change of width alone retunes nothing.
NicChannelByChannel(a, b) == a.channel # b.channel

\* classifyLinkChange
NicChannel(a, b)    == Differ(a, b, {"channel", "width"})
VideoRadiotap(a, b) == Differ(a, b, {"mcs", "radiotap", "width"})
FullRestart(a, b)   == a.linkId # b.linkId

NeedsRebuild(a, b) == a.tree # b.tree \/ FullRestart(a, b)

\* waybeamConfigDiff: the fields pushed live, and whether waybeam restarts.
LiveFields(a, b) ==
    {f \in {"gop"} \cup (IF b.enabled THEN {} ELSE {"bitrate", "owned", "fps"}) :
        a[f] # b[f]}
EncRestart(a, b) == a.size # b.size
EncLive(a, b)    == ~EncRestart(a, b) /\ LiveFields(a, b) # {}

----------------------------------------------------------------------------
(* What the parts of the system run with under configuration c.            *)

NicOf(c) == [channel |-> c.channel, width |-> c.width,
             txPower |-> c.txPower, mtu |-> c.mtu]
AirOf(c) == [mcs |-> c.mcs, radiotap |-> c.radiotap,
             width |-> ModulationWidth(c.width), fec |-> c.fec]
EncOf(c) == [f \in {"bitrate", "owned", "fps", "gop", "size"} |-> c[f]]
BfOf(c)  == [cfg |-> c.beamforming, width |-> c.width]

\* buildDlSnapshot
Snapshot(c) == [f \in {"probe", "knobs", "radiotap", "width", "mtu", "fps"} |-> c[f]]

\* cli.setRadio leaves FEC alone.
SetRadio(c) == [AirOf(c) EXCEPT !.fec = air.fec]

\* A controller that does not run: start() replaces whatever snapshot it had.
Stopped == [running |-> FALSE, cfg |-> Snapshot(Default)]

\* A handler returns with c effective, and forgets what it started from.
Return(c) == pc' = "idle" /\ old' = c

NoWorkers == deferred = [b \in BOOLEAN |-> 0]

----------------------------------------------------------------------------
(* Init is power-on: whatever file is on disk (bootstrap refuses to start  *)
(* with an invalid one), nothing running.                                  *)

Init ==
    /\ disk \in {c \in Configs : Validate(c)} \cup {None}
    /\ effective = Default /\ pending = Default /\ old = Default
    /\ lastOk = FALSE /\ pc = "boot"
    /\ up = FALSE /\ probe = FALSE /\ relay = FALSE
    /\ dl = Stopped
    /\ nic = NicOf(Default) /\ air = AirOf(Default)
    /\ enc = EncOf(Default) /\ bf = BfOf(Default)
    /\ deferred = [b \in BOOLEAN |-> 0]
    /\ trust = "unpushed" /\ faults = 0

Fault == faults < MaxFaults /\ faults' = faults + 1

\* loadEffective: the file, or the code defaults when there is none.
LoadEffective == IF disk = None THEN Default ELSE disk

\* seedOrchestrator + startAll + reconcileBeamforming(true), and the
\* controller when dynamic link is enabled: every child starts with c.
BringUp(c) ==
    /\ up' = TRUE
    /\ probe' = (c.enabled /\ c.probe)
    /\ air' = AirOf(c) /\ enc' = EncOf(c) /\ bf' = BfOf(c)
    /\ dl' = IF c.enabled THEN [running |-> TRUE, cfg |-> Snapshot(c)] ELSE dl

Bootstrap ==
    /\ pc = "boot"
    /\ Return(LoadEffective)
    /\ effective' = LoadEffective
    /\ pending' = LoadEffective
    /\ \/ /\ nic' = NicOf(LoadEffective)
          /\ BringUp(LoadEffective)
          /\ relay' = TRUE
          /\ trust' = "clean"
          /\ UNCHANGED <<lastOk, faults>>
       \/ /\ Fault                          \* radio-up.sh failed: return
          /\ lastOk' = FALSE
          /\ trust' = "unpushed"
          /\ UNCHANGED running
    /\ UNCHANGED <<disk, deferred>>

\* A power cycle: at any point, nothing volatile survives.
PowerLoss ==
    /\ pc # "boot"
    /\ Fault
    /\ pc' = "boot" /\ old' = effective
    /\ up' = FALSE /\ probe' = FALSE /\ relay' = FALSE
    /\ dl' = Stopped
    /\ lastOk' = FALSE
    /\ deferred' = [b \in BOOLEAN |-> 0]
    /\ UNCHANGED <<committed, nic, air, enc, bf, trust>>

----------------------------------------------------------------------------
(* PATCH and reset.                                                        *)

\* checkDynamicLinkLock on the fields the body changes.
LockOk(from, to) == to.enabled => ~Differ(from, to, Locked)

\* Faulty variant: the merged configuration is not validated.
PatchUnvalidated(c) ==
    /\ pc = "idle"
    /\ LockOk(pending, c)
    /\ pending' = c
    /\ UNCHANGED <<effective, disk, old, lastOk, pc, running, deferred, trust, faults>>

PatchPending(c) ==
    /\ pc = "idle"
    /\ LockOk(pending, c) /\ Validate(c)
    /\ pending' = c
    /\ UNCHANGED <<effective, disk, old, lastOk, pc, running, deferred, trust, faults>>

Reset ==
    /\ pc = "idle"
    /\ disk' = None
    /\ pending' = Default
    /\ UNCHANGED <<effective, old, lastOk, pc, running, deferred, trust, faults>>

----------------------------------------------------------------------------
(* POST /apply, from validate to the commit.                               *)

PushLive == ~NeedsRebuild(effective, pending) /\ EncLive(effective, pending)

LivePushed ==
    IF PushLive
    THEN [f \in DOMAIN enc |->
            IF f \in LiveFields(effective, pending) THEN pending[f] ELSE enc[f]]
    ELSE enc

\* The live push failed: the apply fails with nothing changed.  It always
\* fails when waybeam does not run.
ApplyRefused ==
    /\ pc = "idle" /\ PushLive
    /\ (up => Fault) /\ (~up => UNCHANGED faults)
    /\ lastOk' = FALSE
    /\ UNCHANGED <<config, pc, running, deferred, trust>>

\* atomicWriteJson threw, out of apply(): on the configuration file, after
\* the live push, or on waybeam.json, after the commit.
ApplyThrows ==
    /\ pc = "idle" /\ (PushLive => up)
    /\ Fault
    /\ enc' = LivePushed
    /\ \/ /\ trust' = IF trust = "torn" THEN trust ELSE "unpushed"
          /\ Return(effective)
          /\ UNCHANGED <<effective, disk>>
       \/ /\ trust' = "torn"
          /\ Return(pending)
          /\ effective' = pending /\ disk' = pending
    /\ UNCHANGED <<pending, lastOk, up, probe, relay, dl, nic, air, bf, deferred>>

\* Faulty variant: the file is written from effective_ before the commit.
PersistEffective == effective

\* What atomicWriteJson puts in the configuration file.
Persist == pending

ApplyCommit ==
    /\ pc = "idle" /\ (PushLive => up)
    /\ NicChannel(effective, pending) =>
           \A b \in BOOLEAN : deferred[b] < MaxDeferred
    /\ enc' = LivePushed
    /\ disk' = Persist
    /\ effective' = pending
    /\ old' = effective
    /\ pc' = IF NeedsRebuild(effective, pending) THEN "teardown" ELSE "encoder"
    /\ UNCHANGED <<pending, lastOk, up, probe, relay, dl, nic, air, bf, deferred, trust, faults>>

----------------------------------------------------------------------------
(* The full-restart path.                                                  *)

Teardown ==
    /\ pc = "teardown"
    /\ dl' = IF old.enabled THEN Stopped ELSE dl
    /\ up' = FALSE /\ probe' = FALSE
    /\ pc' = "rebuild"
    /\ UNCHANGED <<config, lastOk, relay, nic, air, enc, bf, deferred, trust, faults>>

Rebuild ==
    /\ pc = "rebuild"
    /\ \/ /\ nic' = IF SubsRadio(old, effective) THEN NicOf(effective) ELSE nic
          /\ BringUp(effective)
          /\ UNCHANGED relay
          /\ lastOk' = TRUE
          /\ trust' = IF SubsRadio(old, effective) /\ trust # "torn"
                      THEN "clean" ELSE trust
          /\ UNCHANGED faults
       \/ /\ SubsRadio(old, effective)      \* radio-up.sh failed: return
          /\ Fault
          /\ lastOk' = FALSE
          /\ trust' = IF trust = "torn" THEN trust ELSE "unpushed"
          /\ UNCHANGED running
    /\ Return(effective)
    /\ UNCHANGED <<committed, deferred>>

----------------------------------------------------------------------------
(* The hot path.                                                           *)

\* Restart-class change: waybeam restarts and reads the rewritten file.
RestartEncoder ==
    /\ pc = "encoder"
    /\ enc' = IF EncRestart(old, effective) /\ up THEN EncOf(effective) ELSE enc
    /\ pc' = "route"
    /\ UNCHANGED <<config, lastOk, up, probe, relay, dl, nic, air, bf, deferred, trust, faults>>

\* Faulty variant: a radiotap or width change does not reach the controller.
NeedsReloadBySubtree(a, b) == SubsDynamicLink(a, b)

\* The condition under which a running controller is given a new snapshot.
NeedsReload(a, b) ==
    SubsDynamicLink(a, b) \/ VideoRadiotap(a, b) \/ a.fec # b.fec

\* Faulty variant: the probe pair is never removed.
RoutedProbeAddOnly == probe \/ (effective.enabled /\ effective.probe)

\* addProbeStream / removeProbeStream
RoutedProbe ==
    CASE ~old.enabled /\ effective.enabled -> probe \/ effective.probe
      [] old.enabled /\ ~effective.enabled -> FALSE
      [] OTHER -> IF effective.enabled /\ old.probe # effective.probe
                  THEN effective.probe ELSE probe

RoutedController ==
    CASE ~old.enabled /\ effective.enabled ->
            [running |-> TRUE, cfg |-> Snapshot(effective)]
      [] old.enabled /\ ~effective.enabled -> Stopped
      [] dl.running /\ old.enabled /\ effective.enabled /\ NeedsReload(old, effective) ->
            [dl EXCEPT !.cfg = Snapshot(effective)]
      [] OTHER -> dl

\* Faulty variant: the radiotap is not restated.
RestatedNoRadio == {"fec", "txPower", "bitrate"}

\* restateStaticLink: four best-effort pushes, of which those in done work.
Restated == {"fec", "radio", "txPower", "bitrate"}

RestateStaticLink(done) ==
    /\ done \subseteq Restated
    /\ air' = LET r == IF "radio" \in done THEN SetRadio(effective) ELSE air
              IN  IF "fec" \in done THEN [r EXCEPT !.fec = effective.fec] ELSE r
    /\ nic' = IF "txPower" \in done THEN [nic EXCEPT !.txPower = effective.txPower] ELSE nic
    /\ enc' = IF "bitrate" \in done THEN [enc EXCEPT !.bitrate = effective.bitrate] ELSE enc

RouteController ==
    /\ pc = "route"
    /\ dl' = RoutedController
    /\ probe' = RoutedProbe
    /\ IF old.enabled /\ ~effective.enabled
       THEN \E done \in SUBSET Restated :
              /\ ~up => done \subseteq {"txPower"}
              /\ RestateStaticLink(done)
              /\ IF done = Restated
                 THEN UNCHANGED <<trust, faults>>
                 ELSE /\ (up => Fault) /\ (~up => UNCHANGED faults)
                      /\ trust' = IF trust = "torn" THEN trust ELSE "unpushed"
       ELSE UNCHANGED <<air, nic, enc, trust, faults>>
    /\ pc' = "txPower"
    /\ UNCHANGED <<config, lastOk, up, relay, bf, deferred>>

\* One push of the hot path.  needed: the diff asks for it; able: the far
\* side is there; a failure returns from apply() with the commit standing.
Push(stage, next, needed, able, effect, untouched) ==
    /\ pc = stage
    /\ \/ /\ ~needed
          /\ pc' = next /\ UNCHANGED old
          /\ UNCHANGED <<lastOk, nic, air, trust, faults>>
       \/ /\ needed /\ able
          /\ pc' = next /\ UNCHANGED old
          /\ effect /\ untouched
          /\ UNCHANGED <<lastOk, trust, faults>>
       \/ /\ needed
          /\ (able => Fault) /\ (~able => UNCHANGED faults)
          /\ Return(effective)
          /\ lastOk' = FALSE
          /\ trust' = IF trust = "torn" THEN trust ELSE "unpushed"
          /\ UNCHANGED <<nic, air>>
    /\ UNCHANGED <<committed, up, probe, relay, dl, enc, bf, deferred>>

PushTxPower ==
    Push("txPower", "mtu", old.txPower # effective.txPower, TRUE,
         nic' = [nic EXCEPT !.txPower = effective.txPower], UNCHANGED air)
PushMtu ==
    Push("mtu", "fec", old.mtu # effective.mtu, TRUE,
         nic' = [nic EXCEPT !.mtu = effective.mtu], UNCHANGED air)
PushFec ==
    Push("fec", "radio", old.fec # effective.fec /\ ~effective.enabled, up,
         air' = [air EXCEPT !.fec = effective.fec], UNCHANGED nic)
PushRadio ==
    Push("radio", "finish",
         /\ VideoRadiotap(old, effective)
         /\ old.width = effective.width /\ ~effective.enabled,
         up, air' = SetRadio(effective), UNCHANGED nic)

\* reconcileBeamforming, and the deferred worker for a link-dropping change.
FinishApply ==
    /\ pc = "finish"
    /\ bf' = BfOf(effective)
    /\ deferred' = IF NicChannel(old, effective)
                   THEN [deferred EXCEPT ![old.width # effective.width] = @ + 1]
                   ELSE deferred
    /\ lastOk' = TRUE
    /\ Return(effective)
    /\ UNCHANGED <<committed, up, probe, relay, dl, nic, air, enc, trust, faults>>

\* The detached worker, 200 ms later: retune the NIC, then push the width.
DeferredRetune(pushWidth) ==
    /\ pc = "idle" /\ deferred[pushWidth] > 0
    /\ deferred' = [deferred EXCEPT ![pushWidth] = @ - 1]
    /\ \/ /\ pushWidth => up
          /\ nic' = [nic EXCEPT !.channel = effective.channel, !.width = effective.width]
          /\ air' = IF pushWidth THEN SetRadio(effective) ELSE air
          /\ UNCHANGED <<lastOk, trust, faults>>
       \/ /\ pushWidth                       \* the width push failed
          /\ (up => Fault) /\ (~up => UNCHANGED faults)
          /\ nic' = [nic EXCEPT !.channel = effective.channel, !.width = effective.width]
          /\ lastOk' = FALSE
          /\ trust' = IF trust = "torn" THEN trust ELSE "unpushed"
          /\ UNCHANGED air
       \/ /\ Fault                           \* radio-tune.sh failed
          /\ lastOk' = FALSE
          /\ trust' = IF trust = "torn" THEN trust ELSE "unpushed"
          /\ UNCHANGED <<nic, air>>
    /\ UNCHANGED <<config, pc, up, probe, relay, dl, enc, bf>>

----------------------------------------------------------------------------
(* The controller's thread, which takes no lock of the daemon: a decision  *)
(* reaches the transmitter, the NIC's power and the encoder one by one.    *)

AdaptRadio ==
    /\ dl.running /\ up
    /\ air' = [mcs |-> Adaptive, radiotap |-> dl.cfg.radiotap,
               width |-> ModulationWidth(dl.cfg.width), fec |-> Adaptive]
    /\ UNCHANGED <<config, lastOk, pc, up, probe, relay, dl, nic, enc, bf, deferred, trust, faults>>

AdaptTxPower ==
    /\ dl.running
    /\ nic' = [nic EXCEPT !.txPower = Adaptive]
    /\ UNCHANGED <<config, lastOk, pc, up, probe, relay, dl, air, enc, bf, deferred, trust, faults>>

AdaptEncoder ==
    /\ dl.running /\ up
    /\ enc' = [enc EXCEPT !.bitrate = Adaptive, !.fps = dl.cfg.fps]
    /\ UNCHANGED <<config, lastOk, pc, up, probe, relay, dl, nic, air, bf, deferred, trust, faults>>

ApplyStep ==
    \/ Teardown \/ Rebuild
    \/ RestartEncoder \/ RouteController
    \/ PushTxPower \/ PushMtu \/ PushFec \/ PushRadio \/ FinishApply

Next ==
    \/ Bootstrap \/ PowerLoss
    \/ \E c \in Configs : PatchPending(c)
    \/ Reset
    \/ ApplyRefused \/ ApplyThrows \/ ApplyCommit \/ ApplyStep
    \/ \E b \in BOOLEAN : DeferredRetune(b)
    \/ AdaptRadio \/ AdaptTxPower \/ AdaptEncoder

\* A deferred worker gets mu_ once no handler holds it any more.
Fairness == \A b \in BOOLEAN : WF_vars(DeferredRetune(b))

Spec == Init /\ [][Next]_vars
FairSpec == Spec /\ Fairness

----------------------------------------------------------------------------
(* Properties.                                                             *)

\* The types of the daemon's state; in particular what is effective and
\* what is staged is always a configuration that validate() accepts.
DaemonTypeOK ==
    /\ {effective, pending, old} \subseteq {c \in Configs : Validate(c)}
    /\ disk \in Configs \cup {None}
    /\ {lastOk, up, probe, relay, dl.running} \subseteq BOOLEAN
    /\ pc \in {"boot", "idle", "teardown", "rebuild", "encoder", "route",
               "txPower", "mtu", "fec", "radio", "finish"}
    /\ dl.cfg \in {Snapshot(c) : c \in Configs}
    /\ deferred \in [BOOLEAN -> 0 .. MaxDeferred]
    /\ trust \in {"clean", "unpushed", "torn"}
    /\ faults \in 0 .. MaxFaults

\* Between handlers, with the children up, the controller runs exactly when
\* dynamic link is enabled, and holds the snapshot of the effective
\* configuration.  A failed push does not matter here, since apply() routes
\* the controller before it pushes (daemon.cpp 417-439); only an exception
\* between the commit and the routing does.
ControllerFollowsConfig ==
    (pc = "idle" /\ up /\ trust # "torn") =>
        /\ dl.running = effective.enabled
        /\ dl.running => dl.cfg = Snapshot(effective)

\* Under the same conditions the probe pair is among the children exactly
\* when dynamic link and its probe are both enabled, whichever path of
\* apply() (rebuild, start, stop or hot reload) got there.
ProbeFollowsConfig ==
    (pc = "idle" /\ up /\ trust # "torn") =>
        (probe <=> effective.enabled /\ effective.probe)

\* When dynamic link is off, no push has failed and no worker is due, what
\* is on the air and in the encoder is the static configuration: nothing of
\* the controller's adaptive values is left, and no change that was staged,
\* in whatever combination with an on/off toggle, got lost (restateStaticLink,
\* the hot pushes and the deferred worker together).  The NIC's channel is
\* the subject of ChannelSettles; the transmit power and the encoder's fps,
\* qpDelta and ROI shape are not restored.
StaticLinkRestored ==
    (pc = "idle" /\ up /\ trust = "clean" /\ NoWorkers /\ ~dl.running) =>
        /\ air = AirOf(effective)
        /\ bf = BfOf(effective)
        /\ nic.mtu = effective.mtu
        /\ <<enc.bitrate, enc.gop, enc.size>>
              = <<effective.bitrate, effective.gop, effective.size>>

\* The file never holds anything but the effective configuration between
\* handlers, whatever failed: a power loss comes back with what was running,
\* or with the defaults after a reset.
DiskIsEffective == pc = "idle" => disk \in {effective, None}

\* Once applies stop, the NIC ends on the effective channel and width, or a
\* failure has been recorded: no deferred worker is lost or overtaken.
ChannelSettles ==
    <>[](pc = "idle") =>
        <>[](\/ trust # "clean"
             \/ nic.channel = effective.channel /\ nic.width = effective.width)

----------------------------------------------------------------------------
(* Claims of the code and its documentation that it does not keep.         *)

\* "On radio bring-up failure below, the controller stays stopped [...]; the
\* operator retries POST /apply" (daemon.cpp 374-375): on a daemon that
\* came up, an apply that reports success leaves the children running.
RetryRecovers == (pc = "idle" /\ relay /\ lastOk) => up

\* restateStaticLink reverts the link after dynamic link is disabled,
\* "instead of staying at the controller's last adaptive values"
\* (daemon.hpp 118-121): with dynamic link off and nothing failed, the
\* transmit power is the configured one.
TxPowerRestored ==
    (pc = "idle" /\ up /\ trust = "clean" /\ ~dl.running) =>
        nic.txPower = effective.txPower

\* "the controller is the sole writer of the video radiotap there"
\* (daemon.cpp 481-482): while it runs, no step of the daemon replaces the
\* controller's MCS by the configured one.
SoleWriter ==
    [][(dl.running /\ dl'.running /\ up /\ up' /\ air.mcs = Adaptive)
          => air'.mcs = Adaptive]_vars
=============================================================================
