---------------------------- MODULE DlController ----------------------------
(***************************************************************************)
(* The drone's dynamic-link controller: the poll(2) loop of                *)
(* DynamicLinkController (drone/src/dynlink/controller.cpp) with the       *)
(* pieces only its thread touches: Dedup, Watchdog, EncoderClient and      *)
(* RadioTxpower.  The ground station decides an MCS; the loop derives the  *)
(* rest from its configuration and drives four backends: wfb_tx (FEC and   *)
(* radiotap), the probe's wfb_tx, the NIC's tx power, and the encoder.     *)
(* A change of bitrate is applied in two phases separated by a gap timer,  *)
(* so that the encoder never produces more than the radio can carry.       *)
(*                                                                         *)
(* One iteration of the loop is Poll, which captures the ready descriptors *)
(* (revents) in todo, followed by one step per captured descriptor in the  *)
(* order the code looks at them: event, listen, tick, gap.  Handlers block *)
(* on sockets and child processes, so timers may expire between them.      *)
(*                                                                         *)
(* Left out: bandwidth (the dynamic link runs on 10 and 20 MHz only, whose *)
(* modulation width is the same), fps (constant per incarnation; its one   *)
(* effect is noted at EncoderApplySafe), sub-pacing, published status.     *)
(***************************************************************************)
EXTENDS Integers

CONSTANTS
    MaxMcs,      \* rungs are 0 .. MaxMcs
    Ceiling,     \* kProbeMcsCeiling
    Flags,       \* radiotap stbc/ldpc settings
    Fecs,        \* what CMD_SET_FEC carries: (k,n), or (overhead,deadline)
    Rois,        \* ROI-QP curves
    Configs,     \* the DlRuntimeConfig snapshots the daemon may hand over
    Cap,         \* Cap[m]: the video bitrate rung m can carry
    Dbm,         \* Dbm[m]: the tx power curve
    SeqMod,      \* 2^32 in the code
    MaxAge,      \* the watchdog's clock is not followed beyond this
    Outcomes,    \* how a backend command may end, see Outcome
    NoDecision,  \* Decision{}: magic is not kWireMagic
    NoValue,     \* an unset latch: lastValid_ = false, current_ = nullopt, -1
    AutoPower,   \* `iw set txpower auto`
    Statics,     \* what restateStaticLink may leave behind while stopped
    EvfdOpens    \* {TRUE}, or BOOLEAN when eventfd() may fail in start()

Mcs == 0 .. MaxMcs
FailsafeMcs == 0
Seqs == 0 .. SeqMod - 1

Rate == Nat \ {0}

Config == [flags: Flags, probe: BOOLEAN, stagger: BOOLEAN, txctl: BOOLEAN,
           timeout: Nat \ {0}, roi: Rois,
           rate: [Mcs -> Rate], fec: [Mcs -> Fecs]]

Decision == [mcs: Mcs, fec: Fecs, rate: Rate]

(***************************************************************************)
(* "ok": the backend did it and said so.  "lost": it did nothing and the   *)
(* client reports a failure.  "late": it did it, but the reply missed the  *)
(* client's deadline, so the client reports a failure.                     *)
(***************************************************************************)
Outcome == {"ok", "lost", "late"}

ASSUME McsAssumption == MaxMcs \in Nat /\ Ceiling \in Mcs

ASSUME ConfigAssumption == Configs \subseteq Config

ASSUME TableAssumption == Cap \in [Mcs -> Nat] /\ Dbm \in [Mcs -> Int]

ASSUME SeqAssumption == SeqMod \in Nat \ {0, 1} /\ MaxAge \in Nat

ASSUME OutcomeAssumption == Outcomes \subseteq Outcome /\ "ok" \in Outcomes

ASSUME NoneAssumption ==
    /\ NoDecision \notin Decision
    /\ NoValue \notin [rate: Rate, roi: Rois]
    /\ NoValue \notin Mcs
    /\ NoValue \notin Int
    /\ AutoPower \notin Int
    /\ NoValue # AutoPower

ASSUME EnvAssumption ==
    /\ Statics \subseteq [radio: [mcs: Mcs, flags: Flags], fec: Fecs,
                         power: Int \cup {AutoPower},
                         enc: [rate: Rate, roi: Rois]]
    /\ Statics # {}
    /\ EvfdOpens \in SUBSET BOOLEAN \ {{}}

(***************************************************************************)
(* minBitrateKbps is not set above what the lowest rung carries: then a    *)
(* derived bitrate always fits the rung it was derived for.                *)
(***************************************************************************)
ASSUME RateFitsRung == \A c \in Configs, m \in Mcs : c.rate[m] <= Cap[m]

VARIABLES
    phase,        \* "stopped", "running", "stopping" (stopFlag_ set)
    shared,       \* cfg_, written by start() and setConfig()
    evok,         \* start() got an eventfd
    evfd,         \* the eventfd has been written and not yet read
    cfg,          \* run()'s own copy of the configuration
    todo,         \* revents of the current poll not yet looked at
    gap,          \* the gap timerfd: "off", "armed", "expired"
    applyState,   \* "Idle", "UpGap", "DownGap"
    applyPending, \* the decision whose second phase is due
    lastTx, lastEnc, lastApplied,
    everSeq, lastSeq,              \* Dedup
    everSeen, tripped, age,        \* Watchdog; age = now - lastDecisionMs_
    encLast,      \* EncoderClient's lastBitrate_/lastRoiQp_
    probeUp,      \* probeWfbPort_ # 0
    probeLast,    \* lastProbeMcs_
    powerLast,    \* RadioTxpower's current_/auto_
    fec, radio, probe, power, enc, \* what the backends really do
    osd           \* what the OSD file shows of the controller

loopVars == <<phase, shared, evok, evfd, cfg>>
gapVars == <<gap, applyState, applyPending>>
baseVars == <<lastTx, lastEnc, lastApplied>>
dedupVars == <<everSeq, lastSeq>>
dogVars == <<everSeen, tripped, age>>
latchVars == <<encLast, probeUp, probeLast, powerLast>>
txVars == <<fec, radio, probe, power>>
vars == <<loopVars, todo, gapVars, baseVars, dedupVars, dogVars, latchVars,
          txVars, enc, osd>>

(***************************************************************************)
(* What the pieces compute.                                                *)
(***************************************************************************)
LocalCompute(c, m) == [mcs |-> m, fec |-> c.fec[m], rate |-> c.rate[m]]

\* Faulty variant: no clamp to the ceiling.
UnclampedRung(m) == m + 1

ProbeRungFor(m) == IF m + 1 < Ceiling THEN m + 1 ELSE Ceiling

\* Faulty variant: sequence numbers compared without wrap-around.
StaleUnsigned(seq) == everSeq /\ seq <= lastSeq

\* Dedup::check: the signed 32-bit difference is not positive.
IsStale(seq) ==
    /\ everSeq
    /\ LET delta == (seq - lastSeq) % SeqMod
       IN  delta = 0 \/ 2 * delta >= SeqMod

\* Faulty variant: the comparison is the wrong way round.
DirectionInverted(d) ==
    IF lastEnc = NoDecision \/ d.rate = lastEnc.rate THEN "Equal"
    ELSE IF d.rate < lastEnc.rate THEN "Up" ELSE "Down"

\* applyDirection: "Equal" also for the first decision of an epoch.
Direction(d) ==
    IF lastEnc = NoDecision \/ d.rate = lastEnc.rate THEN "Equal"
    ELSE IF d.rate > lastEnc.rate THEN "Up" ELSE "Down"

Took(o, new, old) == IF o = "lost" THEN old ELSE new
\* Faulty variant: remember the push whether or not it succeeded.
LatchedAlways(o, new, old) == new

Latched(o, new, old) == IF o = "ok" THEN new ELSE old

(***************************************************************************)
(* The encoder client: pushes on a difference, remembers what it pushed    *)
(* only when the push was acknowledged.                                    *)
(***************************************************************************)
EncoderApply(d) ==
    LET want == [rate |-> d.rate, roi |-> cfg.roi]
    IN  \/ /\ encLast = want
           /\ UNCHANGED <<enc, encLast>>
        \/ /\ encLast # want
           /\ \E o \in Outcomes :
                 /\ enc' = Took(o, want, enc)
                 /\ encLast' = Latched(o, want, encLast)

\* Unconditional.  It latches an fps of 0, which no decision carries: the
\* next EncoderApply pushes whatever it is asked for.
EncoderApplySafe(d) ==
    \E o \in Outcomes :
       /\ enc' = Took(o, [rate |-> d.rate, roi |-> cfg.roi], enc)
       /\ encLast' = Latched(o, NoValue, encLast)

(***************************************************************************)
(* RadioTxpower.  `iw` is waited for, so its outcome is never "late".      *)
(***************************************************************************)
PowerFor(d) == IF cfg.txctl THEN Dbm[d.mcs] ELSE AutoPower

RunIw(p) ==
    \E o \in Outcomes \ {"late"} :
       /\ power' = Took(o, p, power)
       /\ powerLast' = Latched(o, p, powerLast)

PowerApply(d) ==
    \/ powerLast = PowerFor(d) /\ UNCHANGED <<power, powerLast>>
    \/ powerLast # PowerFor(d) /\ RunIw(PowerFor(d))

\* applySafe is unconditional, applyAuto is not; setIface then forgets.
PowerSafe(d) ==
    /\ \/ ~ cfg.txctl /\ powerLast = AutoPower /\ UNCHANGED power
       \/ /\ cfg.txctl \/ powerLast # AutoPower
          /\ \E o \in Outcomes \ {"late"} : power' = Took(o, PowerFor(d), power)
    /\ powerLast' = NoValue

(***************************************************************************)
(* The probe's retune client: rebuilt when the configured port changed,    *)
(* and then pushed if the rung differs from the last one acknowledged      *)
(* (always, from dispatchTxSafe).                                          *)
(***************************************************************************)
KnownRung == IF cfg.probe = probeUp THEN probeLast ELSE NoValue

\* Faulty variant: retuned only together with the video's radiotap.
RetuneProbeGated(d, always) ==
    LET rung == ProbeRungFor(d.mcs)
    IN  /\ probeUp' = cfg.probe
        /\ IF cfg.probe /\ (always \/ lastTx = NoDecision \/ lastTx.mcs # d.mcs)
           THEN \E o \in Outcomes :
                   /\ probe' = Took(o, [mcs |-> rung, flags |-> cfg.flags], probe)
                   /\ probeLast' = Latched(o, rung, KnownRung)
           ELSE probe' = probe /\ probeLast' = KnownRung

RetuneProbe(d, always) ==
    LET rung == ProbeRungFor(d.mcs)
    IN  /\ probeUp' = cfg.probe
        /\ IF cfg.probe /\ (always \/ rung # KnownRung)
           THEN \E o \in Outcomes :
                   /\ probe' = Took(o, [mcs |-> rung, flags |-> cfg.flags], probe)
                   /\ probeLast' = Latched(o, rung, KnownRung)
           ELSE probe' = probe /\ probeLast' = KnownRung

\* The result of setFec and of setRadio is ignored.
SetFec(f) == \E o \in Outcomes : fec' = Took(o, f, fec)

SetRadio(c, m) ==
    \E o \in Outcomes : radio' = Took(o, [mcs |-> m, flags |-> c.flags], radio)

DispatchTxApply(d) ==
    LET first == lastTx = NoDecision
    IN  /\ IF first \/ lastTx.fec # d.fec THEN SetFec(d.fec) ELSE fec' = fec
        /\ IF first \/ lastTx.mcs # d.mcs THEN SetRadio(cfg, d.mcs) ELSE radio' = radio
        /\ RetuneProbe(d, FALSE)
        /\ PowerApply(d)
        /\ lastTx' = d

DispatchTxSafe(d) ==
    /\ SetFec(d.fec)
    /\ SetRadio(cfg, d.mcs)
    /\ RetuneProbe(d, TRUE)
    /\ PowerSafe(d)

(***************************************************************************)
(* The other threads: the daemon starts, reconfigures and stops the loop.  *)
(* stop() holds lifetimeMu_ until the thread is joined, so nothing is      *)
(* started or reconfigured while "stopping".                               *)
(***************************************************************************)
Start(c) ==
    /\ phase = "stopped"
    /\ phase' = "running"
    /\ shared' = c /\ cfg' = c
    /\ evok' \in EvfdOpens /\ evfd' = FALSE
    /\ todo' = {}
    /\ gap' = "off" /\ applyState' = "Idle" /\ applyPending' = NoDecision
    /\ lastTx' = NoDecision /\ lastEnc' = NoDecision /\ lastApplied' = NoDecision
    /\ everSeq' = FALSE /\ lastSeq' = 0
    /\ everSeen' = FALSE /\ tripped' = FALSE /\ age' = 0
    /\ encLast' = NoValue /\ powerLast' = NoValue
    /\ probeUp' = FALSE /\ probeLast' = NoValue
    /\ UNCHANGED <<txVars, enc, osd>>

SetConfig(c) ==
    /\ phase = "running"
    /\ shared' = c
    /\ evfd' = (evfd \/ evok)
    /\ UNCHANGED <<phase, evok, cfg, todo, gapVars, baseVars, dedupVars, dogVars,
                   latchVars, txVars, enc, osd>>

\* Faulty variant: the flag is set but the loop is not woken.
StopSilently ==
    /\ phase = "running"
    /\ phase' = "stopping"
    /\ UNCHANGED <<shared, evok, evfd, cfg, todo, gapVars, baseVars, dedupVars,
                   dogVars, latchVars, txVars, enc, osd>>

Stop ==
    /\ phase = "running"
    /\ phase' = "stopping"
    /\ evfd' = (evfd \/ evok)
    /\ UNCHANGED <<shared, evok, cfg, todo, gapVars, baseVars, dedupVars, dogVars,
                   latchVars, txVars, enc, osd>>

\* Daemon::restateStaticLink and the base OSD line, once the loop is joined.
RestateStatic(s) ==
    /\ phase = "stopped"
    /\ fec' = s.fec /\ radio' = s.radio /\ power' = s.power /\ enc' = s.enc
    /\ osd' = "base"
    /\ UNCHANGED <<loopVars, todo, gapVars, baseVars, dedupVars, dogVars,
                   latchVars, probe>>

(***************************************************************************)
(* Time.                                                                   *)
(***************************************************************************)
GapExpires ==
    /\ gap = "armed"
    /\ gap' = "expired"
    /\ UNCHANGED <<loopVars, todo, applyState, applyPending, baseVars, dedupVars,
                   dogVars, latchVars, txVars, enc, osd>>

Elapse ==
    /\ everSeen /\ age < MaxAge /\ phase # "stopped"
    /\ age' = age + 1
    /\ UNCHANGED <<loopVars, todo, gapVars, baseVars, dedupVars, everSeen, tripped,
                   latchVars, txVars, enc, osd>>

(***************************************************************************)
(* The loop.                                                               *)
(***************************************************************************)
Before(h) == CASE h = "event"  -> {}
               [] h = "listen" -> {"event"}
               [] h = "tick"   -> {"event", "listen"}
               [] h = "gap"    -> {"event", "listen", "tick"}

Turn(h) == phase # "stopped" /\ h \in todo /\ todo \cap Before(h) = {}

Idle == phase # "stopped" /\ todo = {}

\* When a datagram or a tick is there is up to the environment.
Poll(rx, tk) ==
    /\ Idle
    /\ todo' = (IF evfd THEN {"event"} ELSE {}) \cup (IF rx THEN {"listen"} ELSE {})
               \cup (IF tk THEN {"tick"} ELSE {})
               \cup (IF gap = "expired" THEN {"gap"} ELSE {})
    /\ todo' # {}
    /\ UNCHANGED <<loopVars, gapVars, baseVars, dedupVars, dogVars, latchVars,
                   txVars, enc, osd>>

\* stopFlag_: leave the loop; what else was ready is dropped.
OnStop ==
    /\ Turn("event") /\ phase = "stopping"
    /\ phase' = "stopped" /\ evfd' = FALSE /\ todo' = {}
    /\ gap' = "off" /\ applyState' = "Idle" /\ applyPending' = NoDecision
    /\ UNCHANGED <<shared, evok, cfg, baseVars, dedupVars, dogVars, latchVars,
                   txVars, enc, osd>>

\* The watchdog's timeout and the encoder client's curve are copies of cfg's.
OnReload ==
    /\ Turn("event") /\ phase = "running"
    /\ evfd' = FALSE /\ todo' = todo \ {"event"}
    /\ cfg' = shared
    /\ IF shared.flags # cfg.flags /\ lastTx # NoDecision /\ applyState = "Idle"
       THEN SetRadio(shared, lastTx.mcs)
       ELSE radio' = radio
    /\ UNCHANGED <<phase, shared, evok, gapVars, baseVars, dedupVars, dogVars,
                   latchVars, fec, probe, power, enc, osd>>

\* Not a decision packet, or one that does not decode: only the read happens.
OnMalformed ==
    /\ Turn("listen")
    /\ todo' = todo \ {"listen"}
    /\ UNCHANGED <<loopVars, gapVars, baseVars, dedupVars, dogVars, latchVars,
                   txVars, enc, osd>>

OnStale(seq) ==
    /\ IsStale(seq)
    /\ OnMalformed

(***************************************************************************)
(* A fresh decision supersedes a second phase that is still due.  It is    *)
(* applied at once when staggering is off (or the gap timerfd could not be *)
(* opened) or the bitrate does not change; otherwise the radio widens      *)
(* before the encoder, and the encoder throttles before the radio narrows. *)
(***************************************************************************)
\* Faulty variant: a second phase that is due survives a single shot.
SingleShotKeepsPhase(d) ==
    /\ DispatchTxApply(d)
    /\ EncoderApply(d)
    /\ lastEnc' = d
    /\ UNCHANGED gapVars

SingleShot(d) ==
    /\ DispatchTxApply(d)
    /\ EncoderApply(d)
    /\ lastEnc' = d
    /\ gap' = IF applyState = "Idle" THEN gap ELSE "off"
    /\ applyState' = "Idle" /\ applyPending' = NoDecision

PhaseOneUp(d) ==
    /\ DispatchTxApply(d)
    /\ gap' = "armed" /\ applyState' = "UpGap" /\ applyPending' = d
    /\ UNCHANGED <<lastEnc, enc, encLast>>

PhaseOneDown(d) ==
    /\ EncoderApply(d)
    /\ lastEnc' = d
    /\ gap' = "armed" /\ applyState' = "DownGap" /\ applyPending' = d
    /\ UNCHANGED <<lastTx, txVars, probeUp, probeLast, powerLast>>

OnDecision(seq, m) ==
    LET d == LocalCompute(cfg, m)
        dir == IF cfg.stagger THEN Direction(d) ELSE "Equal"
    IN  /\ Turn("listen") /\ ~ IsStale(seq)
        /\ todo' = todo \ {"listen"}
        /\ everSeq' = TRUE /\ lastSeq' = seq
        /\ \/ dir = "Equal" /\ SingleShot(d)
           \/ dir = "Up" /\ PhaseOneUp(d)
           \/ dir = "Down" /\ PhaseOneDown(d)
        /\ lastApplied' = d
        \* writeStatus is throttled, except after start().
        /\ osd' \in {"status"} \cup (IF lastApplied = NoDecision THEN {} ELSE {osd})
        /\ everSeen' = TRUE /\ tripped' = FALSE /\ age' = 0
        /\ UNCHANGED loopVars

\* Watchdog::tick.
Overdue == everSeen /\ ~ tripped /\ age >= cfg.timeout

OnTick ==
    /\ Turn("tick") /\ ~ Overdue
    /\ todo' = todo \ {"tick"}
    /\ UNCHANGED <<loopVars, gapVars, baseVars, dedupVars, dogVars, latchVars,
                   txVars, enc, osd>>

\* Faulty variant: a second phase that is due survives the trip.
OnTripKeepsPhase ==
    LET safe == LocalCompute(cfg, FailsafeMcs)
    IN  /\ Turn("tick") /\ Overdue
        /\ todo' = todo \ {"tick"}
        /\ tripped' = TRUE
        /\ DispatchTxSafe(safe)
        /\ EncoderApplySafe(safe)
        /\ osd' = "watchdog"
        /\ lastTx' = NoDecision /\ lastEnc' = NoDecision
        /\ everSeq' = FALSE
        /\ UNCHANGED <<loopVars, gapVars, lastApplied, lastSeq, everSeen, age>>

\* Faulty variant: the dedup window survives the trip.
OnTripKeepsDedup ==
    LET safe == LocalCompute(cfg, FailsafeMcs)
    IN  /\ Turn("tick") /\ Overdue
        /\ todo' = todo \ {"tick"}
        /\ tripped' = TRUE
        /\ gap' = IF applyState = "Idle" THEN gap ELSE "off"
        /\ applyState' = "Idle" /\ applyPending' = NoDecision
        /\ DispatchTxSafe(safe)
        /\ EncoderApplySafe(safe)
        /\ osd' = "watchdog"
        /\ lastTx' = NoDecision /\ lastEnc' = NoDecision
        /\ UNCHANGED <<loopVars, lastApplied, dedupVars, everSeen, age>>

OnTrip ==
    LET safe == LocalCompute(cfg, FailsafeMcs)
    IN  /\ Turn("tick") /\ Overdue
        /\ todo' = todo \ {"tick"}
        /\ tripped' = TRUE
        /\ gap' = IF applyState = "Idle" THEN gap ELSE "off"
        /\ applyState' = "Idle" /\ applyPending' = NoDecision
        /\ DispatchTxSafe(safe)
        /\ EncoderApplySafe(safe)
        /\ osd' = "watchdog"
        /\ lastTx' = NoDecision /\ lastEnc' = NoDecision
        /\ everSeq' = FALSE
        /\ UNCHANGED <<loopVars, lastApplied, lastSeq, everSeen, age>>

(***************************************************************************)
(* The gap descriptor was ready when poll returned.  The read drains it if *)
(* it is still expired; a timer re-armed since then stays armed.           *)
(***************************************************************************)
OnGap ==
    /\ Turn("gap")
    /\ todo' = todo \ {"gap"}
    /\ gap' = IF gap = "expired" THEN "off" ELSE gap
    /\ \/ /\ applyState = "UpGap"
          /\ EncoderApply(applyPending)
          /\ lastEnc' = applyPending
          /\ UNCHANGED <<lastTx, txVars, probeUp, probeLast, powerLast>>
       \/ /\ applyState = "DownGap"
          /\ DispatchTxApply(applyPending)
          /\ UNCHANGED <<lastEnc, enc, encLast>>
       \/ /\ applyState = "Idle"
          /\ UNCHANGED <<lastTx, lastEnc, latchVars, txVars, enc>>
    /\ applyState' = "Idle" /\ applyPending' = NoDecision
    /\ UNCHANGED <<loopVars, lastApplied, dedupVars, dogVars, osd>>

Loop ==
    \/ \E rx, tk \in BOOLEAN : Poll(rx, tk)
    \/ OnStop \/ OnReload
    \/ OnMalformed
    \/ \E seq \in Seqs : OnStale(seq)
    \/ \E seq \in Seqs, m \in Mcs : OnDecision(seq, m)
    \/ OnTick \/ OnTrip
    \/ OnGap

Next ==
    \/ \E c \in Configs : Start(c) \/ SetConfig(c)
    \/ Stop
    \/ \E s \in Statics : RestateStatic(s)
    \/ GapExpires \/ Elapse
    \/ Loop

Init ==
    /\ phase = "stopped"
    /\ shared \in Configs /\ cfg = shared
    /\ evok = TRUE /\ evfd = FALSE /\ todo = {}
    /\ gap = "off" /\ applyState = "Idle" /\ applyPending = NoDecision
    /\ lastTx = NoDecision /\ lastEnc = NoDecision /\ lastApplied = NoDecision
    /\ everSeq = FALSE /\ lastSeq = 0
    /\ everSeen = FALSE /\ tripped = FALSE /\ age = 0
    /\ encLast = NoValue /\ powerLast = NoValue
    /\ probeUp = FALSE /\ probeLast = NoValue
    /\ \E s \in Statics :
          /\ fec = s.fec /\ radio = s.radio /\ power = s.power /\ enc = s.enc
          /\ probe = s.radio
    /\ osd = "base"

Spec == Init /\ [][Next]_vars

\* poll(2) returns when something is ready and no handler blocks for ever.
FairSpec == Spec /\ WF_vars(Loop)

(***************************************************************************)
(* Properties.                                                             *)
(***************************************************************************)
LoopType ==
    /\ phase \in {"stopped", "running", "stopping"}
    /\ shared \in Configs /\ cfg \in Configs
    /\ evok \in BOOLEAN /\ evfd \in BOOLEAN
    /\ todo \subseteq {"event", "listen", "tick", "gap"}
    /\ gap \in {"off", "armed", "expired"}
    /\ applyState \in {"Idle", "UpGap", "DownGap"}
    /\ applyPending \in Decision \cup {NoDecision}

BaselineType ==
    /\ lastTx \in Decision \cup {NoDecision}
    /\ lastEnc \in Decision \cup {NoDecision}
    /\ lastApplied \in Decision \cup {NoDecision}
    /\ everSeq \in BOOLEAN /\ lastSeq \in Seqs
    /\ everSeen \in BOOLEAN /\ tripped \in BOOLEAN /\ age \in 0 .. MaxAge

BackendType ==
    /\ encLast \in [rate: Rate, roi: Rois] \cup {NoValue}
    /\ probeUp \in BOOLEAN /\ probeLast \in Mcs \cup {NoValue}
    /\ powerLast \in Int \cup {AutoPower, NoValue}
    /\ fec \in Fecs
    /\ radio \in [mcs: Mcs, flags: Flags] /\ probe \in [mcs: Mcs, flags: Flags]
    /\ power \in Int \cup {AutoPower}
    /\ enc \in [rate: Rate, roi: Rois]
    /\ osd \in {"base", "status", "watchdog"}

\* Every variable of the loop, of its clients and of the backends holds a value
\* of its type: in particular a rung beyond the ceiling is never pushed.
TypeOK == LoopType /\ BaselineType /\ BackendType

\* Once the loop governs the link (a decision was applied or the watchdog
\* tripped), no interleaving of decisions, reloads, gap expirations and trips
\* leaves the encoder producing more than the radio's current rung carries.
\* The staggered apply of the listen and gap handlers exists for this.
EncoderFitsRadio ==
    phase # "stopped" /\ (lastEnc # NoDecision \/ tripped)
        => enc.rate <= Cap[radio.mcs]

\* A superseded decision leaves no trace: whenever no second phase is due, the
\* radio and the encoder were both last driven by the newest accepted decision,
\* and a second phase that is due belongs to that decision.
PhasesAgree ==
    phase # "stopped" /\ lastApplied # NoDecision /\ ~ tripped =>
        /\ applyState = "Idle" => lastTx = lastApplied /\ lastEnc = lastApplied
        /\ applyState = "UpGap" => lastTx = lastApplied /\ applyPending = lastApplied
        /\ applyState = "DownGap" => lastEnc = lastApplied /\ applyPending = lastApplied

\* After a watchdog trip, until the next fresh decision, the link stays at the
\* failsafe rung: no queued second phase, stale gap expiration or reload moves
\* it; the probe is not above its rung, the OSD keeps showing the event, and the
\* dedup window and the diff baselines are forgotten, so that a restarted ground
\* station is heard and its first decision is pushed in full.
TripIsSafe ==
    tripped /\ phase # "stopped" =>
        /\ radio.mcs = FailsafeMcs
        /\ enc.rate <= Cap[FailsafeMcs]
        /\ probeUp => probe.mcs = ProbeRungFor(FailsafeMcs)
        /\ applyState = "Idle"
        /\ lastTx = NoDecision /\ lastEnc = NoDecision /\ ~ everSeq
        /\ osd = "watchdog"

\* The probe measures the rung above the one the video uses, also across the
\* two-phase apply, a hot flip of the probe and a trip.
ProbeOneAbove ==
    phase # "stopped" /\ probeUp => probe.mcs = ProbeRungFor(radio.mcs)

\* What a client remembers having pushed is what its backend does, although a
\* push may fail: EncoderClient, RadioTxpower and the probe's rung are latched
\* on success only.  A failed push is therefore tried again.
LatchesTellTruth ==
    phase # "stopped" =>
        /\ encLast # NoValue => enc = encLast
        /\ powerLast # NoValue => power = powerLast
        /\ probeLast # NoValue => probe.mcs = probeLast

\* stop() returns: the eventfd wakes the loop, which sees stopFlag_ and ends.
StopCompletes == phase = "stopping" ~> phase = "stopped"

\* "the encoder bitrate expands after the outer gap", "then narrow capacity
\* after gap": the gap handler runs a second phase only when its gap elapsed.
PhaseTwoAfterGap ==
    Turn("gap") /\ applyState # "Idle" => gap = "expired"

\* A step that accepts a decision.
Accepted == everSeq' /\ ~ IsStale(lastSeq')

\* "if non-idle, the next decision's dispatch carries the new flags": once a
\* decision has been applied in full, the radiotap carries the loop's flags.
FlagsCarried ==
    [][Accepted /\ applyState' = "Idle" => radio'.flags = cfg.flags]_vars
=============================================================================
