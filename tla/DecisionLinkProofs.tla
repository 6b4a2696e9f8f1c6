------------------------- MODULE DecisionLinkProofs -------------------------
(***************************************************************************)
(* Proofs about the drone's side of the adaptive link and about the loop   *)
(* closed over the air, for every ladder of rungs, every set of            *)
(* configurations and every numbering of the decisions.                    *)
(*                                                                         *)
(* First about DlController whatever becomes of the commands to its        *)
(* backends: type correctness, what the two-phase apply asks of the radio  *)
(* and the encoder, and what the latching clients remember.                *)
(*                                                                         *)
(* Then about DlController when no command to a backend is lost: the       *)
(* encoder never outruns the radio, a trip holds the failsafe rung, and    *)
(* the probe stays one rung above the video.                               *)
(*                                                                         *)
(* Then about DecisionLink, the loop closed over the air: it implements    *)
(* DlController, so all that is proved of DlController holds in it, and    *)
(* the drone is never deaf for longer than its watchdog allows.            *)
(***************************************************************************)
EXTENDS DecisionLink, TLAPS

(***************************************************************************)
(* Type correctness.                                                       *)
(***************************************************************************)
\* What the drone derives from a rung is a decision, and fits that rung.
LEMMA LocalComputeFits ==
  ASSUME NEW c \in Configs, NEW m \in Mcs
  PROVE  /\ LocalCompute(c, m) \in Decision
         /\ LocalCompute(c, m).mcs = m
         /\ LocalCompute(c, m).rate <= Cap[m]
  BY ConfigAssumption, RateFitsRung DEF LocalCompute, Decision, Config

\* The rung above a rung, or the ceiling, is a rung.
LEMMA ProbeRungType ==
  ASSUME NEW m \in Mcs
  PROVE  ProbeRungFor(m) \in Mcs
  BY McsAssumption DEF ProbeRungFor, Mcs

\* The probe's client keeps its types, whatever becomes of the push.
LEMMA RetuneProbeType ==
  ASSUME TypeOK, NEW d \in Decision, NEW always \in BOOLEAN, RetuneProbe(d, always)
  PROVE  /\ probeUp' \in BOOLEAN
         /\ probeLast' \in Mcs \cup {NoValue}
         /\ probe' \in [mcs: Mcs, flags: Flags]
  <1>1. cfg \in Config /\ d.mcs \in Mcs
    BY ConfigAssumption DEF TypeOK, LoopType, BaselineType, BackendType, Decision
  <1>2. ProbeRungFor(d.mcs) \in Mcs
    BY <1>1, ProbeRungType
  <1>3. KnownRung \in Mcs \cup {NoValue}
    BY DEF KnownRung, TypeOK, LoopType, BaselineType, BackendType
  <1> QED
    BY <1>1, <1>2, <1>3 DEF RetuneProbe, Took, Latched, TypeOK, LoopType, BaselineType, BackendType, Config

\* The power derived for a decision is a power or automatic.
LEMMA PowerForType ==
  ASSUME TypeOK, NEW d \in Decision
  PROVE  PowerFor(d) \in Int \cup {AutoPower}
  BY TableAssumption DEF PowerFor, TypeOK, LoopType, BaselineType, BackendType, Decision

\* dispatchTx leaves the transmitter's side within its types.
LEMMA DispatchType ==
  ASSUME TypeOK, NEW d \in Decision, DispatchTxApply(d)
  PROVE  /\ lastTx' = d
         /\ fec' \in Fecs
         /\ radio' \in [mcs: Mcs, flags: Flags]
         /\ probeUp' \in BOOLEAN
         /\ probeLast' \in Mcs \cup {NoValue}
         /\ probe' \in [mcs: Mcs, flags: Flags]
         /\ power' \in Int \cup {AutoPower}
         /\ powerLast' \in Int \cup {AutoPower, NoValue}
  <1>1. cfg \in Config /\ d.mcs \in Mcs /\ d.fec \in Fecs
    BY ConfigAssumption DEF TypeOK, LoopType, BaselineType, BackendType, Decision
  <1>2. fec' \in Fecs
    BY <1>1 DEF DispatchTxApply, SetFec, Took, TypeOK, LoopType, BaselineType, BackendType
  <1>3. radio' \in [mcs: Mcs, flags: Flags]
    BY <1>1 DEF DispatchTxApply, SetRadio, Took, TypeOK, LoopType, BaselineType, BackendType, Config
  <1>4. RetuneProbe(d, FALSE) /\ PowerApply(d) /\ lastTx' = d
    BY Zenon DEF DispatchTxApply
  <1>5. power' \in Int \cup {AutoPower} /\ powerLast' \in Int \cup {AutoPower, NoValue}
    BY <1>4, PowerForType DEF PowerApply, RunIw, Took, Latched, TypeOK, LoopType, BaselineType, BackendType
  <1> QED
    BY <1>2, <1>3, <1>4, <1>5, RetuneProbeType, Zenon

\* The failsafe dispatch of a trip does the same.
LEMMA DispatchSafeType ==
  ASSUME TypeOK, NEW d \in Decision, DispatchTxSafe(d)
  PROVE  /\ fec' \in Fecs
         /\ radio' \in [mcs: Mcs, flags: Flags]
         /\ probeUp' \in BOOLEAN
         /\ probeLast' \in Mcs \cup {NoValue}
         /\ probe' \in [mcs: Mcs, flags: Flags]
         /\ power' \in Int \cup {AutoPower}
         /\ powerLast' \in Int \cup {AutoPower, NoValue}
  <1>1. cfg \in Config /\ d.mcs \in Mcs /\ d.fec \in Fecs
    BY ConfigAssumption DEF TypeOK, LoopType, BaselineType, BackendType, Decision
  <1>2. fec' \in Fecs
    BY <1>1 DEF DispatchTxSafe, SetFec, Took, TypeOK, LoopType, BaselineType, BackendType
  <1>3. radio' \in [mcs: Mcs, flags: Flags]
    BY <1>1 DEF DispatchTxSafe, SetRadio, Took, TypeOK, LoopType, BaselineType, BackendType, Config
  <1>4. RetuneProbe(d, TRUE) /\ PowerSafe(d)
    BY Zenon DEF DispatchTxSafe
  <1>5. power' \in Int \cup {AutoPower} /\ powerLast' \in Int \cup {AutoPower, NoValue}
    BY <1>4, PowerForType DEF PowerSafe, Took, TypeOK, LoopType, BaselineType, BackendType
  <1> QED
    BY <1>2, <1>3, <1>4, <1>5, RetuneProbeType, Zenon

\* The encoder's client leaves encoder and latch within their types.
LEMMA EncoderType ==
  ASSUME TypeOK, NEW d \in Decision, EncoderApply(d) \/ EncoderApplySafe(d)
  PROVE  /\ enc' \in [rate: Rate, roi: Rois]
         /\ encLast' \in [rate: Rate, roi: Rois] \cup {NoValue}
  <1>1. cfg.roi \in Rois /\ d.rate \in Rate
    BY ConfigAssumption DEF TypeOK, LoopType, BaselineType, BackendType, Decision, Config
  <1> QED
    BY <1>1 DEF EncoderApply, EncoderApplySafe, Took, Latched, TypeOK, LoopType, BaselineType, BackendType

\* Zero is a sequence number and an age.
LEMMA ZeroTypes == 0 \in Seqs /\ 0 \in 0 .. MaxAge
  BY SeqAssumption DEF Seqs

\* A controller that was not started has its types.
LEMMA InitType == Init => TypeOK
  <1> SUFFICES ASSUME Init PROVE TypeOK
    OBVIOUS
  <1>1. PICK s \in Statics :
           /\ fec = s.fec /\ radio = s.radio /\ power = s.power /\ enc = s.enc
           /\ probe = s.radio
    BY DEF Init
  <1>2. /\ s.fec \in Fecs /\ s.radio \in [mcs: Mcs, flags: Flags]
        /\ s.power \in Int \cup {AutoPower} /\ s.enc \in [rate: Rate, roi: Rois]
    BY EnvAssumption
  <1> QED
    BY <1>1, <1>2, ZeroTypes, Zenon DEF Init, TypeOK, LoopType, BaselineType, BackendType

\* The control side: lifecycle, timers, poll and the handlers that drop.
LEMMA ControlType ==
  ASSUME TypeOK,
         \/ \E c \in Configs : Start(c) \/ SetConfig(c)
         \/ Stop \/ \E s \in Statics : RestateStatic(s)
         \/ GapExpires \/ Elapse
         \/ \E rx, tk \in BOOLEAN : Poll(rx, tk)
         \/ OnStop \/ OnReload \/ OnMalformed \/ OnTick
  PROVE  TypeOK'
  <1>1. ASSUME NEW c \in Configs, Start(c) PROVE TypeOK'
    BY <1>1, ZeroTypes, EnvAssumption, Zenon DEF TypeOK, LoopType, BaselineType, BackendType, Start, txVars
  <1>2. ASSUME NEW c \in Configs, SetConfig(c) PROVE TypeOK'
    BY <1>2 DEF TypeOK, LoopType, BaselineType, BackendType, SetConfig, gapVars, baseVars, dedupVars, dogVars, latchVars, txVars
  <1>3. CASE Stop
    BY <1>3 DEF TypeOK, LoopType, BaselineType, BackendType, Stop, gapVars, baseVars, dedupVars, dogVars, latchVars, txVars
  <1>4. ASSUME NEW s \in Statics, RestateStatic(s) PROVE TypeOK'
    <2>1. /\ s.fec \in Fecs /\ s.radio \in [mcs: Mcs, flags: Flags]
          /\ s.power \in Int \cup {AutoPower} /\ s.enc \in [rate: Rate, roi: Rois]
      BY EnvAssumption
    <2> QED
      BY <1>4, <2>1 DEF TypeOK, LoopType, BaselineType, BackendType, RestateStatic, loopVars, gapVars, baseVars, dedupVars,
                        dogVars, latchVars
  <1>5. CASE GapExpires
    BY <1>5 DEF TypeOK, LoopType, BaselineType, BackendType, GapExpires, loopVars, baseVars, dedupVars, dogVars, latchVars, txVars
  <1>6. CASE Elapse
    <2>1. age' \in 0 .. MaxAge
      BY <1>6, SeqAssumption DEF TypeOK, LoopType, BaselineType, BackendType, Elapse
    <2> QED
      BY <1>6, <2>1 DEF TypeOK, LoopType, BaselineType, BackendType, Elapse, loopVars, gapVars, baseVars, dedupVars,
                        latchVars, txVars
  <1>7. ASSUME NEW rx \in BOOLEAN, NEW tk \in BOOLEAN, Poll(rx, tk) PROVE TypeOK'
    BY <1>7 DEF TypeOK, LoopType, BaselineType, BackendType, Poll, loopVars, gapVars, baseVars, dedupVars, dogVars, latchVars, txVars
  <1>8. CASE OnStop
    <2>1. todo' \subseteq {"event", "listen", "tick", "gap"} /\ evfd' \in BOOLEAN
      BY <1>8, Zenon DEF OnStop
    <2> QED
      BY <1>8, <2>1 DEF TypeOK, LoopType, BaselineType, BackendType, OnStop, baseVars, dedupVars, dogVars, latchVars, txVars
  <1>9. CASE OnReload
    <2>1. shared \in Config
      BY ConfigAssumption DEF TypeOK, LoopType, BaselineType, BackendType
    <2>2. radio' \in [mcs: Mcs, flags: Flags]
      BY <1>9, <2>1 DEF TypeOK, LoopType, BaselineType, BackendType, OnReload, SetRadio, Took, Config, Decision
    <2>3. todo' \subseteq {"event", "listen", "tick", "gap"} /\ evfd' \in BOOLEAN
      BY <1>9, Zenon DEF OnReload, TypeOK, LoopType, BaselineType, BackendType
    <2> QED
      BY <1>9, <2>2, <2>3 DEF TypeOK, LoopType, BaselineType, BackendType, OnReload, gapVars, baseVars, dedupVars, dogVars, latchVars
  <1>10. CASE OnMalformed
    BY <1>10 DEF TypeOK, LoopType, BaselineType, BackendType, OnMalformed, loopVars, gapVars, baseVars, dedupVars, dogVars,
                 latchVars, txVars
  <1>11. CASE OnTick
    BY <1>11 DEF TypeOK, LoopType, BaselineType, BackendType, OnTick, loopVars, gapVars, baseVars, dedupVars, dogVars,
                 latchVars, txVars
  <1> QED
    BY <1>1, <1>2, <1>3, <1>4, <1>5, <1>6, <1>7, <1>8, <1>9, <1>10, <1>11

\* Handling a fresh decision keeps the types.
LEMMA DecisionStepType ==
  ASSUME TypeOK, NEW seq \in Seqs, NEW m \in Mcs, OnDecision(seq, m)
  PROVE  TypeOK'
  <1> DEFINE d == LocalCompute(cfg, m)
  <1>1. d \in Decision
    BY LocalComputeFits DEF TypeOK, LoopType, BaselineType, BackendType
  <1>2. /\ todo' \subseteq todo /\ everSeq' = TRUE /\ lastSeq' = seq
        /\ lastApplied' = d /\ osd' \in {"status", osd}
        /\ everSeen' = TRUE /\ tripped' = FALSE /\ age' = 0
        /\ UNCHANGED loopVars
    BY DEF OnDecision
  <1>3. SingleShot(d) \/ PhaseOneUp(d) \/ PhaseOneDown(d)
    BY DEF OnDecision
  <1> HIDE DEF d
  <1>4. CASE SingleShot(d)
    <2>1. DispatchTxApply(d) /\ EncoderApply(d)
      BY <1>4 DEF SingleShot
    <2>2. LoopType'
      BY <1>2, <1>4, ZeroTypes DEF SingleShot, TypeOK, LoopType, loopVars
    <2>3. BaselineType'
      BY <1>1, <1>2, <1>4, <2>1, DispatchType, ZeroTypes, Zenon DEF SingleShot, TypeOK, BaselineType
    <2>4. BackendType'
      BY <1>1, <1>2, <2>1, DispatchType, EncoderType DEF TypeOK, BackendType
    <2> QED
      BY <2>2, <2>3, <2>4 DEF TypeOK
  <1>5. CASE PhaseOneUp(d)
    <2>1. DispatchTxApply(d)
      BY <1>5 DEF PhaseOneUp
    <2>2. LoopType'
      BY <1>1, <1>2, <1>5 DEF PhaseOneUp, TypeOK, LoopType, loopVars
    <2>3. BaselineType'
      BY <1>1, <1>2, <1>5, <2>1, DispatchType, ZeroTypes, Zenon DEF PhaseOneUp, TypeOK, BaselineType
    <2>4. BackendType'
      BY <1>1, <1>2, <1>5, <2>1, DispatchType DEF PhaseOneUp, TypeOK, BackendType
    <2> QED
      BY <2>2, <2>3, <2>4 DEF TypeOK
  <1>6. CASE PhaseOneDown(d)
    <2>1. EncoderApply(d)
      BY <1>6 DEF PhaseOneDown
    <2>2. LoopType'
      BY <1>1, <1>2, <1>6 DEF PhaseOneDown, TypeOK, LoopType, loopVars
    <2>3. BaselineType'
      BY <1>1, <1>2, <1>6, ZeroTypes, Zenon DEF PhaseOneDown, TypeOK, BaselineType
    <2>4. BackendType'
      BY <1>1, <1>2, <1>6, <2>1, EncoderType DEF PhaseOneDown, TypeOK, BackendType, txVars
    <2> QED
      BY <2>2, <2>3, <2>4 DEF TypeOK
  <1> QED
    BY <1>3, <1>4, <1>5, <1>6

\* A trip of the watchdog keeps the types.
LEMMA TripStepType ==
  ASSUME TypeOK, OnTrip
  PROVE  TypeOK'
  <1> DEFINE d == LocalCompute(cfg, FailsafeMcs)
  <1>1. d \in Decision
    BY LocalComputeFits, McsAssumption DEF TypeOK, LoopType, BaselineType, BackendType, FailsafeMcs, Mcs
  <1>2. DispatchTxSafe(d) /\ EncoderApplySafe(d)
    BY DEF OnTrip
  <1> HIDE DEF d
  <1>3. LoopType'
    BY ZeroTypes DEF OnTrip, TypeOK, LoopType, loopVars
  <1>4. BaselineType'
    BY ZeroTypes, Zenon DEF OnTrip, TypeOK, BaselineType
  <1>5. BackendType'
    <2>1. osd' = "watchdog"
      BY DEF OnTrip
    <2> QED
      BY <1>1, <1>2, <2>1, DispatchSafeType, EncoderType DEF TypeOK, BackendType
  <1> QED
    BY <1>3, <1>4, <1>5 DEF TypeOK

\* The second phase keeps the types, given a decision to apply.
LEMMA GapStepType ==
  ASSUME TypeOK, OnGap,
         applyState # "Idle" => applyPending \in Decision
  PROVE  TypeOK'
  <1>1. LoopType'
    BY DEF OnGap, TypeOK, LoopType, loopVars
  <1>2. CASE applyState = "UpGap"
    <2>1. /\ EncoderApply(applyPending) /\ applyPending \in Decision
          /\ lastEnc' = applyPending
          /\ UNCHANGED <<lastTx, lastApplied, dedupVars, dogVars, osd,
                         txVars, probeUp, probeLast, powerLast>>
      BY <1>2 DEF OnGap
    <2>2. BaselineType'
      BY <2>1 DEF TypeOK, BaselineType, dedupVars, dogVars
    <2>3. BackendType'
      BY <2>1, EncoderType DEF TypeOK, BackendType, txVars
    <2> QED
      BY <1>1, <2>2, <2>3 DEF TypeOK
  <1>3. CASE applyState = "DownGap"
    <2>1. /\ DispatchTxApply(applyPending) /\ applyPending \in Decision
          /\ UNCHANGED <<lastEnc, enc, encLast, lastApplied, dedupVars, dogVars, osd>>
      BY <1>3 DEF OnGap
    <2>2. BaselineType'
      BY <2>1, DispatchType DEF TypeOK, BaselineType, dedupVars, dogVars
    <2>3. BackendType'
      BY <2>1, DispatchType DEF TypeOK, BackendType
    <2> QED
      BY <1>1, <2>2, <2>3 DEF TypeOK
  <1>4. CASE applyState = "Idle"
    <2>1. UNCHANGED <<baseVars, latchVars, txVars, enc, dedupVars, dogVars, osd>>
      BY <1>4 DEF OnGap, baseVars
    <2> QED
      BY <1>1, <2>1 DEF TypeOK, BaselineType, BackendType, baseVars, latchVars, txVars,
                        dedupVars, dogVars
  <1> QED
    BY <1>2, <1>3, <1>4 DEF TypeOK, LoopType

\* A second phase that is due has a decision to apply.
PendingInv == applyState # "Idle" => applyPending # NoDecision

\* No handler breaks the types, or leaves a second phase without a decision.
LEMMA TypeStep ==
  ASSUME TypeOK, PendingInv, [Next]_vars
  PROVE  TypeOK' /\ PendingInv'
  <1>1. CASE UNCHANGED vars
    BY <1>1 DEF TypeOK, LoopType, BaselineType, BackendType, PendingInv, vars, loopVars,
                gapVars, baseVars, dedupVars, dogVars, latchVars, txVars
  <1>2. ASSUME NEW c \in Configs, Start(c) \/ SetConfig(c) PROVE TypeOK' /\ PendingInv'
    BY <1>2, ControlType, Zenon DEF PendingInv, Start, SetConfig, gapVars
  <1>3. CASE Stop
    BY <1>3, ControlType DEF PendingInv, Stop, gapVars
  <1>4. ASSUME NEW s \in Statics, RestateStatic(s) PROVE TypeOK' /\ PendingInv'
    BY <1>4, ControlType DEF PendingInv, RestateStatic, gapVars
  <1>5. CASE GapExpires \/ Elapse
    BY <1>5, ControlType DEF PendingInv, GapExpires, Elapse, gapVars
  <1>6. ASSUME NEW rx \in BOOLEAN, NEW tk \in BOOLEAN, Poll(rx, tk)
        PROVE  TypeOK' /\ PendingInv'
    BY <1>6, ControlType DEF PendingInv, Poll, gapVars
  <1>7. CASE OnStop \/ OnReload \/ OnMalformed \/ OnTick
    BY <1>7, ControlType, Zenon DEF PendingInv, OnStop, OnReload, OnMalformed, OnTick, gapVars
  <1>8. ASSUME NEW seq \in Seqs, OnStale(seq) PROVE TypeOK' /\ PendingInv'
    BY <1>8, ControlType DEF PendingInv, OnStale, OnMalformed, gapVars
  <1>9. ASSUME NEW seq \in Seqs, NEW m \in Mcs, OnDecision(seq, m)
        PROVE  TypeOK' /\ PendingInv'
    <2>1. LocalCompute(cfg, m) # NoDecision
      BY LocalComputeFits, NoneAssumption DEF TypeOK, LoopType
    <2>2. PendingInv'
      BY <1>9, <2>1 DEF PendingInv, OnDecision, SingleShot, PhaseOneUp, PhaseOneDown
    <2> QED
      BY <1>9, <2>2, DecisionStepType
  <1>10. CASE OnTrip
    BY <1>10, TripStepType, Zenon DEF PendingInv, OnTrip
  <1>11. CASE OnGap
    <2>1. applyState # "Idle" => applyPending \in Decision
      BY DEF PendingInv, TypeOK, LoopType
    <2> QED
      BY <1>11, <2>1, GapStepType DEF PendingInv, OnGap
  <1> QED
    BY <1>1, <1>2, <1>3, <1>4, <1>5, <1>6, <1>7, <1>8, <1>9, <1>10, <1>11 DEF Next, Loop

\* Every variable keeps its type, for every set of configurations and whatever
\* becomes of the commands to the backends.
THEOREM TypeCorrect == Spec => []TypeOK
  <1>1. Init => TypeOK /\ PendingInv
    BY InitType DEF Init, PendingInv
  <1>2. TypeOK /\ PendingInv /\ [Next]_vars => TypeOK' /\ PendingInv'
    BY TypeStep
  <1> QED
    BY <1>1, <1>2, PTL DEF Spec

\* The same with the strengthening, for the proofs below.
LEMMA TypeInvariant == Spec => [](TypeOK /\ PendingInv)
  <1>1. Init => TypeOK /\ PendingInv
    BY InitType DEF Init, PendingInv
  <1>2. TypeOK /\ PendingInv /\ [Next]_vars => TypeOK' /\ PendingInv'
    BY TypeStep
  <1> QED
    BY <1>1, <1>2, PTL DEF Spec

(***************************************************************************)
(* The steps the invariants below care about.                              *)
(***************************************************************************)
\* Nothing but a clock, the poll set, the daemon's copy of the configuration or
\* the stop flag changes.
Quiet ==
    /\ UNCHANGED <<cfg, applyState, applyPending, baseVars, dedupVars, everSeen, tripped,
                   latchVars, txVars, enc, osd>>
    /\ phase' = "stopped" <=> phase = "stopped"

\* The handlers and calls that apply nothing leave the apply's state alone.
LEMMA QuietSteps ==
  ASSUME \/ UNCHANGED vars
         \/ \E c \in Configs : SetConfig(c)
         \/ Stop \/ GapExpires \/ Elapse
         \/ \E rx, tk \in BOOLEAN : Poll(rx, tk)
         \/ OnMalformed \/ \E seq \in Seqs : OnStale(seq)
         \/ OnTick
  PROVE  Quiet
  <1> USE DEF Quiet
  <1>1. CASE UNCHANGED vars
    BY <1>1 DEF vars, loopVars, gapVars, dogVars
  <1>2. ASSUME NEW c \in Configs, SetConfig(c) PROVE Quiet
    BY <1>2 DEF SetConfig, gapVars, dogVars
  <1>3. CASE Stop
    BY <1>3 DEF Stop, gapVars, dogVars
  <1>4. CASE GapExpires \/ Elapse
    BY <1>4 DEF GapExpires, Elapse, loopVars, gapVars, dogVars
  <1>5. ASSUME NEW rx \in BOOLEAN, NEW tk \in BOOLEAN, Poll(rx, tk) PROVE Quiet
    BY <1>5 DEF Poll, loopVars, gapVars, dogVars
  <1>6. CASE OnMalformed \/ OnTick \/ \E seq \in Seqs : OnStale(seq)
    BY <1>6 DEF OnStale, OnMalformed, OnTick, loopVars, gapVars, dogVars
  <1> QED
    BY <1>1, <1>2, <1>3, <1>4, <1>5, <1>6

\* Every step is quiet, ends in a stopped loop, or is one of five handlers.
LEMMA StepCases ==
  ASSUME [Next]_vars
  PROVE  \/ Quiet
         \/ phase' = "stopped"
         \/ \E c \in Configs : Start(c)
         \/ OnReload
         \/ \E seq \in Seqs, m \in Mcs : OnDecision(seq, m)
         \/ OnTrip
         \/ OnGap
  <1>1. CASE \E s \in Statics : RestateStatic(s)
    BY <1>1 DEF RestateStatic, loopVars
  <1>2. CASE OnStop
    BY <1>2 DEF OnStop
  <1> QED
    BY <1>1, <1>2, QuietSteps DEF Next, Loop

(***************************************************************************)
(* A superseded decision leaves no trace.                                  *)
(***************************************************************************)
\* PhasesAgree, and: a second phase is due only in an epoch that accepted a
\* decision and has not tripped since.
AgreeInv ==
    /\ PhasesAgree
    /\ phase # "stopped" /\ applyState # "Idle" => lastApplied # NoDecision /\ ~ tripped

\* No handler leaves the second phase of a superseded decision due.
LEMMA AgreeStep ==
  ASSUME TypeOK, PendingInv, AgreeInv, [Next]_vars
  PROVE  AgreeInv'
  <1> USE DEF AgreeInv, PhasesAgree
  <1>1. CASE Quiet
    BY <1>1 DEF Quiet, baseVars
  <1>2. CASE phase' = "stopped"
    BY <1>2
  <1>3. ASSUME NEW c \in Configs, Start(c) PROVE AgreeInv'
    BY <1>3 DEF Start
  <1>4. CASE OnReload
    BY <1>4 DEF OnReload, gapVars, baseVars, dogVars
  <1>5. ASSUME NEW seq \in Seqs, NEW m \in Mcs, OnDecision(seq, m) PROVE AgreeInv'
    <2>1. LocalCompute(cfg, m) # NoDecision
      BY LocalComputeFits, NoneAssumption DEF TypeOK, LoopType
    <2> QED
      BY <1>5, <2>1, Zenon DEF OnDecision, SingleShot, PhaseOneUp, PhaseOneDown, DispatchTxApply,
                        loopVars
  <1>6. CASE OnTrip
    BY <1>6 DEF OnTrip, loopVars
  <1>7. CASE OnGap
    BY <1>7, Zenon DEF OnGap, DispatchTxApply, Turn, loopVars, dogVars, TypeOK, LoopType
  <1> QED
    BY <1>1, <1>2, <1>3, <1>4, <1>5, <1>6, <1>7, StepCases

\* Whenever no second phase is due, radio and encoder were both last driven by
\* the newest accepted decision; a second phase that is due is that decision's.
\* This needs no assumption on the backends: it is about what is asked of them.
THEOREM NothingOfSuperseded == Spec => []PhasesAgree
  <1>1. Init => AgreeInv
    BY DEF Init, AgreeInv, PhasesAgree
  <1>2. TypeOK /\ PendingInv /\ AgreeInv /\ [Next]_vars => AgreeInv'
    BY AgreeStep
  <1>3. AgreeInv => PhasesAgree
    BY DEF AgreeInv
  <1> QED
    BY <1>1, <1>2, <1>3, TypeInvariant, PTL DEF Spec

(***************************************************************************)
(* Latching on success only is sound unless a reply can be late.           *)
(***************************************************************************)
NeverLate == "late" \notin Outcomes

\* The probe's client remembers only what the probe was told and did.
LEMMA TruthfulProbe ==
  ASSUME NeverLate, TypeOK, NEW d \in Decision, NEW always \in BOOLEAN,
         RetuneProbe(d, always), probeLast # NoValue => probe.mcs = probeLast
  PROVE  probeLast' # NoValue => probe'.mcs = probeLast'
  BY OutcomeAssumption
  DEF NeverLate, RetuneProbe, KnownRung, Took, Latched, Outcome

\* So does the power client.
LEMMA TruthfulPower ==
  ASSUME NeverLate, NEW d \in Decision, PowerApply(d) \/ PowerSafe(d),
         powerLast # NoValue => power = powerLast
  PROVE  powerLast' # NoValue => power' = powerLast'
  BY OutcomeAssumption DEF PowerApply, PowerSafe, RunIw, Took, Latched, Outcome

\* So does the encoder's client.
LEMMA TruthfulEncoder ==
  ASSUME NeverLate, NEW d \in Decision, EncoderApply(d) \/ EncoderApplySafe(d),
         encLast # NoValue => enc = encLast
  PROVE  encLast' # NoValue => enc' = encLast'
  BY OutcomeAssumption
  DEF NeverLate, EncoderApply, EncoderApplySafe, Took, Latched, Outcome

\* No handler makes a client's latch lie.
LEMMA TruthStep ==
  ASSUME NeverLate, TypeOK, PendingInv, LatchesTellTruth, [Next]_vars
  PROVE  LatchesTellTruth'
  <1> USE DEF LatchesTellTruth
  <1>1. CASE Quiet
    BY <1>1 DEF Quiet, latchVars, txVars
  <1>2. CASE phase' = "stopped"
    BY <1>2
  <1>3. ASSUME NEW c \in Configs, Start(c) PROVE LatchesTellTruth'
    BY <1>3 DEF Start
  <1>4. CASE OnReload
    BY <1>4 DEF OnReload, Turn, latchVars
  <1>5. ASSUME NEW d \in Decision, phase # "stopped",
                DispatchTxApply(d) \/ DispatchTxSafe(d)
         PROVE  /\ powerLast' # NoValue => power' = powerLast'
                /\ probeLast' # NoValue => probe'.mcs = probeLast'
    BY <1>5, TruthfulProbe, TruthfulPower, Zenon DEF DispatchTxApply, DispatchTxSafe
  <1>6. ASSUME NEW seq \in Seqs, NEW m \in Mcs, OnDecision(seq, m) PROVE LatchesTellTruth'
    <2> DEFINE d == LocalCompute(cfg, m)
    <2>1. d \in Decision
      BY LocalComputeFits DEF TypeOK, LoopType
    <2>2. phase # "stopped"
      BY <1>6 DEF OnDecision, Turn
    <2>3. SingleShot(d) \/ PhaseOneUp(d) \/ PhaseOneDown(d)
      BY <1>6 DEF OnDecision
    <2> HIDE DEF d
    <2> QED
      BY <1>5, <2>1, <2>2, <2>3, TruthfulEncoder
      DEF SingleShot, PhaseOneUp, PhaseOneDown, txVars
  <1>7. CASE OnTrip
    <2> DEFINE d == LocalCompute(cfg, FailsafeMcs)
    <2>1. d \in Decision
      BY LocalComputeFits, McsAssumption DEF TypeOK, LoopType, FailsafeMcs, Mcs
    <2>2. phase # "stopped" /\ DispatchTxSafe(d) /\ EncoderApplySafe(d)
      BY <1>7 DEF OnTrip, Turn
    <2> HIDE DEF d
    <2> QED
      BY <1>5, <2>1, <2>2, TruthfulEncoder
  <1>8. CASE OnGap
    <2>1. applyState # "Idle" => applyPending \in Decision
      BY DEF PendingInv, TypeOK, LoopType
    <2>2. phase # "stopped"
      BY <1>8 DEF OnGap, Turn
    <2>3. CASE applyState = "UpGap"
      BY <1>8, <2>1, <2>2, <2>3, TruthfulEncoder DEF OnGap, txVars
    <2>4. CASE applyState = "DownGap"
      BY <1>5, <1>8, <2>1, <2>2, <2>4 DEF OnGap
    <2>5. CASE applyState = "Idle"
      BY <1>8, <2>2, <2>5 DEF OnGap, latchVars, txVars
    <2> QED
      BY <2>3, <2>4, <2>5 DEF TypeOK, LoopType
  <1> QED
    BY <1>1, <1>2, <1>3, <1>4, <1>6, <1>7, <1>8, StepCases

\* Commands may fail, in any pattern: as long as a failed command had no effect,
\* what the encoder client, the tx power client and the probe's rung remember is
\* what their backends do, so the diff never suppresses a push that is needed.
THEOREM LatchesAreSound == NeverLate => (Spec => []LatchesTellTruth)
  <1> SUFFICES ASSUME NeverLate PROVE Spec => []LatchesTellTruth
    OBVIOUS
  <1>1. Init => LatchesTellTruth
    BY DEF Init, LatchesTellTruth
  <1>2. TypeOK /\ PendingInv /\ LatchesTellTruth /\ [Next]_vars => LatchesTellTruth'
    BY TruthStep
  <1> QED
    BY <1>1, <1>2, TypeInvariant, PTL DEF Spec

(***************************************************************************)
(* The encoder never outruns the radio, when no command is lost.           *)
(*                                                                         *)
(* EncoderFitsRadio alone is not inductive.  The strengthening says that   *)
(* the diff baselines are true (the radio is on lastTx_'s rung, the        *)
(* encoder at lastEnc_'s bitrate, and the encoder client's latch agrees),  *)
(* and how the decision in flight relates to them in each gap.             *)
(***************************************************************************)
Lossless == Outcomes = {"ok"}

Fit ==
    /\ lastEnc # NoDecision <=> lastTx # NoDecision
    /\ lastTx # NoDecision => radio.mcs = lastTx.mcs
    /\ lastEnc # NoDecision => enc.rate = lastEnc.rate
    /\ encLast # NoValue => encLast.rate = enc.rate
    /\ lastEnc # NoDecision \/ tripped => enc.rate <= Cap[radio.mcs]
    /\ applyState # "Idle" => /\ lastEnc # NoDecision
                              /\ applyPending.rate <= Cap[applyPending.mcs]
    /\ applyState = "UpGap" => lastTx = applyPending
    /\ applyState = "DownGap" => lastEnc = applyPending

FitInv == phase # "stopped" => Fit

\* With no losses setRadio leaves the radio on the rung it is given.
LEMMA LosslessRadio ==
  ASSUME Lossless, NEW c, NEW m, SetRadio(c, m)
  PROVE  radio'.mcs = m
  BY DEF Lossless, SetRadio, Took

\* ... so a dispatch leaves it on the decision's rung.
LEMMA LosslessDispatch ==
  ASSUME Lossless, NEW d \in Decision, DispatchTxApply(d),
         lastTx # NoDecision => radio.mcs = lastTx.mcs
  PROVE  radio'.mcs = d.mcs /\ lastTx' = d
  <1>1. /\ lastTx' = d
        /\ IF lastTx = NoDecision \/ lastTx.mcs # d.mcs THEN SetRadio(cfg, d.mcs) ELSE radio' = radio
    BY Zenon DEF DispatchTxApply
  <1>2. CASE SetRadio(cfg, d.mcs)
    BY <1>1, <1>2, LosslessRadio
  <1>3. CASE lastTx # NoDecision /\ lastTx.mcs = d.mcs /\ radio' = radio
    BY <1>1, <1>3
  <1> QED
    BY <1>1, <1>2, <1>3

\* A reload that restates the radiotap does so on the rung in use.
LEMMA ReloadKeepsRung ==
  ASSUME Lossless, OnReload, lastTx # NoDecision => radio.mcs = lastTx.mcs
  PROVE  radio'.mcs = radio.mcs
  <1>1. radio' = radio \/ (lastTx # NoDecision /\ SetRadio(shared, lastTx.mcs))
    BY Zenon DEF OnReload
  <1> QED
    BY <1>1, LosslessRadio

\* A dispatch leaves the encoder at the decision's bitrate.
LEMMA LosslessEncoder ==
  ASSUME Lossless, TypeOK, NEW d \in Decision, EncoderApply(d),
         encLast # NoValue => encLast.rate = enc.rate
  PROVE  /\ enc'.rate = d.rate
         /\ encLast' # NoValue => encLast'.rate = enc'.rate
  <1> DEFINE asked == [rate |-> d.rate, roi |-> cfg.roi]
  <1>1. asked \in [rate: Rate, roi: Rois]
    BY ConfigAssumption DEF TypeOK, LoopType, Decision, Config
  <1>2. asked # NoValue
    BY <1>1, NoneAssumption
  <1>3. CASE encLast = asked
    BY <1>2, <1>3 DEF EncoderApply
  <1>4. CASE encLast # asked
    BY <1>4 DEF EncoderApply, Lossless, Took, Latched
  <1> QED
    BY <1>3, <1>4

\* Either first phase, or a single shot, keeps the encoder within the radio.
LEMMA FitDecision ==
  ASSUME Lossless, TypeOK, Fit, NEW seq \in Seqs, NEW m \in Mcs, OnDecision(seq, m)
  PROVE  Fit'
  <1> DEFINE d == LocalCompute(cfg, m)
  <1>1. d \in Decision /\ d.rate <= Cap[d.mcs] /\ d # NoDecision
    BY LocalComputeFits, NoneAssumption DEF TypeOK, LoopType
  <1>2. /\ d.rate \in Nat /\ d.mcs \in Mcs /\ Cap[d.mcs] \in Nat
        /\ enc.rate \in Nat /\ Cap[radio.mcs] \in Nat
        /\ lastEnc # NoDecision => lastEnc.rate \in Nat
    BY <1>1, TableAssumption DEF Decision, Rate, TypeOK, BackendType, BaselineType
  <1>3. tripped' = FALSE
    BY DEF OnDecision
  <1>4. \/ SingleShot(d)
        \/ Direction(d) = "Up" /\ PhaseOneUp(d)
        \/ Direction(d) = "Down" /\ PhaseOneDown(d)
    BY DEF OnDecision
  <1> HIDE DEF d
  <1>5. CASE SingleShot(d)
    <2>1. radio'.mcs = d.mcs /\ lastTx' = d
      BY <1>1, <1>5, LosslessDispatch DEF SingleShot, Fit
    <2>2. enc'.rate = d.rate /\ (encLast' # NoValue => encLast'.rate = enc'.rate)
      BY <1>1, <1>5, LosslessEncoder DEF SingleShot, Fit
    <2>3. lastEnc' = d /\ applyState' = "Idle"
      BY <1>5 DEF SingleShot
    <2> QED
      BY <1>1, <1>3, <2>1, <2>2, <2>3 DEF Fit
  <1>6. CASE Direction(d) = "Up" /\ PhaseOneUp(d)
    <2>1. radio'.mcs = d.mcs /\ lastTx' = d
      BY <1>1, <1>6, LosslessDispatch DEF PhaseOneUp, Fit
    <2>2. applyState' = "UpGap" /\ applyPending' = d /\ UNCHANGED <<lastEnc, enc, encLast>>
      BY <1>6 DEF PhaseOneUp
    <2>3. lastEnc # NoDecision /\ d.rate > lastEnc.rate
      BY <1>6 DEF Direction
    <2>4. enc.rate <= Cap[d.mcs]
      BY <1>1, <1>2, <2>3 DEF Fit
    <2> QED
      BY <1>1, <1>3, <2>1, <2>2, <2>3, <2>4 DEF Fit
  <1>7. CASE Direction(d) = "Down" /\ PhaseOneDown(d)
    <2>1. enc'.rate = d.rate /\ (encLast' # NoValue => encLast'.rate = enc'.rate)
      BY <1>1, <1>7, LosslessEncoder DEF PhaseOneDown, Fit
    <2>2. /\ lastEnc' = d /\ applyState' = "DownGap" /\ applyPending' = d
          /\ lastTx' = lastTx /\ radio' = radio
      BY <1>7 DEF PhaseOneDown, txVars
    <2>3. lastEnc # NoDecision /\ ~ (d.rate > lastEnc.rate)
      BY <1>7 DEF Direction
    <2>4. enc.rate = lastEnc.rate /\ enc.rate <= Cap[radio.mcs]
      BY <2>3, Zenon DEF Fit
    <2>5. d.rate <= Cap[radio.mcs]
      BY <1>2, <2>3, <2>4
    <2> QED
      BY <1>1, <1>3, <2>1, <2>2, <2>3, <2>5 DEF Fit
  <1> QED
    BY <1>4, <1>5, <1>6, <1>7

\* A trip puts both on the failsafe rung.
LEMMA FitTrip ==
  ASSUME Lossless, TypeOK, OnTrip
  PROVE  Fit'
  <1> DEFINE d == LocalCompute(cfg, FailsafeMcs)
  <1>1. FailsafeMcs \in Mcs
    BY McsAssumption DEF FailsafeMcs, Mcs
  <1>2. d.mcs = FailsafeMcs /\ d.rate <= Cap[d.mcs]
    BY <1>1, LocalComputeFits DEF TypeOK, LoopType
  <1>3. DispatchTxSafe(d) /\ EncoderApplySafe(d)
    BY DEF OnTrip
  <1> HIDE DEF d
  <1>4. radio'.mcs = d.mcs
    BY <1>3, LosslessRadio DEF DispatchTxSafe
  <1>5. enc'.rate = d.rate /\ encLast' = NoValue
    BY <1>3 DEF EncoderApplySafe, Took, Latched, Lossless
  <1>6. lastTx' = NoDecision /\ lastEnc' = NoDecision /\ applyState' = "Idle"
    BY DEF OnTrip
  <1> QED
    BY <1>2, <1>4, <1>5, <1>6 DEF Fit

\* The second phase completes the decision that is already half applied.
LEMMA FitGap ==
  ASSUME Lossless, TypeOK, PendingInv, Fit, OnGap
  PROVE  Fit'
  <1>1. applyState # "Idle" => applyPending \in Decision /\ applyPending # NoDecision
    BY DEF PendingInv, TypeOK, LoopType
  <1>2. applyState' = "Idle" /\ tripped' = tripped
    BY DEF OnGap, dogVars
  <1>3. CASE applyState = "UpGap"
    <2>1. EncoderApply(applyPending) /\ lastEnc' = applyPending
          /\ lastTx' = lastTx /\ radio' = radio
      BY <1>3 DEF OnGap, txVars
    <2>2. /\ enc'.rate = applyPending.rate
          /\ encLast' # NoValue => encLast'.rate = enc'.rate
      BY <1>1, <1>3, <2>1, LosslessEncoder DEF Fit
    <2> QED
      BY <1>1, <1>2, <1>3, <2>1, <2>2 DEF Fit
  <1>4. CASE applyState = "DownGap"
    <2>1. DispatchTxApply(applyPending) /\ UNCHANGED <<lastEnc, enc, encLast>>
      BY <1>4 DEF OnGap
    <2>2. radio'.mcs = applyPending.mcs /\ lastTx' = applyPending
      BY <1>1, <1>4, <2>1, LosslessDispatch DEF Fit
    <2> QED
      BY <1>1, <1>2, <1>4, <2>1, <2>2 DEF Fit
  <1>5. CASE applyState = "Idle"
    BY <1>2, <1>5 DEF Fit, OnGap, txVars, latchVars
  <1> QED
    BY <1>3, <1>4, <1>5 DEF TypeOK, LoopType

\* No handler, call or restatement breaks FitInv.
LEMMA FitStep ==
  ASSUME Lossless, TypeOK, PendingInv, FitInv, [Next]_vars
  PROVE  FitInv'
  <1> USE DEF FitInv
  <1>1. CASE Quiet
    BY <1>1, Zenon DEF Fit, Quiet, baseVars, latchVars, txVars
  <1>2. CASE phase' = "stopped"
    BY <1>2
  <1>3. ASSUME NEW c \in Configs, Start(c) PROVE FitInv'
    BY <1>3, Zenon DEF Fit, Start
  <1>4. CASE OnReload
    <2>1. phase # "stopped" /\ UNCHANGED <<gapVars, baseVars, dogVars, latchVars, enc>>
      BY <1>4 DEF OnReload, Turn
    <2>2. radio'.mcs = radio.mcs
      BY <1>4, <2>1, ReloadKeepsRung DEF Fit
    <2> QED
      BY <2>1, <2>2, Zenon DEF Fit, gapVars, baseVars, dogVars, latchVars
  <1>5. ASSUME NEW seq \in Seqs, NEW m \in Mcs, OnDecision(seq, m) PROVE FitInv'
    BY <1>5, FitDecision, Zenon DEF OnDecision, Turn
  <1>6. CASE OnTrip
    BY <1>6, FitTrip
  <1>7. CASE OnGap
    BY <1>7, FitGap DEF OnGap, Turn
  <1> QED
    BY <1>1, <1>2, <1>3, <1>4, <1>5, <1>6, <1>7, StepCases

\* If no command to a backend is lost, then in every interleaving of decisions,
\* reloads, gap expirations, watchdog trips, stops and starts the encoder's
\* bitrate stays within what the radio's rung carries: the staggered apply does
\* what it is for, for every rate table that fits its rungs, monotone or not.
THEOREM EncoderNeverOutrunsRadio == Lossless => (Spec => []EncoderFitsRadio)
  <1> SUFFICES ASSUME Lossless PROVE Spec => []EncoderFitsRadio
    OBVIOUS
  <1>1. Init => FitInv
    BY DEF Init, FitInv
  <1>2. TypeOK /\ PendingInv /\ FitInv /\ [Next]_vars => FitInv'
    BY FitStep
  <1>3. FitInv => EncoderFitsRadio
    BY Zenon DEF FitInv, Fit, EncoderFitsRadio
  <1> QED
    BY <1>1, <1>2, <1>3, TypeInvariant, PTL DEF Spec

(***************************************************************************)
(* A trip holds the link at the failsafe rung.                             *)
(***************************************************************************)
LEMMA SafeStep ==
  ASSUME Lossless, TypeOK, TripIsSafe, [Next]_vars
  PROVE  TripIsSafe'
  <1>1. CASE Quiet
    BY <1>1, Zenon DEF TripIsSafe, Quiet, baseVars, dedupVars, latchVars, txVars
  <1>2. CASE phase' = "stopped"
    BY <1>2 DEF TripIsSafe
  <1>3. ASSUME NEW c \in Configs, Start(c) PROVE TripIsSafe'
    BY <1>3, Zenon DEF TripIsSafe, Start
  <1>4. CASE OnReload
    BY <1>4 DEF TripIsSafe, OnReload, Turn, gapVars, baseVars, dedupVars, dogVars, latchVars
  <1>5. ASSUME NEW seq \in Seqs, NEW m \in Mcs, OnDecision(seq, m) PROVE TripIsSafe'
    BY <1>5, Zenon DEF TripIsSafe, OnDecision
  <1>6. CASE OnTrip
    <2> DEFINE d == LocalCompute(cfg, FailsafeMcs)
    <2>1. FailsafeMcs \in Mcs
      BY McsAssumption DEF FailsafeMcs, Mcs
    <2>2. d.mcs = FailsafeMcs /\ d.rate <= Cap[FailsafeMcs]
      BY <2>1, LocalComputeFits DEF TypeOK, LoopType
    <2>3. DispatchTxSafe(d) /\ EncoderApplySafe(d)
      BY <1>6 DEF OnTrip
    <2> HIDE DEF d
    <2>4. enc'.rate <= Cap[FailsafeMcs]
      BY <2>2, <2>3 DEF EncoderApplySafe, Took, Lossless
    <2>5. RetuneProbe(d, TRUE) /\ SetRadio(cfg, d.mcs)
      BY <2>3, Zenon DEF DispatchTxSafe
    <2>6. radio'.mcs = FailsafeMcs
      BY <2>2, <2>5, LosslessRadio
    <2>7. probeUp' => probe'.mcs = ProbeRungFor(FailsafeMcs)
      BY <2>2, <2>5 DEF RetuneProbe, Took, Lossless
    <2> QED
      BY <1>6, <2>4, <2>6, <2>7, Zenon DEF TripIsSafe, OnTrip, loopVars
  <1>7. CASE OnGap
    BY <1>7, Zenon DEF TripIsSafe, OnGap, Turn, loopVars, dedupVars, dogVars, latchVars, txVars
  <1> QED
    BY <1>1, <1>2, <1>3, <1>4, <1>5, <1>6, <1>7, StepCases, Zenon

\* If no command is lost, a tripped link stays at the failsafe rung, with the
\* diff baselines and the dedup window forgotten, until a fresh decision.
THEOREM TripHoldsFailsafe == Lossless => (Spec => []TripIsSafe)
  <1> SUFFICES ASSUME Lossless PROVE Spec => []TripIsSafe
    OBVIOUS
  <1>1. Init => TripIsSafe
    BY DEF Init, TripIsSafe
  <1>2. TypeOK /\ TripIsSafe /\ [Next]_vars => TripIsSafe'
    BY SafeStep
  <1> QED
    BY <1>1, <1>2, TypeCorrect, PTL DEF Spec

(***************************************************************************)
(* The probe measures the rung above the video's.                          *)
(*                                                                         *)
(* The rung the probe's client remembers is the one the probe is on        *)
(* (LatchesTellTruth), and lastTx_ names the radio's rung (Fit): so a      *)
(* dispatch that pushes neither has nothing to push.                       *)
(***************************************************************************)
\* A retune leaves a running probe on the rung above the decision's.
LEMMA LosslessProbe ==
  ASSUME Lossless, TypeOK, NEW d \in Decision, NEW always \in BOOLEAN,
         RetuneProbe(d, always), probeLast # NoValue => probe.mcs = probeLast
  PROVE  probeUp' => probe'.mcs = ProbeRungFor(d.mcs)
  <1> DEFINE rung == ProbeRungFor(d.mcs)
  <1>1. rung # NoValue
    BY ProbeRungType, NoneAssumption DEF Decision
  <1>2. probeUp' = cfg.probe
    BY DEF RetuneProbe
  <1>3. CASE cfg.probe /\ (always \/ rung # KnownRung)
    BY <1>3 DEF RetuneProbe, Lossless, Took
  <1>4. CASE cfg.probe /\ ~ (always \/ rung # KnownRung)
    <2>1. probe' = probe /\ probeLast = rung
      BY <1>1, <1>4, Zenon DEF RetuneProbe, KnownRung
    <2> QED
      BY <1>1, <2>1
  <1> QED
    BY <1>2, <1>3, <1>4

\* Both dispatches keep the probe above the radio.
LEMMA ProbeDispatch ==
  ASSUME Lossless, TypeOK, NEW d \in Decision, DispatchTxApply(d) \/ DispatchTxSafe(d),
         lastTx # NoDecision => radio.mcs = lastTx.mcs,
         probeLast # NoValue => probe.mcs = probeLast
  PROVE  probeUp' => probe'.mcs = ProbeRungFor(radio'.mcs)
  <1>1. radio'.mcs = d.mcs
    BY LosslessDispatch, LosslessRadio, Zenon DEF DispatchTxSafe
  <1>2. \E always \in BOOLEAN : RetuneProbe(d, always)
    BY Zenon DEF DispatchTxApply, DispatchTxSafe
  <1> QED
    BY <1>1, <1>2, LosslessProbe

\* No handler takes the probe off the rung above the video.
LEMMA ProbeStep ==
  ASSUME Lossless, TypeOK, PendingInv, FitInv, LatchesTellTruth, ProbeOneAbove, [Next]_vars
  PROVE  ProbeOneAbove'
  <1> USE DEF ProbeOneAbove
  <1>a. phase # "stopped" =>
           /\ lastTx # NoDecision => radio.mcs = lastTx.mcs
           /\ probeLast # NoValue => probe.mcs = probeLast
    BY Zenon DEF FitInv, Fit, LatchesTellTruth
  <1>1. CASE Quiet
    BY <1>1 DEF Quiet, latchVars, txVars
  <1>2. CASE phase' = "stopped"
    BY <1>2
  <1>3. ASSUME NEW c \in Configs, Start(c) PROVE ProbeOneAbove'
    BY <1>3, Zenon DEF Start
  <1>4. CASE OnReload
    <2>1. phase # "stopped" /\ probe' = probe /\ probeUp' = probeUp
      BY <1>4 DEF OnReload, Turn, latchVars
    <2> QED
      BY <1>a, <1>4, <2>1, ReloadKeepsRung
  <1>5. ASSUME NEW seq \in Seqs, NEW m \in Mcs, OnDecision(seq, m) PROVE ProbeOneAbove'
    <2> DEFINE d == LocalCompute(cfg, m)
    <2>1. d \in Decision
      BY LocalComputeFits DEF TypeOK, LoopType
    <2>2. phase # "stopped"
      BY <1>5 DEF OnDecision, Turn
    <2>3. DispatchTxApply(d) \/ UNCHANGED <<txVars, probeUp>>
      BY <1>5, Zenon DEF OnDecision, SingleShot, PhaseOneUp, PhaseOneDown
    <2> HIDE DEF d
    <2>4. CASE DispatchTxApply(d)
      BY <1>a, <2>1, <2>2, <2>4, ProbeDispatch
    <2>5. CASE UNCHANGED <<txVars, probeUp>>
      BY <2>2, <2>5 DEF txVars
    <2> QED
      BY <2>3, <2>4, <2>5, Zenon
  <1>6. CASE OnTrip
    <2> DEFINE d == LocalCompute(cfg, FailsafeMcs)
    <2>1. d \in Decision
      BY LocalComputeFits, McsAssumption DEF TypeOK, LoopType, FailsafeMcs, Mcs
    <2>2. phase # "stopped" /\ DispatchTxSafe(d)
      BY <1>6 DEF OnTrip, Turn
    <2> HIDE DEF d
    <2> QED
      BY <1>a, <2>1, <2>2, ProbeDispatch
  <1>7. CASE OnGap
    <2>1. applyState # "Idle" => applyPending \in Decision
      BY DEF PendingInv, TypeOK, LoopType
    <2>2. phase # "stopped"
      BY <1>7, Zenon DEF OnGap, Turn
    <2>3. CASE applyState = "DownGap"
      BY <1>a, <1>7, <2>1, <2>2, <2>3, ProbeDispatch DEF OnGap
    <2>4. CASE applyState # "DownGap"
      BY <1>7, <2>2, <2>4, Zenon DEF OnGap, txVars, latchVars
    <2> QED
      BY <2>3, <2>4
  <1> QED
    BY <1>1, <1>2, <1>3, <1>4, <1>5, <1>6, <1>7, StepCases

\* If no command is lost, a running probe measures the rung above the one the
\* video is on (probeRungFor, clamped to the ceiling): across both phases of an
\* apply, a hot flip of the probe, a reload of the radiotap flags and a trip.
THEOREM ProbeStaysOneAbove == Lossless => (Spec => []ProbeOneAbove)
  <1> SUFFICES ASSUME Lossless PROVE Spec => []ProbeOneAbove
    OBVIOUS
  <1>1. NeverLate
    BY DEF Lossless, NeverLate
  <1>2. Init => FitInv /\ ProbeOneAbove
    BY DEF Init, FitInv, ProbeOneAbove
  <1>3. TypeOK /\ PendingInv /\ FitInv /\ [Next]_vars => FitInv'
    BY FitStep
  <1>4. TypeOK /\ PendingInv /\ FitInv /\ LatchesTellTruth /\ ProbeOneAbove /\ [Next]_vars
           => ProbeOneAbove'
    BY ProbeStep
  <1>5. Spec => []LatchesTellTruth
    BY <1>1, LatchesAreSound
  <1> QED
    BY <1>2, <1>3, <1>4, <1>5, TypeInvariant, PTL DEF Spec
-----------------------------------------------------------------------------
(***************************************************************************)
(* The loop closed over the air implements DlController.                   *)
(*                                                                         *)
(* Only the datagrams' types are needed: what Receive hands to OnDecision  *)
(* is a sequence number and a rung.                                        *)
(***************************************************************************)
Datagram == [seq: Seqs, mcs: Mcs]

\* The ground station and the clocks; the bound on net counts the window that
\* has closed at this instant, and the loss events and duplicates so far.
GroundInv ==
    /\ encSeq \in Seqs /\ want \in Mcs
    /\ changes \in 0 .. MaxChanges /\ faults \in 0 .. MaxFaults
    /\ net \in Seq(Datagram)
    /\ Len(net) <= changes + faults + (IF sendIn = 0 THEN 0 ELSE 1)
    /\ sendIn \in 0 .. Period /\ tickIn \in 0 .. TickPeriod /\ gapIn \in 0 .. Stagger

\* What a datagram taken from the tunnel is, and what remains.
LEMMA Taken ==
  ASSUME net \in Seq(Datagram), net # <<>>
  PROVE  /\ Head(net) \in Datagram /\ Tail(net) \in Seq(Datagram)
         /\ Len(Tail(net)) = Len(net) - 1 /\ Len(net) \in Nat
  OBVIOUS

\* The ground station and the radio link do not touch the drone.
LEMMA GroundSteps ==
  ASSUME GroundInv,
         \/ \E m \in Mcs : EmitWindow(m) \/ EmitLoss(m)
         \/ Rebuild \/ Lose \/ Duplicate
  PROVE  GroundInv' /\ UNCHANGED vars
  <1> USE TimeAssumption, SeqAssumption
  <1>1. ASSUME NEW m \in Mcs, Emit(m),
               \/ sendIn = 0 /\ sendIn' = Period
               \/ m # want /\ sendIn' = sendIn
        PROVE  GroundInv' /\ UNCHANGED vars
    <2> DEFINE p == [seq |-> encSeq, mcs |-> m]
    <2>1. /\ net' = Append(net, p) /\ encSeq' = (encSeq + 1) % SeqMod
          /\ want' = m /\ changes' = IF m = want THEN changes ELSE changes + 1
          /\ changes' <= MaxChanges
          /\ UNCHANGED <<faults, vars, tickIn, gapIn>>
      BY <1>1 DEF Emit
    <2>2. p \in Datagram
      BY DEF GroundInv, Datagram
    <2>3. net' \in Seq(Datagram) /\ Len(net') = Len(net) + 1 /\ Len(net) \in Nat
      BY <2>1, <2>2 DEF GroundInv
    <2>4. encSeq' \in Seqs
      <3>1. encSeq \in Nat /\ encSeq' = (encSeq + 1) % SeqMod
        BY <2>1 DEF GroundInv, Seqs
      <3> QED
        BY <3>1 DEF Seqs
    <2> HIDE DEF p
    <2>5. changes' \in 0 .. MaxChanges
      BY <2>1 DEF GroundInv
    <2>6. Len(net') <= changes' + faults' + (IF sendIn' = 0 THEN 0 ELSE 1)
      <3>1. /\ Len(net) <= changes + faults + (IF sendIn = 0 THEN 0 ELSE 1)
            /\ changes \in Nat /\ faults \in Nat
        BY DEF GroundInv
      <3>2. /\ Len(net') = Len(net) + 1 /\ Len(net) \in Nat
            /\ changes' = (IF m = want THEN changes ELSE changes + 1) /\ faults' = faults
        BY <2>1, <2>3
      <3>3. CASE sendIn = 0 /\ sendIn' = Period
        BY <3>1, <3>2, <3>3
      <3>4. CASE m # want /\ sendIn' = sendIn
        BY <3>1, <3>2, <3>4
      <3> QED
        BY <1>1, <3>3, <3>4
    <2>7. sendIn' \in 0 .. Period
      BY <1>1 DEF GroundInv
    <2> QED
      BY <2>1, <2>3, <2>4, <2>5, <2>6, <2>7 DEF GroundInv
  <1>2. ASSUME NEW m \in Mcs, EmitWindow(m) PROVE GroundInv' /\ UNCHANGED vars
    BY <1>1, <1>2 DEF EmitWindow
  <1>3. ASSUME NEW m \in Mcs, EmitLoss(m) PROVE GroundInv' /\ UNCHANGED vars
    <2>1. m # want
      BY <1>3, McsAssumption DEF EmitLoss, GroundInv, Mcs
    <2> QED
      BY <1>1, <1>3, <2>1 DEF EmitLoss
  <1>4. CASE Rebuild
    <2>1. 1 \in Seqs /\ Len(net) \in Nat
      BY DEF Seqs, GroundInv
    <2> QED
      BY <1>4, <2>1 DEF Rebuild, GroundInv
  <1>5. CASE Lose
    BY <1>5, Taken DEF Lose, Fault, GroundInv, clocks
  <1>6. CASE Duplicate
    <2>1. net' \in Seq(Datagram) /\ Len(net') = Len(net) + 1 /\ Len(net) \in Nat
      BY <1>6, Taken DEF Duplicate, GroundInv
    <2> QED
      BY <1>6, <2>1 DEF Duplicate, Fault, GroundInv, clocks
  <1> QED
    BY <1>2, <1>3, <1>4, <1>5, <1>6

\* The drone's steps are steps of DlController.
LEMMA DroneSteps ==
  ASSUME GroundInv, Drone \/ Advance
  PROVE  GroundInv' /\ [Next]_vars
  <1> USE TimeAssumption
  <1>1. CASE Receive
    <2> DEFINE p == Head(net)
    <2>1. /\ OnDecision(p.seq, p.mcs) \/ OnStale(p.seq)
          /\ net # <<>> /\ net' = Tail(net)
          /\ gapIn' \in {Stagger, gapIn} /\ UNCHANGED <<gsVars, sendIn, tickIn>>
      BY <1>1, Zenon DEF Receive
    <2>2. p \in Datagram /\ net' \in Seq(Datagram) /\ Len(net') = Len(net) - 1 /\ Len(net) \in Nat
      BY <2>1, Taken DEF GroundInv
    <2>3. p.seq \in Seqs /\ p.mcs \in Mcs
      BY <2>2 DEF Datagram
    <2> HIDE DEF p
    <2>4. Next
      BY <2>1, <2>3 DEF Next, Loop
    <2>5. GroundInv'
      BY <2>1, <2>2 DEF GroundInv, gsVars
    <2> QED
      BY <2>4, <2>5, Zenon
  <1>2. CASE Tick
    <2>1. Next
      BY <1>2 DEF Tick, Next, Loop
    <2> QED
      BY <1>2, <2>1 DEF Tick, GroundInv, gsVars
  <1>3. CASE /\ \/ \E c \in Configs : Start(c)
                \/ Poll(net # <<>>, tickIn = 0)
                \/ GapExpires
                \/ OnGap
             /\ UNCHANGED <<gsVars, net, clocks>>
    <2>1. GroundInv'
      BY <1>3 DEF GroundInv, gsVars, clocks
    <2>2. (net # <<>>) \in BOOLEAN /\ (tickIn = 0) \in BOOLEAN
      OBVIOUS
    <2>3. Next
      BY <1>3, <2>2, Zenon DEF Next, Loop
    <2> QED
      BY <2>1, <2>3
  <1>4. CASE Advance
    <2>1. /\ net = <<>> /\ sendIn > 0 /\ tickIn > 0 /\ (gap = "armed" => gapIn > 0)
          /\ sendIn' = sendIn - 1 /\ tickIn' = tickIn - 1
          /\ gapIn' = IF gap = "armed" THEN gapIn - 1 ELSE gapIn
          /\ UNCHANGED <<gsVars, net>>
      BY <1>4 DEF Advance
    <2>2. Next \/ UNCHANGED vars
      BY <1>4 DEF Advance, Next
    <2>3. GroundInv'
      BY <2>1 DEF GroundInv, gsVars
    <2> QED
      BY <2>2, <2>3
  <1> QED
    BY <1>1, <1>2, <1>3, <1>4 DEF Drone, GapFires

\* A step of the closed loop keeps its types, and is a step of the controller or
\* leaves the controller alone.
LEMMA GroundStep ==
  ASSUME GroundInv, [LinkNext]_linkVars
  PROVE  GroundInv' /\ [Next]_vars
  <1>1. CASE UNCHANGED linkVars
    BY <1>1 DEF linkVars, gsVars, clocks, GroundInv
  <1> QED
    BY <1>1, GroundSteps, DroneSteps DEF LinkNext, Window

\* The closed loop starts within its types.
LEMMA GroundInit == LinkInit => GroundInv
  BY TimeAssumption, SeqAssumption DEF LinkInit, GroundInv, Seqs

\* The closed loop keeps its types throughout.
LEMMA GroundInvariant == LinkSpec => []GroundInv
  <1>1. GroundInv /\ [LinkNext]_linkVars => GroundInv'
    BY GroundStep
  <1> QED
    BY <1>1, GroundInit, PTL DEF LinkSpec

\* Every behaviour of the closed loop is one of DlController's: the clocks and
\* the tunnel only restrict when its handlers run and what its socket delivers.
THEOREM LinkImplementsController == LinkSpec => Spec
  <1>1. LinkInit => Init
    BY DEF LinkInit
  <1>2. GroundInv /\ [LinkNext]_linkVars => [Next]_vars
    BY GroundStep
  <1> QED
    BY <1>1, <1>2, GroundInvariant, PTL DEF LinkSpec, Spec

\* The closed loop's state has its types, and the tunnel never holds more than
\* the windows, loss events and stragglers of one instant.
THEOREM LinkTypes == LinkSpec => []LinkTypeOK
  <1>1. GroundInv /\ TypeOK => LinkTypeOK
    BY TimeAssumption DEF GroundInv, LinkTypeOK, Datagram
  <1> QED
    BY <1>1, GroundInvariant, LinkImplementsController, TypeCorrect, PTL

\* What is proved of the drone's loop holds with the ground station, the tunnel
\* and the clocks around it: with no command lost the encoder fits the radio, a
\* tripped link stays at the failsafe rung, and the probe is one rung above.
THEOREM LinkIsSafe ==
  Lossless => (LinkSpec => [](EncoderFitsRadio /\ TripIsSafe /\ ProbeOneAbove))
  <1> SUFFICES ASSUME Lossless
               PROVE  LinkSpec => [](EncoderFitsRadio /\ TripIsSafe /\ ProbeOneAbove)
    OBVIOUS
  <1>1. Spec => []EncoderFitsRadio
    BY EncoderNeverOutrunsRadio
  <1>2. Spec => []TripIsSafe
    BY TripHoldsFailsafe
  <1>3. Spec => []ProbeOneAbove
    BY ProbeStaysOneAbove
  <1> QED
    BY <1>1, <1>2, <1>3, LinkImplementsController, PTL

(***************************************************************************)
(* The drone is never deaf for long.                                       *)
(*                                                                         *)
(* Until the watchdog trips, the tick bounds the age: at a tick that did   *)
(* not trip it was below the timeout, and the next comes in tickIn.  From  *)
(* the trip on the dedup window is empty, so whatever arrives is accepted; *)
(* a window closes in sendIn, and only a fault can take its datagram away  *)
(* or put the next window off.  Nothing is assumed of the backends.        *)
(***************************************************************************)
\* The age at which the watchdog has certainly tripped, plus a window for every
\* fault and one more.
DeafBound == cfg.timeout + TickPeriod + Period * (1 + faults)

DeafInv ==
    everSeen =>
        /\ ~ tripped => age + tickIn < cfg.timeout + TickPeriod
        /\ tripped => /\ ~ everSeq
                      /\ age < DeafBound
                      /\ net = <<>> => age + sendIn < DeafBound

\* The numbers involved.
LEMMA Ages ==
  ASSUME TypeOK
  PROVE  /\ cfg.timeout \in Nat \ {0} /\ age \in Nat
         /\ Period \in Nat \ {0} /\ TickPeriod \in Nat \ {0}
  <1>1. cfg \in Config /\ age \in 0 .. MaxAge
    BY ConfigAssumption DEF TypeOK, LoopType, BaselineType
  <1> QED
    BY <1>1, SeqAssumption, TimeAssumption DEF Config

\* The time to the next window and to the next tick is at most their period.
LEMMA Clocks ==
  ASSUME GroundInv
  PROVE  sendIn \in 0 .. Period /\ tickIn \in 0 .. TickPeriod
  BY Zenon DEF GroundInv

\* A fault is worth a period.
LEMMA OneMoreFault ==
  ASSUME GroundInv, TypeOK
  PROVE  /\ DeafBound \in Nat
         /\ cfg.timeout + TickPeriod + Period <= DeafBound
         /\ DeafBound <= cfg.timeout + TickPeriod + (1 + MaxFaults) * Period
         /\ UNCHANGED <<cfg, faults>> => DeafBound' = DeafBound
         /\ cfg' = cfg /\ faults' = faults + 1 => DeafBound' = DeafBound + Period
  <1>1. MaxFaults \in Nat /\ faults \in 0 .. MaxFaults
    BY TimeAssumption DEF GroundInv
  <1>2. /\ Period * (1 + faults) \in Nat
        /\ Period * (1 + (faults + 1)) = Period * (1 + faults) + Period
        /\ Period <= Period * (1 + faults)
        /\ Period * (1 + faults) <= (1 + MaxFaults) * Period
    BY <1>1, Ages, SMT
  <1> DEFINE windows == Period * (1 + faults)
  <1>3. /\ DeafBound = cfg.timeout + TickPeriod + windows
        /\ DeafBound' = cfg'.timeout + TickPeriod + Period * (1 + faults')
    BY DEF DeafBound
  <1>4. UNCHANGED <<cfg, faults>> => DeafBound' = DeafBound
    BY DEF DeafBound
  <1>5. cfg' = cfg /\ faults' = faults + 1
           => DeafBound' = cfg.timeout + TickPeriod + (windows + Period)
    BY <1>2, <1>3
  <1>6. /\ windows \in Nat /\ Period <= windows /\ windows <= (1 + MaxFaults) * Period
        /\ (1 + MaxFaults) * Period \in Nat
    BY <1>1, <1>2, Ages
  <1> HIDE DEF windows
  <1> DEFINE most == (1 + MaxFaults) * Period
  <1>7. windows <= most /\ most \in Nat
    BY <1>6
  <1> HIDE DEF most
  <1>8. DeafBound <= cfg.timeout + TickPeriod + most
    BY <1>3, <1>6, <1>7, Ages
  <1> QED
    BY <1>3, <1>4, <1>5, <1>6, <1>8, Ages DEF most

\* The ground station's steps and the radio link's: a datagram is added, or a
\* fault pays for the one that is gone and for the window that is put off.
LEMMA DeafGround ==
  ASSUME GroundInv, TypeOK, DeafInv,
         \/ \E m \in Mcs : EmitWindow(m) \/ EmitLoss(m)
         \/ Rebuild \/ Lose \/ Duplicate
  PROVE  DeafInv'
  <1>1. UNCHANGED <<everSeen, tripped, everSeq, age, cfg>>
    BY GroundSteps, Zenon DEF vars, loopVars, dedupVars, dogVars
  <1>2. tickIn' = tickIn
    BY Zenon DEF EmitWindow, EmitLoss, Emit, Rebuild, Lose, Duplicate, clocks
  <1>3. \/ faults' = faults /\ net' # <<>>
        \/ faults' = faults + 1
    <2>1. ASSUME NEW p, net' = Append(net, p) PROVE net' # <<>>
      BY <2>1 DEF GroundInv
    <2>2. ASSUME NEW m \in Mcs, Emit(m) PROVE faults' = faults /\ net' # <<>>
      BY <2>1, <2>2 DEF Emit
    <2> QED
      BY <2>2 DEF EmitWindow, EmitLoss, Rebuild, Lose, Duplicate, Fault
  <1>4. sendIn' \in 0 .. Period
    BY GroundSteps DEF GroundInv
  <1>5. ASSUME age < DeafBound
        PROVE  age < DeafBound' /\ (net' = <<>> => age + sendIn' < DeafBound')
    BY <1>1, <1>3, <1>4, <1>5, OneMoreFault, Ages
  <1>6. /\ everSeen => (~ tripped => age + tickIn < cfg.timeout + TickPeriod)
        /\ everSeen => (tripped => ~ everSeq /\ age < DeafBound)
    BY DEF DeafInv
  <1> QED
    BY <1>1, <1>2, <1>5, <1>6, Zenon DEF DeafInv

\* A decision that is accepted starts the age anew; once tripped, every
\* datagram is.
LEMMA DeafReceive ==
  ASSUME GroundInv, TypeOK, DeafInv, Receive
  PROVE  DeafInv'
  <1>1. PICK seq, m : OnDecision(seq, m) \/ OnStale(seq)
    BY DEF Receive
  <1>2. UNCHANGED <<faults, sendIn, tickIn>>
    BY DEF Receive, gsVars
  <1>3. CASE OnDecision(seq, m)
    <2>1. everSeen' = TRUE /\ tripped' = FALSE /\ age' = 0 /\ cfg' = cfg
      BY <1>3 DEF OnDecision, loopVars
    <2>2. 0 + tickIn < cfg.timeout + TickPeriod
      BY Ages, Clocks
    <2> QED
      BY <1>2, <2>1, <2>2, Zenon DEF DeafInv
  <1>4. CASE OnStale(seq)
    <2>1. everSeq /\ UNCHANGED <<everSeen, tripped, age, cfg>>
      BY <1>4 DEF OnStale, IsStale, OnMalformed, loopVars, dogVars
    <2> QED
      BY <1>2, <2>1, Zenon DEF DeafInv
  <1> QED
    BY <1>1, <1>3, <1>4, Zenon

\* A tick finds the age below the timeout or trips, which empties the window.
LEMMA DeafTick ==
  ASSUME GroundInv, TypeOK, DeafInv, Tick
  PROVE  DeafInv'
  <1>1. tickIn' = TickPeriod /\ UNCHANGED <<faults, net, sendIn, cfg, everSeen, age>>
    BY DEF Tick, OnTick, OnTrip, gsVars, loopVars, dogVars
  <1>2. DeafBound' = DeafBound
    BY <1>1, OneMoreFault
  <1>3. CASE OnTick
    <2>1. ~ Overdue /\ UNCHANGED <<tripped, everSeq>>
      BY <1>3 DEF OnTick, dogVars, dedupVars
    <2>2. ~ (age >= cfg.timeout) => age + TickPeriod < cfg.timeout + TickPeriod
      BY Ages
    <2> QED
      BY <1>1, <1>2, <2>1, <2>2, Zenon DEF Overdue, DeafInv
  <1>4. CASE OnTrip
    <2>1. Overdue /\ tripped' = TRUE /\ everSeq' = FALSE
      BY <1>4 DEF OnTrip
    <2>2. age + tickIn < cfg.timeout + TickPeriod
      BY <2>1, Zenon DEF Overdue, DeafInv
    <2>3. DeafBound \in Nat /\ cfg.timeout + TickPeriod + Period <= DeafBound
      BY OneMoreFault
    <2>4. age < DeafBound /\ age + sendIn < DeafBound
      BY <2>2, <2>3, Ages, Clocks
    <2> QED
      BY <1>1, <1>2, <2>1, <2>4, Zenon DEF DeafInv
  <1> QED
    BY <1>3, <1>4 DEF Tick

\* A unit of time is one more of age and one less to the tick and the window.
LEMMA DeafAdvance ==
  ASSUME GroundInv, TypeOK, DeafInv, Advance
  PROVE  DeafInv'
  <1>1. /\ net = <<>> /\ net' = <<>> /\ sendIn > 0 /\ tickIn > 0
        /\ sendIn' = sendIn - 1 /\ tickIn' = tickIn - 1 /\ faults' = faults
    BY DEF Advance, gsVars
  <1>2. /\ age' \in {age, age + 1}
        /\ UNCHANGED <<everSeen, tripped, everSeq, cfg>>
    BY DEF Advance, Elapse, vars, loopVars, dedupVars, dogVars
  <1>3. age + tickIn < cfg.timeout + TickPeriod => age' + tickIn' < cfg.timeout + TickPeriod
    BY <1>1, <1>2, Ages, Clocks
  <1>4. DeafBound \in Nat /\ DeafBound' = DeafBound
    BY <1>1, <1>2, OneMoreFault
  <1>5. age + sendIn < DeafBound => age' < DeafBound /\ age' + sendIn' < DeafBound
    BY <1>1, <1>2, <1>4, Ages, Clocks
  <1> QED
    BY <1>1, <1>2, <1>3, <1>4, <1>5, Zenon DEF DeafInv

\* No step of the loop, loss or passing of time breaks DeafInv.
LEMMA DeafStep ==
  ASSUME GroundInv, TypeOK, DeafInv, [LinkNext]_linkVars
  PROVE  DeafInv'
  <1>1. CASE UNCHANGED linkVars
    <2>1. UNCHANGED <<everSeen, tripped, everSeq, age, cfg, net, faults, sendIn, tickIn>>
      BY <1>1 DEF linkVars, vars, loopVars, dedupVars, dogVars, gsVars, clocks
    <2> QED
      BY <2>1, OneMoreFault, Zenon DEF DeafInv
  <1>2. CASE \E c \in Configs : Start(c)
    BY <1>2, Zenon DEF Start, DeafInv
  <1>3. CASE /\ Poll(net # <<>>, tickIn = 0) \/ GapExpires \/ OnGap
             /\ UNCHANGED <<gsVars, net, clocks>>
    <2>1. UNCHANGED <<everSeen, tripped, everSeq, age, cfg>>
      BY <1>3, Zenon DEF Poll, GapExpires, OnGap, loopVars, dedupVars, dogVars
    <2>2. UNCHANGED <<net, faults, sendIn, tickIn>>
      BY <1>3 DEF gsVars, clocks
    <2> QED
      BY <2>1, <2>2, OneMoreFault, Zenon DEF DeafInv
  <1> QED
    BY <1>1, <1>2, <1>3, DeafGround, DeafReceive, DeafTick, DeafAdvance
       DEF LinkNext, Window, Drone, GapFires

\* "reset dedup so a restarted GS recovers": whatever the ground station's
\* numbering does, and whatever the tunnel loses or repeats, the drone hears a
\* decision again within the watchdog's timeout, a tick, a window, and a window
\* for every fault.
THEOREM NeverDeafForLong == LinkSpec => []HeardAgain
  <1>1. LinkInit => DeafInv
    BY Zenon DEF LinkInit, Init, DeafInv
  <1>2. GroundInv /\ TypeOK /\ DeafInv /\ [LinkNext]_linkVars => DeafInv'
    BY DeafStep
  <1>3. GroundInv /\ TypeOK /\ DeafInv => HeardAgain
    <2> SUFFICES ASSUME GroundInv, TypeOK, DeafInv, everSeen
                 PROVE  age <= cfg.timeout + TickPeriod + (1 + MaxFaults) * Period
      BY DEF HeardAgain
    <2> DEFINE most == (1 + MaxFaults) * Period
    <2>1. (age + tickIn < cfg.timeout + TickPeriod) \/ age < DeafBound
      BY Zenon DEF DeafInv
    <2>2. /\ DeafBound \in Nat /\ cfg.timeout + TickPeriod + Period <= DeafBound
          /\ DeafBound <= cfg.timeout + TickPeriod + most
      BY OneMoreFault
    <2>3. most \in Nat /\ tickIn \in Nat
      BY Ages, Clocks, TimeAssumption
    <2> HIDE DEF most
    <2>4. age <= cfg.timeout + TickPeriod + most
      BY <2>1, <2>2, <2>3, Ages
    <2> QED
      BY <2>4 DEF most
  <1>4. LinkSpec => []TypeOK
    BY LinkImplementsController, TypeCorrect, PTL
  <1> QED
    BY <1>1, <1>2, <1>3, <1>4, GroundInvariant, PTL DEF LinkSpec
=============================================================================
