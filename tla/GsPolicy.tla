------------------------------- MODULE GsPolicy -------------------------------
(***************************************************************************)
(* The ground station's MCS policy and the two feeds that drive it:        *)
(*   - LeadingSelector and Policy (dynlink/policy.py): tick(), the fast    *)
(*     path loss_event(), reset_for_new_session();                         *)
(*   - the tap feed (10 ms MICRO records, immediate LOSS records) and the  *)
(*     :8103 fallback, as on_micro, on_loss and on_event of                *)
(*     dynlink/controller.py fold them through SignalAggregator            *)
(*     (dynlink/signals.py).                                               *)
(*                                                                         *)
(* The signals are what they are compared with: an input says whether the  *)
(* SNR is known and its slope, what the learned prior says of the current  *)
(* rung and of the promote target, what the probe says of the target.      *)
(* A timer is set by the code and expires by an action of its own.  A      *)
(* count that fires when it reaches a limit is stored up to limit - 1.     *)
(***************************************************************************)
EXTENDS Integers

CONSTANTS
    Cap,            \* max_mcs
    Cooldown,       \* demote_cooldown_windows
    Starvation,     \* starvation_windows
    Dwell,          \* promote_dwell_ticks = flap_reset_clean_dwell_ticks
    PredictDebounce,\* predictive_debounce_windows
    SnrDebounce,    \* snr_demote_debounce
    ProbeRelease,   \* PROBE_CLEAN_RELEASE_TICKS
    Micros          \* MICROS_PER_WINDOW, and micros per tick

ASSUME PolicyAssumption ==
    /\ Cap \in Nat
    /\ {Cooldown, Starvation, Dwell, PredictDebounce, SnrDebounce,
        ProbeRelease, Micros} \subseteq Nat \ {0}

Rungs == 0..Cap

VARIABLES
    pol,        \* the Policy: see Boot and NewPolicy
    tap,        \* alive (_tap_alive()), micros since it came alive (% Micros)
    window,     \* slots for which a loss stays in SignalAggregator._micro
    pending,    \* _pending_lost: "none", or losses no MICRO has counted ("new")
    mode,       \* how the link behaves from here on: "any", "good", "blackout"
    beat        \* history: parity of the records fed since the link settled

vars == <<pol, tap, window, pending, mode, beat>>

Least(a, b) == IF a < b THEN a ELSE b

\* A count one higher, and whether that reaches its limit.
Count(n, limit) == Least(limit - 1, n + 1)
Reaches(n, limit) == n + 1 >= limit

\* A LeadingSelector: current rung, _clean_dwell, age of the last change
\* (within the rate limit, within the hold, free), on promote-probation, rungs
\* whose damper window is live.
Boot == [mcs |-> Least(1, Cap), dwell |-> 0, age |-> "free", trial |-> FALSE,
         supp |-> {}]

\* Policy's counters: _windows_since_demote, _starvation_count,
\* _predict_demote_count, _snr_demote_count, _probe_clean_rung/_ticks.  Two
\* fields are history: the losses in the window have cost a rung; a loss has
\* cost two.
NewPolicy == [sel |-> Boot, since |-> Cooldown, starved |-> 0, predict |-> 0,
              snrLow |-> 0, probe |-> <<0, 0>>, blamed |-> FALSE, twice |-> FALSE]

Init ==
    /\ pol = NewPolicy
    /\ tap = [alive |-> FALSE, micros |-> 0]
    /\ window = 0
    /\ pending = "none"
    /\ mode = "any"
    /\ beat = FALSE

(***************************************************************************)
(* What a tick sees of the SNR.  slope: "steady" allows promotes,          *)
(* "sinking" is a projected drop of predictive_min_drop_db (a slope        *)
(* between the two acts like a blocked target).  cur: the prior on the     *)
(* current rung ("fading": unviable only at the projected SNR, "hopeless": *)
(* the rung below is unviable too); target: the prior on the next rung     *)
(* ("open": confident, with headroom).  A separate input says that a       *)
(* confirmed rung above has its SNR back.                                  *)
(***************************************************************************)
Unknown == [known |-> FALSE, slope |-> "steady", cur |-> "viable", target |-> "cold"]

Snr == {Unknown}
    \cup [known : {TRUE}, slope : {"steady"}, cur : {"viable", "unviable"},
          target : {"cold", "blocked", "open"}]
    \cup [known : {TRUE}, slope : {"sinking"},
          cur : {"viable", "fading", "unviable", "hopeless"}, target : {"blocked"}]

\* What the link's mode allows: SNR, the emergency channel (FEC pressure or a
\* starved window), the probe's reading of the target.
SnrOf(m) == IF m # "good" THEN Snr
            ELSE {s \in Snr : s.known /\ s.slope = "steady" /\ s.cur = "viable"
                                      /\ s.target # "blocked"}
ChannelBOf(m) == CASE m = "any" -> {"quiet", "fec", "starved"}
                   [] m = "good" -> {"quiet"}
                   [] m = "blackout" -> {"starved"}
ProbeOf(m) == {"none", "clean"} \cup (IF m = "good" THEN {} ELSE {"dirty"})

(***************************************************************************)
(* LeadingSelector.                                                        *)
(***************************************************************************)
\* commit() of another rung.  A promote begins a trial, a demote ends it.
Moved(s, mcs) ==
    IF mcs = s.mcs THEN s
    ELSE [s EXCEPT !.mcs = mcs, !.dwell = 0, !.age = "rate",
                   !.trial = mcs > s.mcs]

ExternalDemote(s) == Moved(s, IF s.mcs > 0 THEN s.mcs - 1 ELSE 0)

\* The loss branch of select() with can_demote: one rung down; a loss on
\* probation charges the damper of the rung it failed on.
DemoteOnLoss(s) ==
    [ExternalDemote(s) EXCEPT
        !.dwell = 0,
        !.supp = IF s.trial /\ s.mcs > 0 THEN @ \cup {s.mcs} ELSE @]

\* Clean-tick bookkeeping: the dwell, and the damper cleared by it.
CleanTick(s) ==
    [s EXCEPT !.dwell = Count(@, Dwell),
              !.supp = IF Reaches(s.dwell, Dwell) THEN @ \ {s.mcs} ELSE @]

\* Faulty variant of MayPromote: no rate limit on snap-back.
MayPromoteUnlimited(s, snr, back) ==
    /\ snr.known /\ s.mcs < Cap
    /\ \/ back /\ snr.slope = "steady" /\ snr.target # "blocked"
       \/ /\ s.age = "free" /\ Reaches(s.dwell, Dwell)
          /\ snr.slope = "steady" /\ snr.target \in {"open", "cold"}

\* Faulty variant of MayPromote: a cold rung is not explored.
MayPromoteKneeOnly(s, snr, back) ==
    /\ snr.known /\ s.mcs < Cap /\ s.age # "rate"
    /\ \/ back /\ snr.slope = "steady" /\ snr.target # "blocked"
       \/ /\ s.age = "free" /\ Reaches(s.dwell, Dwell)
          /\ snr.slope = "steady" /\ snr.target = "open"

\* The three promote routes: snap-back, knee-gated ("open") and explore ("cold").
MayPromote(s, snr, back) ==
    /\ snr.known /\ s.mcs < Cap /\ s.age # "rate"
    /\ \/ back /\ snr.slope = "steady" /\ snr.target # "blocked"
       \/ /\ s.age = "free" /\ Reaches(s.dwell, Dwell)
          /\ snr.slope = "steady" /\ snr.target \in {"open", "cold"}

\* select(): the demote branch, or the clean tick and the promote routes.  The
\* damper and a dirty probe hold every route.
Select(s, snr, loss, emergency, canDemote, back, held) ==
    IF loss \/ emergency
    THEN IF ~canDemote THEN [s EXCEPT !.dwell = 0]
         ELSE IF loss THEN DemoteOnLoss(s)
         ELSE [ExternalDemote(s) EXCEPT !.dwell = 0]
    ELSE LET c == CleanTick(s)
         IN IF MayPromote(s, snr, back) /\ ~held THEN Moved(c, c.mcs + 1) ELSE c

(***************************************************************************)
(* Policy.                                                                 *)
(***************************************************************************)
\* Faulty variant of CooldownOk: off by one.
CooldownOkEarly(n) == n >= Cooldown - 1

CooldownOk(n) == n >= Cooldown

\* Faulty variant of Starved: only the window that reaches the limit counts,
\* and a starved window is not enough to go on.
StarvedNever(n, dry) == dry /\ n >= Starvation

\* sustained_starved: starvation_windows consecutive starved windows.
Starved(n, dry) == dry /\ Reaches(n, Starvation)

\* A policy p after a demote that the losses in the window caused.
Blamed(p, fired) == [p EXCEPT !.blamed = @ \/ fired,
                              !.twice = @ \/ (fired /\ p.blamed)]

\* tick() up to the promote gates: the predictive demote, then the proactive SNR
\* demote, which judges the rung the first one left; at most one of them.
PreDemoted(p, snr, ok) ==
    LET sinks == snr.cur # "viable" /\ snr.slope = "sinking"
        predict == IF ~snr.known THEN p.predict
                   ELSE IF sinks THEN Count(p.predict, PredictDebounce) ELSE 0
        first == ok /\ p.sel.mcs > 0 /\ sinks /\ Reaches(p.predict, PredictDebounce)
        low == snr.cur = "hopeless" \/ (snr.cur = "unviable" /\ ~first)
        snrLow == IF low THEN Count(p.snrLow, SnrDebounce) ELSE 0
        fires == first \/ (ok /\ low /\ Reaches(p.snrLow, SnrDebounce))
    IN [p EXCEPT !.predict = predict, !.snrLow = snrLow,
                 !.sel = IF fires THEN ExternalDemote(@) ELSE @]

\* The probe gate: clean readings are counted per target rung.
CleanBefore(p) == IF p.probe[1] = p.sel.mcs + 1 THEN p.probe[2] ELSE 0

\* A dirty probe holds every promote; so does a damped target, unless clean
\* readings or the raw-SNR minimum release it.
Held(p, reading, raw) ==
    \/ reading = "dirty"
    \/ /\ p.sel.mcs + 1 \in p.sel.supp /\ ~raw
       /\ ~(reading = "clean" /\ Reaches(CleanBefore(p), ProbeRelease))

\* _windows_since_demote counts this tick's window first.
WindowsSince(p) == Least(Cooldown, p.since + 1)

\* tick() from the promote gates on: q is p after the early demotes.
Selected(p, q, loss, snr, channelB, back, reading, raw) ==
    LET dry == channelB = "starved"
        s == Select(q.sel, snr, loss, channelB = "fec" \/ Starved(p.starved, dry),
                    CooldownOk(WindowsSince(p)) /\ q.sel.mcs = p.sel.mcs, back,
                    Held(q, reading, raw))
        demoted == loss /\ s.mcs < q.sel.mcs
    IN [q EXCEPT !.sel = s,
                 !.starved = IF dry THEN Count(@, Starvation) ELSE 0,
                 !.probe = <<q.sel.mcs + 1,
                             IF reading = "clean"
                             THEN Count(CleanBefore(q), ProbeRelease) ELSE 0>>,
                 !.since = IF s.mcs < p.sel.mcs THEN 0 ELSE WindowsSince(p),
                 !.blamed = @ \/ demoted,
                 !.twice = @ \/ (demoted /\ p.blamed)]

\* tick(): the policies p may become, with what the losses of the window cost.
Ticked(p, loss) ==
    UNION { LET q == PreDemoted(p, snr, CooldownOk(WindowsSince(p)))
            IN { Selected(p, q, loss, snr, channelB, back, reading, raw) :
                    channelB \in ChannelBOf(mode), reading \in ProbeOf(mode),
                    back \in IF snr.target = "blocked" THEN {FALSE} ELSE BOOLEAN,
                    raw \in IF q.sel.mcs + 1 \in q.sel.supp THEN BOOLEAN ELSE {FALSE} }
          : snr \in SnrOf(mode) }

\* loss_event(): the fast path, outside the tick.
LossEvent(p) ==
    LET s == DemoteOnLoss(p.sel)
        demoted == s.mcs < p.sel.mcs
    IN IF ~CooldownOk(p.since) THEN p
       ELSE Blamed([p EXCEPT !.sel = s, !.since = IF demoted THEN 0 ELSE @], demoted)

(***************************************************************************)
(* The feeds.  A breach says that the losses of the window reach           *)
(* video_demote_per.                                                       *)
(***************************************************************************)
\* New losses have cost nothing yet.
Fresh(p, isNew) == IF isNew THEN [p EXCEPT !.blamed = FALSE] ELSE p

Beats == beat' = IF mode = "any" THEN beat ELSE ~beat

\* on_micro: the losses announced by a LOSS record are in the next MICRO.  A
\* revived feed starts with an empty window.  Every Micros-th record ticks.
OnMicro(lost, breach) ==
    /\ tap.alive \/ mode = "any"
    /\ lost => mode = "any"
    /\ LET n == ((IF tap.alive THEN tap.micros ELSE 0) + 1) % Micros
           left == IF lost THEN Micros
                   ELSE IF tap.alive /\ window > 0 THEN window - 1 ELSE 0
           p0 == Fresh(pol, lost /\ ~(tap.alive /\ pending = "new"))
           p1 == IF lost /\ breach THEN LossEvent(p0) ELSE p0
       IN /\ breach => left > 0
          /\ tap' = [alive |-> TRUE, micros |-> n]
          /\ window' = left
          /\ pol' \in IF n = 0 THEN Ticked(p1, breach)
                      ELSE {p1}
    /\ pending' = "none"
    /\ Beats
    /\ UNCHANGED mode

\* on_loss: new losses, or late news of those in the last MICRO.
OnLoss(late, breach) ==
    /\ mode = "any"
    /\ late => tap.alive /\ window = Micros
    /\ tap' = [alive |-> TRUE, micros |-> IF tap.alive THEN tap.micros ELSE 0]
    /\ window' = IF tap.alive THEN window ELSE 0
    /\ pending' = IF late THEN pending ELSE "new"
    /\ LET p == Fresh(pol, ~late)
       IN pol' = IF breach THEN LossEvent(p) ELSE p
    /\ UNCHANGED <<mode, beat>>

\* on_event: a :8103 video record ticks only when the tap is stale.
OnRxEvent(breach) ==
    /\ ~tap.alive
    /\ breach => mode = "any"
    /\ pol' \in Ticked(Fresh(pol, TRUE), breach)
    /\ Beats
    /\ UNCHANGED <<tap, window, pending, mode>>

\* staleMs pass without a tap record.  What the window holds is dead: a revival
\* clears it.
TapStale ==
    /\ mode = "any" /\ tap.alive
    /\ tap' = [alive |-> FALSE, micros |-> 0]
    /\ window' = 0 /\ pending' = "none"
    /\ UNCHANGED <<pol, mode, beat>>

\* reset_for_new_session.
NewSession ==
    /\ mode = "any"
    /\ pol' = [NewPolicy EXCEPT !.twice = pol.twice]
    /\ UNCHANGED <<tap, window, pending, mode, beat>>

\* Time: the rate limit and the hold, the probation and a damper window run out.
AgeAdvances ==
    /\ pol.sel.age # "free"
    /\ pol' = [pol EXCEPT !.sel.age = IF @ = "rate" THEN "hold" ELSE "free"]
    /\ UNCHANGED <<tap, window, pending, mode, beat>>

TrialEnds ==
    /\ pol.sel.trial
    /\ pol' = [pol EXCEPT !.sel.trial = FALSE]
    /\ UNCHANGED <<tap, window, pending, mode, beat>>

DamperExpires(r) ==
    /\ r \in pol.sel.supp
    /\ pol' = [pol EXCEPT !.sel.supp = @ \ {r}]
    /\ UNCHANGED <<tap, window, pending, mode, beat>>

\* The link settles for good or goes dark for good.
LinkSettles ==
    /\ mode = "any"
    /\ mode' \in {"good", "blackout"}
    /\ UNCHANGED <<pol, tap, window, pending, beat>>

Next ==
    \/ \E lost, breach \in BOOLEAN : OnMicro(lost, breach)
    \/ \E late, breach \in BOOLEAN : OnLoss(late, breach)
    \/ \E breach \in BOOLEAN : OnRxEvent(breach)
    \/ TapStale \/ NewSession \/ AgeAdvances \/ TrialEnds \/ LinkSettles
    \/ \E r \in Rungs : DamperExpires(r)

\* Once the link has settled, one of the two feeds delivers for ever (one of
\* OnMicro and OnRxEvent is always enabled), and time passes.
Spec == Init /\ [][Next]_vars
        /\ (([]<>(mode = "any")) \/ ([]<><<beat' # beat>>_vars))
        /\ WF_vars(AgeAdvances)
        /\ \A r \in Rungs : WF_vars(DamperExpires(r))

------------------------------------------------------------------------------
(***************************************************************************)
(* Properties.                                                             *)
(***************************************************************************)
\* A loss costs one rung: the fast path, the MICRO that contains the losses a
\* LOSS record announced, late news of them and the tick that still sees them
\* in its window never demote twice for the same losses (the shared cooldown,
\* demote_cooldown_windows).
OneRungPerLoss == ~pol.twice

\* The types of the selector and of the policy.
Selectors == [mcs : Rungs, dwell : 0..(Dwell - 1), age : {"rate", "hold", "free"},
              trial : BOOLEAN, supp : SUBSET Rungs]
Policies == [sel : Selectors, since : 0..Cooldown, starved : 0..(Starvation - 1),
             predict : 0..(PredictDebounce - 1), snrLow : 0..(SnrDebounce - 1),
             probe : (0..(Cap + 1)) \X (0..(ProbeRelease - 1)),
             blamed : BOOLEAN, twice : BOOLEAN]

\* Type invariant of the policy and its feeds.
PolicyTypeOK ==
    /\ pol \in Policies
    /\ tap \in [alive : BOOLEAN, micros : 0..(Micros - 1)]
    /\ window \in 0..Micros
    /\ pending \in {"none", "new"}
    /\ mode \in {"any", "good", "blackout"}
    /\ beat \in BOOLEAN

\* The inductive strengthening of OneRungPerLoss, for a cooldown of two or more
\* windows: losses that have cost a rung are at most one tick old, and then
\* leave the rolling window before the next tick.
PolicyInv ==
    /\ PolicyTypeOK
    /\ ~pol.twice
    /\ ~tap.alive => window = 0 /\ pending = "none"
    /\ pol.blamed /\ window > 0 =>
          pol.since = 0 \/ (pol.since = 1 /\ window + tap.micros <= Micros)
    /\ pol.blamed /\ pending = "new" => pol.since = 0

\* Within a session the rung moves by one step at a time, and a tick that
\* steps down is not undone by the snap-back of the same tick (external_demote's
\* docstring: without the stamp "snap-back can cancel the demote on the spot").
StepByStep ==
    [][ pol'.sel # Boot =>
        /\ pol'.sel.mcs - pol.sel.mcs \in -1..1
        /\ pol.sel.age # "rate" /\ pol'.sel.age = "rate" => pol'.sel.mcs # pol.sel.mcs ]_vars

\* The blackout failsafe: a link that stays starved brings the rung to the
\* floor, whatever the cooldown, the debounces and the promote routes do.
BlackoutReachesFloor == mode = "blackout" ~> pol.sel.mcs = 0

\* A link that stays good is used: every rung up to the cap is climbed, past
\* dampers, dwell and cold knees.
GoodLinkClimbs == mode = "good" ~> pol.sel.mcs = Cap

=============================================================================
