---------------------------- MODULE GsPolicyProofs ----------------------------
(***************************************************************************)
(* A loss never costs two rungs, for every ladder, debounce and window     *)
(* length, as long as demote_cooldown_windows is at least two.             *)
(***************************************************************************)
EXTENDS GsPolicy, TLAPS

\* A rung below the current one, or the floor.
Below(s) == IF s.mcs > 0 THEN s.mcs - 1 ELSE 0

\* Every limit is a positive number.
LEMMA Limits ==
    /\ Cap \in Nat
    /\ Cooldown \in Nat \ {0} /\ Starvation \in Nat \ {0} /\ Dwell \in Nat \ {0}
    /\ PredictDebounce \in Nat \ {0} /\ SnrDebounce \in Nat \ {0}
    /\ ProbeRelease \in Nat \ {0} /\ Micros \in Nat \ {0}
  BY PolicyAssumption

\* A debounce count stays below its limit.
LEMMA CountType ==
    ASSUME NEW limit \in Nat \ {0}, NEW n \in 0..(limit - 1)
    PROVE  Count(n, limit) \in 0..(limit - 1)
  BY DEF Count, Least

\* The micro counter wraps at the window length, as on_micro's modulus does.
LEMMA NextMicro ==
    ASSUME NEW n \in 0..(Micros - 1)
    PROVE  (n + 1) % Micros = IF n + 1 = Micros THEN 0 ELSE n + 1
  BY Limits

\* commit() of another rung keeps the selector well formed.
LEMMA MovedType ==
    ASSUME NEW s \in Selectors, NEW m \in Rungs
    PROVE  Moved(s, m) \in Selectors /\ Moved(s, m).mcs = m
  <1> DEFINE up == m > s.mcs
  <1>1. up \in BOOLEAN
    OBVIOUS
  <1>2. 0 \in 0..(Dwell - 1)
    BY Limits
  <1>3. CASE m = s.mcs
    BY <1>3 DEF Moved
  <1>4. CASE m # s.mcs
    <2>1. Moved(s, m) = [s EXCEPT !.mcs = m, !.dwell = 0, !.age = "rate", !.trial = up]
      BY <1>4 DEF Moved
    <2> HIDE DEF up
    <2> QED
      BY <1>1, <1>2, <2>1 DEF Selectors
  <1> QED
    BY <1>3, <1>4

\* external_demote goes one rung down, or stays on the floor.
LEMMA ExternalDemoteType ==
    ASSUME NEW s \in Selectors
    PROVE  ExternalDemote(s) \in Selectors /\ ExternalDemote(s).mcs = Below(s)
  <1>1. s.mcs \in Rungs
    BY DEF Selectors
  <1>2. Below(s) \in Rungs
    BY <1>1, Limits DEF Below, Rungs
  <1> QED
    BY <1>2, MovedType DEF ExternalDemote, Below

\* So does the loss branch of select(), which may charge the damper.
LEMMA DemoteOnLossType ==
    ASSUME NEW s \in Selectors
    PROVE  DemoteOnLoss(s) \in Selectors /\ DemoteOnLoss(s).mcs = Below(s)
  <1> DEFINE e == ExternalDemote(s)
             supp == IF s.trial /\ s.mcs > 0 THEN e.supp \cup {s.mcs} ELSE e.supp
  <1>1. e \in Selectors /\ e.mcs = Below(s)
    BY ExternalDemoteType
  <1>2. 0 \in 0..(Dwell - 1)
    BY Limits
  <1>3. e.supp \cup {s.mcs} \in SUBSET Rungs /\ e.supp \in SUBSET Rungs
    BY <1>1 DEF Selectors
  <1>4. supp \in SUBSET Rungs
    BY <1>3, Zenon
  <1>5. DemoteOnLoss(s) = [e EXCEPT !.dwell = 0, !.supp = supp]
    BY DEF DemoteOnLoss
  <1> HIDE DEF e, supp
  <1> QED
    BY <1>1, <1>2, <1>4, <1>5 DEF Selectors

\* The clean-tick bookkeeping leaves the rung alone.
LEMMA CleanTickType ==
    ASSUME NEW s \in Selectors
    PROVE  CleanTick(s) \in Selectors /\ CleanTick(s).mcs = s.mcs
  BY CountType, Limits DEF CleanTick, Selectors

\* How far a selector may go from s to r: one rung at most, up only outside the
\* rate limit, and exactly a rung that changes is stamped.
OneRung(s, r) ==
    /\ r.mcs >= s.mcs - 1 /\ r.mcs <= s.mcs + 1
    /\ r.mcs > s.mcs => s.age # "rate"
    /\ r.age = IF r.mcs = s.mcs THEN s.age ELSE "rate"

\* A commit to a rung next to the current one, up only outside the rate limit.
LEMMA MovedRung ==
    ASSUME NEW s \in Selectors, NEW m \in Rungs,
           m >= s.mcs - 1, m <= s.mcs + 1, m > s.mcs => s.age # "rate"
    PROVE  OneRung(s, Moved(s, m))
  <1>1. Moved(s, m).mcs = m
    BY MovedType
  <1>2. Moved(s, m).age = IF m = s.mcs THEN s.age ELSE "rate"
    BY DEF Moved, Selectors
  <1> QED
    BY <1>1, <1>2 DEF OneRung

\* external_demote is such a commit.
LEMMA ExternalDemoteRung ==
    ASSUME NEW s \in Selectors
    PROVE  OneRung(s, ExternalDemote(s))
  <1>1. s.mcs \in Rungs
    BY DEF Selectors
  <1>2. Below(s) \in Rungs /\ Below(s) >= s.mcs - 1 /\ Below(s) <= s.mcs
    BY <1>1, Limits DEF Below, Rungs
  <1>3. s.mcs \in Int /\ Below(s) \in Int
    BY <1>1, <1>2, Limits DEF Rungs
  <1>4. ~(Below(s) > s.mcs) /\ Below(s) <= s.mcs + 1
    BY <1>2, <1>3
  <1>5. OneRung(s, Moved(s, Below(s)))
    BY <1>2, <1>4, MovedRung
  <1> QED
    BY <1>5 DEF ExternalDemote, Below

\* And so is the loss branch.
LEMMA DemoteOnLossRung ==
    ASSUME NEW s \in Selectors
    PROVE  OneRung(s, DemoteOnLoss(s))
  <1>1. ExternalDemote(s) \in Selectors /\ OneRung(s, ExternalDemote(s))
    BY ExternalDemoteType, ExternalDemoteRung
  <1>2. /\ DemoteOnLoss(s).mcs = ExternalDemote(s).mcs
        /\ DemoteOnLoss(s).age = ExternalDemote(s).age
    BY <1>1 DEF DemoteOnLoss, Selectors
  <1> QED
    BY <1>1, <1>2 DEF OneRung

\* select() moves by one rung, down only with can_demote, and not up on a loss.
LEMMA SelectFacts ==
    ASSUME NEW s \in Selectors, NEW snr, NEW loss \in BOOLEAN, NEW emergency \in BOOLEAN,
           NEW canDemote \in BOOLEAN, NEW back, NEW held
    PROVE  LET r == Select(s, snr, loss, emergency, canDemote, back, held)
           IN /\ r \in Selectors
              /\ OneRung(s, r)
              /\ r.mcs < s.mcs => canDemote
  <1> DEFINE r == Select(s, snr, loss, emergency, canDemote, back, held)
             c == CleanTick(s)
             x == ExternalDemote(s)
  <1>1. s.mcs \in Rungs /\ s.mcs \in Int
    BY Limits DEF Selectors, Rungs
  <1>2. 0 \in 0..(Dwell - 1)
    BY Limits
  <1>3. CASE (loss \/ emergency) /\ ~canDemote
    <2>1. r = [s EXCEPT !.dwell = 0]
      BY <1>3 DEF Select
    <2>2. r \in Selectors /\ r.mcs = s.mcs /\ r.age = s.age
      BY <1>2, <2>1 DEF Selectors
    <2> QED
      BY <1>1, <2>2 DEF OneRung
  <1>4. CASE loss /\ canDemote
    <2>1. r = DemoteOnLoss(s)
      BY <1>4 DEF Select
    <2> QED
      BY <1>4, <2>1, DemoteOnLossType, DemoteOnLossRung
  <1>5. CASE ~loss /\ emergency /\ canDemote
    <2>1. r = [x EXCEPT !.dwell = 0]
      BY <1>5 DEF Select
    <2>2. x \in Selectors /\ OneRung(s, x)
      BY ExternalDemoteType, ExternalDemoteRung
    <2> HIDE DEF x, r
    <2>3. r \in Selectors /\ r.mcs = x.mcs /\ r.age = x.age
      BY <1>2, <2>1, <2>2 DEF Selectors
    <2> QED
      BY <1>5, <2>2, <2>3 DEF OneRung, r
  <1>6. CASE ~loss /\ ~emergency
    <2>1. c \in Selectors /\ c.mcs = s.mcs
      BY CleanTickType
    <2>2. c.age = s.age
      BY DEF CleanTick, Selectors
    <2>3. CASE MayPromote(s, snr, back) /\ ~held
      <3>1. r = Moved(c, c.mcs + 1)
        BY <1>6, <2>3 DEF Select
      <3>2. s.mcs < Cap /\ s.age # "rate"
        BY <2>3 DEF MayPromote
      <3> HIDE DEF c, r
      <3>3. c.mcs + 1 \in Rungs
        BY <1>1, <2>1, <3>2, Limits DEF Rungs
      <3>4. r \in Selectors /\ r.mcs = s.mcs + 1
        BY <2>1, <3>1, <3>3, MovedType
      <3>5. r.age = "rate"
        BY <2>1, <3>1, <1>1 DEF Moved, Selectors, Rungs
      <3> QED
        BY <1>1, <3>2, <3>4, <3>5 DEF OneRung, r
    <2>4. CASE ~(MayPromote(s, snr, back) /\ ~held)
      <3>1. r = c
        BY <1>6, <2>4 DEF Select
      <3> HIDE DEF c, r
      <3> QED
        BY <1>1, <2>1, <2>2, <3>1 DEF OneRung, r
    <2> QED
      BY <2>3, <2>4
  <1> QED
    BY <1>3, <1>4, <1>5, <1>6

\* The early demotes of a tick touch the selector and the debounces only: they
\* go one rung down, and only when the cooldown allows it.
LEMMA PreDemotedFacts ==
    ASSUME NEW p \in Policies, NEW snr, NEW ok \in BOOLEAN
    PROVE  LET q == PreDemoted(p, snr, ok)
           IN /\ q \in Policies
              /\ q.since = p.since /\ q.blamed = p.blamed /\ q.twice = p.twice
              /\ q.sel = p.sel \/ (ok /\ q.sel = ExternalDemote(p.sel))
  <1> DEFINE q == PreDemoted(p, snr, ok)
             sinks == snr.cur # "viable" /\ snr.slope = "sinking"
             predict == IF ~snr.known THEN p.predict
                        ELSE IF sinks THEN Count(p.predict, PredictDebounce) ELSE 0
             first == ok /\ p.sel.mcs > 0 /\ sinks /\ Reaches(p.predict, PredictDebounce)
             low == snr.cur = "hopeless" \/ (snr.cur = "unviable" /\ ~first)
             snrLow == IF low THEN Count(p.snrLow, SnrDebounce) ELSE 0
             fires == first \/ (ok /\ low /\ Reaches(p.snrLow, SnrDebounce))
             sel == IF fires THEN ExternalDemote(p.sel) ELSE p.sel
  <1>1. q = [p EXCEPT !.predict = predict, !.snrLow = snrLow, !.sel = sel]
    BY Zenon DEF PreDemoted
  <1>2. /\ p.predict \in 0..(PredictDebounce - 1) /\ p.snrLow \in 0..(SnrDebounce - 1)
        /\ p.sel \in Selectors
    BY DEF Policies
  <1>3. Count(p.predict, PredictDebounce) \in 0..(PredictDebounce - 1)
    BY <1>2, CountType, Limits
  <1>4. Count(p.snrLow, SnrDebounce) \in 0..(SnrDebounce - 1)
    BY <1>2, CountType, Limits
  <1>5. 0 \in 0..(PredictDebounce - 1) /\ 0 \in 0..(SnrDebounce - 1)
    BY Limits
  <1>6. predict \in 0..(PredictDebounce - 1)
    BY <1>2, <1>3, <1>5, Zenon
  <1>7. snrLow \in 0..(SnrDebounce - 1)
    BY <1>4, <1>5, Zenon
  <1>8. sel \in Selectors
    BY <1>2, ExternalDemoteType, Zenon
  <1>9. sel = p.sel \/ (ok /\ sel = ExternalDemote(p.sel))
    BY Zenon
  <1> HIDE DEF predict, snrLow, sel, q
  <1>10. /\ q \in Policies /\ q.sel = sel
         /\ q.since = p.since /\ q.blamed = p.blamed /\ q.twice = p.twice
    BY <1>1, <1>6, <1>7, <1>8 DEF Policies
  <1> QED
    BY <1>9, <1>10 DEF q

\* The window count of a tick.
LEMMA WindowsSinceType ==
    ASSUME NEW p \in Policies
    PROVE  /\ WindowsSince(p) \in 0..Cooldown
           /\ p.since = 0 /\ Cooldown >= 2 => WindowsSince(p) = 1
  <1>1. p.since \in 0..Cooldown
    BY DEF Policies
  <1> QED
    BY <1>1, Limits DEF WindowsSince, Least

\* What a tick (or the fast path) may do to a policy p, given whether the
\* cooldown lets it demote: r is one rung away at most, and a demote that the
\* losses caused restarts the cooldown.
PolicyStep(p, r, ok, loss, since) ==
    /\ r \in Policies
    /\ OneRung(p.sel, r.sel)
    /\ r.since = IF r.sel.mcs < p.sel.mcs THEN 0 ELSE since
    /\ r.sel.mcs < p.sel.mcs => ok
    /\ r.blamed => p.blamed \/ (ok /\ loss /\ r.since = 0)
    /\ r.twice => p.twice \/ (ok /\ loss /\ p.blamed)

\* One rung down, then select() without can_demote or under the rate limit, is
\* one rung: an early demote and select() never add up.
LEMMA EarlyThenSelect ==
    ASSUME NEW s \in Selectors, NEW q \in Selectors, NEW r \in Selectors,
           q = s \/ q = ExternalDemote(s), OneRung(q, r),
           r.mcs < q.mcs => q.mcs = s.mcs
    PROVE  OneRung(s, r)
  <1>1. s.mcs \in Int /\ q.mcs \in Int /\ r.mcs \in Int
    BY Limits DEF Selectors, Rungs
  <1>2. OneRung(s, q) /\ (q = s \/ q.mcs <= s.mcs)
    <2>1. CASE q = s
      BY <1>1, <2>1 DEF OneRung
    <2>2. CASE q = ExternalDemote(s)
      <3>1. q.mcs = Below(s) /\ OneRung(s, q)
        BY <2>2, ExternalDemoteType, ExternalDemoteRung
      <3> QED
        BY <1>1, <3>1, Limits DEF Below, Selectors, Rungs
    <2> QED
      BY <2>1, <2>2
  <1>3. CASE q.mcs = s.mcs
    BY <1>1, <1>2, <1>3 DEF OneRung
  <1>4. CASE q.mcs # s.mcs
    <2>1. q.age = "rate" /\ q.mcs = s.mcs - 1
      BY <1>1, <1>2, <1>4 DEF OneRung
    <2>2. r.mcs = q.mcs
      BY <1>1, <1>4, <2>1 DEF OneRung
    <2>3. r.age = "rate"
      BY <2>1, <2>2 DEF OneRung
    <2> QED
      BY <1>1, <2>1, <2>2, <2>3 DEF OneRung
  <1> QED
    BY <1>3, <1>4

\* tick() from its promote gates on.
LEMMA SelectedStep ==
    ASSUME NEW p \in Policies, NEW loss \in BOOLEAN, NEW snr, NEW channelB, NEW back,
           NEW reading, NEW raw
    PROVE  LET ok == CooldownOk(WindowsSince(p))
               q == PreDemoted(p, snr, ok)
           IN PolicyStep(p, Selected(p, q, loss, snr, channelB, back, reading, raw),
                         ok, loss, WindowsSince(p))
  <1> DEFINE now == WindowsSince(p)
             ok == CooldownOk(now)
             q == PreDemoted(p, snr, ok)
             dry == channelB = "starved"
             emergency == channelB = "fec" \/ Starved(p.starved, dry)
             canDemote == ok /\ q.sel.mcs = p.sel.mcs
             held == Held(q, reading, raw)
             s == Select(q.sel, snr, loss, emergency, canDemote, back, held)
             demoted == loss /\ s.mcs < q.sel.mcs
             starved == IF dry THEN Count(q.starved, Starvation) ELSE 0
             clean == IF reading = "clean" THEN Count(CleanBefore(q), ProbeRelease) ELSE 0
             probe == <<q.sel.mcs + 1, clean>>
  <1>1. ok \in BOOLEAN /\ now \in 0..Cooldown
    BY WindowsSinceType DEF CooldownOk
  <1>2. emergency \in BOOLEAN /\ canDemote \in BOOLEAN /\ demoted \in BOOLEAN
    BY <1>1 DEF Starved, Reaches
  <1>3. /\ q \in Policies /\ q.blamed = p.blamed /\ q.twice = p.twice
        /\ q.sel = p.sel \/ (ok /\ q.sel = ExternalDemote(p.sel))
    BY <1>1, PreDemotedFacts
  <1>4. q.sel \in Selectors /\ p.sel \in Selectors
    BY <1>3 DEF Policies
  <1>5. s \in Selectors /\ OneRung(q.sel, s) /\ (s.mcs < q.sel.mcs => canDemote)
    BY <1>2, <1>4, SelectFacts
  <1>6. OneRung(p.sel, s)
    BY <1>3, <1>4, <1>5, EarlyThenSelect
  <1>7. s.mcs \in Int /\ q.sel.mcs \in Rungs /\ p.sel.mcs \in Int /\ q.sel.mcs \in Int
    BY <1>4, <1>5, Limits DEF Selectors, Rungs
  <1>8. demoted => loss /\ s.mcs < p.sel.mcs
    BY <1>5
  <1>9. s.mcs < p.sel.mcs => ok
    <2>1. CASE q.sel = p.sel
      BY <1>5, <2>1
    <2> QED
      BY <1>3, <2>1
  <1>10. starved \in 0..(Starvation - 1)
    <2>1. q.starved \in 0..(Starvation - 1) /\ 0 \in 0..(Starvation - 1)
      BY <1>3, Limits DEF Policies
    <2>2. Count(q.starved, Starvation) \in 0..(Starvation - 1)
      BY <2>1, CountType, Limits
    <2> QED
      BY <2>1, <2>2, Zenon
  <1>11. clean \in 0..(ProbeRelease - 1)
    <2>1. q.probe[2] \in 0..(ProbeRelease - 1) /\ 0 \in 0..(ProbeRelease - 1)
      BY <1>3, Limits DEF Policies
    <2>2. CleanBefore(q) \in 0..(ProbeRelease - 1)
      BY <2>1, Zenon DEF CleanBefore
    <2>3. Count(CleanBefore(q), ProbeRelease) \in 0..(ProbeRelease - 1)
      BY <2>2, CountType, Limits
    <2> QED
      BY <2>1, <2>3, Zenon
  <1>12. probe \in (0..(Cap + 1)) \X (0..(ProbeRelease - 1))
    BY <1>7, <1>11, Limits DEF Rungs
  <1> DEFINE since == IF s.mcs < p.sel.mcs THEN 0 ELSE now
             blamed == q.blamed \/ demoted
             twice == q.twice \/ (demoted /\ p.blamed)
             r == [q EXCEPT !.sel = s, !.starved = starved, !.probe = probe,
                            !.since = since, !.blamed = blamed, !.twice = twice]
  <1>13. Selected(p, q, loss, snr, channelB, back, reading, raw) = r
    BY Zenon DEF Selected
  <1> HIDE DEF now, ok, q, s, starved, probe
  <1>14. since \in 0..Cooldown
    BY <1>1, Limits
  <1>15. blamed \in BOOLEAN /\ twice \in BOOLEAN
    BY Zenon
  <1>16. blamed => p.blamed \/ (ok /\ loss /\ since = 0)
    BY <1>3, <1>8, <1>9, Zenon
  <1>17. twice => p.twice \/ (ok /\ loss /\ p.blamed)
    BY <1>3, <1>8, <1>9, Zenon
  <1> HIDE DEF blamed, twice, since, demoted
  <1>18. /\ r \in Policies /\ r.sel = s /\ r.since = since
         /\ r.blamed = blamed /\ r.twice = twice
    BY <1>3, <1>5, <1>10, <1>12, <1>14, <1>15 DEF Policies
  <1> HIDE DEF r
  <1>19. PolicyStep(p, r, ok, loss, now)
    BY <1>6, <1>9, <1>16, <1>17, <1>18, Zenon DEF PolicyStep, since
  <1> QED
    BY <1>13, <1>19, Zenon DEF now, ok, q

\* A tick.
LEMMA TickedStep ==
    ASSUME NEW p \in Policies, NEW loss \in BOOLEAN, NEW r \in Ticked(p, loss)
    PROVE  PolicyStep(p, r, CooldownOk(WindowsSince(p)), loss, WindowsSince(p))
  <1> DEFINE Q(snr) == PreDemoted(p, snr, CooldownOk(WindowsSince(p)))
             Raw(snr) == IF Q(snr).sel.mcs + 1 \in Q(snr).sel.supp THEN BOOLEAN ELSE {FALSE}
             Back(snr) == IF snr.target = "blocked" THEN {FALSE} ELSE BOOLEAN
             S(snr) == { Selected(p, Q(snr), loss, snr, channelB, back, reading, raw) :
                            channelB \in ChannelBOf(mode), reading \in ProbeOf(mode),
                            back \in Back(snr), raw \in Raw(snr) }
  <1>1. Ticked(p, loss) = UNION { S(snr) : snr \in SnrOf(mode) }
    BY DEF Ticked
  <1> HIDE DEF S
  <1>2. PICK snr \in SnrOf(mode) : r \in S(snr)
    BY <1>1
  <1> USE DEF S
  <1> HIDE DEF Q, Raw, Back
  <1>3. PICK channelB \in ChannelBOf(mode), reading \in ProbeOf(mode),
             back \in Back(snr), raw \in Raw(snr) :
            r = Selected(p, Q(snr), loss, snr, channelB, back, reading, raw)
    BY <1>2
  <1> QED
    BY <1>3, SelectedStep, Zenon DEF Q

\* The fast path.
LEMMA LossEventStep ==
    ASSUME NEW p \in Policies
    PROVE  PolicyStep(p, LossEvent(p), CooldownOk(p.since), TRUE, p.since)
  <1> DEFINE s == DemoteOnLoss(p.sel)
             demoted == s.mcs < p.sel.mcs
             since == IF demoted THEN 0 ELSE p.since
             blamed == p.blamed \/ demoted
             twice == p.twice \/ (demoted /\ p.blamed)
             r == [p EXCEPT !.sel = s, !.since = since, !.blamed = blamed, !.twice = twice]
  <1>1. p.sel \in Selectors /\ p.since \in 0..Cooldown
    BY DEF Policies
  <1>2. s \in Selectors /\ OneRung(p.sel, s)
    BY <1>1, DemoteOnLossType, DemoteOnLossRung
  <1>3. CASE ~CooldownOk(p.since)
    <2>1. LossEvent(p) = p
      BY <1>3 DEF LossEvent
    <2>2. p.sel.mcs \in Int
      BY <1>1, Limits DEF Selectors, Rungs
    <2>3. OneRung(p.sel, p.sel) /\ ~(p.sel.mcs < p.sel.mcs)
      BY <2>2 DEF OneRung
    <2> QED
      BY <2>1, <2>3, Zenon DEF PolicyStep
  <1>4. CASE CooldownOk(p.since)
    <2>1. LossEvent(p) = Blamed([p EXCEPT !.sel = s, !.since = since], demoted)
      BY <1>4, Zenon DEF LossEvent
    <2>2. Blamed([p EXCEPT !.sel = s, !.since = since], demoted) = r
      BY DEF Blamed, Policies
    <2>3. since \in 0..Cooldown
      BY <1>1, Limits
    <2>4. blamed \in BOOLEAN /\ twice \in BOOLEAN
      BY Zenon
    <2>5. blamed => p.blamed \/ since = 0
      BY Zenon
    <2>6. twice => p.twice \/ p.blamed
      BY Zenon
    <2> HIDE DEF blamed, twice, since, s
    <2>7. /\ r \in Policies /\ r.sel = s /\ r.since = since
          /\ r.blamed = blamed /\ r.twice = twice
      BY <1>2, <2>3, <2>4 DEF Policies
    <2> HIDE DEF r
    <2> QED
      BY <1>2, <1>4, <2>1, <2>2, <2>5, <2>6, <2>7, Zenon DEF PolicyStep, since
  <1> QED
    BY <1>3, <1>4

\* The fast path never goes up.
LEMMA LossEventDown ==
    ASSUME NEW p \in Policies
    PROVE  LossEvent(p).sel.mcs <= p.sel.mcs
  <1> DEFINE s == DemoteOnLoss(p.sel)
  <1>1. p.sel \in Selectors
    BY DEF Policies
  <1>2. p.sel.mcs \in Nat /\ s.mcs = Below(p.sel)
    BY <1>1, DemoteOnLossType, Limits DEF Selectors, Rungs
  <1>3. s.mcs <= p.sel.mcs /\ p.sel.mcs <= p.sel.mcs
    BY <1>2 DEF Below
  <1>4. LossEvent(p).sel = p.sel \/ LossEvent(p).sel = s
    BY DEF LossEvent, Blamed, Policies
  <1> QED
    BY <1>3, <1>4

\* The cooldown holds back a demote in the window of the last one, and at the
\* first tick after it.
LEMMA CooldownGate ==
    ASSUME NEW p \in Policies, Cooldown >= 2
    PROVE  /\ p.since \in {0, 1} => ~CooldownOk(p.since)
           /\ p.since = 0 => ~CooldownOk(WindowsSince(p)) /\ WindowsSince(p) = 1
  <1>1. p.since \in 0..Cooldown
    BY DEF Policies
  <1> QED
    BY <1>1, WindowsSinceType, Limits DEF CooldownOk

\* New losses clear the blame and nothing else.
LEMMA FreshFacts ==
    ASSUME NEW p \in Policies, NEW isNew \in BOOLEAN
    PROVE  LET q == Fresh(p, isNew)
           IN /\ q \in Policies
              /\ q.sel = p.sel /\ q.since = p.since /\ q.twice = p.twice
              /\ q.blamed => p.blamed /\ ~isNew
  <1>1. CASE isNew
    BY <1>1 DEF Fresh, Policies
  <1>2. CASE ~isNew
    BY <1>2 DEF Fresh
  <1> QED
    BY <1>1, <1>2

\* The fast path and then a tick, in one MICRO, are one rung too.
LEMMA FastThenTick ==
    ASSUME NEW p \in Policies, NEW q \in Policies, NEW r \in Policies, Cooldown >= 2,
           OneRung(p.sel, q.sel), q.sel.mcs <= p.sel.mcs,
           q.sel.mcs < p.sel.mcs => q.since = 0,
           OneRung(q.sel, r.sel),
           r.sel.mcs < q.sel.mcs => CooldownOk(WindowsSince(q))
    PROVE  OneRung(p.sel, r.sel)
  <1>1. p.sel.mcs \in Int /\ q.sel.mcs \in Int /\ r.sel.mcs \in Int
    BY Limits DEF Policies, Selectors, Rungs
  <1>2. CASE q.sel.mcs = p.sel.mcs
    BY <1>1, <1>2 DEF OneRung
  <1>3. CASE q.sel.mcs < p.sel.mcs
    <2>1. ~CooldownOk(WindowsSince(q))
      BY <1>3, CooldownGate
    <2>2. q.sel.age = "rate" /\ q.sel.mcs = p.sel.mcs - 1
      BY <1>1, <1>3 DEF OneRung
    <2>3. r.sel.mcs = q.sel.mcs
      BY <1>1, <2>1, <2>2 DEF OneRung
    <2>4. r.sel.age = "rate"
      BY <2>2, <2>3 DEF OneRung
    <2> QED
      BY <1>1, <2>2, <2>3, <2>4 DEF OneRung
  <1> QED
    BY <1>1, <1>2, <1>3

\* PolicyInv holds at boot.
LEMMA PolicyInit == Init => PolicyInv
  <1> SUFFICES ASSUME Init PROVE PolicyInv
    OBVIOUS
  <1>1. Boot \in Selectors
    BY Limits DEF Boot, Selectors, Least, Rungs
  <1>2. NewPolicy \in Policies
    BY <1>1, Limits DEF NewPolicy, Policies
  <1>3. ~pol.twice /\ ~pol.blamed
    BY DEF Init, NewPolicy
  <1>4. PolicyTypeOK
    <2>1. tap \in [alive : BOOLEAN, micros : 0..(Micros - 1)] /\ window \in 0..Micros
      BY Limits DEF Init
    <2> QED
      BY <1>2, <2>1, Zenon DEF Init, PolicyTypeOK
  <1> QED
    BY <1>3, <1>4 DEF Init, PolicyInv

\* on_micro: the invariant, and one rung.
LEMMA OnMicroStep ==
    ASSUME PolicyInv, Cooldown >= 2, NEW lost \in BOOLEAN, NEW breach \in BOOLEAN,
           OnMicro(lost, breach)
    PROVE  PolicyInv' /\ OneRung(pol.sel, pol'.sel)
  <1> DEFINE m == IF tap.alive THEN tap.micros ELSE 0
             n == (m + 1) % Micros
             left == IF lost THEN Micros
                     ELSE IF tap.alive /\ window > 0 THEN window - 1 ELSE 0
             isNew == lost /\ ~(tap.alive /\ pending = "new")
             p0 == Fresh(pol, isNew)
             p1 == IF lost /\ breach THEN LossEvent(p0) ELSE p0
  <1>1. /\ breach => left > 0
        /\ tap' = [alive |-> TRUE, micros |-> n]
        /\ window' = left
        /\ pol' \in IF n = 0 THEN Ticked(p1, breach) ELSE {p1}
        /\ pending' = "none" /\ mode' = mode
        /\ beat' = IF mode = "any" THEN beat ELSE ~beat
    BY Zenon DEF OnMicro, Beats
  <1>2. /\ pol \in Policies /\ tap.alive \in BOOLEAN /\ tap.micros \in 0..(Micros - 1)
        /\ window \in 0..Micros /\ beat \in BOOLEAN
        /\ mode \in {"any", "good", "blackout"}
    BY DEF PolicyInv, PolicyTypeOK
  <1>3. m \in 0..(Micros - 1) /\ left \in 0..Micros
    BY <1>2, Limits
  <1>4. n = IF m + 1 = Micros THEN 0 ELSE m + 1
    BY <1>3, NextMicro
  <1>5. isNew \in BOOLEAN
    OBVIOUS
  <1>6. /\ p0 \in Policies /\ p0.sel = pol.sel /\ p0.since = pol.since
        /\ p0.twice = pol.twice /\ (p0.blamed => pol.blamed /\ ~isNew)
    BY <1>2, <1>5, FreshFacts
  <1>7. ~p0.twice
    BY <1>6 DEF PolicyInv
  <1>8. p0.blamed /\ left > 0 =>
            p0.since = 0 \/ (~lost /\ p0.since = 1 /\ left + m + 1 <= Micros)
    <2>1. CASE lost
      BY <1>6, <2>1 DEF PolicyInv
    <2>2. CASE ~lost
      <3> SUFFICES ASSUME p0.blamed, left > 0
                   PROVE  p0.since = 0 \/ (p0.since = 1 /\ left + m + 1 <= Micros)
        BY <2>2
      <3>1. tap.alive /\ window > 0 /\ left = window - 1 /\ m = tap.micros
        BY <1>2, <2>2
      <3>2. pol.since = 0 \/ (pol.since = 1 /\ window + tap.micros <= Micros)
        BY <1>6, <3>1 DEF PolicyInv
      <3> QED
        BY <1>2, <1>6, <3>1, <3>2, Limits
    <2> QED
      BY <2>1, <2>2
  <1> HIDE DEF p0, m, left, isNew
  <1>9. /\ p1 \in Policies /\ ~p1.twice
        /\ p1.blamed /\ left > 0 =>
             p1.since = 0 \/ (p1.since = 1 /\ left + m + 1 <= Micros)
        /\ OneRung(pol.sel, p1.sel) /\ p1.sel.mcs <= pol.sel.mcs
        /\ p1.sel.mcs < pol.sel.mcs => p1.since = 0
    <2>1. CASE lost /\ breach
      <3>1. p1 = LossEvent(p0)
        BY <2>1
      <3>2. PolicyStep(p0, p1, CooldownOk(p0.since), TRUE, p0.since)
        BY <1>6, <3>1, LossEventStep
      <3>3. p1.sel.mcs <= p0.sel.mcs
        BY <1>6, <3>1, LossEventDown
      <3>4. left > 0
        BY <1>1, <2>1
      <3>5. p0.blamed => p0.since = 0 /\ ~CooldownOk(p0.since)
        BY <1>6, <1>8, <2>1, <3>4, CooldownGate
      <3> HIDE DEF p1
      <3>6. ~p1.twice
        BY <1>7, <3>2, <3>5, Zenon DEF PolicyStep
      <3>7. p1.blamed => p1.since = 0
        BY <3>2, <3>5, Zenon DEF PolicyStep
      <3>8. p1 \in Policies /\ OneRung(p0.sel, p1.sel)
        BY <3>2, Zenon DEF PolicyStep
      <3>9. p1.sel.mcs < p0.sel.mcs => p1.since = 0
        BY <3>2, Zenon DEF PolicyStep
      <3> QED
        BY <1>6, <3>3, <3>6, <3>7, <3>8, <3>9
    <2>2. CASE ~(lost /\ breach)
      <3>1. p1 = p0
        BY <2>2
      <3>2. pol.sel.mcs \in Int
        BY <1>2, Limits DEF Policies, Selectors, Rungs
      <3>3. OneRung(pol.sel, pol.sel) /\ pol.sel.mcs <= pol.sel.mcs
            /\ ~(pol.sel.mcs < pol.sel.mcs)
        BY <3>2 DEF OneRung
      <3> HIDE DEF p1
      <3> QED
        BY <1>6, <1>7, <1>8, <3>1, <3>3
    <2> QED
      BY <2>1, <2>2
  <1> HIDE DEF p1
  <1>10. /\ pol' \in Policies /\ ~pol'.twice
         /\ pol'.blamed /\ left > 0 =>
              pol'.since = 0 \/ (pol'.since = 1 /\ left + n <= Micros)
         /\ OneRung(pol.sel, pol'.sel)
    <2>1. CASE n # 0
      <3>1. pol' = p1 /\ n = m + 1
        BY <1>1, <1>4, <2>1
      <3>2. left + m + 1 <= Micros => left + n <= Micros
        BY <1>3, <3>1, Limits
      <3> HIDE DEF n
      <3> QED
        BY <1>9, <3>1, <3>2
    <2>2. CASE n = 0
      <3>1. m + 1 = Micros
        BY <1>3, <1>4, <2>2
      <3>2. PolicyStep(p1, pol', CooldownOk(WindowsSince(p1)), breach, WindowsSince(p1))
        BY <1>1, <1>9, <2>2, TickedStep
      <3>3. ~(left > 0 /\ left + m + 1 <= Micros)
        BY <1>3, <3>1, Limits
      <3>4. p1.blamed /\ left > 0 => /\ ~CooldownOk(WindowsSince(p1))
                                     /\ WindowsSince(p1) = 1
        BY <1>9, <3>3, CooldownGate
      <3>5. left + 0 <= Micros
        BY <1>3, Limits
      <3> HIDE DEF n
      <3>6. ~pol'.twice
        BY <1>1, <1>9, <3>2, <3>4, Zenon DEF PolicyStep
      <3>7. pol'.blamed /\ left > 0 => pol'.since = 0 \/ pol'.since = 1
        BY <3>2, <3>4, Zenon DEF PolicyStep
      <3>8. /\ pol' \in Policies /\ OneRung(p1.sel, pol'.sel)
            /\ pol'.sel.mcs < p1.sel.mcs => CooldownOk(WindowsSince(p1))
        BY <3>2, Zenon DEF PolicyStep
      <3>9. OneRung(pol.sel, pol'.sel)
        BY <1>2, <1>9, <3>8, FastThenTick
      <3> QED
        BY <2>2, <3>5, <3>6, <3>7, <3>8, <3>9
    <2> QED
      BY <2>1, <2>2
  <1>11. n \in 0..(Micros - 1)
    BY <1>3, <1>4, Limits
  <1> HIDE DEF n
  <1>12. tap'.alive /\ tap'.micros = n
         /\ tap' \in [alive : BOOLEAN, micros : 0..(Micros - 1)]
    BY <1>1, <1>11
  <1>13. beat' \in BOOLEAN
    BY <1>1, <1>2, Zenon
  <1>14. PolicyTypeOK'
    BY <1>1, <1>2, <1>3, <1>10, <1>12, <1>13, Zenon DEF PolicyTypeOK
  <1>15. PolicyInv'
    BY <1>1, <1>10, <1>12, <1>14 DEF PolicyInv
  <1> QED
    BY <1>10, <1>15

\* on_loss: likewise.
LEMMA OnLossStep ==
    ASSUME PolicyInv, Cooldown >= 2, NEW late \in BOOLEAN, NEW breach \in BOOLEAN,
           OnLoss(late, breach)
    PROVE  PolicyInv' /\ OneRung(pol.sel, pol'.sel)
  <1> DEFINE m == IF tap.alive THEN tap.micros ELSE 0
             p == Fresh(pol, ~late)
  <1>1. /\ late => tap.alive /\ window = Micros
        /\ tap' = [alive |-> TRUE, micros |-> m]
        /\ window' = IF tap.alive THEN window ELSE 0
        /\ pending' = IF late THEN pending ELSE "new"
        /\ pol' = IF breach THEN LossEvent(p) ELSE p
        /\ mode' = mode /\ beat' = beat
    BY Zenon DEF OnLoss
  <1>2. /\ pol \in Policies /\ tap.alive \in BOOLEAN /\ tap.micros \in 0..(Micros - 1)
        /\ window \in 0..Micros /\ pending \in {"none", "new"}
    BY DEF PolicyInv, PolicyTypeOK
  <1>3. (~late) \in BOOLEAN
    OBVIOUS
  <1>4. /\ p \in Policies /\ p.sel = pol.sel /\ p.since = pol.since
        /\ p.twice = pol.twice /\ (p.blamed => pol.blamed /\ late)
    BY <1>2, <1>3, FreshFacts
  <1>5. ~p.twice
    BY <1>4 DEF PolicyInv
  <1>6. p.blamed => /\ p.since \in {0, 1} /\ ~CooldownOk(p.since)
                    /\ p.since = 1 => window + tap.micros <= Micros
                    /\ pending = "new" => p.since = 0
    <2> SUFFICES ASSUME p.blamed
                 PROVE  /\ p.since \in {0, 1} /\ ~CooldownOk(p.since)
                        /\ p.since = 1 => window + tap.micros <= Micros
                        /\ pending = "new" => p.since = 0
      OBVIOUS
    <2>1. pol.blamed /\ late /\ window > 0
      BY <1>1, <1>4, Limits
    <2>2. /\ p.since = 0 \/ (p.since = 1 /\ window + tap.micros <= Micros)
          /\ pending = "new" => p.since = 0
      BY <1>4, <2>1 DEF PolicyInv
    <2> QED
      BY <1>4, <2>2, CooldownGate
  <1> HIDE DEF p
  <1>7. /\ pol' \in Policies /\ ~pol'.twice /\ OneRung(pol.sel, pol'.sel)
        /\ pol'.blamed => pol'.since = 0 \/ (p.blamed /\ pol'.since = p.since)
    <2>1. CASE breach
      <3>1. PolicyStep(p, pol', CooldownOk(p.since), TRUE, p.since)
        BY <1>1, <1>4, <2>1, LossEventStep
      <3>2. ~pol'.twice
        BY <1>5, <1>6, <3>1, Zenon DEF PolicyStep
      <3>3. pol'.blamed => pol'.since = 0 \/ (p.blamed /\ pol'.since = p.since)
        BY <3>1, Zenon DEF PolicyStep
      <3>4. pol' \in Policies /\ OneRung(p.sel, pol'.sel)
        BY <3>1, Zenon DEF PolicyStep
      <3> QED
        BY <1>4, <3>2, <3>3, <3>4
    <2>2. CASE ~breach
      <3>1. pol' = p
        BY <1>1, <2>2
      <3>2. p.sel.mcs \in Int
        BY <1>4, Limits DEF Policies, Selectors, Rungs
      <3>3. OneRung(p.sel, p.sel)
        BY <3>2 DEF OneRung
      <3> QED
        BY <1>4, <1>5, <3>1, <3>3
    <2> QED
      BY <2>1, <2>2
  <1>8. /\ tap' \in [alive : BOOLEAN, micros : 0..(Micros - 1)] /\ tap'.alive
        /\ tap.alive => tap'.micros = tap.micros
        /\ window' \in 0..Micros
    BY <1>1, <1>2, Limits
  <1>9. pending' \in {"none", "new"} /\ (late => pending' = pending)
    BY <1>1, <1>2
  <1>10. PolicyTypeOK'
    BY <1>1, <1>7, <1>8, <1>9, Zenon DEF PolicyTypeOK, PolicyInv
  <1>11. p.blamed => late
    BY <1>4
  <1>12. late => window' = window /\ tap'.micros = tap.micros
    BY <1>1, <1>8
  <1>13. pol'.blamed /\ window' > 0 =>
            pol'.since = 0 \/ (pol'.since = 1 /\ window' + tap'.micros <= Micros)
    BY <1>6, <1>7, <1>11, <1>12
  <1>14. pol'.blamed /\ pending' = "new" => pol'.since = 0
    BY <1>6, <1>7, <1>9, <1>11
  <1>15. PolicyInv'
    BY <1>7, <1>8, <1>10, <1>13, <1>14, Zenon DEF PolicyInv
  <1> QED
    BY <1>7, <1>15

\* The :8103 fallback: its records carry their own losses, and the tap is stale.
LEMMA OnRxEventStep ==
    ASSUME PolicyInv, NEW breach \in BOOLEAN, OnRxEvent(breach)
    PROVE  PolicyInv' /\ OneRung(pol.sel, pol'.sel)
  <1> DEFINE p == Fresh(pol, TRUE)
  <1>1. /\ pol' \in Ticked(p, breach) /\ ~tap.alive
        /\ beat' = IF mode = "any" THEN beat ELSE ~beat
        /\ tap' = tap /\ window' = window /\ pending' = pending /\ mode' = mode
    BY Zenon DEF OnRxEvent, Beats
  <1>2. pol \in Policies /\ window = 0 /\ pending = "none" /\ beat \in BOOLEAN
    BY <1>1 DEF PolicyInv, PolicyTypeOK
  <1>3. p \in Policies /\ p.sel = pol.sel /\ p.twice = pol.twice /\ ~p.blamed
    BY <1>2, FreshFacts
  <1>4. PolicyStep(p, pol', CooldownOk(WindowsSince(p)), breach, WindowsSince(p))
    BY <1>1, <1>3, TickedStep
  <1>5. ~p.twice
    BY <1>3 DEF PolicyInv
  <1> HIDE DEF p
  <1>6. pol' \in Policies /\ OneRung(p.sel, pol'.sel) /\ ~pol'.twice
    BY <1>3, <1>4, <1>5, Zenon DEF PolicyStep
  <1>7. beat' \in BOOLEAN
    BY <1>1, <1>2, Zenon
  <1>8. PolicyTypeOK'
    BY <1>1, <1>6, <1>7, Zenon DEF PolicyTypeOK, PolicyInv
  <1>9. window' = 0 /\ pending' = "none"
    BY <1>1, <1>2
  <1>10. ~(window' > 0) /\ pending' # "new"
    BY <1>9
  <1>11. PolicyInv'
    BY <1>6, <1>8, <1>9, <1>10, Zenon DEF PolicyInv
  <1> QED
    BY <1>3, <1>6, <1>11

\* What StepByStep asks of a step.
Adjacent == pol'.sel # Boot =>
    /\ pol'.sel.mcs - pol.sel.mcs \in -1..1
    /\ pol.sel.age # "rate" /\ pol'.sel.age = "rate" => pol'.sel.mcs # pol.sel.mcs

\* A selector one rung away is what StepByStep asks for.
LEMMA OneRungAdjacent ==
    ASSUME pol \in Policies, pol' \in Policies, OneRung(pol.sel, pol'.sel)
    PROVE  Adjacent
  <1>1. pol.sel.mcs \in Int /\ pol'.sel.mcs \in Int
    BY Limits DEF Policies, Selectors, Rungs
  <1>2. pol'.sel.mcs - pol.sel.mcs \in -1..1
    BY <1>1 DEF OneRung
  <1>3. pol.sel.age # "rate" /\ pol'.sel.age = "rate" => pol'.sel.mcs # pol.sel.mcs
    BY DEF OneRung
  <1> QED
    BY <1>2, <1>3 DEF Adjacent

\* A timer that runs out changes neither the rung nor the counters.
LEMMA TimerStep ==
    ASSUME PolicyInv, NEW sel \in Selectors, sel.mcs = pol.sel.mcs,
           sel.age = "rate" => pol.sel.age = "rate", pol' = [pol EXCEPT !.sel = sel],
           UNCHANGED <<tap, window, pending, mode, beat>>
    PROVE  PolicyInv' /\ Adjacent
  <1>1. pol \in Policies
    BY DEF PolicyInv, PolicyTypeOK
  <1>2. /\ pol' \in Policies /\ pol'.sel = sel /\ pol'.since = pol.since
        /\ pol'.blamed = pol.blamed /\ pol'.twice = pol.twice
    BY <1>1 DEF Policies
  <1>3. tap' = tap /\ window' = window /\ pending' = pending /\ mode' = mode /\ beat' = beat
    OBVIOUS
  <1>4. PolicyTypeOK'
    BY <1>2, <1>3, Zenon DEF PolicyTypeOK, PolicyInv
  <1>5. PolicyInv'
    BY <1>2, <1>3, <1>4, Zenon DEF PolicyInv
  <1>6. pol.sel.mcs \in Int
    BY <1>1, Limits DEF Policies, Selectors, Rungs
  <1>7. pol'.sel.mcs - pol.sel.mcs \in -1..1
    BY <1>2, <1>6
  <1>8. ~(pol.sel.age # "rate" /\ pol'.sel.age = "rate")
    BY <1>2
  <1> QED
    BY <1>5, <1>7, <1>8, Zenon DEF Adjacent

\* Every step of the feeds, the clock and the link.
LEMMA PolicyStepInv ==
    ASSUME Cooldown >= 2, PolicyInv, [Next]_vars
    PROVE  PolicyInv' /\ (Next => Adjacent)
  <1>1. pol \in Policies /\ pol.sel \in Selectors
    BY DEF PolicyInv, PolicyTypeOK, Policies
  <1>2. ASSUME PolicyInv', OneRung(pol.sel, pol'.sel)
        PROVE  Adjacent
    BY <1>1, <1>2, OneRungAdjacent DEF PolicyInv, PolicyTypeOK
  <1>3. ASSUME NEW lost \in BOOLEAN, NEW breach \in BOOLEAN, OnMicro(lost, breach)
        PROVE  PolicyInv' /\ Adjacent
    BY <1>2, <1>3, OnMicroStep
  <1>4. ASSUME NEW late \in BOOLEAN, NEW breach \in BOOLEAN, OnLoss(late, breach)
        PROVE  PolicyInv' /\ Adjacent
    BY <1>2, <1>4, OnLossStep
  <1>5. ASSUME NEW breach \in BOOLEAN, OnRxEvent(breach)
        PROVE  PolicyInv' /\ Adjacent
    BY <1>2, <1>5, OnRxEventStep
  <1>6. ASSUME UNCHANGED pol
        PROVE  Adjacent
    <2>1. pol.sel.mcs \in Int /\ pol'.sel = pol.sel
      BY <1>1, <1>6, Limits DEF Selectors, Rungs
    <2> QED
      BY <2>1 DEF Adjacent
  <1>7. CASE TapStale
    <2>1. /\ tap' \in [alive : BOOLEAN, micros : 0..(Micros - 1)] /\ window' \in 0..Micros
          /\ window' = 0 /\ pending' = "none" /\ pol' = pol /\ mode' = mode /\ beat' = beat
      BY <1>7, Limits DEF TapStale
    <2>2. PolicyTypeOK'
      BY <2>1, Zenon DEF PolicyTypeOK, PolicyInv
    <2>3. ~(window' > 0) /\ pending' # "new"
      BY <2>1
    <2>4. PolicyInv'
      BY <2>1, <2>2, <2>3, Zenon DEF PolicyInv
    <2> QED
      BY <1>6, <2>1, <2>4
  <1>8. CASE NewSession
    <2>1. Boot \in Selectors
      BY Limits DEF Boot, Selectors, Least, Rungs
    <2>2. pol.twice \in BOOLEAN
      BY <1>1 DEF Policies
    <2>3. pol' = [NewPolicy EXCEPT !.twice = pol.twice]
      BY <1>8 DEF NewSession
    <2>4. pol' \in Policies /\ pol'.sel = Boot /\ ~pol'.blamed /\ pol'.twice = pol.twice
      <3>1. NewPolicy \in Policies
        BY <2>1, Limits DEF NewPolicy, Policies
      <3>2. NewPolicy.sel = Boot /\ ~NewPolicy.blamed
        BY DEF NewPolicy
      <3>3. /\ pol' \in Policies /\ pol'.sel = NewPolicy.sel
            /\ pol'.blamed = NewPolicy.blamed /\ pol'.twice = pol.twice
        BY <2>2, <2>3, <3>1 DEF Policies
      <3> QED
        BY <3>2, <3>3
    <2>5. tap' = tap /\ window' = window /\ pending' = pending /\ mode' = mode /\ beat' = beat
      BY <1>8 DEF NewSession
    <2>6. PolicyTypeOK'
      BY <2>4, <2>5, Zenon DEF PolicyTypeOK, PolicyInv
    <2>7. PolicyInv'
      BY <2>4, <2>5, <2>6, Zenon DEF PolicyInv
    <2> QED
      BY <2>4, <2>7 DEF Adjacent
  <1>9. CASE AgeAdvances
    <2> DEFINE age == IF pol.sel.age = "rate" THEN "hold" ELSE "free"
               sel == [pol.sel EXCEPT !.age = age]
    <2>1. pol' = [pol EXCEPT !.sel = sel] /\ UNCHANGED <<tap, window, pending, mode, beat>>
      BY <1>9, Zenon DEF AgeAdvances
    <2>2. sel \in Selectors /\ sel.mcs = pol.sel.mcs /\ sel.age # "rate"
      BY <1>1 DEF Selectors
    <2> HIDE DEF sel
    <2> QED
      BY <2>1, <2>2, TimerStep
  <1>10. CASE TrialEnds
    <2> DEFINE sel == [pol.sel EXCEPT !.trial = FALSE]
    <2>1. pol' = [pol EXCEPT !.sel = sel] /\ UNCHANGED <<tap, window, pending, mode, beat>>
      BY <1>10, Zenon DEF TrialEnds
    <2>2. sel \in Selectors /\ sel.mcs = pol.sel.mcs /\ sel.age = pol.sel.age
      BY <1>1 DEF Selectors
    <2> HIDE DEF sel
    <2> QED
      BY <2>1, <2>2, TimerStep
  <1>11. ASSUME NEW rung \in Rungs, DamperExpires(rung)
         PROVE  PolicyInv' /\ Adjacent
    <2> DEFINE sel == [pol.sel EXCEPT !.supp = @ \ {rung}]
    <2>1. pol' = [pol EXCEPT !.sel = sel] /\ UNCHANGED <<tap, window, pending, mode, beat>>
      BY <1>11, Zenon DEF DamperExpires
    <2>2. sel \in Selectors /\ sel.mcs = pol.sel.mcs /\ sel.age = pol.sel.age
      BY <1>1 DEF Selectors
    <2> HIDE DEF sel
    <2> QED
      BY <2>1, <2>2, TimerStep
  <1>12. CASE LinkSettles
    <2>1. /\ mode' \in {"any", "good", "blackout"} /\ pol' = pol /\ tap' = tap
          /\ window' = window /\ pending' = pending /\ beat' = beat
      BY <1>12 DEF LinkSettles
    <2>2. PolicyTypeOK'
      BY <2>1, Zenon DEF PolicyTypeOK, PolicyInv
    <2>3. PolicyInv'
      BY <2>1, <2>2, Zenon DEF PolicyInv
    <2> QED
      BY <1>6, <2>1, <2>3
  <1>13. CASE UNCHANGED vars
    <2>1. /\ pol' = pol /\ tap' = tap /\ window' = window /\ pending' = pending
          /\ mode' = mode /\ beat' = beat
      BY <1>13 DEF vars
    <2>2. PolicyInv'
      BY <2>1, Zenon DEF PolicyInv, PolicyTypeOK
    <2> QED
      BY <1>6, <2>1, <2>2
  <1> QED
    BY <1>3, <1>4, <1>5, <1>7, <1>8, <1>9, <1>10, <1>11, <1>12, <1>13 DEF Next

\* With a cooldown of two windows or more, the fast path, the MICRO, late news
\* and the tick never take two rungs for the same losses: for every ladder,
\* every debounce and every window length.  With a cooldown of one window they
\* can: the code does not ask for two.
THEOREM OneRungPerLossHolds ==
    ASSUME Cooldown >= 2
    PROVE  Spec => []OneRungPerLoss
  <1>1. PolicyInv => OneRungPerLoss
    BY DEF PolicyInv, OneRungPerLoss
  <1>2. PolicyInv /\ [Next]_vars => PolicyInv'
    BY PolicyStepInv
  <1> QED
    BY <1>1, <1>2, PolicyInit, PTL DEF Spec

\* Under the same condition the rung moves one step at a time within a session,
\* even when the fast path and a tick act on one MICRO, and a demote is not
\* undone by the snap-back of its own tick.
THEOREM StepByStepHolds ==
    ASSUME Cooldown >= 2
    PROVE  Spec => StepByStep
  <1>1. PolicyInv /\ [Next]_vars => PolicyInv'
    BY PolicyStepInv
  <1>2. PolicyInv /\ [Next]_vars => [Adjacent]_vars
    BY PolicyStepInv
  <1>3. [][Adjacent]_vars => StepByStep
    BY PTL DEF Adjacent, StepByStep
  <1> QED
    BY <1>1, <1>2, <1>3, PolicyInit, PTL DEF Spec

==============================================================================
