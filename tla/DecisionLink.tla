---------------------------- MODULE DecisionLink ----------------------------
(***************************************************************************)
(* The adaptive loop end to end, with discrete time: the ground station's  *)
(* dynlink controller (gs/fpvdgs/dynlink/controller.py) emits a decision   *)
(* per 100 ms window, plus one at once when the tap reports loss; the      *)
(* wfb tunnel carries it; the drone's loop (DlController) applies it.      *)
(* What the policy decides is left open: any sequence of rungs.            *)
(*                                                                         *)
(* Time passes only while nobody has anything to do: a handler takes less  *)
(* than a unit.  The order of what is due at one instant is left open.     *)
(***************************************************************************)
EXTENDS DlController, Sequences

CONSTANTS
    Period,      \* of decisions: log_interval, 100 ms
    Stagger,     \* applyStaggerMs
    TickPeriod,  \* of the drone's tick timer
    MaxChanges,  \* bound: how often the policy changes its mind
    MaxFaults    \* bound: rebuilds of the ground station's loop, lost and
                 \* duplicated datagrams, together

ASSUME TimeAssumption ==
    /\ {Period, Stagger, TickPeriod} \subseteq Nat \ {0}
    /\ {MaxChanges, MaxFaults} \subseteq Nat

VARIABLES
    encSeq,     \* WireEncoder.seq
    want,       \* the mcs of the last decision emitted
    changes, faults,
    net,        \* datagrams on their way, oldest first
    sendIn, tickIn, gapIn  \* time to the next window, tick, gap expiry

gsVars == <<encSeq, want, changes, faults>>
clocks == <<sendIn, tickIn, gapIn>>
linkVars == <<vars, gsVars, net, clocks>>

LinkInit ==
    /\ Init
    /\ encSeq = 1 /\ want \in Mcs /\ changes = 0 /\ faults = 0
    /\ net = <<>>
    /\ sendIn = Period /\ tickIn = TickPeriod /\ gapIn = 0

(***************************************************************************)
(* The ground station.                                                     *)
(***************************************************************************)
\* Faulty variant: the sequence counter is not reduced modulo 2^32.
EmitNoWrap(m) ==
    /\ phase = "running"
    /\ net' = Append(net, [seq |-> encSeq, mcs |-> m])
    /\ encSeq' = encSeq + 1
    /\ want' = m
    /\ changes' = IF m = want THEN changes ELSE changes + 1
    /\ changes' <= MaxChanges
    /\ UNCHANGED <<faults, vars, tickIn, gapIn>>

\* _emit: encode with the next sequence number and send.
Emit(m) ==
    /\ phase = "running"
    /\ net' = Append(net, [seq |-> encSeq, mcs |-> m])
    /\ encSeq' = (encSeq + 1) % SeqMod
    /\ want' = m
    /\ changes' = IF m = want THEN changes ELSE changes + 1
    /\ changes' <= MaxChanges
    /\ UNCHANGED <<faults, vars, tickIn, gapIn>>

\* on_event, or every tenth on_micro: a window closes, policy.tick.
EmitWindow(m) == sendIn = 0 /\ Emit(m) /\ sendIn' = Period

\* on_loss, on_micro with losses: policy.loss_event demotes at once.
EmitLoss(m) == m < want /\ Emit(m) /\ UNCHANGED sendIn

\* set_config, or a new process: _run starts with WireEncoder(seq=1).
Rebuild ==
    /\ phase = "running" /\ faults < MaxFaults
    /\ encSeq' = 1 /\ faults' = faults + 1
    /\ sendIn' = Period
    /\ UNCHANGED <<want, changes, net, vars, tickIn, gapIn>>

(***************************************************************************)
(* The tunnel is a radio link: a datagram may be lost or arrive twice.     *)
(***************************************************************************)
Fault == faults < MaxFaults /\ faults' = faults + 1

\* What poll has announced is in the drone's socket already.
Lose ==
    /\ net # <<>> /\ "listen" \notin todo /\ Fault
    /\ net' = Tail(net)
    /\ UNCHANGED <<encSeq, want, changes, vars, clocks>>

Duplicate ==
    /\ net # <<>> /\ Fault
    /\ net' = Append(net, Head(net))
    /\ UNCHANGED <<encSeq, want, changes, vars, clocks>>

(***************************************************************************)
(* The drone's loop, its timers and its socket tied to the clocks and to   *)
(* the network.                                                            *)
(***************************************************************************)
Receive ==
    /\ net # <<>>
    /\ LET p == Head(net)
       IN  \/ OnDecision(p.seq, p.mcs)
           \/ OnStale(p.seq)
    /\ net' = Tail(net)
    /\ gapIn' = IF Accepted /\ applyState' # "Idle" THEN Stagger ELSE gapIn
    /\ UNCHANGED <<gsVars, sendIn, tickIn>>

Tick ==
    /\ OnTick \/ OnTrip
    /\ tickIn' = TickPeriod
    /\ UNCHANGED <<gsVars, net, sendIn, gapIn>>

GapFires ==
    /\ gapIn = 0 /\ GapExpires
    /\ UNCHANGED <<gsVars, net, clocks>>

Drone ==
    \/ (\E c \in Configs : Start(c)) /\ UNCHANGED <<gsVars, net, clocks>>
    \/ Poll(net # <<>>, tickIn = 0) /\ UNCHANGED <<gsVars, net, clocks>>
    \/ Receive
    \/ Tick
    \/ GapFires
    \/ OnGap /\ UNCHANGED <<gsVars, net, clocks>>

Advance ==
    /\ Idle /\ net = <<>> /\ sendIn > 0 /\ tickIn > 0
    /\ gap # "expired" /\ (gap = "armed" => gapIn > 0)
    /\ sendIn' = sendIn - 1 /\ tickIn' = tickIn - 1
    /\ gapIn' = IF gap = "armed" THEN gapIn - 1 ELSE gapIn
    /\ IF everSeen /\ age < MaxAge THEN Elapse ELSE UNCHANGED vars
    /\ UNCHANGED <<gsVars, net>>

Window == \E m \in Mcs : EmitWindow(m)

LinkNext ==
    \/ Window
    \/ \E m \in Mcs : EmitLoss(m)
    \/ Rebuild \/ Lose \/ Duplicate
    \/ Drone
    \/ Advance

\* Time passes, windows close, and the loop handles what is ready.
LinkSpec ==
    /\ LinkInit /\ [][LinkNext]_linkVars
    /\ WF_linkVars(Advance) /\ WF_linkVars(Window) /\ WF_linkVars(Drone)

(***************************************************************************)
(* Properties.                                                             *)
(***************************************************************************)
\* The clocks, the ground station's state and the tunnel have their types, and
\* at most the windows, loss events and stragglers of one instant are in flight.
LinkTypeOK ==
    /\ TypeOK
    /\ encSeq \in Seqs /\ want \in Mcs
    /\ changes \in 0 .. MaxChanges /\ faults \in 0 .. MaxFaults
    /\ net \in Seq([seq: Seqs, mcs: Mcs]) /\ Len(net) <= MaxChanges + MaxFaults + 1
    /\ sendIn \in 0 .. Period /\ tickIn \in 0 .. TickPeriod /\ gapIn \in 0 .. Stagger

\* When the ground station settles on a rung the link settles on it: the radio
\* ends up on that rung and the encoder at that rung's bitrate, whatever
\* two-phase applies, sequence wraps and ground-station restarts, losses and
\* duplicates came before.
Converges == <>[](radio.mcs = want /\ enc.rate = cfg.rate[want])

\* "reset dedup so a restarted GS recovers": however often the ground station
\* restarts its numbering, the drone is never deaf to it for longer than the
\* watchdog's timeout, the tick that notices, and the windows until the next
\* decision that is not lost.
HeardAgain ==
    everSeen => age <= cfg.timeout + TickPeriod + (1 + MaxFaults) * Period
=============================================================================
