---------------------------- MODULE GsSupervision ----------------------------
(***************************************************************************)
(* The three child supervisors of the ground station: WfbChild             *)
(* (wfb/children.py, asyncio tasks, an rx child or a tx child with a       *)
(* LISTEN handshake), NodeSession (wfb/cluster.py, asyncio, retries for    *)
(* ever) and ProcessSupervisor (runner_supervisor.py, a watcher thread     *)
(* under a lock).  One behaviour is one of them ("kind"), one child and    *)
(* its operator, who starts and stops it any number of times.              *)
(*                                                                         *)
(* Time is abstract: a crash leaves the restart window by ForgetCrash, a   *)
(* handshake may time out (Judged), a session becomes stable by            *)
(* BecomeStable.                                                           *)
(***************************************************************************)
EXTENDS Naturals

CONSTANTS
    Kinds,          \* which supervisors: subset of {"rx", "tx", "node", "process"}
    MaxRestarts,    \* max_restarts
    MaxDelay        \* NodeSession: doublings of the backoff up to max_backoff

ASSUME SupervisionAssumption ==
    /\ Kinds \subseteq {"rx", "tx", "node", "process"}
    /\ MaxRestarts \in Nat
    /\ MaxDelay \in Nat

VARIABLES
    kind,        \* the class of this supervisor
    want,        \* the operator called start() and has not called stop()
    op,          \* the operator's call: "idle", "starting", "killing"
    proc,        \* _proc: "none", "up", "exited" (set, returncode not None)
    supervise,   \* _supervise
    fault,       \* _fault
    recent,      \* len(_recent)
    watch,       \* the watch task: "none", "wait", "backoff", "spawn",
                 \* "settle" (the respawned process is being judged), "done"
    delay,       \* NodeSession: doublings of the current backoff
    stable,      \* NodeSession: this session outlived _stable_reset_s
    reported     \* NodeSession: the last on_state(node, up)

supervisorVars == <<kind, want, op, proc, supervise, fault, recent, watch,
                    delay, stable, reported>>

Asyncio == kind \in {"rx", "tx", "node"}

SupervisorInit ==
    /\ kind \in Kinds
    /\ want = FALSE
    /\ op = "idle"
    /\ proc = "none"
    /\ supervise = FALSE
    /\ fault = FALSE
    /\ recent = 0
    /\ watch = "none"
    /\ delay = 0
    /\ stable = FALSE
    /\ reported = FALSE

(***************************************************************************)
(* start() up to the first await (or, for ProcessSupervisor, up to the     *)
(* spawn under the lock): fault and budget are cleared.  NodeSession       *)
(* supervises before it spawns, the others after.                          *)
(***************************************************************************)
Start ==
    /\ op = "idle"
    /\ ~want
    /\ want' = TRUE
    /\ op' = "starting"
    /\ IF kind = "node"
       THEN /\ supervise' = TRUE
            /\ delay' = 0
            /\ UNCHANGED <<fault, recent>>
       ELSE /\ fault' = FALSE
            /\ recent' = 0
            /\ UNCHANGED <<supervise, delay>>
    /\ UNCHANGED <<kind, proc, watch, stable, reported>>

\* start() after _spawn_and_wait returned, with what it left in _proc:
\* WfbChild arms the watch only if a process was left, NodeSession and
\* ProcessSupervisor always do.
StartReturns(left) ==
    /\ op' = "idle"
    /\ IF kind \in {"rx", "tx"} /\ left = "none"
       THEN UNCHANGED <<supervise, watch>>
       ELSE /\ supervise' = TRUE
            /\ watch' = "wait"

\* The children whose spawn is followed by a wait before it is judged: the
\* LISTEN handshake of a tx child, the settle window of ProcessSupervisor.
Settles == kind \in {"tx", "process"}

\* create_subprocess_exec / Popen inside start(): OSError or a process.
StartSpawn ==
    /\ op = "starting"
    /\ proc = "none"
    /\ \E left \in {"none", "up"} :
          /\ proc' = left
          /\ IF left = "up" /\ Settles
             THEN UNCHANGED <<op, supervise, watch>>
             ELSE StartReturns(left)
    /\ stable' = FALSE
    /\ UNCHANGED <<kind, want, fault, recent, delay, reported>>

\* What _wait_tx_ready / _wait_ready may leave in _proc: the process (ready,
\* or exited by itself), or nothing when the handshake of a live tx child
\* timed out and the child was killed.  ProcessSupervisor takes its timeout
\* as ready and keeps the process.
Judged == {proc} \cup (IF kind = "tx" /\ proc = "up" THEN {"none"} ELSE {})

StartReady ==
    /\ op = "starting"
    /\ proc # "none"
    /\ \E left \in Judged :
          /\ proc' = left
          /\ StartReturns(left)
    /\ UNCHANGED <<kind, want, fault, recent, delay, stable, reported>>

(***************************************************************************)
(* stop(): supervision is dropped and the watch cancelled wherever it is   *)
(* awaiting, then the process group is killed.  The lock makes             *)
(* ProcessSupervisor.stop() wait until the watcher is out of               *)
(* _on_crash_locked; its watcher thread goes on polling, or ends when the  *)
(* call was shutdown().                                                    *)
(***************************************************************************)
\* Faulty variant of Stop: WfbChild.stop() forgets to cancel the watch.
StopWithoutCancel ==
    /\ op = "idle"
    /\ want
    /\ Asyncio \/ watch \in {"none", "wait"}
    /\ want' = FALSE
    /\ op' = "killing"
    /\ supervise' = FALSE
    /\ UNCHANGED <<kind, proc, fault, recent, watch, delay, stable, reported>>

Stop ==
    /\ op = "idle"
    /\ want
    /\ Asyncio \/ watch \in {"none", "wait"}
    /\ want' = FALSE
    /\ op' = "killing"
    /\ supervise' = FALSE
    /\ watch' \in (IF Asyncio THEN {"none"} ELSE {"none", watch})
    /\ UNCHANGED <<kind, proc, fault, recent, delay, stable, reported>>

\* _kill_process / _kill / _kill_locked: SIGTERM, five seconds, SIGKILL.
Killed ==
    /\ op = "killing"
    /\ op' = "idle"
    /\ proc' = "none"
    /\ stable' = FALSE
    /\ UNCHANGED <<kind, want, supervise, fault, recent, watch, delay, reported>>

(***************************************************************************)
(* The watch.                                                              *)
(***************************************************************************)
\* Faulty variant of Charge: the fault is recorded but the watch goes on.
ChargeGoesOn(left) ==
    /\ recent' = IF recent > MaxRestarts THEN recent ELSE recent + 1
    /\ fault' = (fault \/ recent + 1 > MaxRestarts)
    /\ watch' = "backoff"
    /\ proc' = left
    /\ UNCHANGED supervise

\* A crash, or a respawn of a WfbChild that left no process, charged to the
\* crash-loop budget: give up or back off, with `left` in _proc.
Charge(left) ==
    /\ recent' = recent + 1
    /\ IF recent + 1 > MaxRestarts
       THEN /\ fault' = TRUE
            /\ supervise' = FALSE
            /\ proc' = "none"
            /\ watch' = IF Asyncio THEN "done" ELSE "wait"
       ELSE /\ watch' = "backoff"
            /\ proc' = left
            /\ UNCHANGED <<fault, supervise>>

\* WfbChild._watch or ProcessSupervisor._watch_loop sees the exit.
NoticeExit ==
    /\ kind # "node"
    /\ op = "idle"
    /\ watch = "wait"
    /\ supervise
    /\ proc = "exited"
    /\ Charge(IF Asyncio THEN "exited" ELSE "none")
    /\ UNCHANGED <<kind, want, op, delay, stable, reported>>

\* Faulty variant of NoticeNodeDown: a start() that spawned nothing is not
\* retried.
NoticeNodeExitOnly ==
    /\ kind = "node"
    /\ watch = "wait"
    /\ proc = "exited"
    /\ watch' = "backoff"
    /\ reported' = FALSE
    /\ delay' = IF stable THEN 0 ELSE delay
    /\ stable' = FALSE
    /\ UNCHANGED <<kind, want, op, proc, supervise, fault, recent>>

\* NodeSession._watch: an exit, or a start() that spawned nothing.  The
\* backoff is reset only after a session that lasted.
NoticeNodeDown ==
    /\ kind = "node"
    /\ watch = "wait"
    /\ proc \in {"none", "exited"}
    /\ watch' = "backoff"
    /\ reported' = FALSE
    /\ delay' = IF proc = "exited" /\ stable THEN 0 ELSE delay
    /\ stable' = FALSE
    /\ UNCHANGED <<kind, want, op, proc, supervise, fault, recent>>

\* The sleep ends; NodeSession doubles its delay up to max_backoff.
BackoffEnds ==
    /\ watch = "backoff"
    /\ watch' = IF supervise THEN "spawn" ELSE "done"
    /\ delay' = IF kind = "node" /\ delay < MaxDelay THEN delay + 1 ELSE delay
    /\ UNCHANGED <<kind, want, op, proc, supervise, fault, recent, stable, reported>>

\* Faulty variant of RespawnReturns: the watch returns on a failed respawn.
RespawnReturnsSilently(left) ==
    /\ proc' = left
    /\ watch' = IF left # "none" \/ kind = "process" THEN "wait" ELSE "done"
    /\ reported' = (reported \/ kind = "node")
    /\ UNCHANGED <<supervise, fault, recent>>

\* The watch goes on with the process a respawn left: a live or exited one is
\* watched (and reported by NodeSession); with none, NodeSession backs off
\* again, WfbChild charges the budget, ProcessSupervisor returns to its poll.
RespawnReturns(left) ==
    \/ /\ left # "none" \/ kind = "process"
       /\ proc' = left
       /\ watch' = "wait"
       /\ reported' = (reported \/ kind = "node")
       /\ UNCHANGED <<supervise, fault, recent>>
    \/ /\ left = "none" /\ kind = "node"
       /\ proc' = "none"
       /\ watch' = "backoff"
       /\ UNCHANGED <<supervise, fault, recent, reported>>
    \/ /\ left = "none" /\ kind \in {"rx", "tx"}
       /\ Charge("none")
       /\ UNCHANGED reported

RespawnSpawn ==
    /\ watch = "spawn"
    /\ \E left \in {"none", "up"} :
          IF left = "up" /\ Settles
          THEN /\ proc' = "up"
               /\ watch' = "settle"
               /\ UNCHANGED <<supervise, fault, recent, reported>>
          ELSE RespawnReturns(left)
    /\ UNCHANGED <<kind, want, op, delay, stable>>

RespawnReady ==
    /\ watch = "settle"
    /\ \E left \in Judged : RespawnReturns(left)
    /\ UNCHANGED <<kind, want, op, delay, stable>>

(***************************************************************************)
(* The environment: the child exits, time passes.                          *)
(***************************************************************************)
ChildExits ==
    /\ proc = "up"
    /\ proc' = "exited"
    /\ UNCHANGED <<kind, want, op, supervise, fault, recent, watch, delay,
                   stable, reported>>

ForgetCrash ==
    /\ recent > 0
    /\ ~fault
    /\ recent' = recent - 1
    /\ UNCHANGED <<kind, want, op, proc, supervise, fault, watch, delay,
                   stable, reported>>

BecomeStable ==
    /\ kind = "node"
    /\ proc = "up"
    /\ ~stable
    /\ stable' = TRUE
    /\ UNCHANGED <<kind, want, op, proc, supervise, fault, recent, watch,
                   delay, reported>>

Watcher == NoticeExit \/ NoticeNodeDown \/ BackoffEnds \/ RespawnSpawn \/ RespawnReady

SupervisorNext ==
    \/ Start \/ StartSpawn \/ StartReady \/ Stop \/ Killed
    \/ Watcher
    \/ ChildExits \/ ForgetCrash \/ BecomeStable

\* The event loop (or the watcher thread) always runs, and calls return.
SupervisorSpec ==
    /\ SupervisorInit /\ [][SupervisorNext]_supervisorVars
    /\ WF_supervisorVars(Watcher) /\ WF_supervisorVars(StartSpawn)
    /\ WF_supervisorVars(StartReady) /\ WF_supervisorVars(Killed)

-----------------------------------------------------------------------------
(***************************************************************************)
(* Properties.                                                             *)
(***************************************************************************)
\* Type invariant of the supervisors' fields.
SupTypeOK ==
    /\ kind \in Kinds
    /\ want \in BOOLEAN
    /\ op \in {"idle", "starting", "killing"}
    /\ proc \in {"none", "up", "exited"}
    /\ supervise \in BOOLEAN
    /\ fault \in BOOLEAN
    /\ recent \in 0..(MaxRestarts + 1)
    /\ watch \in {"none", "wait", "backoff", "spawn", "settle", "done"}
    /\ delay \in 0..MaxDelay
    /\ stable \in BOOLEAN
    /\ reported \in BOOLEAN

\* The invariant of WfbChild._watch's docstring (children.py): "running=False,
\* fault=False with the watch task dead must be unreachable".  While a child
\* is supervised its watch is active, and a watch that ended by itself ended
\* in a fault.
NoSilentDeath ==
    /\ supervise /\ op = "idle" => watch \in {"wait", "backoff", "spawn", "settle"}
    /\ watch = "done" => fault /\ ~supervise

\* After stop() has returned no process of the child is left and nothing is
\* about to start one, wherever in its respawn the watch was cancelled.
StopIsFinal ==
    ~want /\ op = "idle" =>
        /\ proc = "none"
        /\ watch \in {"none", "wait"}
        /\ ~supervise

\* The inductive strengthening of the two invariants above.  The watch is
\* about to spawn only for a wanted, supervised child outside any call of the
\* operator; a fault leaves no process, no supervision and a watch at rest; only
\* ProcessSupervisor's thread goes on polling for a child nobody wants.
SupInv ==
    /\ SupTypeOK
    /\ watch \in {"backoff", "spawn", "settle"} =>
          supervise /\ want /\ op = "idle" /\ ~fault
    /\ watch \in {"backoff", "spawn"} => proc # "up"
    /\ watch = "settle" => kind # "node"
    /\ watch = "done" => fault
    /\ watch = "wait" /\ kind # "process" => supervise /\ want /\ op = "idle"
    /\ fault => kind # "node" /\ ~supervise /\ proc = "none"
                 /\ op # "starting" /\ watch \in {"none", "wait", "done"}
    /\ ~fault => recent <= MaxRestarts
    /\ op = "starting" => want /\ watch \in {"none", "wait"}
                           /\ (supervise => kind = "node")
    /\ op = "killing" => ~want
    /\ ~want => ~supervise /\ watch \in {"none", "wait"}
    /\ ~want /\ op = "idle" => proc = "none"
    /\ supervise /\ op = "idle" => watch # "none"
    /\ want /\ op = "idle" /\ ~supervise => proc = "none"

\* A supervised child that is down is spawned again, given up or stopped, and
\* so on for ever: neither an OSError of a respawn nor a handshake timeout ends
\* the attempts.  ProcessSupervisor is held to it only for an exit: after a
\* respawn that failed to spawn it polls an empty _proc for ever (the hazard at
\* runner_supervisor.py:159).
KeepsTrying ==
    (supervise /\ proc # "up" /\ (kind = "process" => proc = "exited"))
        ~> (proc = "up" \/ watch = "spawn" \/ ~supervise)

\* The abstract supervisor: the detailed state seen as wish and liveness.
Abs == INSTANCE SupervisedProcess WITH
    want <- want,
    st <- IF proc = "up" THEN "on" ELSE IF fault THEN "fault" ELSE "off"

\* Every supervisor implements SupervisedProcess: a child is brought up only
\* while the operator wants it, and a fault lasts until the next start().
ImplementsSupervised == Abs!Spec

=============================================================================
