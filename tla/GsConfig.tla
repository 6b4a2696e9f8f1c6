------------------------------ MODULE GsConfig ------------------------------
(***************************************************************************)
(* The ground station's configuration path: ConfigStore (config.py), the   *)
(* /gs/* handlers of Api (api.py, one thread per request and no lock       *)
(* around a handler), the boot of App (supervisor.py) and the beamforming  *)
(* armer thread.  The engine, the dynamic-link controller, pixelpilot and  *)
(* the IDR relay are seen by the configuration they were last given.       *)
(*                                                                         *)
(* A configuration is a record with one field per part that apply treats   *)
(* differently; `ok` stands for the range checks of one block alone.       *)
(***************************************************************************)
EXTENDS Naturals, TLC

CONSTANTS
    Handlers,     \* concurrent HTTP requests
    Cards,        \* the ground station's own radio cards
    Patches,      \* sparse configurations a client may send
    Defaults,     \* default_config()
    MaxRequests,  \* bound: PATCH, apply and reset requests
    MaxCrashes    \* bound: daemon crashes

VARIABLES
    up,          \* the daemon: "up", "down", "bricked" (build_app raised)
    disk,        \* config.json
    effective,   \* ConfigStore._config
    pending,     \* ConfigStore._pending
    pc,          \* per handler
    p,           \* per handler: the pending snapshot of _apply_gs
    e,           \* per handler: the effective snapshot of _apply_gs
    eng,         \* the engine: [on, view]
    tuned,       \* per card: the channel and width iw last set
    drone,       \* the address DroneClient and IdrRelay were constructed with
    dl,          \* the controller: NoSnapshot (stopped) or the snapshot it was given
    pp,          \* pixelpilot: "off" or its rendered arguments
    idr,         \* IdrRelay: "off" or "on" (its port is fixed at construction)
    wasReset,    \* history since boot: "no", "done" or "failed" (its write raised)
    bf,          \* BeamformingController._state: "disabled", "active", "error"
    hw,          \* bf_monitor_conf holds an armed peer
    asks,        \* per armer caller: it decided to arm and is asking the drone
    requests, crashes

store == <<disk, effective, pending>>
rest == <<dl, pp, idr, drone>>
running == <<eng, tuned, rest>>
beam == <<bf, hw, asks>>
bounds == <<requests, crashes>>
vars == <<up, store, pc, p, e, running, wasReset, beam, bounds>>

NoSnapshot == [mode |-> "off", width |-> 0, host |-> 0]
Armers == Handlers \cup {"armer"}

\* The checks of single blocks.
BlocksValid(c) == c.ok

\* validate_effective: those, and the one between blocks: a 5 or 40 MHz width
\* needs dynamicLink off.
Valid(c) == BlocksValid(c) /\ (c.width \in {5, 40} => c.dl = "off")

\* default_config() passes its own checks.
ASSUME DefaultsAssumption == Valid(Defaults)

\* deep_merge of a sparse patch onto a configuration.
Merge(c, sparse) == sparse @@ c

\* The bandwidth class is baked into the injectors' radiotap header.
BwClass(width) == IF width = 40 THEN 40 ELSE 20

\* What the engine bakes into its children.
View(c) == [cards |-> c.cards, wfb |-> c.wfb, bw |-> BwClass(c.width)]

\* make_dl_snapshot.
Snapshot(c) == IF c.dl = "off" THEN NoSnapshot
               ELSE [mode |-> c.dl, width |-> c.width, host |-> c.host]

\* Every card on the channel and width of c.
Tuned(c) == [card \in Cards |-> [chan |-> c.chan, width |-> c.width]]

\* init_cards and retune run all their commands, whichever fail: any card may
\* be left as it was.
PartlyTuned(c) == {t \in [Cards -> {tuned[card] : card \in Cards} \cup
                                  {[chan |-> c.chan, width |-> c.width]}] :
                      \A card \in Cards : t[card] \in {tuned[card], Tuned(c)[card]}}

Off == [on |-> FALSE, view |-> View(Defaults)]
On(c) == [on |-> TRUE, view |-> View(c)]

\* WfbEngine.start or restart with c: it comes up only if every card could be
\* initialised, and may fail before, in or after that.
Restarts(c) == eng' = On(c) /\ tuned' = Tuned(c)
RestartFails(c) == eng' = Off /\ tuned' \in PartlyTuned(c)

(***************************************************************************)
(* build_app and App.start: the store is loaded from disk and validated;   *)
(* the parts are started by the effective configuration.                   *)
(***************************************************************************)
Boot ==
    /\ up = "down"
    /\ effective' = disk
    /\ pending' = disk
    /\ IF Valid(disk)
       THEN /\ up' = "up"
            /\ Restarts(disk) \/ RestartFails(disk)
            /\ drone' = disk.host
            /\ dl' = Snapshot(disk)
            /\ pp' = disk.pp
            /\ idr' = IF disk.idr = "off" THEN "off" ELSE "on"
       ELSE /\ up' = "bricked"
            /\ UNCHANGED running
    /\ wasReset' = "no"
    /\ UNCHANGED <<disk, pc, p, e, beam, bounds>>

Init ==
    /\ up = "down"
    /\ disk = Defaults /\ effective = Defaults /\ pending = Defaults
    /\ pc = [h \in Handlers |-> "idle"]
    /\ p = [h \in Handlers |-> Defaults]
    /\ e = [h \in Handlers |-> Defaults]
    /\ eng = Off /\ tuned = Tuned(Defaults) /\ drone = Defaults.host
    /\ dl = NoSnapshot /\ pp = "off" /\ idr = "off"
    /\ wasReset = "no"
    /\ bf = "disabled" /\ hw = FALSE
    /\ asks = [a \in Armers |-> FALSE]
    /\ requests = 0 /\ crashes = 0

\* The process dies at any point; a restart clears the card's beamforming
\* registers (beamforming_armer.py).
Crash ==
    /\ up = "up"
    /\ crashes < MaxCrashes
    /\ crashes' = crashes + 1
    /\ up' = "down"
    /\ pc' = [h \in Handlers |-> "idle"]
    /\ p' = [h \in Handlers |-> Defaults]
    /\ e' = [h \in Handlers |-> Defaults]
    /\ eng' = Off /\ dl' = NoSnapshot /\ pp' = "off" /\ idr' = "off"
    /\ bf' = "disabled" /\ hw' = FALSE
    /\ asks' = [a \in Armers |-> FALSE]
    /\ UNCHANGED <<store, tuned, drone, wasReset, requests>>

-----------------------------------------------------------------------------
(***************************************************************************)
(* Requests.                                                               *)
(***************************************************************************)
At(h, label) == up = "up" /\ pc[h] = label
Goto(h, label) == pc' = [pc EXCEPT ![h] = label]

\* The handler returns its response.
Respond(h) ==
    /\ Goto(h, "idle")
    /\ p' = [p EXCEPT ![h] = Defaults]
    /\ e' = [e EXCEPT ![h] = Defaults]

Arrives(h) ==
    /\ At(h, "idle")
    /\ requests < MaxRequests
    /\ requests' = requests + 1

\* Faulty variant of Patch: the merged configuration is written at once.
PatchPersists(h) ==
    /\ Arrives(h)
    /\ \E sparse \in Patches : pending' = Merge(pending, sparse)
    /\ disk' = pending'
    /\ UNCHANGED <<up, effective, pc, p, e, running, wasReset, beam, crashes>>

\* PATCH /gs/config: top-level keys are checked, values are not.
Patch(h) ==
    /\ Arrives(h)
    /\ \E sparse \in Patches : pending' = Merge(pending, sparse)
    /\ UNCHANGED <<up, disk, effective, pc, p, e, running, wasReset, beam, crashes>>

\* POST /gs/apply: store.pending(), then store.effective() and the check.
BeginApply(h) ==
    /\ Arrives(h)
    /\ Goto(h, "read")
    /\ p' = [p EXCEPT ![h] = pending]
    /\ UNCHANGED <<up, store, e, running, wasReset, beam, crashes>>

\* Faulty variant of Validate: the merged configuration is not checked.
ValidateNothing(h) ==
    /\ At(h, "read")
    /\ Goto(h, "link")
    /\ e' = [e EXCEPT ![h] = effective]
    /\ UNCHANGED <<up, store, p, running, wasReset, beam, bounds>>

Validate(h) ==
    /\ At(h, "read")
    /\ IF Valid(p[h])
       THEN /\ Goto(h, "link")
            /\ e' = [e EXCEPT ![h] = effective]
            /\ UNCHANGED p
       ELSE Respond(h)
    /\ UNCHANGED <<up, store, running, wasReset, beam, bounds>>

\* The link block, without beamforming and with it.
Link(c) == [chan |-> c.chan, width |-> c.width, cards |-> c.cards]
LinkChanged(old, new) == Link(old) # Link(new) \/ old.bf # new.bf

\* What else the engine is restarted for: every block but link and the three
\* routed ones (the drone's address among them), the tap and the probe views.
WfbChanged(old, new) == old.wfb # new.wfb \/ old.host # new.host

\* _can_retune_live, under _apply_link_local's other conditions: something
\* besides beamforming changed, nothing but channel and width, and neither
\* the bandwidth class nor anything outside the link block.  A remote card is
\* out of retune's reach (supervisor._retune).
Live(old, new) ==
    /\ ~WfbChanged(old, new)
    /\ Link(old) # Link(new)
    /\ old.cards = new.cards /\ old.cards # "remote"
    /\ BwClass(old.width) = BwClass(new.width)

\* _apply_link_local: nothing to do, a live retune of every card, or a restart
\* of the engine from the snapshot (also after a retune that failed on a card).
ApplyLink(h) ==
    /\ At(h, "link")
    /\ \/ /\ ~LinkChanged(e[h], p[h]) /\ ~WfbChanged(e[h], p[h])
          /\ Goto(h, "dl")
          /\ UNCHANGED <<eng, tuned>>
       \/ /\ Live(e[h], p[h])
          /\ Goto(h, "dl")
          /\ tuned' = Tuned(p[h])
          /\ UNCHANGED eng
       \/ /\ LinkChanged(e[h], p[h]) \/ WfbChanged(e[h], p[h])
          /\ \/ Restarts(p[h]) /\ Goto(h, "dl")
             \/ RestartFails(p[h]) /\ Goto(h, "rollback")
    /\ UNCHANGED <<up, store, p, e, rest, wasReset, beam, bounds>>

\* runner.restart(effective) and the 500 answer; pending stays.
Rollback(h) ==
    /\ At(h, "rollback")
    /\ Restarts(e[h]) \/ RestartFails(e[h])
    /\ Respond(h)
    /\ UNCHANGED <<up, store, rest, wasReset, beam, bounds>>

\* Faulty variant of RouteDynamicLink: only the dynamicLink block is compared.
RouteDynamicLinkByBlock(h) ==
    /\ At(h, "dl")
    /\ dl' = IF e[h].dl = p[h].dl THEN dl ELSE Snapshot(p[h])
    /\ Goto(h, "pp")
    /\ UNCHANGED <<up, store, p, e, eng, tuned, pp, idr, drone, wasReset, beam, bounds>>

\* _route_dynamic_link: started, stopped or rebuilt when the dynamicLink block,
\* or the width while it is on, changed; a new drone address alone does not
\* rebuild it.
RouteDynamicLink(h) ==
    /\ At(h, "dl")
    /\ dl' = IF e[h].dl = p[h].dl /\ (e[h].dl = "off" \/ e[h].width = p[h].width)
             THEN dl ELSE Snapshot(p[h])
    /\ Goto(h, "pp")
    /\ UNCHANGED <<up, store, p, e, eng, tuned, pp, idr, drone, wasReset, beam, bounds>>

\* _route_pixelpilot and _route_idr_forward.
RouteRest(h) ==
    /\ At(h, "pp")
    /\ pp' = IF e[h].pp = p[h].pp THEN pp ELSE p[h].pp
    /\ idr' = IF e[h].idr = p[h].idr THEN idr
              ELSE IF p[h].idr = "off" THEN "off" ELSE "on"
    /\ Goto(h, "commit")
    /\ UNCHANGED <<up, store, p, e, eng, tuned, dl, drone, wasReset, beam, bounds>>

\* store.commit() copies the current _pending, sets _config and rewrites the
\* file (a temporary file and os.replace, so the file is the old or the new
\* one); when the write raises, _config is already changed and the request
\* ends with 500.
Commit(h) ==
    /\ At(h, "commit")
    /\ effective' = pending
    /\ \/ disk' = pending /\ Goto(h, "armer") /\ UNCHANGED <<p, e>>
       \/ UNCHANGED disk /\ Respond(h)
    /\ UNCHANGED <<up, pending, running, wasReset, beam, bounds>>

\* POST /gs/reset: the store goes back to the defaults, then the engine (and
\* only the engine) is restarted from it; not even that when the write raises.
Reset(h) ==
    /\ Arrives(h)
    /\ effective' = Defaults
    /\ pending' = Defaults
    /\ \/ disk' = Defaults /\ wasReset' = "done" /\ Goto(h, "reset")
       \/ wasReset' = "failed" /\ UNCHANGED <<disk, pc>>
    /\ UNCHANGED <<up, p, e, running, beam, crashes>>

ResetEngine(h) ==
    /\ At(h, "reset")
    /\ Restarts(effective) \/ RestartFails(effective)
    /\ Respond(h)
    /\ UNCHANGED <<up, store, rest, wasReset, beam, bounds>>

-----------------------------------------------------------------------------
(***************************************************************************)
(* BeamformingArmer.tick, by the armer thread and, after a commit, by the  *)
(* handler.  The configuration is read first; the drone is asked for its   *)
(* MAC only when the beamformee must be armed, and may not answer.         *)
(***************************************************************************)
\* The write of bf_monitor_conf may fail: the state is then "error", and the
\* controller no longer takes itself for armed.
Disarm ==
    \/ bf' = "disabled" /\ hw' = FALSE
    \/ bf' = "error" /\ UNCHANGED hw

\* Faulty variant of TickReads: a beamformee that is no longer wanted stays.
TickReadsArmOnly(a) ==
    /\ up = "up"
    /\ ~asks[a]
    /\ asks' = [asks EXCEPT ![a] = effective.bf /\ bf # "active"]
    /\ UNCHANGED <<bf, hw>>

TickReads(a) ==
    /\ up = "up"
    /\ ~asks[a]
    /\ asks' = [asks EXCEPT ![a] = effective.bf /\ bf # "active"]
    /\ IF ~effective.bf /\ bf = "active" THEN Disarm ELSE UNCHANGED <<bf, hw>>

\* reconcile(True, ...): already armed for this peer, armed now, or an error.
Arms(a) ==
    /\ up = "up"
    /\ asks[a]
    /\ asks' = [asks EXCEPT ![a] = FALSE]
    /\ bf' = "active"
    /\ hw' = TRUE

ArmFails(a) ==
    /\ up = "up"
    /\ asks[a]
    /\ asks' = [asks EXCEPT ![a] = FALSE]
    /\ bf' \in (IF bf = "active" THEN {bf} ELSE {bf, "error"})
    /\ UNCHANGED hw

ArmerStep ==
    /\ TickReads("armer") \/ Arms("armer") \/ ArmFails("armer")
    /\ UNCHANGED <<up, store, pc, p, e, running, wasReset, bounds>>

HandlerTick(h) ==
    /\ At(h, "armer")
    /\ TickReads(h)
    /\ IF asks'[h] THEN Goto(h, "asking") /\ UNCHANGED <<p, e>> ELSE Respond(h)
    /\ UNCHANGED <<up, store, running, wasReset, bounds>>

HandlerArms(h) ==
    /\ At(h, "asking")
    /\ Arms(h) \/ ArmFails(h)
    /\ Respond(h)
    /\ UNCHANGED <<up, store, running, wasReset, bounds>>

-----------------------------------------------------------------------------
Handler(h) ==
    \/ Validate(h) \/ ApplyLink(h) \/ Rollback(h) \/ RouteDynamicLink(h)
    \/ RouteRest(h) \/ Commit(h) \/ ResetEngine(h)
    \/ HandlerTick(h) \/ HandlerArms(h)

Next ==
    \/ Boot \/ Crash \/ ArmerStep
    \/ \E h \in Handlers : Patch(h) \/ BeginApply(h) \/ Reset(h) \/ Handler(h)

\* The armer's interval ends, requests are served, the init system restarts
\* the daemon, and a drone that is asked again and again answers.
Spec ==
    /\ Init /\ [][Next]_vars
    /\ WF_vars(Boot) /\ WF_vars(ArmerStep)
    /\ \A h \in Handlers : WF_vars(Handler(h))
    /\ SF_vars(Arms("armer") /\ UNCHANGED <<up, store, pc, p, e, running,
                                            wasReset, bounds>>)

-----------------------------------------------------------------------------
(***************************************************************************)
(* Properties.                                                             *)
(***************************************************************************)
Idle == \A h \in Handlers : pc[h] = "idle"

\* The engine, if it is up, and the other parts are as c says.
EngineFollows(c) == eng.on => eng.view = View(c) /\ tuned = Tuned(c)
ControllerFollows(c) == dl = [Snapshot(c) EXCEPT !.host = dl.host]
PlayerFollows(c) == pp = c.pp /\ idr = IF c.idr = "off" THEN "off" ELSE "on"

\* When no request is in progress, what runs is what GET /gs/config shows:
\* the engine (if it came up) is built from or tuned to the effective
\* configuration, and the controller, pixelpilot and the relay follow it.  It
\* must survive a failed apply and its rollback, a retune that fell back to a
\* restart, and a failed write of config.json.  POST /gs/reset restarts the
\* engine alone, and not even the engine when its write of config.json fails:
\* the others follow again after the next boot.
RunningIsEffective ==
    up = "up" /\ Idle =>
        /\ wasReset # "failed" => EngineFollows(effective)
        /\ wasReset = "no" => ControllerFollows(effective) /\ PlayerFollows(effective)

\* config.json can always be booted from: an apply persists only what
\* validate_effective accepted, so a crash at any point of a request restarts
\* into a daemon that comes up.
DiskBoots == Valid(disk) /\ up # "bricked"

\* A crash loses at most the request in progress: config.json changes only
\* to a configuration that the engine was given successfully (or to the
\* defaults), never during an apply that is being rolled back.  After a reset
\* whose write raised, the store is ahead of the engine until the next boot.
OnlyAppliedPersists ==
    [][disk' # disk =>
        \/ disk' = Defaults \/ wasReset = "failed"
        \/ EngineFollows(disk')]_vars

\* The inductive strengthening, for requests served one at a time: which of
\* its two snapshots each part follows at every point of _apply_gs, and that the
\* pending snapshot is still what commit() will write.
Given(h, labels) == IF pc[h] \in labels THEN p[h] ELSE effective

HandlerInv(h) ==
    /\ pc[h] \in {"idle", "read", "link", "dl", "pp", "commit", "rollback", "reset",
                  "armer", "asking"}
    /\ pc[h] \in {"link", "dl", "pp", "commit", "rollback"} => e[h] = effective
    /\ pc[h] \in {"read", "link", "dl", "pp", "commit"} => p[h] = pending
    /\ pc[h] \in {"link", "dl", "pp", "commit"} => Valid(p[h])
    /\ pc[h] = "rollback" => ~eng.on
    /\ wasReset # "failed" /\ pc[h] # "reset" =>
          EngineFollows(Given(h, {"dl", "pp", "commit"}))
    /\ wasReset = "no" =>
          /\ pc[h] # "reset"
          /\ ControllerFollows(Given(h, {"pp", "commit"}))
          /\ PlayerFollows(Given(h, {"commit"}))

ConfigInv ==
    /\ pc = [h \in Handlers |-> pc[h]] /\ p = [h \in Handlers |-> p[h]]
    /\ e = [h \in Handlers |-> e[h]]
    /\ up \in {"up", "down"}
    /\ Valid(disk)
    /\ \A h \in Handlers : IF up = "up" THEN HandlerInv(h) ELSE pc[h] = "idle"

\* The beamformee ends up as the configuration wants it, with the armer thread
\* and a handler's nudge reconciling concurrently from configurations read
\* before the drone was asked.  (A failed write of the disarm is not retried:
\* the hazard at beamforming.py:52.)
BeamformeeSettles ==
    <>[](up = "up" => hw = effective.bf \/ (~effective.bf /\ bf = "error"))

\* The drone is talked to at the configured address: "the drone's address;
\* reused by the /air proxy, IDR relay, and DL decision UDP" (docs/api.md:1093).
\* Not so after an apply that changes drone.host: the engine is restarted, the
\* proxy, the relay and the controller keep the address of the last boot.
DroneAddressFollows ==
    up = "up" /\ Idle /\ wasReset = "no" =>
        drone = effective.host /\ (dl # NoSnapshot => dl.host = effective.host)

=============================================================================
