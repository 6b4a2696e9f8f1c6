------------------------------ MODULE GsEngine ------------------------------
(***************************************************************************)
(* WfbEngine (wfb/engine.py): the thread that builds, runs and tears down  *)
(* the ground station's data plane, with the callers of start/stop/restart *)
(* (serialised by _lifecycle), the two tx children whose respawns it       *)
(* follows, its 100 ms ticker, and one statistics reader in another thread *)
(* (_EngineStatsSource).  A step of the engine thread is the code between  *)
(* two suspensions of its event loop.                                      *)
(*                                                                         *)
(* The children are seen as GsSupervision leaves them: alive or not, with  *)
(* a spawn number that stands for the identity of tx_parser.               *)
(* STOP_JOIN_TIMEOUT_S is assumed not to expire: stop() joins the thread.  *)
(***************************************************************************)
EXTENDS Naturals, FiniteSets

CONSTANTS
    MaxSpawns,   \* bound: spawns of one tx child
    MaxStarts    \* bound: engine threads started

Legs == {"mavlink_tx", "tunnel_tx"}      \* TX_LEG_ORDER
Services == {"children", "mav", "tun", "stats", "nodes"}
NoHub == 0

VARIABLES
    call,      \* the caller: "idle", "start" (waiting for _started), "stop" (joining)
    again,     \* the caller is in restart(): start() follows stop()
    stage,     \* the engine thread: "none" when there is none
    started,   \* _started is set
    startOk,   \* _start_ok
    stopReq,   \* _stop_event is set
    remote,    \* has_remote(cards) of the config this thread was built from
    open,      \* what is really running: subset of Services
    tunRef,    \* self._tunnel_service is not None
    hubs,      \* hubs built so far: this thread's hub is number `hubs`
    hub,       \* self.hub
    closed,    \* hubs on which close() was called
    aborted,   \* history: a teardown ended by an exception
    tick,      \* _tick_task: "none", "sleep", "dead" (ended by an exception)
    live,      \* per leg: the process is alive
    inc,       \* per leg: spawn number, the identity of tx_parser
    listed,    \* per leg: tx_parser.unix_sockets is not empty
    wired,     \* per leg: _tx_parser_ids
    sock,      \* per leg: spawn its service's current socket is connected to, 0: none
    engineFault,
    sub        \* the reader: [pc |-> "poll" | "read" | "bound", hub |-> hub in hand]

caller == <<call, again>>
thread == <<stage, started, startOk, stopReq, remote>>
plane == <<open, tunRef, hubs, hub, closed, aborted, tick>>
legs == <<live, inc, listed, wired, sock, engineFault>>
lifeVars == <<caller, thread, plane, legs, sub>>

LifeInit ==
    /\ call = "idle" /\ again = FALSE
    /\ stage = "none" /\ started = FALSE /\ startOk = FALSE /\ stopReq = FALSE
    /\ remote = FALSE
    /\ open = {} /\ tunRef = FALSE
    /\ hubs = 0 /\ hub = NoHub /\ closed = {}
    /\ tick = "none" /\ aborted = FALSE
    /\ live = [l \in Legs |-> FALSE]
    /\ inc = [l \in Legs |-> 0]
    /\ listed = [l \in Legs |-> FALSE]
    /\ wired = [l \in Legs |-> 0]
    /\ sock = [l \in Legs |-> 0]
    /\ engineFault = FALSE
    /\ sub = [pc |-> "poll", hub |-> NoHub]

-----------------------------------------------------------------------------
(***************************************************************************)
(* The callers, one at a time (the _lifecycle lock).                       *)
(***************************************************************************)
\* start() with no live thread: a thread is started and waited for.
SpawnThread ==
    /\ hubs < MaxStarts
    /\ call' = "start"
    /\ again' = FALSE
    /\ stage' = "setup"
    /\ started' = FALSE
    /\ startOk' = FALSE
    /\ stopReq' = FALSE
    /\ remote' \in BOOLEAN

CallStart ==
    /\ call = "idle"
    /\ stage = "none"
    /\ SpawnThread
    /\ UNCHANGED <<plane, legs, sub>>

\* start() returns: _started was set, or START_JOIN_TIMEOUT_S expired while
\* the thread goes on setting up.
StartWaitEnds ==
    /\ call = "start"
    /\ started \/ stage \in {"setup", "services", "publish", "stats", "nodes"}
    /\ call' = "idle"
    /\ UNCHANGED <<again, thread, plane, legs, sub>>

\* stop(), or the stop() of restart(): the stop event is set on the loop.
CallStop ==
    /\ call = "idle"
    /\ call' = "stop"
    /\ again' \in BOOLEAN
    /\ stopReq' = (stopReq \/ stage # "none")
    /\ UNCHANGED <<stage, started, startOk, remote, plane, legs, sub>>

StopJoined ==
    /\ call = "stop"
    /\ stage = "none"
    /\ IF again /\ hubs < MaxStarts
       THEN SpawnThread
       ELSE /\ call' = "idle"
            /\ again' = FALSE
            /\ UNCHANGED thread
    /\ UNCHANGED <<plane, legs, sub>>

-----------------------------------------------------------------------------
(***************************************************************************)
(* Sockets of the two uplink services.                                     *)
(***************************************************************************)
\* connect() reaches a process only if it is alive and listening.
Connect(l) == IF live[l] /\ listed[l] THEN inc[l] ELSE 0

\* MavlinkService.set_tx_socket drops its socket first; the name is None when
\* the parser has no sockets.
MavTarget == Connect("mavlink_tx")

\* TunnelService.set_tx_socket: a connect that fails keeps the closed socket it
\* had.
TunTarget(old) ==
    IF listed["tunnel_tx"] /\ Connect("tunnel_tx") = 0 THEN old ELSE Connect("tunnel_tx")

\* set_tx_socket on the services ls, from the parsers as they are now.
Retarget(s, ls) ==
    [s EXCEPT !["mavlink_tx"] = IF "mavlink_tx" \in ls THEN MavTarget ELSE @,
              !["tunnel_tx"] = IF "tunnel_tx" \in ls THEN TunTarget(@) ELSE @]

\* set_all_tx_sockets: the tunnel's current socket is the fresh one or none.
Rebroadcast(s) ==
    [s EXCEPT !["tunnel_tx"] = IF @ = 0 THEN 0 ELSE Connect("tunnel_tx")]

(***************************************************************************)
(* _setup.                                                                 *)
(***************************************************************************)
ThreadEnds(ok) ==
    /\ stage' = "none"
    /\ started' = TRUE
    /\ startOk' = ok

\* The tx children stopped, and _tx_parser_ids emptied (or left with parsers
\* that no later child can have).
NoTxChildren ==
    /\ live' = [l \in Legs |-> FALSE]
    /\ listed' = [l \in Legs |-> FALSE]
    /\ inc' = [l \in Legs |-> 0]
    /\ wired' = [l \in Legs |-> 0]
    /\ sock' = [l \in Legs |-> 0]

\* reap_stale_wfb: what an aborted teardown left of the children is killed.
Reaped == open \ {"children"}

\* Config, cards, reap, radio, graph, then every child in leg order.  A failure
\* (before the reap or after it) stops the children already started and ends
\* the thread.
SetupChildren ==
    /\ stage = "setup"
    /\ hubs' = hubs + 1
    /\ engineFault' = FALSE
    /\ \/ /\ stage' = "services"
          /\ open' = Reaped \cup {"children"}
          /\ live' = [l \in Legs |-> TRUE]
          /\ listed' = [l \in Legs |-> TRUE]
          /\ inc' = [l \in Legs |-> 1]
          /\ UNCHANGED <<started, startOk>>
       \/ /\ ThreadEnds(FALSE)
          /\ open' \in {open, Reaped}
          /\ UNCHANGED <<live, listed, inc>>
    /\ UNCHANGED <<caller, stopReq, remote, tunRef, hub, closed, aborted, tick,
                   wired, sock, sub>>

\* The exception path of the service wiring.  The hub is closed first and
\* dropped last, with every stop() awaited in between.
WiringFails ==
    /\ stage' = "failed"
    /\ closed' = closed \cup {hubs}

\* mav_service.start and tunnel_service.start (which retries a busy tun).
StartServices ==
    /\ stage = "services"
    /\ \/ /\ stage' = "publish"
          /\ open' = open \cup {"mav", "tun"}
          /\ UNCHANGED closed
       \/ /\ WiringFails
          /\ open' \in {open, open \cup {"mav"}, open \cup {"mav", "tun"}}
    /\ UNCHANGED <<caller, started, startOk, stopReq, remote, tunRef, hubs,
                   hub, aborted, tick, legs, sub>>

\* The block between tunnel_service.start and the await of stats_server.start:
\* sockets, references and the hub are published, the identities of the tx
\* parsers recorded, and add_ant_sel_cb fires the first selection.
Publish ==
    /\ stage = "publish"
    /\ stage' = "stats"
    /\ tunRef' = TRUE
    /\ hub' = hubs
    /\ wired' = inc
    /\ sock' = Retarget([l \in Legs |-> 0], Legs)
    /\ UNCHANGED <<caller, started, startOk, stopReq, remote, open, hubs,
                   closed, aborted, tick, live, inc, listed, engineFault, sub>>

StartStats ==
    /\ stage = "stats"
    /\ \/ /\ open' = open \cup {"stats"}
          /\ stage' = "nodes"
          /\ UNCHANGED closed
       \/ /\ WiringFails
          /\ UNCHANGED open
    /\ UNCHANGED <<caller, started, startOk, stopReq, remote, tunRef, hubs,
                   hub, aborted, tick, legs, sub>>

\* _start_node_sessions (remote only, never fails the start), the ticker, and
\* _run up to the wait for the stop event.
StartNodes ==
    /\ stage = "nodes"
    /\ open' = IF remote THEN open \cup {"nodes"} ELSE open
    /\ tick' = "sleep"
    /\ stage' = "run"
    /\ started' = TRUE
    /\ startOk' = TRUE
    /\ UNCHANGED <<caller, stopReq, remote, tunRef, hubs, hub, closed, aborted,
                   legs, sub>>

CleanUpFailed ==
    /\ stage = "failed"
    /\ ThreadEnds(FALSE)
    /\ open' = {}
    /\ tunRef' = FALSE
    /\ hub' = NoHub
    /\ NoTxChildren
    /\ UNCHANGED <<caller, stopReq, remote, hubs, closed, aborted, tick,
                   engineFault, sub>>

-----------------------------------------------------------------------------
(***************************************************************************)
(* The ticker: _check_tx_respawns, then aggregate_window, whose antenna    *)
(* callback (when the selection changed) is guarded by the hub.  Without a *)
(* tunnel service the unguarded first call ends the task.                  *)
(***************************************************************************)
\* Faulty variant of Respawned: an identity once recorded is never compared.
RespawnedUnwired == {l \in Legs : listed[l] /\ wired[l] = 0}

Respawned == {l \in Legs : listed[l] /\ wired[l] # inc[l]}

\* switched: aggregate_window chose another card.
Tick(switched) ==
    /\ tick = "sleep"
    /\ stage \in {"run", "td_nodes"}
    /\ wired' = [l \in Legs |-> IF l \in Respawned THEN inc[l] ELSE wired[l]]
    /\ IF Respawned # {} /\ ~tunRef
       THEN /\ tick' = "dead"
            /\ sock' = Retarget(sock, {"mavlink_tx"})
       ELSE /\ UNCHANGED tick
            /\ sock' = IF Respawned # {} THEN Rebroadcast(Retarget(sock, Legs))
                       ELSE IF switched
                       THEN Retarget(sock, IF tunRef THEN Legs ELSE {"mavlink_tx"})
                       ELSE sock
    /\ UNCHANGED <<caller, thread, open, tunRef, hubs, hub, closed, aborted,
                   live, inc, listed, engineFault, sub>>

-----------------------------------------------------------------------------
(***************************************************************************)
(* _teardown.                                                              *)
(***************************************************************************)
\* Faulty variant of DropHub: the reference is dropped only at the end.
DropHubLate(left) ==
    /\ hub' = hub
    /\ closed' = closed \cup {hub}
    /\ tick' = "none"
    /\ open' = left
    /\ aborted' = (aborted \/ tick = "dead")
    /\ IF tick = "dead"
       THEN ThreadEnds(startOk)
       ELSE stage' = "td_rest" /\ UNCHANGED <<started, startOk>>

\* Faulty variant of DropHub: the reference is dropped, the hub not closed.
DropHubUnclosed(left) ==
    /\ hub' = NoHub
    /\ closed' = closed
    /\ tick' = "none"
    /\ open' = left
    /\ aborted' = (aborted \/ tick = "dead")
    /\ IF tick = "dead"
       THEN ThreadEnds(startOk)
       ELSE stage' = "td_rest" /\ UNCHANGED <<started, startOk>>

\* Hub closed and dropped in one breath, ticker cancelled and awaited.  Only
\* CancelledError is suppressed: a ticker that had died raises here and the
\* rest of the teardown is skipped.
DropHub(left) ==
    /\ hub' = NoHub
    /\ closed' = closed \cup {hub}
    /\ tick' = "none"
    /\ open' = left
    /\ aborted' = (aborted \/ tick = "dead")
    /\ IF tick = "dead"
       THEN ThreadEnds(startOk)
       ELSE stage' = "td_rest" /\ UNCHANGED <<started, startOk>>

\* The tunnel service first (its stop never suspends), then the node sessions,
\* whose stop is a network round trip.
BeginTeardown ==
    /\ stage = "run"
    /\ stopReq
    /\ tunRef' = FALSE
    /\ sock' = [sock EXCEPT !["tunnel_tx"] = 0]
    /\ IF remote
       THEN /\ open' = open \ {"tun"}
            /\ stage' = "td_nodes"
            /\ UNCHANGED <<started, startOk, hub, closed, aborted, tick>>
       ELSE DropHub(open \ {"tun"})
    /\ UNCHANGED <<caller, stopReq, remote, hubs, live, inc, listed, wired,
                   engineFault, sub>>

NodesStopped ==
    /\ stage = "td_nodes"
    /\ DropHub(open \ {"nodes"})
    /\ UNCHANGED <<caller, stopReq, remote, tunRef, hubs, legs, sub>>

\* Faulty variant of StopTheRest: the rx and tx children are forgotten.
StopTheServices ==
    /\ stage = "td_rest"
    /\ ThreadEnds(startOk)
    /\ open' = open \ {"stats", "mav"}
    /\ NoTxChildren
    /\ UNCHANGED <<caller, stopReq, remote, tunRef, hubs, hub, closed, aborted,
                   tick, engineFault, sub>>

\* Stats server, mavlink service, tx children, rx children.
StopTheRest ==
    /\ stage = "td_rest"
    /\ ThreadEnds(startOk)
    /\ open' = open \ {"stats", "mav", "children"}
    /\ NoTxChildren
    /\ UNCHANGED <<caller, stopReq, remote, tunRef, hubs, hub, closed, aborted,
                   tick, engineFault, sub>>

-----------------------------------------------------------------------------
(***************************************************************************)
(* A tx child under its own supervisor, while the engine's loop runs.      *)
(***************************************************************************)
Supervised(l) == stage \notin {"none", "setup"} /\ "children" \in open

ChildDies(l) ==
    /\ Supervised(l)
    /\ live[l]
    /\ live' = [live EXCEPT ![l] = FALSE]
    /\ UNCHANGED <<caller, thread, plane, inc, listed, wired, sock, engineFault, sub>>

\* A respawn builds a new, empty parser.
ChildRespawns(l) ==
    /\ Supervised(l)
    /\ ~live[l]
    /\ inc[l] < MaxSpawns
    /\ live' = [live EXCEPT ![l] = TRUE]
    /\ inc' = [inc EXCEPT ![l] = @ + 1]
    /\ listed' = [listed EXCEPT ![l] = FALSE]
    /\ UNCHANGED <<caller, thread, plane, wired, sock, engineFault, sub>>

ChildListens(l) ==
    /\ Supervised(l)
    /\ live[l]
    /\ ~listed[l]
    /\ listed' = [listed EXCEPT ![l] = TRUE]
    /\ UNCHANGED <<caller, thread, plane, live, inc, wired, sock, engineFault, sub>>

\* The crash-loop budget is exceeded: _on_child_fault.
ChildFaults(l) ==
    /\ Supervised(l)
    /\ ~live[l]
    /\ inc[l] = MaxSpawns
    /\ ~engineFault
    /\ engineFault' = TRUE
    /\ UNCHANGED <<caller, thread, plane, live, inc, listed, wired, sock, sub>>

-----------------------------------------------------------------------------
(***************************************************************************)
(* The statistics reader.  subscribe() and close() exclude each other; a   *)
(* subscription to a closed hub is woken at once.                          *)
(***************************************************************************)
ReadHub ==
    /\ sub.pc = "poll"
    /\ hub # NoHub
    /\ sub' = [pc |-> "read", hub |-> hub]
    /\ UNCHANGED <<caller, thread, plane, legs>>

Subscribe ==
    /\ sub.pc = "read"
    /\ sub' = [sub EXCEPT !.pc = "bound"]
    /\ UNCHANGED <<caller, thread, plane, legs>>

Woken ==
    /\ sub.pc = "bound"
    /\ sub.hub \in closed
    /\ sub' = [pc |-> "poll", hub |-> NoHub]
    /\ UNCHANGED <<caller, thread, plane, legs>>

-----------------------------------------------------------------------------
Thread ==
    \/ SetupChildren \/ StartServices \/ Publish \/ StartStats \/ StartNodes
    \/ CleanUpFailed \/ BeginTeardown \/ NodesStopped \/ StopTheRest

Reader == ReadHub \/ Subscribe \/ Woken

LifeNext ==
    \/ CallStart \/ StartWaitEnds \/ CallStop \/ StopJoined
    \/ Thread \/ Reader
    \/ \E switched \in BOOLEAN : Tick(switched)
    \/ \E l \in Legs : ChildDies(l) \/ ChildRespawns(l) \/ ChildListens(l) \/ ChildFaults(l)

\* The engine's loop and the reader's loop keep running; the ticker's sleep
\* ends (whether the antenna is switched is not assumed); a spawned wfb_tx
\* prints its sockets.
LifeSpec ==
    /\ LifeInit /\ [][LifeNext]_lifeVars
    /\ WF_lifeVars(Thread) /\ WF_lifeVars(Tick(FALSE)) /\ WF_lifeVars(Reader)
    /\ \A l \in Legs : WF_lifeVars(ChildListens(l))

-----------------------------------------------------------------------------
(***************************************************************************)
(* Properties.                                                             *)
(***************************************************************************)
\* A thread that ended, after a failed setup at any step or after a teardown,
\* left nothing of _setup running: no child, service, node session or hub, and
\* only an engine with remote cards can have a teardown cut short (its ticker
\* may die while the node sessions stop: the hazard at engine.py:722).
StopReleasesAll ==
    /\ stage = "none" /\ ~aborted => open = {} /\ hub = NoHub /\ ~tunRef
    /\ tick = "dead" => remote

\* The comment of _teardown: a closed hub is not visible as self.hub, so a
\* reader cannot spin on it.  Only the exception path of _setup, which closes
\* first and drops after its awaits, has such a window.
ClosedHubHidden == hub \in closed => stage = "failed"

\* The inductive strengthening of the two.  The hub of this thread is the last
\* one built; it is published from _setup's wiring to the teardown and open as
\* long as it is published, the failed wiring excepted.
HubInv ==
    /\ hubs \in Nat /\ closed \subseteq 1..hubs
    /\ stage \in {"none", "setup", "services", "publish", "stats", "nodes", "run",
               "failed", "td_nodes", "td_rest"}
    /\ stage \in {"none", "setup", "services", "publish", "td_rest"} => hub = NoHub
    /\ stage \in {"stats", "nodes", "run", "td_nodes"} => hub = hubs
    /\ stage \in {"services", "publish", "stats", "nodes", "run", "td_nodes"} =>
          hubs > 0 /\ hubs \notin closed

\* The ticker dies only while the node sessions stop, the tunnel reference
\* already dropped.
TickInv ==
    /\ tunRef => stage \in {"stats", "nodes", "run", "failed"}
    /\ stage \in {"stats", "nodes", "run"} => tunRef
    /\ tick = "dead" => stage = "td_nodes"
    /\ stage = "td_nodes" => remote

\* What can be open at every point; nothing is said after an aborted teardown.
OpenInv ==
    ~aborted =>
        /\ open \subseteq Services
        /\ stage \in {"none", "setup"} => open = {}
        /\ stage = "td_nodes" => "tun" \notin open
        /\ stage = "td_rest" => open \subseteq {"children", "mav", "stats"}
        /\ stage \in {"services", "publish", "stats", "nodes"} => "nodes" \notin open
        /\ ~remote => "nodes" \notin open

EngineInv == HubInv /\ TickInv /\ OpenInv

\* A statistics reader follows the engine across restarts: whenever a hub
\* stays up, the reader ends up subscribed to that one, never left waiting on
\* the hub of an earlier incarnation.
ReaderRebinds == []<>(hub = NoHub \/ (sub.pc = "bound" /\ sub.hub = hub))

\* A respawned tx child that lists its sockets is noticed by identity and its
\* service is connected to the new process, unless it dies again or the
\* engine leaves "run".
RespawnRewired ==
    \A l \in Legs :
        (stage = "run" /\ live[l] /\ listed[l] /\ wired[l] # inc[l])
            ~> (sock[l] = inc[l] \/ ~live[l] \/ stage # "run")

\* The docstring of _check_tx_respawns (engine.py): an identity is committed
\* "once unix_sockets is non-empty, so a respawn observed mid-handshake is
\* retried on the next tick".  An engine that runs therefore ends up with
\* each uplink service connected to its live, listening child.
UplinkConnected ==
    \A l \in Legs :
        (stage = "run" /\ live[l] /\ listed[l])
            ~> (sock[l] = inc[l] \/ ~live[l] \/ stage # "run")

=============================================================================
