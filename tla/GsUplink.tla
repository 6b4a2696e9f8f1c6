------------------------------ MODULE GsUplink ------------------------------
(***************************************************************************)
(* The ground station's uplink: the IP tunnel (TunnelService in            *)
(* wfb/tunnel.py) with its batching (GsBatch) and keepalive, the choice    *)
(* of the transmitting card once per statistics window                     *)
(* (StatsHub.aggregate_window, _apply_tx_selection in wfb/engine.py), and  *)
(* the wiring that carries a frame to that card (GsWiring).                *)
(*                                                                         *)
(* All handlers run on the engine's event loop, so each is one action.     *)
(* The respawn of a wfb_tx under this plane is modelled in GsEngine; here  *)
(* every socket connects.  Times are abstract: the 5 ms flush timer fires  *)
(* at any moment after it is armed, ticks come at any moment.              *)
(***************************************************************************)
EXTENDS GsWiring, GsBatch

CONSTANTS
    Topologies,   \* the configurations an engine can be started with
    CardStats,    \* the statistics one window can hold, by card position
    Sizes,        \* the sizes of the IP packets read from the tun device
    MaxPackets    \* bound on the packets read in one life of the engine

ASSUME SizesAssumption == Sizes \subseteq 1..(Mtu - 2)
ASSUME TopologyAssumption == \A t \in Topologies : IsTopology(t)
ASSUME StatsAssumption ==
    \A stats \in CardStats : \A i \in DOMAIN stats : stats[i].pkts \in Nat /\ stats[i].rssi \in Int

VARIABLES
    topo,       \* the topology the engine runs with
    up,         \* between start() and stop()
    chosen,     \* TxSelector.current
    sock,       \* the wlan whose socket both uplink services hold
    agg,        \* AggQueue: queue, queue_size and timer
    inSem,      \* _pkt_in_sem
    outSem,     \* _pkt_out_sem
    heard,      \* history: the cards of the last window a choice was made on
    reads,      \* history: the packets read from the tun device
    delivered,  \* history: the packets the peer unpacked
    rxNow,      \* history: something was received since the last tick
    busy,       \* history: a packet was read since the last tick
    deaf,       \* history: whole intervals without reception, up to 2
    kept,       \* history: whom the last tick sent a keepalive to
    silent      \* history: nothing left in the last interval

\* The GsGraph that _setup builds for each.
Graphs == [t \in Topologies |-> Graph(t)]

choice == <<topo, chosen, sock, heard>>
packets == <<reads, delivered>>
pulse == <<inSem, outSem, rxNow, busy, deaf, kept, silent>>
vars == <<up, choice, agg, packets, pulse>>

-----------------------------------------------------------------------------
\* _send_to_current_tx: the batch goes out on the current socket; the peer
\* unpacks it.
Send(batch) == delivered' = delivered \o UnpackBatch(batch)

-----------------------------------------------------------------------------
(***************************************************************************)
(* The event loop.                                                         *)
(***************************************************************************)
\* What _setup and TunnelService.start leave behind: nothing is chosen, the
\* services hold the first socket.
Init ==
    /\ topo \in Topologies
    /\ up = TRUE
    /\ chosen = NoWlan
    /\ sock = SocketFor(topo, NoWlan)
    /\ heard = {}
    /\ agg = EmptyQueue
    /\ reads = <<>> /\ delivered = <<>>
    /\ inSem = 0 /\ outSem = 0
    /\ rxNow = FALSE /\ busy = FALSE
    /\ deaf = 1
    /\ kept = "none"
    /\ silent = FALSE

\* _on_tun_readable.
ReadTun(size) ==
    /\ up
    /\ Len(reads) < MaxPackets
    /\ LET data == [b \in 1..size |-> Len(reads) + 1]
           r == Put(agg, PackTun(data))
       IN /\ reads' = Append(reads, data)
          /\ agg' = r.q
          /\ Send(r.out)
    /\ outSem' = 1
    /\ busy' = TRUE
    /\ UNCHANGED <<up, choice, inSem, rxNow, deaf, kept, silent>>

\* The flush timer of the queue.
FlushTimer ==
    /\ up
    /\ agg.timer = "armed"
    /\ agg' = Flush(agg).q
    /\ Send(Flush(agg).out)
    /\ UNCHANGED <<up, choice, reads, pulse>>

\* _on_rx_batch, for a batch with packets and for an empty keepalive alike; the
\* packets it writes to the tun device are output.
ReceiveBatch ==
    /\ up
    /\ inSem' = 2
    /\ rxNow' = TRUE
    /\ UNCHANGED <<up, choice, agg, packets, outSem, busy, deaf, kept, silent>>

\* Faulty variant of KeepaliveTick: the counter of what was sent is never
\* taken down.
KeepaliveTickOnce ==
    LET to == IF inSem = 0 THEN "all" ELSE IF outSem = 0 THEN "one" ELSE "none"
    IN /\ up
       /\ inSem' = IF inSem > 0 THEN inSem - 1 ELSE 0
       /\ kept' = to
       /\ deaf' = IF rxNow THEN 0 ELSE IF deaf = 2 THEN 2 ELSE deaf + 1
       /\ silent' = (to = "none" /\ ~busy)
       /\ rxNow' = FALSE
       /\ busy' = FALSE
       /\ UNCHANGED <<up, choice, agg, packets, outSem>>

\* _keepalive_tick: an empty frame to every card when nothing was received, to
\* the current one when nothing was read; both counters go down.
KeepaliveTick ==
    LET to == IF inSem = 0 THEN "all" ELSE IF outSem = 0 THEN "one" ELSE "none"
    IN /\ up
       /\ inSem' = IF inSem > 0 THEN inSem - 1 ELSE 0
       /\ outSem' = IF outSem > 0 THEN outSem - 1 ELSE 0
       /\ kept' = to
       /\ deaf' = IF rxNow THEN 0 ELSE IF deaf = 2 THEN 2 ELSE deaf + 1
       /\ silent' = (to = "none" /\ ~busy)
       /\ rxNow' = FALSE
       /\ busy' = FALSE
       /\ UNCHANGED <<up, choice, agg, packets>>

\* aggregate_window with the selection: the statistics of the cards that may
\* transmit decide; a switch re-targets both uplink services.  Any card can
\* have rows: the graph's children hear them all (UplinkByHeardCard).
AggregateWindow(stats) ==
    LET s == [w \in {WlanOf(topo, i) : i \in DOMAIN stats} \ RxOnlyWlans(topo) |->
                 stats[CHOOSE i \in DOMAIN stats : WlanOf(topo, i) = w]]
    IN /\ up
       /\ DOMAIN stats \subseteq Positions(topo)
       /\ chosen' = Select(s, chosen)
       /\ sock' = IF chosen' = chosen THEN sock ELSE SocketFor(topo, chosen')
       /\ heard' = IF DOMAIN s = {} THEN heard ELSE DOMAIN s
       /\ UNCHANGED <<up, topo, agg, packets, pulse>>

\* TunnelService.stop in the engine's teardown: the queue is sent, then closed.
Stop ==
    /\ up
    /\ up' = FALSE
    /\ agg' = EmptyQueue
    /\ Send(IF agg.size > 0 THEN FlattenSeq(agg.queue) ELSE <<>>)
    /\ UNCHANGED <<choice, reads, pulse>>

\* A new start, perhaps after a configuration change.
Start ==
    /\ ~up
    /\ up' = TRUE
    /\ topo' \in Topologies
    /\ chosen' = NoWlan
    /\ sock' = SocketFor(topo', NoWlan)
    /\ heard' = {}
    /\ agg' = EmptyQueue
    /\ reads' = <<>> /\ delivered' = <<>>
    /\ inSem' = 0 /\ outSem' = 0
    /\ rxNow' = FALSE /\ busy' = FALSE
    /\ deaf' = 1
    /\ kept' = "none"
    /\ silent' = FALSE

Next ==
    \/ \E size \in Sizes : ReadTun(size)
    \/ FlushTimer
    \/ ReceiveBatch
    \/ KeepaliveTick
    \/ \E stats \in CardStats : AggregateWindow(stats)
    \/ Stop
    \/ Start

\* The event loop runs a timer that is due.
Fairness == WF_vars(FlushTimer)

Spec == Init /\ [][Next]_vars /\ Fairness

-----------------------------------------------------------------------------
\* The ports plan_cluster hands to the distributors and aggregators are those
\* that the injectors and forwarders of render_node_script and
\* build_graph_remote use: each service hears every card and nothing of another
\* service, and the uplink leaves by one card, the same for both services.  Once
\* the selector has chosen, it is a card that was heard in the last window that
\* decided, and in a cluster never an RX-only card.
UplinkByHeardCard ==
    up => LET graph == Graphs[topo] IN
          /\ \A service \in DOMAIN graph.hears :
                graph.hears[service] = {service} \X Positions(topo)
          /\ \E i \in Positions(topo) :
                /\ \A service \in TxServices : graph.reaches[service][sock] = {<<service, i>>}
                /\ chosen # NoWlan => /\ WlanOf(topo, i) = chosen
                                      /\ chosen \in heard
                                      /\ HasRemote(topo) => ~topo.cards[i].off

\* AggQueue and the codec lose, repeat and reorder nothing: what the peer has
\* unpacked and what is still queued are the packets read, in order; stop()
\* leaves none behind.
TunnelInOrder ==
    /\ delivered \o UnpackBatch(FlattenSeq(agg.queue)) = reads
    /\ ~up => delivered = reads

\* "if there has been no RX from the peer for two whole intervals
\* (pkt_in_sem == 0), send an empty keepalive to ALL tx sockets ... else if
\* there has been no TX for one interval": no interval passes in which nothing
\* leaves, and the broadcast comes exactly with the second deaf interval.
NeverSilent == ~silent /\ (deaf = 2 <=> kept = "all")

\* No packet stays in the queue: it is emptied again and again, by the timer
\* that put() arms or by stop().
QueueDrains == []<>(agg.queue = <<>>)

\* cards.py says of txpower "off": RX-only, no TX child.  With another card to
\* transmit on, the selector never settles on such a card.
RxOnlySilent ==
    (up /\ chosen # NoWlan /\ RxOnly(topo) # Positions(topo)) =>
        \A i \in RxOnly(topo) : <<"tunnel", i>> \notin Graphs[topo].reaches["tunnel"][sock]

=============================================================================
