------------------------------ MODULE GsWiring ------------------------------
(***************************************************************************)
(* How the ground station's data plane is wired to its cards: plan_cluster *)
(* (wfb/cluster.py) allocates ports, build_graph and build_graph_remote    *)
(* (wfb/graph.py) and render_node_script hand them to the processes, and   *)
(* StatsHub (wfb/aggregator.py) with TxSelector (wfb/txsel.py) chooses the *)
(* card that transmits.  All of it is pure: a topology t is a record with  *)
(* the list of cards and the probe switch, a card is named by its position *)
(* in the list, a wlan id is <<node, index on the node>>.                  *)
(*                                                                         *)
(* Nodes are numbered in the order of their addresses (as text and as      *)
(* numbers alike).  No card names the loopback address as its remote host. *)
(***************************************************************************)
EXTENDS Integers, Sequences, FiniteSets, SequencesExt, FiniteSetsExt

CONSTANTS
    AbsDelta,    \* counter_abs_delta
    RelDelta,    \* counter_rel_delta, in percent
    RssiDelta    \* rssi_delta_db

\* What schema.py admits.
ASSUME DeltaAssumption ==
    AbsDelta \in Nat /\ RelDelta \in Nat /\ RelDelta <= 100 /\ RssiDelta \in Nat

LocalNode == 1              \* "127.0.0.1"
NoWlan == <<LocalNode, -1>> \* TxSelector.current = None
BasePort == 11000           \* base_port_node
ServerBase == 10000         \* base_port_server

\* A running engine has a card: no wfb_tx announces a socket without one.
IsTopology(t) ==
    /\ t.cards \in Seq([node : Nat, off : BOOLEAN]) /\ t.cards # <<>>
    /\ t.probe \in BOOLEAN

Positions(t) == 1..Len(t.cards)
HasRemote(t) == \E i \in Positions(t) : t.cards[i].node # LocalNode

\* service_order; the services with a transmit stream, all have a receive one.
ServiceOrder(t) ==
    <<"video", "mavlink", "tunnel">> \o (IF t.probe THEN <<"probe">> ELSE <<>>)
TxServices == {"mavlink", "tunnel"}

\* plan.nodes: a loop over the list appends each card to its node's cards.
CardsOf(t, node) ==
    LET upto[i \in 0..Len(t.cards)] ==
            IF i = 0 THEN <<>>
            ELSE IF t.cards[i].node = node THEN Append(upto[i - 1], i) ELSE upto[i - 1]
    IN upto[Len(t.cards)]

\* A card's wlan id: in a cluster its index counts on its own node.
WlanOf(t, i) ==
    <<t.cards[i].node, Cardinality({j \in 1..(i - 1) : t.cards[j].node = t.cards[i].node})>>
Wlans(t) == {WlanOf(t, i) : i \in Positions(t)}

\* Faulty variant of InjectorPorts: the allocator advances once per service.
InjectorPortsOnce(t, node, service) ==
    LET n == Len(CardsOf(t, node))
        k == (CHOOSE k \in DOMAIN ServiceOrder(t) : ServiceOrder(t)[k] = service)
    IN [idx \in 0..(n - 1) |-> BasePort + (k - 1) + idx]

\* plan_cluster: every service in order takes one port per card of the node
\* from the node's allocator.
InjectorPorts(t, node, service) ==
    LET n == Len(CardsOf(t, node))
        k == (CHOOSE k \in DOMAIN ServiceOrder(t) : ServiceOrder(t)[k] = service)
    IN [idx \in 0..(n - 1) |-> BasePort + (k - 1) * n + idx]

\* plan_cluster: the ports of the aggregators on the ground station.
ServerPort(t, service) ==
    ServerBase + (CHOOSE k \in DOMAIN ServiceOrder(t) : ServiceOrder(t)[k] = service) - 1

\* The children of a node: for every service a wfb_rx -f that forwards what each
\* of the node's cards hears to a port of the ground station, and for those that
\* transmit a wfb_tx -I that listens on one port per card from its base port.
Forwards(service, cards, port) ==
    {[does |-> "forward", service |-> service, card |-> i, port |-> port] : i \in Range(cards)}
Injects(service, cards, base) ==
    {[does |-> "inject", service |-> service, card |-> cards[k], port |-> base + k - 1] :
         k \in DOMAIN cards}

\* render_node_script: the children a remote node's script starts.
NodeScript(t, node) ==
    (UNION {Forwards(service, CardsOf(t, node), ServerPort(t, service)) :
                service \in Range(ServiceOrder(t))})
    \cup (UNION {Injects(service, CardsOf(t, node), Min(Range(InjectorPorts(t, node, service)))) :
                     service \in TxServices})

\* local_forwarders and local_injectors: the same for the ground station's own
\* cards (local_ifaces), when there are any.
LocalIfaces(t) == CardsOf(t, LocalNode)
LocalChildren(t) ==
    IF LocalIfaces(t) = <<>> THEN {}
    ELSE (UNION {Forwards(service, LocalIfaces(t), ServerPort(t, service)) :
                     service \in Range(ServiceOrder(t))})
         \cup (UNION {Injects(service, LocalIfaces(t),
                              Min(Range(InjectorPorts(t, LocalNode, service)))) :
                          service \in TxServices})

\* A graph says which <<service, card>> an rx child hears, and which one a frame
\* handed to wlan w of a tx child reaches.
\* build_graph: all cards are local, and every child has the interfaces itself.
BuildGraph(t) ==
    [hears |-> [service \in Range(ServiceOrder(t)) |-> {service} \X Positions(t)],
     reaches |-> [service \in TxServices |->
                     [w \in Wlans(t) |-> {<<service, w[2] + 1>>}]]]

\* The children on a node: the ground station's own, or those of the script.
Children(t, node) == IF node = LocalNode THEN LocalChildren(t) ELSE NodeScript(t, node)

\* What the children of a node do at a port.
AtPort(t, node, does, port) ==
    {<<c.service, c.card>> : c \in {c \in Children(t, node) : c.does = does /\ c.port = port}}

\* build_graph_remote: an aggregator (-a) hears what is forwarded to its port, a
\* distributor (-d) sends to the port its peer list names for the wlan.
BuildGraphRemote(t) ==
    [hears |-> [service \in Range(ServiceOrder(t)) |->
                   UNION {AtPort(t, node, "forward", ServerPort(t, service)) :
                              node \in {t.cards[i].node : i \in Positions(t)} \cup {LocalNode}}],
     reaches |-> [service \in TxServices |->
                     [w \in Wlans(t) |->
                         AtPort(t, w[1], "inject", InjectorPorts(t, w[1], service)[w[2]])]]]

Graph(t) == IF HasRemote(t) THEN BuildGraphRemote(t) ELSE BuildGraph(t)

\* rx_only_wlan_ids; the all-local engine passes none to its selector.
RxOnly(t) == {i \in Positions(t) : t.cards[i].off}
RxOnlyWlans(t) == IF HasRemote(t) THEN {WlanOf(t, i) : i \in RxOnly(t)} ELSE {}

\* _tx_socket_for: the socket of the chosen card, without a choice the first
\* one the wfb_tx listed (the first card of the first node of the peer list).
FirstWlan(t) == <<Min({t.cards[i].node : i \in Positions(t)}), 0>>
SocketFor(t, w) == IF w \in Wlans(t) THEN w ELSE FirstWlan(t)

-----------------------------------------------------------------------------
(***************************************************************************)
(* The statistics of one window.                                           *)
(***************************************************************************)
\* _stats_agg_by_freq_and_rxid: rows [child, card, ant, pkts, rssi] are merged
\* by antenna over the children, with a packet-weighted average.
MergedAntennas(rows) ==
    [a \in {<<r.card, r.ant>> : r \in rows} |->
        LET of == {r \in rows : <<r.card, r.ant>> = a}
            pkts == MapThenSumSet(LAMBDA r : r.pkts, of)
        IN [pkts |-> pkts,
            rssi |-> MapThenSumSet(LAMBDA r : r.rssi * r.pkts, of) \div pkts]]

\* The grouping of select(): the best antenna of a card, per quantity.
ByCard(ants) ==
    [i \in {a[1] : a \in DOMAIN ants} |->
        LET of == {a \in DOMAIN ants : a[1] = i}
        IN [pkts |-> Max({ants[a].pkts : a \in of}),
            rssi |-> Max({ants[a].rssi : a \in of})]]

\* The cards within the counter deltas of the best.
NearMax(s) ==
    LET most == Max({s[w].pkts : w \in DOMAIN s})
    IN {w \in DOMAIN s :
           100 * s[w].pkts >= 100 * most - Max({100 * AbsDelta, RelDelta * most})}

\* max over (rssi, wlan id).
Best(s, among) ==
    CHOOSE w \in among : \A v \in among \ {w} :
        \/ s[v].rssi < s[w].rssi
        \/ s[v].rssi = s[w].rssi /\ (v[1] < w[1] \/ (v[1] = w[1] /\ v[2] < w[2]))

\* TxSelector.select on the cards that may transmit: the current card is kept
\* while it is near the best and no other is RssiDelta stronger.
Select(s, current) ==
    LET near == NearMax(s)
        best == Best(s, near)
    IN IF DOMAIN s = {} THEN current
       ELSE IF current \in near /\ s[best].rssi - s[current].rssi < RssiDelta
       THEN current ELSE best

=============================================================================
