----------------------------- MODULE MCGsUplink -----------------------------
(***************************************************************************)
(* GsUplink for TLC: all topologies of up to MaxCards cards on the local   *)
(* node and at most one remote host, on either side of the local address   *)
(* (the probe switch, which only adds ports, with cards that all transmit);*)
(* windows of one row or two, so that two cards, two antennas of a card or *)
(* two children's rows of an antenna meet.                                 *)
(***************************************************************************)
EXTENDS GsUplink

CONSTANT MaxCards

Card(nodes) == [node : nodes, off : BOOLEAN]
MCTopologies ==
    {t \in [cards : UNION {[1..n -> Card(nodes)] : n \in 1..MaxCards, nodes \in {{0, 1}, {1, 2}}},
            probe : BOOLEAN] : t.probe => RxOnly(t) = {}}

\* Strong, weak and nearly equal cards, and a strong one that hears little.
Row ==
    {r \in [child : {"video", "tunnel"}, card : 1..MaxCards, ant : {0, 1},
            pkts : {2, 10}, rssi : {-60, -58, -50}] : r.pkts = 2 => r.rssi = -50}
Window(rows) ==
    \A r \in rows, q \in rows :
        (r.child = q.child /\ r.card = q.card /\ r.ant = q.ant) => r = q
MCCardStats ==
    {ByCard(MergedAntennas(rows)) :
        rows \in {rows \in {{r, q} : r \in Row, q \in Row} : Window(rows)}}

=============================================================================
