--------------------------- MODULE GsWiringProofs ---------------------------
(***************************************************************************)
(* Proofs about the wiring of the ground station's data plane (GsWiring),  *)
(* for every topology and every window of statistics: the ports, the       *)
(* graphs and the choice of the transmitting card.                         *)
(***************************************************************************)
EXTENDS GsWiring, GsBatchProofs

(***************************************************************************)
(* Topologies: the cards of a node and their wlan ids (plan_cluster).      *)
(***************************************************************************)
\* The cards among the first i of the list that are on the node.
OnNode(t, node, i) == {j \in 1..i : t.cards[j].node = node}

\* Their number grows by one with each card of the node.
LEMMA CountOnNode ==
    ASSUME NEW t, NEW node, NEW i \in Nat
    PROVE  /\ IsFiniteSet(OnNode(t, node, i)) /\ Cardinality(OnNode(t, node, i)) \in Nat
           /\ Cardinality(OnNode(t, node, i + 1)) =
                 IF t.cards[i + 1].node = node THEN Cardinality(OnNode(t, node, i)) + 1
                 ELSE Cardinality(OnNode(t, node, i))
<1>1. IsFiniteSet(1..i)
    BY FS_Interval
<1>2. IsFiniteSet(OnNode(t, node, i)) /\ Cardinality(OnNode(t, node, i)) \in Nat
    <2>1. OnNode(t, node, i) \in SUBSET (1..i)
        BY DEF OnNode
    <2>2. IsFiniteSet(OnNode(t, node, i))
        BY <1>1, <2>1, FS_Subset
    <2> QED BY <2>2, FS_CardinalityType
<1>3. CASE t.cards[i + 1].node = node
    <2>1. OnNode(t, node, i + 1) = OnNode(t, node, i) \cup {i + 1}
            /\ i + 1 \notin OnNode(t, node, i)
        BY <1>3 DEF OnNode
    <2> QED BY <1>2, <1>3, <2>1, FS_AddElement
<1>4. CASE t.cards[i + 1].node # node
    <2>1. OnNode(t, node, i + 1) = OnNode(t, node, i)
        BY <1>4 DEF OnNode
    <2> QED BY <1>2, <1>4, <2>1
<1> QED BY <1>2, <1>3, <1>4

\* plan_cluster's loop over the cards is well defined.
LEMMA CardsOfEquation ==
    ASSUME NEW t, IsTopology(t), NEW node
    PROVE  \E U : /\ CardsOf(t, node) = U[Len(t.cards)]
                  /\ U[0] = <<>>
                  /\ \A i \in 1..Len(t.cards) :
                        U[i] = IF t.cards[i].node = node THEN Append(U[i - 1], i)
                            ELSE U[i - 1]
<1> DEFINE n == Len(t.cards)
           Step(g, i) == IF i = 0 THEN <<>>
                         ELSE IF t.cards[i].node = node THEN Append(g[i - 1], i)
                             ELSE g[i - 1]
           Solves(g, d) == /\ g = [i \in 0..n |-> g[i]]
                           /\ \A i \in 0..d : g[i] = Step(g, i)
           S == {d \in Nat : d <= n => \E g : Solves(g, d)}
<1>0. n \in Nat
    BY LenProperties DEF IsTopology
<1>1. 0 \in S
    <2>1. Solves([i \in 0..n |-> <<>>], 0)
        BY <1>0
    <2> QED BY <2>1
<1>2. ASSUME NEW d \in S PROVE d + 1 \in S
    <2>1. d \in Nat /\ d + 1 \in Nat
        OBVIOUS
    <2> SUFFICES ASSUME d + 1 <= n PROVE \E g : Solves(g, d + 1)
        OBVIOUS
    <2>2. PICK g : Solves(g, d)
        BY <1>0
    <2> HIDE DEF S, n
    <2> DEFINE h == [i \in 0..n |-> IF i = d + 1 THEN Step(g, i) ELSE g[i]]
    <2>3. \A i \in 0..(d + 1) : i = 0 \/ (i - 1 \in 0..n /\ i - 1 # d + 1)
        BY <1>0, <2>1
    <2>4. \A i \in 0..(d + 1) : Step(h, i) = Step(g, i)
        <3> SUFFICES ASSUME NEW i \in 0..(d + 1) PROVE Step(h, i) = Step(g, i)
            OBVIOUS
        <3>1. CASE i = 0
            BY <3>1
        <3>2. CASE i # 0
            <4>1. h[i - 1] = g[i - 1]
                BY <2>3, <3>2
            <4> HIDE DEF h
            <4> QED BY <3>2, <4>1, Zenon
        <3> QED BY <3>1, <3>2
    <2>5. h = [i \in 0..n |-> h[i]]
        OBVIOUS
    <2> HIDE DEF Step
    <2>6. \A i \in 0..(d + 1) : i \in 0..n /\ (i = d + 1 \/ (i \in 0..d /\ i # d + 1))
        BY <1>0, <2>1
    <2>7. \A i \in 0..(d + 1) : h[i] = Step(g, i)
        BY <2>2, <2>6, Zenon
    <2> HIDE DEF h
    <2> QED BY <2>4, <2>5, <2>7, Zenon
<1>3. S = Nat
    <2> HIDE DEF S
    <2> QED BY <1>1, <1>2, InductiveSet, Zenon DEF S
<1>4. PICK g : Solves(g, n)
    <2>1. n \in S
        <3> HIDE DEF S
        <3> QED BY <1>0, <1>3
    <2> QED BY <1>0, <2>1
<1>5. \E u : u = [i \in 0..n |-> Step(u, i)] /\ CardsOf(t, node) = u[n]
    <2>1. g = [i \in 0..n |-> Step(g, i)]
        BY <1>0, <1>4, Zenon
    <2> QED BY <2>1, Zenon DEF CardsOf
<1>6. PICK u : u = [i \in 0..n |-> Step(u, i)] /\ CardsOf(t, node) = u[n]
    BY <1>5, Zenon
<1>7. 0 \in 0..n /\ \A i \in 1..n : i \in 0..n /\ i # 0
    BY <1>0
<1>8. u[0] = <<>>
    BY <1>6, <1>7, Zenon
<1>9. \A i \in 1..n :
          u[i] = IF t.cards[i].node = node THEN Append(u[i - 1], i) ELSE u[i - 1]
    BY <1>6, <1>7, Zenon
<1> QED BY <1>6, <1>8, <1>9, Zenon

\* plan_cluster lists each card of a node once, at the index that is part of
\* its wlan id, and lists no card of another node.
LEMMA CardsOfNode ==
    ASSUME NEW t, IsTopology(t), NEW node
    PROVE  /\ CardsOf(t, node) \in Seq(Positions(t))
           /\ \A k \in 1..Len(CardsOf(t, node)) : t.cards[CardsOf(t, node)[k]].node = node
           /\ \A i \in Positions(t) : t.cards[i].node = node =>
                 LET rank == Cardinality(OnNode(t, node, i - 1))
                 IN  /\ rank \in 0..(Len(CardsOf(t, node)) - 1)
                     /\ CardsOf(t, node)[rank + 1] = i
<1> DEFINE n == Len(t.cards)
           rank(i) == Cardinality(OnNode(t, node, i))
           On(i) == t.cards[i].node = node
<1>0. n \in Nat
    BY LenProperties DEF IsTopology
<1>1. PICK U : /\ CardsOf(t, node) = U[n]
               /\ U[0] = <<>>
               /\ \A i \in 1..n : U[i] = IF On(i) THEN Append(U[i - 1], i) ELSE U[i - 1]
    BY CardsOfEquation
<1>2. rank(0) = 0
    <2>1. OnNode(t, node, 0) = {}
        BY DEF OnNode
    <2> QED BY <2>1, FS_EmptySet
<1>3. \A i \in Nat : rank(i) \in Nat
        /\ rank(i + 1) = IF On(i + 1) THEN rank(i) + 1 ELSE rank(i)
    BY CountOnNode
<1> HIDE DEF n, rank, On
<1> DEFINE P(i) == /\ U[i] \in Seq(1..n) /\ Len(U[i]) = rank(i)
                   /\ \A k \in 1..rank(i) : On(U[i][k])
                   /\ \A j \in 1..i : On(j) => rank(j - 1) \in 0..(rank(i) - 1)
                      /\ U[i][rank(j - 1) + 1] = j
           S == {d \in Nat : d <= n => P(d)}
<1>4. 0 \in S
    <2>1. U[0] \in Seq(1..n) /\ Len(U[0]) = rank(0) /\ 1..0 = {} /\ 1..rank(0) = {}
        BY <1>1, <1>2
    <2>2. P(0)
        BY <2>1, Zenon
    <2> HIDE DEF P
    <2> QED BY <2>2
<1>5. ASSUME NEW d \in S PROVE d + 1 \in S
    <2>1. d \in Nat /\ d + 1 \in Nat
        OBVIOUS
    <2> SUFFICES ASSUME d + 1 <= n PROVE P(d + 1)
        BY SMTT(30)
    <2>2. P(d)
        BY <1>0
    <2> HIDE DEF S
    <2> DEFINE u == U[d]
               v == U[d + 1]
               c == rank(d)
    <2>3. c \in Nat /\ d + 1 \in 1..n /\ (d + 1) - 1 = d
            /\ \A j \in 1..(d + 1) : j = d + 1 \/ j \in 1..d
        BY <1>0, <1>3, <2>1
    <2>4. v = IF On(d + 1) THEN Append(u, d + 1) ELSE u
        BY <1>1, <2>3, Zenon
    <2>5. rank(d + 1) = IF On(d + 1) THEN c + 1 ELSE c
        BY <1>3, <2>1, SMTT(30)
    <2>6. CASE ~On(d + 1)
        <3>1. v = u /\ rank(d + 1) = c
            BY <2>4, <2>5, <2>6, SMTT(30)
        <3> QED BY <2>2, <2>3, <2>6, <3>1, SMTT(30)
    <2>7. CASE On(d + 1)
        <3>1. v = Append(u, d + 1) /\ rank(d + 1) = c + 1
            BY <2>4, <2>5, <2>7
        <3>2. u \in Seq(1..n) /\ Len(u) = c
            BY <2>2
        <3> HIDE DEF u, v, c
        <3>3. v \in Seq(1..n) /\ Len(v) = c + 1 /\ v[c + 1] = d + 1
                /\ \A k \in 1..c : v[k] = u[k]
            BY <2>3, <3>1, <3>2, AppendProperties, SMTT(30)
        <3>4. \A k \in 1..(c + 1) : On(v[k])
            <4> SUFFICES ASSUME NEW k \in 1..(c + 1) PROVE On(v[k])
                OBVIOUS
            <4>1. k = c + 1 \/ k \in 1..c
                BY <2>3
            <4>2. \A m \in 1..c : On(u[m])
                BY <2>2 DEF u, c
            <4> QED BY <2>7, <3>3, <4>1, <4>2, ZenonT(30)
        <3>5. ASSUME NEW j \in 1..(d + 1), On(j)
              PROVE  rank(j - 1) \in 0..c /\ v[rank(j - 1) + 1] = j
            <4>1. CASE j = d + 1
                <5>1. j - 1 = d /\ rank(j - 1) = c
                    BY <2>3, <4>1 DEF c
                <5> QED BY <2>3, <3>3, <4>1, <5>1, SMTT(30)
            <4>2. CASE j \in 1..d
                <5>1. rank(j - 1) \in 0..(c - 1) /\ u[rank(j - 1) + 1] = j
                    BY <2>2, <3>5, <4>2, SMTT(30) DEF u, c
                <5>2. rank(j - 1) + 1 \in 1..c /\ rank(j - 1) \in 0..c
                    BY <2>3, <5>1
                <5> QED BY <3>3, <5>1, <5>2, SMTT(30)
            <4> QED BY <2>3, <4>1, <4>2
        <3>6. (c + 1) - 1 = c
            BY <2>3
        <3> QED BY <3>1, <3>3, <3>4, <3>5, <3>6, SMTT(30) DEF v
    <2> QED BY <2>6, <2>7
<1>6. S = Nat
    <2> HIDE DEF S
    <2> QED BY <1>4, <1>5, InductiveSet, Zenon DEF S
<1>7. P(n)
    <2>1. n \in S
        <3> HIDE DEF S
        <3> QED BY <1>0, <1>6
    <2>2. n <= n
        BY <1>0
    <2> QED BY <2>1, <2>2
<1>8. Positions(t) = 1..n
    BY DEF Positions, n
<1> QED BY <1>1, <1>7, <1>8, SMTT(30) DEF rank, On

(***************************************************************************)
(* The ports of plan_cluster and what uses them.                           *)
(***************************************************************************)
\* Min(S) is the least member of S.
LEMMA MinIs ==
    ASSUME NEW S \in SUBSET Int, NEW m \in S, \A x \in S : m <= x
    PROVE  Min(S) = m
<1>1. Min(S) \in S /\ \A x \in S : Min(S) <= x
    BY Zenon DEF Min
<1>2. Min(S) \in Int /\ m \in Int /\ Min(S) <= m /\ m <= Min(S)
    BY <1>1, Zenon
<1> QED BY <1>2

\* The place of a service in service_order.
ServiceIndex(t, service) ==
    CHOOSE k \in DOMAIN ServiceOrder(t) : ServiceOrder(t)[k] = service

\* The places of the services in service_order.
LEMMA ServiceIndexes ==
    ASSUME NEW t, t.probe \in BOOLEAN
    PROVE  /\ \A service \in Range(ServiceOrder(t)) :
                 /\ ServiceIndex(t, service) \in Nat
                 /\ ServiceOrder(t)[ServiceIndex(t, service)] = service
           /\ ServiceIndex(t, "mavlink") = 2
           /\ ServiceIndex(t, "tunnel") = 3
           /\ TxServices \subseteq Range(ServiceOrder(t))
<1> DEFINE so == ServiceOrder(t)
<1>1. /\ DOMAIN so \subseteq Nat /\ 1 \in DOMAIN so /\ 2 \in DOMAIN so /\ 3 \in DOMAIN so
      /\ so[2] = "mavlink" /\ so[3] = "tunnel"
      /\ \A k \in DOMAIN so : (so[k] = "mavlink" => k = 2) /\ (so[k] = "tunnel" => k = 3)
    <2>1. CASE t.probe
        <3> DEFINE a == <<"video", "mavlink", "tunnel">>
                   b == <<"probe">>
                   V == {"video", "mavlink", "tunnel", "probe"}
        <3>1. so = a \o b
            BY <2>1 DEF ServiceOrder
        <3>2. /\ a \in Seq(V) /\ b \in Seq(V) /\ Len(a) = 3 /\ Len(b) = 1
              /\ a[1] = "video" /\ a[2] = "mavlink" /\ a[3] = "tunnel" /\ b[1] = "probe"
            OBVIOUS
        <3> HIDE DEF a, b, V, so
        <3>3. /\ so \in Seq(V) /\ Len(so) = Len(a) + Len(b)
              /\ \A i \in 1..(Len(a) + Len(b)) :
                     so[i] = IF i <= Len(a) THEN a[i] ELSE b[i - Len(a)]
            BY <3>1, <3>2, ConcatProperties, Zenon
        <3>4. DOMAIN so = 1..4 /\ so[1] = "video" /\ so[2] = "mavlink"
                /\ so[3] = "tunnel" /\ so[4] = "probe"
            BY <3>2, <3>3, LenProperties
        <3>5. \A k \in 1..4 : k = 1 \/ k = 2 \/ k = 3 \/ k = 4
            OBVIOUS
        <3> QED BY <3>4, <3>5
    <2>2. CASE ~t.probe
        <3>1. so = <<"video", "mavlink", "tunnel">>
            BY <2>2 DEF ServiceOrder
        <3> QED BY <3>1
    <2> QED BY <2>1, <2>2
<1> HIDE DEF so
<1>2. \A service \in Range(so) :
          /\ ServiceIndex(t, service) \in DOMAIN so
          /\ so[ServiceIndex(t, service)] = service
    BY DEF Range, ServiceIndex, so
<1>3. "mavlink" \in Range(so) /\ "tunnel" \in Range(so)
    BY <1>1 DEF Range
<1> QED BY <1>1, <1>2, <1>3 DEF TxServices, so

\* No two services share an aggregator's port.
LEMMA ServerPorts ==
    ASSUME NEW t, IsTopology(t), NEW s \in Range(ServiceOrder(t)),
           NEW r \in Range(ServiceOrder(t)),
           ServerPort(t, s) = ServerPort(t, r)
    PROVE  s = r
<1>1. /\ ServerPort(t, s) = ServerBase + ServiceIndex(t, s) - 1
      /\ ServerPort(t, r) = ServerBase + ServiceIndex(t, r) - 1
    BY DEF ServerPort, ServiceIndex
<1>2. /\ ServiceIndex(t, s) \in Nat /\ ServiceIndex(t, r) \in Nat
      /\ ServiceOrder(t)[ServiceIndex(t, s)] = s
         /\ ServiceOrder(t)[ServiceIndex(t, r)] = r
    BY ServiceIndexes DEF IsTopology
<1>3. ServiceIndex(t, s) = ServiceIndex(t, r)
    <2> DEFINE a == ServiceIndex(t, s)
               b == ServiceIndex(t, r)
    <2>1. a \in Nat /\ b \in Nat /\ ServerBase + a - 1 = ServerBase + b - 1
        BY <1>1, <1>2, Zenon
    <2> HIDE DEF a, b
    <2>2. a = b
        BY <2>1 DEF ServerBase
    <2> QED BY <2>2 DEF a, b
<1> QED BY <1>2, <1>3

\* The ports of a service's injector on a node are consecutive, one per card
\* of the node, and those of the two services do not overlap.
LEMMA InjectorBases ==
    ASSUME NEW t, IsTopology(t), NEW node, CardsOf(t, node) # <<>>,
           NEW service \in TxServices
    PROVE  LET n == Len(CardsOf(t, node))
               base == BasePort + (IF service = "mavlink" THEN n ELSE 2 * n)
           IN  /\ \A idx \in 0..(n - 1) :
                   InjectorPorts(t, node, service)[idx] = base + idx
               /\ Min(Range(InjectorPorts(t, node, service))) = base
<1> DEFINE n == Len(CardsOf(t, node))
           k == ServiceIndex(t, service)
           base == BasePort + (IF service = "mavlink" THEN n ELSE 2 * n)
           ports == InjectorPorts(t, node, service)
<1>1. n \in Nat /\ n >= 1
    BY CardsOfNode
<1>2. ports = [idx \in 0..(n - 1) |-> BasePort + (k - 1) * n + idx]
    BY DEF InjectorPorts, ServiceIndex
<1>3. (service = "mavlink" /\ k = 2) \/ (service = "tunnel" /\ k = 3)
    BY ServiceIndexes DEF IsTopology, TxServices
<1> HIDE DEF n, k, ports
<1>4. BasePort + (k - 1) * n = base /\ base \in Nat
    <2>1. CASE service = "mavlink" /\ k = 2
        BY <1>1, <2>1 DEF BasePort
    <2>2. CASE service = "tunnel" /\ k = 3
        BY <1>1, <2>2 DEF BasePort
    <2> QED BY <1>3, <2>1, <2>2, SMTT(30)
<1> HIDE DEF base
<1>5. ports = [idx \in 0..(n - 1) |-> base + idx]
    BY <1>2, <1>4
<1>6. Min(Range(ports)) = base
    <2>1. Range(ports) = {base + idx : idx \in 0..(n - 1)}
        BY <1>5 DEF Range
    <2>2. base \in Range(ports) /\ Range(ports) \in SUBSET Int
            /\ \A x \in Range(ports) : base <= x
        BY <1>1, <1>4, <2>1
    <2> QED BY <2>2, MinIs
<1>7. \A idx \in 0..(n - 1) : ports[idx] = base + idx
    BY <1>5
<1> QED BY <1>6, <1>7 DEF n, base, ports

\* A node with a card runs the children of render_node_script or, for the
\* ground station, the same ones of local_forwarders and local_injectors.
LEMMA ChildrenOfNode ==
    ASSUME NEW t, IsTopology(t), NEW node
    PROVE  /\ CardsOf(t, node) # <<>> => Children(t, node) = NodeScript(t, node)
           /\ node = LocalNode /\ CardsOf(t, node) = <<>> => Children(t, node) = {}
BY DEF Children, LocalChildren, LocalIfaces, NodeScript

\* What arrives at a service's port from a node is what each of its cards hears
\* of that service.
LEMMA HeardAtPort ==
    ASSUME NEW t, IsTopology(t), NEW node, NEW service \in Range(ServiceOrder(t)),
           CardsOf(t, node) # <<>>
    PROVE  AtPort(t, node, "forward", ServerPort(t, service)) =
               {service} \X {i \in Positions(t) : t.cards[i].node = node}
<1> DEFINE cards == CardsOf(t, node)
           at == AtPort(t, node, "forward", ServerPort(t, service))
           mine == {i \in Positions(t) : t.cards[i].node = node}
<1>1. Range(cards) = mine
    <2>1. DOMAIN cards = 1..Len(cards) /\ cards \in Seq(Positions(t))
            /\ Len(cards) \in Nat
        BY CardsOfNode, LenProperties
    <2>2. ASSUME NEW i \in Range(cards) PROVE i \in mine
        BY <2>1, CardsOfNode, LenProperties DEF Range
    <2>3. ASSUME NEW i \in mine PROVE i \in Range(cards)
        <3> DEFINE m == Cardinality(OnNode(t, node, i - 1))
        <3>1. m \in 0..(Len(cards) - 1) /\ cards[m + 1] = i
            BY CardsOfNode
        <3> HIDE DEF m
        <3>2. m + 1 \in DOMAIN cards
            BY <2>1, <3>1
        <3> QED BY <3>1, <3>2 DEF Range
    <2> QED BY <2>2, <2>3
<1>2. ASSUME NEW c \in Children(t, node), c.does = "forward"
      PROVE  \E s \in Range(ServiceOrder(t)) : c \in Forwards(s, cards, ServerPort(t, s))
    BY <1>2, ChildrenOfNode DEF NodeScript, Injects
<1>3. \A s \in Range(ServiceOrder(t)) :
          Forwards(s, cards, ServerPort(t, s)) \subseteq Children(t, node)
    BY ChildrenOfNode DEF NodeScript
<1>4. ASSUME NEW x \in at PROVE x \in {service} \X mine
    <2>1. PICK c \in Children(t, node) : c.does = "forward"
            /\ c.port = ServerPort(t, service) /\ x = <<c.service, c.card>>
        BY DEF AtPort
    <2>2. PICK s \in Range(ServiceOrder(t)) : c \in Forwards(s, cards, ServerPort(t, s))
        BY <1>2, <2>1
    <2>3. PICK i \in Range(cards) : c = [does |-> "forward", service |-> s,
                                         card |-> i, port |-> ServerPort(t, s)]
        BY <2>2 DEF Forwards
    <2>4. s = service
        BY <2>1, <2>3, ServerPorts
    <2> QED BY <1>1, <2>1, <2>3, <2>4, SMTT(30)
<1>5. ASSUME NEW i \in mine PROVE <<service, i>> \in at
    <2> DEFINE c == [does |-> "forward", service |-> service,
                     card |-> i, port |-> ServerPort(t, service)]
    <2>1. c \in Forwards(service, cards, ServerPort(t, service))
        BY <1>1 DEF Forwards
    <2>2. c \in Children(t, node)
        BY <1>3, <2>1
    <2> QED BY <2>2 DEF AtPort
<1> QED BY <1>4, <1>5

\* A frame sent to the port that the peer list names for a card's wlan id
\* leaves by that card, for that service.
LEMMA ReachedAtPort ==
    ASSUME NEW t, IsTopology(t), NEW i \in Positions(t), NEW service \in TxServices
    PROVE  LET w == WlanOf(t, i)
           IN  AtPort(t, w[1], "inject", InjectorPorts(t, w[1], service)[w[2]])
                   = {<<service, i>>}
<1> DEFINE node == t.cards[i].node
           cards == CardsOf(t, node)
           rank == Cardinality(OnNode(t, node, i - 1))
           n == Len(cards)
           base(s) == BasePort + (IF s = "mavlink" THEN n ELSE 2 * n)
           port == InjectorPorts(t, node, service)[rank]
           at == AtPort(t, node, "inject", port)
<1>1. WlanOf(t, i) = <<node, rank>>
    BY DEF WlanOf, OnNode
<1>2. rank \in 0..(n - 1) /\ cards[rank + 1] = i
    BY CardsOfNode
<1>3. n \in Nat /\ n >= 1 /\ cards # <<>> /\ DOMAIN cards = 1..n
    BY <1>2, CardsOfNode, LenProperties, SMTT(30)
<1>4. port = base(service) + rank
        /\ \A s \in TxServices : Min(Range(InjectorPorts(t, node, s))) = base(s)
    BY <1>2, <1>3, InjectorBases, SMTT(30)
<1>5. Children(t, node) = NodeScript(t, node)
    BY <1>3, ChildrenOfNode
<1> HIDE DEF node, rank, cards, n, port
<1>6. ASSUME NEW c \in Children(t, node), c.does = "inject"
      PROVE  \E s \in TxServices : c \in Injects(s, cards, base(s))
    <2>1. PICK s \in TxServices :
              c \in Injects(s, cards, Min(Range(InjectorPorts(t, node, s))))
        BY <1>5, <1>6 DEF NodeScript, Forwards, cards
    <2> HIDE DEF base
    <2> QED BY <1>4, <2>1
<1>7. \A s \in TxServices : Injects(s, cards, base(s)) \subseteq Children(t, node)
    <2> HIDE DEF base
    <2> QED BY <1>4, <1>5 DEF NodeScript, cards
<1>8. ASSUME NEW x \in at PROVE x = <<service, i>>
    <2>1. PICK c \in Children(t, node) : c.does = "inject" /\ c.port = port
            /\ x = <<c.service, c.card>>
        BY DEF AtPort
    <2>2. PICK s \in TxServices : c \in Injects(s, cards, base(s))
        BY <1>6, <2>1
    <2>3. PICK k \in 1..n : c = [does |-> "inject", service |-> s,
                                 card |-> cards[k], port |-> base(s) + k - 1]
        BY <1>3, <2>2 DEF Injects
    <2>4. base(s) + k - 1 = base(service) + rank
        BY <1>4, <2>1, <2>3, SMTT(30)
    <2>5. s \in {"mavlink", "tunnel"} /\ service \in {"mavlink", "tunnel"}
        BY DEF TxServices
    <2>6. s = service /\ k = rank + 1
        BY <1>2, <1>3, <2>4, <2>5, SMTT(30) DEF BasePort
    <2> QED BY <1>2, <2>1, <2>3, <2>6, SMTT(30)
<1>9. <<service, i>> \in at
    <2> DEFINE c == [does |-> "inject", service |-> service,
                     card |-> cards[rank + 1], port |-> base(service) + (rank + 1) - 1]
    <2>1. rank + 1 \in DOMAIN cards
            /\ base(service) + (rank + 1) - 1 = base(service) + rank
        BY <1>2, <1>3 DEF BasePort
    <2>2. c \in Injects(service, cards, base(service))
        BY <2>1 DEF Injects
    <2>3. c \in Children(t, node)
        BY <1>7, <2>2
    <2>4. c.does = "inject" /\ c.service = service /\ c.card = i /\ c.port = port
        BY <1>2, <1>4, <2>1
    <2> HIDE DEF c
    <2> QED BY <2>3, <2>4 DEF AtPort
<1>10. at = {<<service, i>>}
    BY <1>8, <1>9
<1> QED BY <1>1, <1>10 DEF port

(***************************************************************************)
(* The graph and the socket.                                               *)
(***************************************************************************)
\* With local cards only a card's wlan id is its position in the list.
LEMMA LocalRank ==
    ASSUME NEW t, IsTopology(t), ~HasRemote(t), NEW i \in Positions(t)
    PROVE  WlanOf(t, i) = <<LocalNode, i - 1>>
<1>1. Len(t.cards) \in Nat /\ i \in 1..Len(t.cards)
    BY LenProperties DEF IsTopology, Positions
<1>2. t.cards[i].node = LocalNode /\ \A j \in 1..(i - 1) : t.cards[j].node = LocalNode
    BY <1>1 DEF HasRemote, Positions
<1>3. {j \in 1..(i - 1) : t.cards[j].node = t.cards[i].node} = 1..(i - 1)
    BY <1>2
<1>4. Cardinality(1..(i - 1)) = i - 1
    BY <1>1, FS_Interval
<1> QED BY <1>2, <1>3, <1>4, Zenon DEF WlanOf

\* build_graph and build_graph_remote wire alike, for any number of cards and
\* of nodes: every service hears every card and nothing of another service, and
\* a frame handed to the socket of a wlan id leaves by the one card with it.
THEOREM GraphWiring ==
    ASSUME NEW t, IsTopology(t)
    PROVE  /\ DOMAIN Graph(t).hears = Range(ServiceOrder(t))
           /\ \A service \in Range(ServiceOrder(t)) :
                 Graph(t).hears[service] = {service} \X Positions(t)
           /\ \A service \in TxServices : \A i \in Positions(t) :
                 Graph(t).reaches[service][WlanOf(t, i)] = {<<service, i>>}
<1>1. Len(t.cards) \in Nat /\ Positions(t) = 1..Len(t.cards)
    BY LenProperties DEF IsTopology, Positions
<1>2. CASE ~HasRemote(t)
    <2>1. Graph(t) = BuildGraph(t)
        BY <1>2 DEF Graph
    <2>2. ASSUME NEW service \in TxServices, NEW i \in Positions(t)
          PROVE  BuildGraph(t).reaches[service][WlanOf(t, i)] = {<<service, i>>}
        <3> DEFINE w == WlanOf(t, i)
        <3>1. w = <<LocalNode, i - 1>> /\ w \in Wlans(t)
            BY <1>2, LocalRank DEF Wlans
        <3>2. w[2] + 1 = i
            BY <1>1, <3>1
        <3> HIDE DEF w
        <3>3. BuildGraph(t).reaches[service][w] = {<<service, w[2] + 1>>}
            BY <3>1, Zenon DEF BuildGraph
        <3> QED BY <3>2, <3>3 DEF w
    <2>3. /\ DOMAIN BuildGraph(t).hears = Range(ServiceOrder(t))
          /\ \A service \in Range(ServiceOrder(t)) :
                 BuildGraph(t).hears[service] = {service} \X Positions(t)
        BY Zenon DEF BuildGraph
    <2> QED BY <2>1, <2>2, <2>3
<1>3. CASE HasRemote(t)
    <2>1. Graph(t) = BuildGraphRemote(t)
        BY <1>3 DEF Graph
    <2>2. ASSUME NEW service \in TxServices, NEW i \in Positions(t)
          PROVE  BuildGraphRemote(t).reaches[service][WlanOf(t, i)] = {<<service, i>>}
        <3> DEFINE w == WlanOf(t, i)
        <3>1. w \in Wlans(t)
            BY DEF Wlans
        <3>2. AtPort(t, w[1], "inject", InjectorPorts(t, w[1], service)[w[2]])
                  = {<<service, i>>}
            BY ReachedAtPort
        <3> HIDE DEF w
        <3>3. BuildGraphRemote(t).reaches[service][w] =
                  AtPort(t, w[1], "inject", InjectorPorts(t, w[1], service)[w[2]])
            BY <3>1, Zenon DEF BuildGraphRemote
        <3> QED BY <3>2, <3>3 DEF w
    <2>3. ASSUME NEW service \in Range(ServiceOrder(t))
          PROVE  BuildGraphRemote(t).hears[service] = {service} \X Positions(t)
        <3> DEFINE nodes == {t.cards[i].node : i \in Positions(t)} \cup {LocalNode}
                   on(node) == {i \in Positions(t) : t.cards[i].node = node}
                   at(node) == AtPort(t, node, "forward", ServerPort(t, service))
        <3>1. BuildGraphRemote(t).hears[service] = UNION {at(node) : node \in nodes}
            BY Zenon DEF BuildGraphRemote
        <3>2. ASSUME NEW node \in nodes PROVE at(node) = {service} \X on(node)
            <4>1. CASE CardsOf(t, node) # <<>>
                BY <4>1, HeardAtPort
            <4>2. CASE CardsOf(t, node) = <<>>
                <5>1. on(node) = {}
                    <6> SUFFICES ASSUME NEW i \in on(node) PROVE FALSE
                        OBVIOUS
                    <6>1. Cardinality(OnNode(t, node, i - 1))
                              \in 0..(Len(CardsOf(t, node)) - 1)
                        BY CardsOfNode
                    <6>2. Len(CardsOf(t, node)) = 0
                        BY <4>2
                    <6> QED BY <6>1, <6>2
                <5>2. node = LocalNode
                    BY <5>1
                <5>3. Children(t, node) = {}
                    BY <4>2, <5>2, ChildrenOfNode, SMTT(30)
                <5>4. at(node) = {}
                    BY <5>3 DEF AtPort
                <5> QED BY <5>1, <5>4
            <4> QED BY <4>1, <4>2
        <3> HIDE DEF at
        <3>3. UNION {at(node) : node \in nodes} = {service} \X Positions(t)
            <4>1. ASSUME NEW x \in UNION {at(node) : node \in nodes}
                  PROVE x \in {service} \X Positions(t)
                BY <3>2
            <4>2. ASSUME NEW i \in Positions(t)
                  PROVE <<service, i>> \in UNION {at(node) : node \in nodes}
                <5>1. t.cards[i].node \in nodes /\ i \in on(t.cards[i].node)
                    OBVIOUS
                <5>2. <<service, i>> \in at(t.cards[i].node)
                    BY <3>2, <5>1
                <5> HIDE DEF nodes
                <5> QED BY <5>1, <5>2
            <4> QED BY <4>1, <4>2
        <3> QED BY <3>1, <3>3
    <2>4. DOMAIN BuildGraphRemote(t).hears = Range(ServiceOrder(t))
        BY Zenon DEF BuildGraphRemote
    <2> QED BY <2>1, <2>2, <2>3, <2>4, SMTT(30)
<1> QED BY <1>2, <1>3

\* The first socket that a wfb_tx listed is that of a card, and no card has the
\* id that stands for no choice.
LEMMA FirstWlanListed ==
    ASSUME NEW t, IsTopology(t)
    PROVE  FirstWlan(t) \in Wlans(t) /\ NoWlan \notin Wlans(t)
<1> DEFINE P == Positions(t)
           node(i) == t.cards[i].node
<1>1. /\ P = 1..Len(t.cards) /\ Len(t.cards) \in Nat /\ Len(t.cards) # 0
      /\ \A i \in P : i \in Nat /\ node(i) \in Nat
    <2>1. Len(t.cards) \in Nat /\ Len(t.cards) # 0
        BY LenProperties DEF IsTopology
    <2>2. \A i \in 1..Len(t.cards) : t.cards[i] \in [node : Nat, off : BOOLEAN]
        BY LenProperties, Zenon DEF IsTopology
    <2> QED BY <2>1, <2>2 DEF Positions
<1>2. IsFiniteSet(P) /\ 1 \in P
    BY <1>1, FS_Interval
<1> HIDE DEF P
<1> DEFINE f == [i \in P |-> -node(i)]
<1>3. PICK a \in P : \A i \in P : f[i] <= f[a]
    <2>1. \A i \in P : f[i] \in Int
        BY <1>1
    <2>2. P # {}
        BY <1>2
    <2> HIDE DEF f
    <2> QED BY <1>2, <2>1, <2>2, MaxByKey
<1>4. \A i \in P : node(a) <= node(i)
    <2> SUFFICES ASSUME NEW i \in P PROVE node(a) <= node(i)
        OBVIOUS
    <2>1. f[i] = -node(i) /\ f[a] = -node(a) /\ node(i) \in Nat /\ node(a) \in Nat
        BY <1>1
    <2>2. f[i] <= f[a]
        BY <1>3
    <2> HIDE DEF f, node
    <2> QED BY <2>1, <2>2
<1>5. Min({node(i) : i \in P}) = node(a)
    <2>1. {node(i) : i \in P} \in SUBSET Int /\ node(a) \in {node(i) : i \in P}
            /\ \A x \in {node(i) : i \in P} : node(a) <= x
        BY <1>1, <1>3, <1>4, SMTT(30)
    <2> HIDE DEF node
    <2> QED BY <2>1, MinIs
<1> DEFINE Q == {i \in P : node(i) = node(a)}
           g == [i \in Q |-> -i]
<1>6. PICK b \in Q : \A i \in Q : g[i] <= g[b]
    <2>1. IsFiniteSet(Q)
        BY <1>2, FS_Subset
    <2>2. \A i \in Q : g[i] \in Int
        BY <1>1
    <2>3. Q # {}
        BY <1>3
    <2> HIDE DEF g, Q
    <2> QED BY <2>1, <2>2, <2>3, MaxByKey, SMTT(30)
<1>7. \A i \in Q : b <= i
    <2> SUFFICES ASSUME NEW i \in Q PROVE b <= i
        OBVIOUS
    <2>1. g[i] = -i /\ g[b] = -b /\ i \in Nat /\ b \in Nat
        BY <1>1
    <2>2. g[i] <= g[b]
        BY <1>6
    <2> HIDE DEF g, Q
    <2> QED BY <2>1, <2>2
<1>8. {j \in 1..(b - 1) : t.cards[j].node = t.cards[b].node} = {}
    <2> SUFFICES ASSUME NEW j \in 1..(b - 1), node(j) = node(b) PROVE FALSE
        OBVIOUS
    <2>1. b \in Nat /\ b \in 1..Len(t.cards)
        BY <1>1, <1>6
    <2>2. j \in P
        BY <1>1, <2>1, SMTT(30)
    <2>3. j \in Q
        BY <1>6, <2>2
    <2>4. b <= j
        BY <1>7, <2>3, SMTT(30)
    <2> QED BY <2>1, <2>4
<1>9. WlanOf(t, b) = <<node(a), 0>>
    BY <1>6, <1>8, FS_EmptySet, Zenon DEF WlanOf
<1>10. FirstWlan(t) = <<node(a), 0>>
    BY <1>5 DEF FirstWlan, P
<1>11. b \in Positions(t)
    BY <1>6 DEF P
<1>12. NoWlan \notin Wlans(t)
    <2> SUFFICES ASSUME NEW i \in Positions(t), WlanOf(t, i) = NoWlan PROVE FALSE
        BY DEF Wlans
    <2>1. i - 1 \in Nat
        BY <1>1 DEF P
    <2>2. Cardinality(OnNode(t, t.cards[i].node, i - 1)) \in Nat
        BY <2>1, CountOnNode
    <2>3. Cardinality(OnNode(t, t.cards[i].node, i - 1)) = -1
        BY DEF WlanOf, OnNode, NoWlan
    <2> QED BY <2>2, <2>3
<1> QED BY <1>9, <1>10, <1>11, <1>12, SMTT(30) DEF Wlans

\* A wlan id is a pair of naturals.
LEMMA WlanShape ==
    ASSUME NEW t, IsTopology(t), NEW w \in Wlans(t)
    PROVE  w[1] \in Nat /\ w[2] \in Nat /\ w = <<w[1], w[2]>>
<1>1. PICK i \in Positions(t) : w = WlanOf(t, i)
    BY DEF Wlans
<1>2. t.cards[i].node \in Nat /\ i - 1 \in Nat
    <2>1. Len(t.cards) \in Nat
            /\ \A k \in 1..Len(t.cards) : t.cards[k] \in [node : Nat, off : BOOLEAN]
        BY LenProperties, ZenonT(30) DEF IsTopology
    <2> QED BY <2>1 DEF Positions
<1>3. Cardinality(OnNode(t, t.cards[i].node, i - 1)) \in Nat
    BY <1>2, CountOnNode
<1>4. w = <<t.cards[i].node, Cardinality(OnNode(t, t.cards[i].node, i - 1))>>
    BY <1>1 DEF WlanOf, OnNode
<1> QED BY <1>2, <1>3, <1>4, SMTT(30)

(***************************************************************************)
(* The choice of the transmitting card (TxSelector.select).                *)
(***************************************************************************)
\* The statistics of a window by wlan id.
IsWindow(s) ==
    /\ IsFiniteSet(DOMAIN s)
    /\ \A w \in DOMAIN s : /\ s[w].pkts \in Nat /\ s[w].rssi \in Int
                           /\ w[1] \in Nat /\ w[2] \in Nat /\ w = <<w[1], w[2]>>

\* The card with the most packets is near the best, whatever the deltas.
LEMMA NearMaxNonEmpty ==
    ASSUME NEW s, IsWindow(s), DOMAIN s # {}
    PROVE  NearMax(s) # {} /\ NearMax(s) \subseteq DOMAIN s
<1> DEFINE D == DOMAIN s
           f == [w \in D |-> s[w].pkts]
           pkts == {s[w].pkts : w \in D}
<1>1. PICK m \in D : \A w \in D : s[w].pkts <= s[m].pkts
    <2>1. \A w \in D : f[w] \in Int
        BY DEF IsWindow
    <2>2. IsFiniteSet(D) /\ D # {}
        BY DEF IsWindow
    <2>3. \E x \in D : \A w \in D : f[w] <= f[x]
        <3> HIDE DEF f, D
        <3> QED BY <2>1, <2>2, MaxByKey, SMTT(30)
    <2> QED BY <2>3
<1>2. Max(pkts) = s[m].pkts
    <2>1. s[m].pkts \in pkts /\ \A x \in pkts : s[m].pkts >= x
        BY <1>1 DEF IsWindow
    <2>2. pkts \subseteq Nat
        BY DEF IsWindow
    <2>3. Max(pkts) \in pkts /\ \A x \in pkts : Max(pkts) >= x
        BY <2>1 DEF Max
    <2>4. Max(pkts) \in Nat /\ s[m].pkts \in Nat /\ Max(pkts) >= s[m].pkts
            /\ s[m].pkts >= Max(pkts)
        BY <2>1, <2>2, <2>3, SMTT(30)
    <2> QED BY <2>4
<1> DEFINE most == s[m].pkts
           slack == Max({100 * AbsDelta, RelDelta * most})
<1>3. slack \in Int /\ slack >= 0
    <2> DEFINE a == 100 * AbsDelta
               b == RelDelta * most
    <2>1. most \in Nat
        BY <1>1 DEF IsWindow
    <2>2. a \in Nat /\ b \in Int
        BY <2>1, DeltaAssumption
    <2> HIDE DEF a, b
    <2>3. Max({a, b}) \in {a, b} /\ \A x \in {a, b} : Max({a, b}) >= x
        <3>1. \E y \in {a, b} : \A x \in {a, b} : y >= x
            BY <2>2
        <3> QED BY <3>1 DEF Max
    <2>4. Max({a, b}) \in Int /\ Max({a, b}) >= a
        BY <2>2, <2>3
    <2>5. Max({a, b}) >= 0
        BY <2>2, <2>4, SMTT(30)
    <2> QED BY <2>4, <2>5 DEF a, b
<1>4. most \in Nat
    BY <1>1 DEF IsWindow
<1> HIDE DEF slack, pkts
<1>5. 100 * most >= 100 * most - slack
    <2> HIDE DEF most
    <2> QED BY <1>3, <1>4
<1>6. NearMax(s) = {w \in D : 100 * s[w].pkts >= 100 * most - slack}
    BY <1>2, Zenon DEF NearMax, slack, pkts
<1> QED BY <1>1, <1>5, <1>6

\* max over (rssi, wlan id) is a member, and none has a higher rssi.
LEMMA BestStrongest ==
    ASSUME NEW s, IsWindow(s), NEW among \in SUBSET DOMAIN s, among # {}
    PROVE  /\ Best(s, among) \in among
           /\ \A v \in among : s[v].rssi <= s[Best(s, among)].rssi
<1>1. IsFiniteSet(among)
    BY FS_Subset DEF IsWindow
<1>2. \A w \in among : s[w].rssi \in Int /\ w[1] \in Nat /\ w[2] \in Nat
        /\ w = <<w[1], w[2]>>
    BY DEF IsWindow
<1> DEFINE f == [w \in among |-> s[w].rssi]
<1>3. PICK x \in among : \A v \in among : s[v].rssi <= s[x].rssi
    <2>1. \A w \in among : f[w] \in Int
        BY <1>2
    <2>2. \E m \in among : \A w \in among : f[w] <= f[m]
        <3> HIDE DEF f
        <3> QED BY <1>1, <2>1, MaxByKey
    <2> QED BY <2>2
<1> DEFINE A == {w \in among : s[w].rssi = s[x].rssi}
           g == [w \in A |-> w[1]]
<1>4. PICK y \in A : \A v \in A : v[1] <= y[1]
    <2>1. \A w \in A : g[w] \in Int
        BY <1>2
    <2>2. IsFiniteSet(A) /\ x \in A
        BY <1>1, <1>3, FS_Subset, SMTT(30)
    <2>3. \E m \in A : \A w \in A : g[w] <= g[m]
        <3> HIDE DEF g, A
        <3> QED BY <2>1, <2>2, MaxByKey, SMTT(30)
    <2> QED BY <2>3
<1> DEFINE B == {w \in A : w[1] = y[1]}
           h == [w \in B |-> w[2]]
<1>5. PICK z \in B : \A v \in B : v[2] <= z[2]
    <2>1. \A w \in B : h[w] \in Int
        BY <1>2
    <2>2. IsFiniteSet(B) /\ y \in B
        BY <1>1, <1>4, FS_Subset, SMTT(30)
    <2>3. \E m \in B : \A w \in B : h[w] <= h[m]
        <3> HIDE DEF h, B
        <3> QED BY <2>1, <2>2, MaxByKey, SMTT(30)
    <2> QED BY <2>3
<1>6. z \in among /\ s[z].rssi = s[x].rssi /\ z[1] = y[1]
    BY <1>5
<1>7. ASSUME NEW v \in among \ {z}
      PROVE  \/ s[v].rssi < s[z].rssi
             \/ s[v].rssi = s[z].rssi /\ (v[1] < z[1] \/ (v[1] = z[1] /\ v[2] < z[2]))
    <2>1. CASE s[v].rssi # s[x].rssi
        BY <1>2, <1>3, <1>6, <2>1, SMTT(30)
    <2>2. CASE s[v].rssi = s[x].rssi /\ v[1] # z[1]
        <3>1. v[1] <= z[1]
            BY <1>4, <1>6, <2>2, SMTT(30)
        <3> QED BY <1>2, <1>6, <2>2, <3>1, SMTT(30)
    <2>3. CASE s[v].rssi = s[x].rssi /\ v[1] = z[1]
        <3>1. v \in B
            BY <1>6, <2>3
        <3>2. v[2] <= z[2]
            BY <1>5, <3>1
        <3>3. v[2] # z[2]
            BY <1>2, <1>6, <2>3, SMTT(30)
        <3> QED BY <1>2, <1>6, <2>3, <3>2, <3>3, SMTT(30)
    <2> QED BY <2>1, <2>2, <2>3, SMTT(30)
<1> DEFINE Beats(w) == \A v \in among \ {w} :
               \/ s[v].rssi < s[w].rssi
               \/ s[v].rssi = s[w].rssi /\ (v[1] < w[1] \/ (v[1] = w[1] /\ v[2] < w[2]))
           b == Best(s, among)
<1>8. b \in among /\ Beats(b)
    BY <1>6, <1>7 DEF Best
<1> HIDE DEF b
<1>9. ASSUME NEW v \in among PROVE s[v].rssi <= s[b].rssi
    <2>1. s[v].rssi \in Int /\ s[b].rssi \in Int
        BY <1>2, <1>8
    <2>2. v = b \/ s[v].rssi < s[b].rssi \/ s[v].rssi = s[b].rssi
        BY <1>8
    <2> QED BY <2>1, <2>2, SMTT(30)
<1> QED BY <1>8, <1>9 DEF b

\* txsel.py: "among cards within counter deltas of the best, pick the highest
\* average RSSI; switch only on a >= rssi_delta_db improvement (hysteresis)".
\* What select() leaves is near the best in packets; it switches only to the
\* strongest of these, and away from one of these only for rssi_delta_db or
\* more; it keeps a card only while none of these is so much stronger; and the
\* same window never makes it switch a second time.
THEOREM SelectionHysteresis ==
    ASSUME NEW s, IsWindow(s), DOMAIN s # {}, NEW current
    PROVE  LET next == Select(s, current) IN
           /\ next \in NearMax(s)
           /\ next # current => \A w \in NearMax(s) : s[w].rssi <= s[next].rssi
           /\ next # current /\ current \in NearMax(s) =>
                 s[next].rssi - s[current].rssi >= RssiDelta
           /\ next = current => \A w \in NearMax(s) :
                 s[w].rssi <= s[next].rssi \/ s[w].rssi - s[next].rssi < RssiDelta
           /\ Select(s, next) = next
<1> DEFINE near == NearMax(s)
           best == Best(s, near)
<1>1. near # {} /\ near \subseteq DOMAIN s
    BY NearMaxNonEmpty
<1>2. best \in near /\ \A v \in near : s[v].rssi <= s[best].rssi
    BY <1>1, BestStrongest
<1>3. RssiDelta \in Nat /\ \A v \in near : s[v].rssi \in Int
    BY <1>1, DeltaAssumption DEF IsWindow
<1>4. \A w : Select(s, w) = IF w \in near
        /\ s[best].rssi - s[w].rssi < RssiDelta THEN w ELSE best
    BY DEF Select
<1> HIDE DEF near, best
<1>5. CASE current \in near /\ s[best].rssi - s[current].rssi < RssiDelta
    <2>1. Select(s, current) = current
        BY <1>4, <1>5
    <2>2. ASSUME NEW w \in near PROVE s[w].rssi - s[current].rssi < RssiDelta
        <3>1. s[w].rssi <= s[best].rssi /\ s[w].rssi \in Int /\ s[best].rssi \in Int
                /\ s[current].rssi \in Int
            BY <1>2, <1>3, <1>5, SMTT(30)
        <3> QED BY <1>3, <1>5, <3>1, SMTT(30)
    <2> QED BY <1>5, <2>1, <2>2, SMTT(30) DEF near
<1>6. CASE ~(current \in near /\ s[best].rssi - s[current].rssi < RssiDelta)
    <2>1. Select(s, current) = best /\ Select(s, best) = best
        BY <1>4, <1>6
    <2>2. current \in near => s[best].rssi - s[current].rssi >= RssiDelta
        <3> SUFFICES ASSUME current \in near
                     PROVE s[best].rssi - s[current].rssi >= RssiDelta
            OBVIOUS
        <3>1. s[best].rssi \in Int /\ s[current].rssi \in Int
            BY <1>2, <1>3, SMTT(30)
        <3> QED BY <1>3, <1>6, <3>1, SMTT(30)
    <2> QED BY <1>2, <2>1, <2>2 DEF near
<1> QED BY <1>5, <1>6

\* A window with statistics leaves a card that was heard in it.
LEMMA SelectIn ==
    ASSUME NEW s, IsWindow(s), DOMAIN s # {}, NEW current
    PROVE  Select(s, current) \in DOMAIN s
BY NearMaxNonEmpty, SelectionHysteresis

=============================================================================
