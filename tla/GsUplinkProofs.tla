--------------------------- MODULE GsUplinkProofs ---------------------------
(***************************************************************************)
(* Proofs about the uplink, for every set of topologies and of statistics, *)
(* every MTU and any number of packets, ticks, windows and restarts.  The  *)
(* three invariants concern three parts of the state that do not read each *)
(* other, so each has an inductive invariant of its own: TunnelInv,        *)
(* ChoiceInv and PulseInv.                                                 *)
(***************************************************************************)
EXTENDS GsUplink, GsWiringProofs

(***************************************************************************)
(* The tunnel's stream of packets.                                         *)
(*                                                                         *)
(* The queue holds the packed form of the packets that were read and not   *)
(* yet delivered, some sequence w; its counted size is the length of the   *)
(* batch it would send, within the MTU, and the timer is armed while it is *)
(* not empty. w is the same as what UnpackBatch makes of the batch         *)
(* (BatchRoundTrip).                                                       *)
(***************************************************************************)
\* AggQueue's fields fit each other.
QueueInv ==
    /\ agg = [queue |-> agg.queue, size |-> agg.size, timer |-> agg.timer]
    /\ agg.queue \in Seq(Seq(Nat))
    /\ agg.size = Len(FlattenSeq(agg.queue))
    /\ agg.size \in Nat /\ agg.size <= Mtu
    /\ agg.size = 0 <=> agg.queue = <<>>
    /\ agg.timer = IF agg.queue = <<>> THEN "none" ELSE "armed"

\* What is queued is what was read and not delivered.
StreamInv ==
    /\ up \in BOOLEAN
    /\ delivered \in Seq(Seq(Nat))
    /\ \E w \in Seq(Seq(Nat)) :
          /\ agg.queue = Packed(w)
          /\ reads = delivered \o w
          /\ ~up => w = <<>>

\* The inductive invariant of the stream.
TunnelInv == QueueInv /\ StreamInv

\* TunnelService.start leaves an empty queue.
LEMMA TunnelInit == Init => TunnelInv
<1> SUFFICES ASSUME Init PROVE TunnelInv
    OBVIOUS
<1>1. QueueInv
    BY EmptyBatch, MtuAssumption DEF Init, EmptyQueue, QueueInv
<1>2. StreamInv
    <2>1. agg.queue = Packed(<<>>) /\ reads = delivered \o <<>> /\ <<>> \in Seq(Seq(Nat))
        BY EmptyBatch DEF Init, EmptyQueue
    <2> QED BY <2>1, Zenon DEF Init, StreamInv
<1> QED BY <1>1, <1>2 DEF TunnelInv

\* A flush, by the timer or in stop(), delivers all that was queued.
LEMMA DrainStep ==
    ASSUME TunnelInv, agg' = EmptyQueue, up' \in BOOLEAN, reads' = reads,
           Send(FlattenSeq(agg.queue))
    PROVE  TunnelInv'
<1>1. QueueInv'
    BY EmptyBatch, MtuAssumption DEF EmptyQueue, QueueInv
<1>2. PICK w \in Seq(Seq(Nat)) : agg.queue = Packed(w) /\ reads = delivered \o w
    BY Zenon DEF TunnelInv, StreamInv
<1>3. delivered' = delivered \o w
    BY <1>2, BatchRoundTrip DEF Send
<1>4. delivered \in Seq(Seq(Nat)) /\ delivered' \in Seq(Seq(Nat))
    BY <1>2, <1>3, ConcatProperties DEF TunnelInv, StreamInv
<1>5. reads' = delivered' \o <<>>
    BY <1>2, <1>3, <1>4, ConcatEmptySeq, SMTT(30)
<1>6. agg'.queue = Packed(<<>>)
    BY EmptyBatch DEF EmptyQueue
<1>7. <<>> \in Seq(Seq(Nat))
    OBVIOUS
<1> QED BY <1>1, <1>4, <1>5, <1>6, <1>7, Zenon DEF TunnelInv, StreamInv

\* Sending no batch delivers nothing.
LEMMA NothingSent ==
    ASSUME delivered \in Seq(Seq(Nat)), Send(<<>>)
    PROVE  delivered' = delivered
BY EmptyBatch, ConcatEmptySeq DEF Send

\* _on_tun_readable appends its packet to the stream, whether put() sends the
\* queue first or not.
LEMMA TunnelRead == ASSUME NEW size \in Sizes, TunnelInv, ReadTun(size) PROVE TunnelInv'
<1> DEFINE data == [b \in 1..size |-> Len(reads) + 1]
           msg == PackTun(data)
<1>1. PICK w \in Seq(Seq(Nat)) : agg.queue = Packed(w) /\ reads = delivered \o w
        /\ (~up => w = <<>>)
    BY Zenon DEF TunnelInv, StreamInv
<1>2. delivered \in Seq(Seq(Nat)) /\ reads \in Seq(Seq(Nat)) /\ Len(reads) \in Nat
    BY <1>1, ConcatProperties, LenProperties DEF TunnelInv, StreamInv
<1>3. data \in Seq(Nat) /\ Len(data) = size /\ size \in Nat /\ size >= 1
        /\ size + 2 <= Mtu /\ Mtu \in Nat
    BY <1>2, MtuAssumption, SizesAssumption
<1>4. /\ up /\ up' = up
      /\ reads' = Append(reads, data)
      /\ agg' = Put(agg, msg).q
      /\ Send(Put(agg, msg).out)
    BY DEF ReadTun
<1> HIDE DEF data
<1>5. msg \in Seq(Nat) /\ Len(msg) = size + 2
    BY <1>3, PackShape
<1> HIDE DEF msg
<1>6. ~(Len(msg) > Mtu) /\ Len(msg) \in Nat
    BY <1>3, <1>5
<1>7. /\ agg.queue \in Seq(Seq(Nat)) /\ agg.size = Len(FlattenSeq(agg.queue))
      /\ agg.size \in Nat /\ FlattenSeq(agg.queue) \in Seq(Nat)
    <2>1. agg.queue \in Seq(Seq(Nat)) /\ agg.size = Len(FlattenSeq(agg.queue))
        BY DEF TunnelInv, QueueInv
    <2>2. FlattenSeq(agg.queue) \in Seq(Nat)
        BY <1>5, <2>1, FlattenAppend, SMTT(30)
    <2> QED BY <2>1, <2>2, LenProperties, SMTT(30)
<1>8. ASSUME NEW u \in Seq(Seq(Nat)), NEW q0 \in Seq(Seq(Nat)),
             q0 = Packed(u), agg'.queue = Append(q0, msg),
             agg' = [queue |-> agg'.queue, size |-> agg'.size, timer |-> agg'.timer],
             agg'.size = Len(FlattenSeq(q0)) + Len(msg), agg'.size <= Mtu,
             agg'.timer = "armed",
             NEW d \in Seq(Seq(Nat)), delivered' = d, reads = d \o u
      PROVE  TunnelInv'
    <2>1. FlattenSeq(q0) \in Seq(Nat) /\ FlattenSeq(agg'.queue) = FlattenSeq(q0) \o msg
        BY <1>5, <1>8, FlattenAppend, Zenon
    <2>2. Len(FlattenSeq(agg'.queue)) = agg'.size /\ agg'.size # 0 /\ agg'.size \in Nat
        <3>1. Len(FlattenSeq(q0) \o msg) = Len(FlattenSeq(q0)) + Len(msg)
            BY <1>5, <2>1, ConcatProperties, Zenon
        <3>2. Len(FlattenSeq(q0)) \in Nat
            BY <2>1, LenProperties
        <3>3. Len(msg) \in Nat /\ Len(msg) # 0
            BY <1>3, <1>5
        <3>4. \A x, y \in Nat : y # 0 => x + y \in Nat /\ x + y # 0
            OBVIOUS
        <3>5. agg'.size # 0 /\ agg'.size \in Nat
            BY <1>8, <3>2, <3>3, <3>4, ZenonT(30)
        <3> QED BY <1>8, <2>1, <3>1, <3>5
    <2>3. agg'.queue \in Seq(Seq(Nat)) /\ agg'.queue # <<>>
        <3>1. Append(q0, msg) \in Seq(Seq(Nat)) /\ Append(q0, msg) # <<>>
            BY <1>5, AppendProperties, ZenonT(30)
        <3> QED BY <1>8, <3>1
    <2>4. QueueInv'
        BY <1>8, <2>2, <2>3, SMTT(30) DEF QueueInv
    <2> DEFINE u1 == Append(u, data)
    <2>5. u1 \in Seq(Seq(Nat)) /\ agg'.queue = Packed(u1)
        BY <1>3, <1>8, PackedAppend, AppendProperties, Zenon DEF msg
    <2>6. reads' = delivered' \o u1
        <3>1. Append(d \o u, data) = d \o Append(u, data)
            BY <1>3, AppendToConcat, ZenonT(30) DEF Packet
        <3> QED BY <1>4, <1>8, <3>1, ZenonT(30)
    <2> HIDE DEF u1
    <2>7. StreamInv'
        BY <1>4, <1>8, <2>5, <2>6, Zenon DEF StreamInv
    <2> QED BY <2>4, <2>7 DEF TunnelInv
<1>9. CASE agg.size + Len(msg) > Mtu
    <2>1. /\ agg'.queue = Append(<<>>, msg) /\ agg'.size = 0 + Len(msg)
          /\ agg' = [queue |-> agg'.queue, size |-> agg'.size, timer |-> agg'.timer]
          /\ agg'.timer = "armed" /\ Send(FlattenSeq(agg.queue))
        BY <1>4, <1>6, <1>9, Zenon DEF Put, EmptyQueue
    <2>2. delivered' = delivered \o w
        BY <1>1, <2>1, BatchRoundTrip, ZenonT(30) DEF Send
    <2>3. delivered' \in Seq(Seq(Nat)) /\ reads = delivered' \o <<>>
        BY <1>1, <1>2, <2>2, ConcatEmptySeq
    <2>4. <<>> \in Seq(Seq(Nat)) /\ <<>> = Packed(<<>>) /\ Len(FlattenSeq(<<>>)) = 0
            /\ agg'.size <= Mtu
        BY <1>6, <2>1, <1>3, EmptyBatch, SMTT(30)
    <2> QED BY <1>8, <2>1, <2>3, <2>4, Zenon
<1>10. CASE ~(agg.size + Len(msg) > Mtu)
    <2>1. /\ agg'.queue = Append(agg.queue, msg) /\ agg'.size = agg.size + Len(msg)
          /\ agg' = [queue |-> agg'.queue, size |-> agg'.size, timer |-> agg'.timer]
          /\ agg'.timer = "armed" /\ Send(<<>>)
        <3>1. agg.timer \in {"none", "armed"}
            BY DEF TunnelInv, QueueInv
        <3> QED BY <1>4, <1>6, <1>10, <3>1, Zenon DEF Put
    <2>2. delivered' = delivered
        BY <1>2, <2>1, NothingSent
    <2>3. agg'.size <= Mtu
        BY <1>3, <1>6, <1>7, <1>10, <2>1, SMTT(30)
    <2> QED BY <1>1, <1>2, <1>7, <1>8, <2>1, <2>2, <2>3, Zenon
<1> QED BY <1>9, <1>10

\* No handler breaks the stream.
LEMMA TunnelStep == TunnelInv /\ [Next]_vars => TunnelInv'
<1> SUFFICES ASSUME TunnelInv, [Next]_vars PROVE TunnelInv'
    OBVIOUS
<1>1. CASE \E size \in Sizes : ReadTun(size)
    BY <1>1, TunnelRead
<1>2. CASE FlushTimer
    <2>1. CASE agg.size > 0
        BY <1>2, <2>1, DrainStep, Zenon DEF FlushTimer, Flush, TunnelInv, StreamInv
    <2>2. agg.size > 0
        BY <1>2 DEF FlushTimer, TunnelInv, QueueInv
    <2> QED BY <2>1, <2>2
<1>3. CASE Stop
    <2>1. agg' = EmptyQueue /\ up' \in BOOLEAN /\ reads' = reads
        BY <1>3, Zenon DEF Stop
    <2>2. agg.queue = <<>> \/ agg.size > 0
        BY DEF TunnelInv, QueueInv
    <2>3. Send(FlattenSeq(agg.queue))
        BY <1>3, <2>2, EmptyBatch DEF Stop, TunnelInv, QueueInv
    <2> QED BY <2>1, <2>3, DrainStep
<1>4. CASE Start
    <2>1. agg' = EmptyQueue /\ reads' = <<>> /\ delivered' = <<>> /\ up' = TRUE
        BY <1>4 DEF Start
    <2>2. QueueInv'
        BY <2>1, EmptyBatch, MtuAssumption DEF EmptyQueue, QueueInv
    <2>3. agg'.queue = Packed(<<>>) /\ reads' = delivered' \o <<>>
            /\ <<>> \in Seq(Seq(Nat))
        BY <2>1, EmptyBatch, SMTT(30) DEF EmptyQueue
    <2> QED BY <2>1, <2>2, <2>3, Zenon DEF TunnelInv, StreamInv
<1>5. CASE UNCHANGED <<up, agg, packets>>
    BY <1>5, Zenon DEF packets, TunnelInv, QueueInv, StreamInv
<1> QED
    <2>1. ReceiveBatch \/ KeepaliveTick
            \/ (\E stats \in CardStats : AggregateWindow(stats))
               \/ UNCHANGED vars => UNCHANGED <<up, agg, packets>>
        BY Zenon DEF ReceiveBatch, KeepaliveTick, AggregateWindow, vars
    <2> QED BY <1>1, <1>2, <1>3, <1>4, <1>5, <2>1, SMTT(30) DEF Next

\* For every MTU and every order of reads, timers and stops, the peer unpacks
\* the packets read from the tun device in order, none lost, none twice, and
\* none is left behind by stop().
THEOREM TunnelInOrderHolds == Spec => []TunnelInOrder
<1>1. TunnelInv => TunnelInOrder
    <2> SUFFICES ASSUME TunnelInv PROVE TunnelInOrder
        OBVIOUS
    <2>1. PICK w \in Seq(Seq(Nat)) : agg.queue = Packed(w) /\ reads = delivered \o w
            /\ (~up => w = <<>>)
        BY Zenon DEF TunnelInv, StreamInv
    <2>2. UnpackBatch(FlattenSeq(agg.queue)) = w
        BY <2>1, BatchRoundTrip
    <2>3. delivered \o <<>> = delivered
        BY ConcatEmptySeq DEF TunnelInv, StreamInv
    <2> QED BY <2>1, <2>2, <2>3, Zenon DEF TunnelInOrder
<1> QED BY <1>1, TunnelInit, TunnelStep, PTL DEF Spec

\* What AggQueue promises its caller: queue_size is the length of the batch it
\* would send, no batch exceeds the MTU, and a flush timer is pending exactly
\* while there is something to send.
BatchBounded ==
    /\ agg.size = Len(FlattenSeq(agg.queue)) /\ agg.size <= Mtu
    /\ agg.timer = IF agg.queue = <<>> THEN "none" ELSE "armed"

\* AggQueue.put and flush keep these: no packet waits in the queue without a
\* timer that will send it.
THEOREM BatchBoundedHolds == Spec => []BatchBounded
<1>1. TunnelInv => BatchBounded
    BY DEF TunnelInv, QueueInv, BatchBounded
<1> QED BY <1>1, TunnelInit, TunnelStep, PTL DEF Spec

(***************************************************************************)
(* The card that transmits.                                                *)
(*                                                                         *)
(* The socket both services hold is the one _tx_socket_for gives for the   *)
(* selector's choice, and the choice is a card of the running topology     *)
(* that was heard and may transmit.                                        *)
(***************************************************************************)
\* The inductive invariant of the choice.
ChoiceInv ==
    /\ topo \in Topologies
    /\ sock = SocketFor(topo, chosen)
    /\ heard \subseteq Wlans(topo) \ RxOnlyWlans(topo)
    /\ chosen = NoWlan \/ chosen \in heard

\* Neither a window of statistics nor a restart with another topology breaks
\* it.
LEMMA ChoiceStep == ChoiceInv /\ [Next]_vars => ChoiceInv'
<1> SUFFICES ASSUME ChoiceInv, [Next]_vars PROVE ChoiceInv'
    OBVIOUS
<1>1. CASE \E stats \in CardStats : AggregateWindow(stats)
    <2>1. PICK stats \in CardStats : AggregateWindow(stats)
        BY <1>1
    <2> DEFINE D == {WlanOf(topo, i) : i \in DOMAIN stats} \ RxOnlyWlans(topo)
               s == [w \in D |-> stats[CHOOSE i \in DOMAIN stats : WlanOf(topo, i) = w]]
    <2>2. /\ DOMAIN stats \subseteq Positions(topo) /\ topo' = topo
          /\ chosen' = Select(s, chosen)
          /\ sock' = IF chosen' = chosen THEN sock ELSE SocketFor(topo, chosen')
          /\ heard' = IF DOMAIN s = {} THEN heard ELSE DOMAIN s
        BY <2>1 DEF AggregateWindow
    <2>3. D \subseteq Wlans(topo) \ RxOnlyWlans(topo)
        BY <2>2 DEF Wlans
    <2>4. CASE D = {}
        <3>1. chosen' = chosen /\ heard' = heard /\ sock' = sock
            BY <2>2, <2>4, SMTT(30) DEF Select
        <3> QED BY <2>2, <3>1, SMTT(30) DEF ChoiceInv
    <2>5. CASE D # {}
        <3>1. IsTopology(topo)
            BY TopologyAssumption DEF ChoiceInv
        <3>2. IsWindow(s)
            <4>1. IsFiniteSet(D)
                <5>1. IsFiniteSet(Positions(topo))
                    BY <3>1, LenProperties, FS_Interval, SMTT(30) DEF IsTopology, Positions
                <5>2. IsFiniteSet(DOMAIN stats)
                    BY <2>2, <5>1, FS_Subset, SMTT(30)
                <5> DEFINE E == {WlanOf(topo, i) : i \in DOMAIN stats}
                           f == [i \in DOMAIN stats |-> WlanOf(topo, i)]
                <5>3. f \in Surjection(DOMAIN stats, E)
                    BY DEF Surjection
                <5>4. IsFiniteSet(E)
                    <6> HIDE DEF f, E
                    <6> QED BY <5>2, <5>3, FS_Surjection, SMTT(30)
                <5> QED BY <5>4, FS_Subset, SMTT(30)
            <4>2. ASSUME NEW w \in D
                  PROVE  s[w].pkts \in Nat /\ s[w].rssi \in Int
                <5> DEFINE k == CHOOSE i \in DOMAIN stats : WlanOf(topo, i) = w
                <5>1. \E i \in DOMAIN stats : WlanOf(topo, i) = w
                    OBVIOUS
                <5>2. k \in DOMAIN stats
                    BY <5>1
                <5>3. s[w] = stats[k]
                    OBVIOUS
                <5> HIDE DEF k, s
                <5> QED BY <5>2, <5>3, StatsAssumption, SMTT(30)
            <4>3. \A w \in D : w[1] \in Nat /\ w[2] \in Nat /\ w = <<w[1], w[2]>>
                BY <2>3, <3>1, WlanShape, SMTT(30)
            <4>4. DOMAIN s = D
                OBVIOUS
            <4> HIDE DEF s, D
            <4> QED BY <4>1, <4>2, <4>3, <4>4, SMTT(30) DEF IsWindow
        <3>3. DOMAIN s = D
            OBVIOUS
        <3> HIDE DEF s, D
        <3>4. chosen' \in D
            BY <2>2, <2>5, <3>2, <3>3, SelectIn, SMTT(30)
        <3>5. heard' = D
            BY <2>2, <2>5, <3>3, SMTT(30)
        <3>6. sock' = SocketFor(topo, chosen')
            BY <2>2 DEF ChoiceInv
        <3> QED BY <2>2, <2>3, <3>4, <3>5, <3>6, SMTT(30) DEF ChoiceInv
    <2> QED BY <2>4, <2>5
<1>2. CASE Start
    BY <1>2 DEF Start, ChoiceInv
<1>3. CASE UNCHANGED choice
    BY <1>3 DEF choice, ChoiceInv
<1> QED
    <2>1. (\E size \in Sizes : ReadTun(size)) \/ FlushTimer \/ ReceiveBatch
            \/ KeepaliveTick \/ Stop \/ UNCHANGED vars
              => UNCHANGED choice
        BY Zenon DEF ReadTun, FlushTimer, ReceiveBatch, KeepaliveTick, Stop, vars
    <2> QED BY <1>1, <1>2, <1>3, <2>1, SMTT(30) DEF Next

\* For every number of cards and of nodes, any windows of statistics and any
\* selector deltas, the uplink leaves by one card, the chosen one, which was
\* heard in the last window that decided.
THEOREM UplinkByHeardCardHolds == Spec => []UplinkByHeardCard
<1>1. Init => ChoiceInv
    BY DEF Init, ChoiceInv
<1>2. ChoiceInv => UplinkByHeardCard
    <2> SUFFICES ASSUME ChoiceInv PROVE UplinkByHeardCard
        OBVIOUS
    <2> DEFINE graph == Graphs[topo]
    <2>1. graph = Graph(topo) /\ IsTopology(topo)
        BY TopologyAssumption DEF ChoiceInv, Graphs
    <2>2. sock \in Wlans(topo) /\ (chosen # NoWlan => sock = chosen
            /\ chosen \notin RxOnlyWlans(topo))
        BY <2>1, FirstWlanListed, SMTT(30) DEF ChoiceInv, SocketFor
    <2>3. PICK i \in Positions(topo) : WlanOf(topo, i) = sock
        BY <2>2 DEF Wlans
    <2>4. \A service \in TxServices : graph.reaches[service][sock] = {<<service, i>>}
        BY <2>1, <2>3, GraphWiring, SMTT(30)
    <2>5. \A service \in DOMAIN graph.hears :
              graph.hears[service] = {service} \X Positions(topo)
        BY <2>1, GraphWiring, SMTT(30)
    <2>6. chosen # NoWlan => /\ WlanOf(topo, i) = chosen
                             /\ chosen \in heard
                             /\ HasRemote(topo) => ~topo.cards[i].off
        BY <2>2, <2>3, SMTT(30) DEF ChoiceInv, RxOnlyWlans, RxOnly
    <2> HIDE DEF graph
    <2> QED BY <2>4, <2>5, <2>6, SMTT(30) DEF UplinkByHeardCard, graph
<1> QED BY <1>1, <1>2, ChoiceStep, PTL DEF Spec

(***************************************************************************)
(* The keepalive.                                                          *)
(*                                                                         *)
(* The two counters of TunnelService remember what the histories say:      *)
(* whether a packet was read since the last tick, and whether something    *)
(* was received in this or the last interval.                              *)
(***************************************************************************)
\* The inductive invariant of the keepalive.
PulseInv ==
    /\ rxNow \in BOOLEAN /\ busy \in BOOLEAN /\ deaf \in 0..2
    /\ inSem = IF rxNow THEN 2 ELSE IF deaf = 0 THEN 1 ELSE 0
    /\ outSem = IF busy THEN 1 ELSE 0
    /\ NeverSilent

\* No handler breaks it.
LEMMA PulseStep == PulseInv /\ [Next]_vars => PulseInv'
<1> SUFFICES ASSUME PulseInv, [Next]_vars PROVE PulseInv'
    OBVIOUS
<1>1. CASE \E size \in Sizes : ReadTun(size)
    BY <1>1 DEF ReadTun, PulseInv, NeverSilent
<1>2. CASE ReceiveBatch
    BY <1>2 DEF ReceiveBatch, PulseInv, NeverSilent
<1>3. CASE KeepaliveTick
    <2>1. rxNow' = FALSE /\ busy' = FALSE
        BY <1>3 DEF KeepaliveTick
    <2>2. rxNow' \in BOOLEAN /\ busy' \in BOOLEAN /\ ~rxNow' /\ ~busy'
        BY <2>1, Zenon
    <2>3. outSem' = 0 /\ deaf' \in 0..2
        BY <1>3 DEF KeepaliveTick, PulseInv
    <2>4. inSem' = IF deaf' = 0 THEN 1 ELSE 0
        <3>1. CASE rxNow
            BY <1>3, <3>1, SMTT(30) DEF KeepaliveTick, PulseInv
        <3>2. CASE ~rxNow
            BY <1>3, <3>2, SMTT(30) DEF KeepaliveTick, PulseInv
        <3> QED BY <3>1, <3>2, SMTT(30)
    <2>5. ~silent'
        <3>1. CASE busy
            BY <1>3, <3>1, Zenon DEF KeepaliveTick
        <3>2. CASE ~busy
            <4>1. outSem = 0
                BY <3>2 DEF PulseInv
            <4> QED BY <1>3, <4>1, Zenon DEF KeepaliveTick
        <3> QED BY <3>1, <3>2, SMTT(30)
    <2>6. deaf' = 2 <=> kept' = "all"
        <3>1. CASE rxNow
            BY <1>3, <3>1, SMTT(30) DEF KeepaliveTick, PulseInv
        <3>2. CASE ~rxNow
            BY <1>3, <3>2, SMTT(30) DEF KeepaliveTick, PulseInv
        <3> QED BY <3>1, <3>2, SMTT(30)
    <2> QED BY <2>2, <2>3, <2>4, <2>5, <2>6 DEF PulseInv, NeverSilent
<1>4. CASE Start
    <2>1. /\ rxNow' = FALSE /\ busy' = FALSE /\ silent' = FALSE
          /\ inSem' = 0 /\ outSem' = 0 /\ deaf' = 1 /\ kept' = "none"
        BY <1>4 DEF Start
    <2>2. deaf' \in 0..2 /\ deaf' # 0 /\ deaf' # 2 /\ kept' # "all"
        BY <2>1
    <2> QED BY <2>1, <2>2, ZenonT(30) DEF PulseInv, NeverSilent
<1>5. CASE UNCHANGED pulse
    BY <1>5, SMTT(30) DEF pulse, PulseInv, NeverSilent
<1> QED
    <2>1. FlushTimer \/ Stop \/ (\E stats \in CardStats : AggregateWindow(stats))
            \/ UNCHANGED vars => UNCHANGED pulse
        BY ZenonT(30) DEF FlushTimer, Stop, AggregateWindow, vars
    <2> QED BY <1>1, <1>2, <1>3, <1>4, <1>5, <2>1, SMTT(30) DEF Next

\* _keepalive_tick lets no interval pass in which nothing leaves, and sends to
\* all cards exactly when nothing was received for two intervals.
THEOREM NeverSilentHolds == Spec => []NeverSilent
<1>1. Init => PulseInv
    <2> SUFFICES ASSUME Init PROVE PulseInv
        OBVIOUS
    <2>1. /\ rxNow = FALSE /\ busy = FALSE /\ silent = FALSE
          /\ inSem = 0 /\ outSem = 0 /\ deaf = 1 /\ kept = "none"
        BY DEF Init
    <2>2. deaf \in 0..2 /\ deaf # 0 /\ deaf # 2 /\ kept # "all"
        BY <2>1
    <2> QED BY <2>1, <2>2, ZenonT(30) DEF PulseInv, NeverSilent
<1>2. PulseInv => NeverSilent
    BY DEF PulseInv
<1> QED BY <1>1, <1>2, PulseStep, PTL DEF Spec

=============================================================================
