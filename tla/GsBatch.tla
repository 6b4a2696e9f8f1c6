------------------------------ MODULE GsBatch ------------------------------
(***************************************************************************)
(* How the ground station's IP tunnel batches packets: pack_tun and        *)
(* unpack_batch (wfb/tunnel.py) and AggQueue (wfb/agg_queue.py).  All of   *)
(* it is pure: TunnelService, which calls it, is in GsUplink.              *)
(***************************************************************************)
EXTENDS Integers, Sequences, SequencesExt

CONSTANT Mtu    \* TunnelConfig.mtu, the largest batch

\* pack_tun has two bytes for a length.
ASSUME MtuAssumption == Mtu \in Nat /\ Mtu < 65536

-----------------------------------------------------------------------------
(***************************************************************************)
(* The batch codec.  A packet is a sequence of bytes.                      *)
(***************************************************************************)
\* pack_tun: a length of two bytes, then the packet.
PackTun(data) == <<Len(data) \div 256, Len(data) % 256>> \o data

\* unpack_batch: packets until the header or the body is cut short.
UnpackBatch(msg) ==
    LET from[i \in 1..(Len(msg) + 1)] ==
            IF Len(msg) - i + 1 < 2 THEN <<>>
            ELSE LET pkt_size == 256 * msg[i] + msg[i + 1]
                 IN IF Len(msg) - i - 1 < pkt_size THEN <<>>
                    ELSE <<SubSeq(msg, i + 2, i + 1 + pkt_size)>> \o from[i + 2 + pkt_size]
    IN from[1]

-----------------------------------------------------------------------------
(***************************************************************************)
(* AggQueue.  timer is "none", "armed", or "fired": a handle that has run  *)
(* and was not cleared.  An operation returns the queue after it and the   *)
(* batch it sent, <<>> when it sent none.                                  *)
(***************************************************************************)
EmptyQueue == [queue |-> <<>>, size |-> 0, timer |-> "none"]

\* Faulty variant of Flush: the handle of the timer is kept.
FlushKeepsTimer(q) ==
    IF q.size > 0
    THEN [q |-> [EmptyQueue EXCEPT !.timer = "fired"], out |-> FlattenSeq(q.queue)]
    ELSE [q |-> [q EXCEPT !.timer = "fired"], out |-> <<>>]

\* flush, when the timer runs it.
Flush(q) ==
    IF q.size > 0
    THEN [q |-> EmptyQueue, out |-> FlattenSeq(q.queue)]
    ELSE [q |-> [q EXCEPT !.timer = "fired"], out |-> <<>>]

\* Faulty variant of Put: a message that does not fit replaces the queue.
PutDrops(q, data) ==
    IF Len(data) > Mtu THEN [q |-> q, out |-> <<>>]
    ELSE LET full == q.size + Len(data) > Mtu
             r == IF full THEN EmptyQueue ELSE q
         IN [q |-> [queue |-> Append(r.queue, data), size |-> r.size + Len(data),
                    timer |-> IF r.timer = "none" THEN "armed" ELSE r.timer],
             out |-> <<>>]

\* put: too big is dropped; what does not fit sends the queue first; the timer
\* is armed when there is no handle.
Put(q, data) ==
    IF Len(data) > Mtu THEN [q |-> q, out |-> <<>>]
    ELSE LET full == q.size + Len(data) > Mtu
             r == IF full THEN EmptyQueue ELSE q
         IN [q |-> [queue |-> Append(r.queue, data), size |-> r.size + Len(data),
                    timer |-> IF r.timer = "none" THEN "armed" ELSE r.timer],
             out |-> IF full THEN FlattenSeq(q.queue) ELSE <<>>]

=============================================================================
