--------------------------- MODULE GsBatchProofs ----------------------------
(***************************************************************************)
(* Proofs about the batch codec and its queue (GsBatch), for every list of *)
(* packets.                                                                *)
(*                                                                         *)
(* What a loop or a recursive function computes is proved by induction     *)
(* over a set of naturals (InductiveSet): the set of the steps up to which *)
(* the claim holds contains 0 and is closed under successor.               *)
(***************************************************************************)
EXTENDS GsBatch, FiniteSetTheorems, SequenceTheorems, TLAPS

(***************************************************************************)
(* Induction.                                                              *)
(***************************************************************************)
\* A set of naturals with 0 and the successor of each member is Nat: below a
\* missing number the successor would be an injection into a smaller finite set.
LEMMA InductiveSet ==
    ASSUME NEW S \in SUBSET Nat, 0 \in S, \A n \in S : n + 1 \in S
    PROVE  S = Nat
<1> SUFFICES ASSUME NEW n \in Nat, n \notin S PROVE FALSE
    BY Zenon
<1> DEFINE T == S \cap 0 .. n
           f == [k \in T |-> k + 1]
<1>1. IsFiniteSet(T) /\ Cardinality(T) \in Nat
    <2>1. IsFiniteSet(0 .. n)
        BY FS_Interval
    <2>2. IsFiniteSet(T)
        BY <2>1, FS_Subset
    <2> QED BY <2>2, FS_CardinalityType
<1>2. 0 \in T
    OBVIOUS
<1>3. IsFiniteSet(T \ {0}) /\ Cardinality(T \ {0}) = Cardinality(T) - 1
    BY <1>1, <1>2, FS_RemoveElement, Zenon
<1>4. f \in Injection(T, T \ {0})
    <2>1. f \in [T -> T \ {0}]
        OBVIOUS
    <2>2. \A x, y \in T : f[x] = f[y] => x = y
        OBVIOUS
    <2> QED
        BY <2>1, <2>2 DEF Injection, IsInjective
<1> QED
    BY <1>1, <1>3, <1>4, FS_Injection

\* A finite non-empty set has a member with the largest key, as the max() of
\* the code has.
LEMMA MaxByKey ==
    ASSUME NEW D, IsFiniteSet(D), D # {}, NEW f, \A x \in D : f[x] \in Int
    PROVE  \E m \in D : \A x \in D : f[x] <= f[m]
<1> DEFINE HasMax(T) == \E m \in T : \A x \in T : f[x] <= f[m]
           S == {n \in Nat : \A T \in SUBSET D : T # {}
               /\ Cardinality(T) = n => HasMax(T)}
<1>0. \A T \in SUBSET D : IsFiniteSet(T) /\ Cardinality(T) \in Nat
    BY FS_Subset, FS_CardinalityType
<1>1. 0 \in S
    BY <1>0, FS_EmptySet
<1>2. ASSUME NEW n \in S PROVE n + 1 \in S
    <2>1. n \in Nat /\ n + 1 \in Nat
        OBVIOUS
    <2> SUFFICES ASSUME NEW T \in SUBSET D, T # {}, Cardinality(T) = n + 1 PROVE HasMax(T)
        BY <2>1
    <2>2. PICK y \in T : TRUE
        OBVIOUS
    <2> DEFINE R == T \ {y}
    <2>3. R \in SUBSET D /\ Cardinality(R) = n
        BY <1>0, <2>1, <2>2, FS_RemoveElement
    <2>4. CASE R = {}
        <3>1. T = {y}
            BY <2>2, <2>4
        <3> QED BY <2>2, <3>1
    <2>5. CASE R # {}
        <3>1. HasMax(R)
            BY <2>3, <2>5
        <3> HIDE DEF S
        <3>2. PICK m \in R : \A x \in R : f[x] <= f[m]
            BY <3>1
        <3>3. f[m] \in Int /\ f[y] \in Int /\ \A x \in R : f[x] \in Int
            BY <2>2, <2>3, <3>2
        <3>4. CASE f[y] <= f[m]
            BY <2>2, <3>2, <3>4
        <3>5. CASE f[m] <= f[y]
            <4>1. \A x \in R : f[x] <= f[y]
                BY <3>2, <3>3, <3>5
            <4> QED BY <2>2, <3>3, <4>1
        <3> QED BY <3>3, <3>4, <3>5
    <2> QED BY <2>4, <2>5
<1>3. S = Nat
    <2> HIDE DEF S
    <2> QED BY <1>1, <1>2, InductiveSet, Zenon DEF S
<1>4. Cardinality(D) \in S
    <2> HIDE DEF S
    <2> QED BY <1>0, <1>3
<1> QED BY <1>4

(***************************************************************************)
(* The batch codec.                                                        *)
(***************************************************************************)
\* The body of unpack_batch's loop at offset i, over what the rest yields.
Unpacked(msg, from, i) ==
    IF Len(msg) - i + 1 < 2 THEN <<>>
    ELSE LET pkt_size == 256 * msg[i] + msg[i + 1]
         IN IF Len(msg) - i - 1 < pkt_size THEN <<>>
            ELSE <<SubSeq(msg, i + 2, i + 1 + pkt_size)>> \o from[i + 2 + pkt_size]

\* unpack_batch's loop is well defined: some function satisfies its equation
\* at every offset, so UnpackBatch is its value at the first one.
LEMMA UnpackEquation ==
    ASSUME NEW msg \in Seq(Nat)
    PROVE  \E from : /\ from = [i \in 1..(Len(msg) + 1) |-> Unpacked(msg, from, i)]
                     /\ UnpackBatch(msg) = from[1]
<1> DEFINE L == Len(msg) + 1
           Solves(g, d) == /\ g = [i \in 1..L |-> g[i]]
                           /\ \A i \in (L + 1 - d)..L : g[i] = Unpacked(msg, g, i)
           S == {d \in Nat : d <= L => \E g : Solves(g, d)}
<1>0. L \in Nat /\ Len(msg) = L - 1 /\ \A i \in 1..(L - 1) : msg[i] \in Nat
    BY LenProperties
<1>1. 0 \in S
    <2>1. Solves([i \in 1..L |-> <<>>], 0)
        OBVIOUS
    <2> QED BY <2>1
<1>2. ASSUME NEW d \in S PROVE d + 1 \in S
    <2>1. d \in Nat /\ d + 1 \in Nat
        OBVIOUS
    <2> SUFFICES ASSUME d + 1 <= L PROVE \E g : Solves(g, d + 1)
        OBVIOUS
    <2>2. PICK g : Solves(g, d)
        BY <1>0
    <2> HIDE DEF S, L
    <2> DEFINE j == L - d
               h == [i \in 1..L |-> IF i = j THEN Unpacked(msg, g, j) ELSE g[i]]
    <2>3. j \in 1..L /\ L + 1 - (d + 1) = j /\ L + 1 - d = j + 1
        BY <1>0, <2>1
    <2> HIDE DEF h
    <2>4. \A i \in j..L : Unpacked(msg, h, i) = Unpacked(msg, g, i)
        <3> SUFFICES ASSUME NEW i \in j..L PROVE Unpacked(msg, h, i) = Unpacked(msg, g, i)
            OBVIOUS
        <3> DEFINE pkt_size == 256 * msg[i] + msg[i + 1]
        <3>0. i \in Nat
            BY <1>0, <2>1
        <3>1. CASE Len(msg) - i + 1 < 2
            BY <3>1 DEF Unpacked
        <3>2. CASE ~(Len(msg) - i + 1 < 2) /\ Len(msg) - i - 1 < pkt_size
            BY <3>2 DEF Unpacked
        <3>3. CASE ~(Len(msg) - i + 1 < 2) /\ ~(Len(msg) - i - 1 < pkt_size)
            <4>1. i \in 1..(L - 1) /\ i + 1 \in 1..(L - 1)
                BY <3>3, <1>0, <2>1, <2>3
            <4>2. pkt_size \in Nat
                <5>1. msg[i] \in Nat /\ msg[i + 1] \in Nat
                    BY <4>1, <1>0, Zenon
                <5>2. \A x, y \in Nat : 256 * x + y \in Nat
                    OBVIOUS
                <5> QED BY <5>1, <5>2, Zenon
            <4> HIDE DEF pkt_size
            <4>3. i + 2 + pkt_size \in 1..L /\ i + 2 + pkt_size # j
                BY <3>3, <4>2, <1>0, <2>3, <3>0
            <4>4. h[i + 2 + pkt_size] = g[i + 2 + pkt_size]
                BY <4>3 DEF h
            <4> QED BY <3>3, <4>4 DEF Unpacked, pkt_size
        <3> HIDE DEF j
        <3> QED BY <3>1, <3>2, <3>3
    <2>5. \A i \in j..L : h[i] = Unpacked(msg, h, i)
        <3> SUFFICES ASSUME NEW i \in j..L PROVE h[i] = Unpacked(msg, g, i)
            BY <2>4
        <3>1. i = j \/ i \in (L + 1 - d)..L
            BY <1>0, <2>1, <2>3
        <3>2. i \in 1..L
            BY <1>0, <2>1, <2>3
        <3> QED BY <2>2, <3>1, <3>2 DEF h
    <2>6. h = [i \in 1..L |-> h[i]]
        BY DEF h
    <2> QED BY <2>3, <2>5, <2>6, Zenon
<1>3. S = Nat
    <2> HIDE DEF S
    <2> QED BY <1>1, <1>2, InductiveSet, Zenon DEF S
<1>4. \E g : g = [i \in 1..L |-> Unpacked(msg, g, i)]
    <2>1. PICK g : Solves(g, L)
        <3>1. L \in S
            BY <1>0, <1>3
        <3> QED BY <1>0, <3>1
    <2>2. g = [i \in 1..L |-> Unpacked(msg, g, i)]
        BY <1>0, <2>1
    <2> QED BY <2>2
<1> QED
    BY <1>4, Zenon DEF UnpackBatch, Unpacked

\* Joining a list of byte strings (b"".join in AggQueue) is the repeated
\* concatenation of its members.
LEMMA FlattenEquation ==
    ASSUME NEW q \in Seq(Seq(Nat))
    PROVE  \E F \in [0..Len(q) -> Seq(Nat)] :
                /\ F[0] = <<>>
                /\ \A i \in 1..Len(q) : F[i] = F[i - 1] \o q[i]
                /\ FlattenSeq(q) = F[Len(q)]
<1> DEFINE n == Len(q)
           Step(g, i) == IF i = 1 THEN q[i] ELSE g[i - 1] \o q[i]
           Solves(g, d) == /\ g = [i \in 1..n |-> g[i]]
                           /\ \A i \in 1..d : g[i] = Step(g, i) /\ g[i] \in Seq(Nat)
           S == {d \in Nat : d <= n => \E g : Solves(g, d)}
<1>0. n \in Nat /\ \A i \in 1..n : q[i] \in Seq(Nat)
    BY LenProperties
<1>1. 0 \in S
    <2>1. Solves([i \in 1..n |-> <<>>], 0)
        OBVIOUS
    <2> QED BY <2>1
<1>2. ASSUME NEW d \in S PROVE d + 1 \in S
    <2>1. d \in Nat /\ d + 1 \in Nat
        OBVIOUS
    <2> SUFFICES ASSUME d + 1 <= n PROVE \E g : Solves(g, d + 1)
        OBVIOUS
    <2>2. PICK g : Solves(g, d)
        BY <1>0
    <2> HIDE DEF S, n
    <2> DEFINE h == [i \in 1..n |-> IF i = d + 1 THEN Step(g, i) ELSE g[i]]
    <2>3. \A i \in 1..(d + 1) : Step(h, i) = Step(g, i)
        BY <1>0, <2>1
    <2>4. Step(g, d + 1) \in Seq(Nat)
        <3>1. CASE d = 0
            BY <1>0, <3>1
        <3>2. CASE d # 0
            <4>1. d \in 1..d /\ (d + 1) - 1 = d /\ d + 1 # 1
                BY <2>1, <3>2
            <4>2. g[d] \in Seq(Nat)
                BY <2>2, <4>1
            <4>3. q[d + 1] \in Seq(Nat)
                BY <1>0, <2>1
            <4>4. g[d] \o q[d + 1] \in Seq(Nat)
                BY <4>2, <4>3, ConcatProperties
            <4>5. Step(g, d + 1) = g[d] \o q[d + 1]
                BY <4>1, Zenon
            <4> QED BY <4>4, <4>5, Zenon
        <3> QED BY <3>1, <3>2
    <2>6. h = [i \in 1..n |-> h[i]]
        OBVIOUS
    <2> HIDE DEF Step
    <2>7. \A i \in 1..d : i \in 1..n /\ i # d + 1
        BY <1>0, <2>1
    <2>8. \A i \in 1..(d + 1) : i = d + 1 \/ i \in 1..d
        BY <1>0, <2>1
    <2>9. \A i \in 1..(d + 1) : h[i] = Step(g, i) /\ h[i] \in Seq(Nat)
        <3> SUFFICES ASSUME NEW i \in 1..(d + 1) PROVE h[i] = Step(g, i)
                       /\ h[i] \in Seq(Nat)
            BY Zenon
        <3>1. CASE i = d + 1
            <4>1. i \in 1..n
                BY <1>0, <2>1, <3>1
            <4> QED BY <2>4, <3>1, <4>1
        <3>2. CASE i \in 1..d
            BY <2>2, <2>7, <3>2, Zenon
        <3> QED BY <2>8, <3>1, <3>2
    <2> HIDE DEF h
    <2>5. \A i \in 1..(d + 1) : h[i] = Step(h, i) /\ h[i] \in Seq(Nat)
        BY <2>3, <2>9
    <2> QED BY <2>5, <2>6, Zenon
<1>3. S = Nat
    <2> HIDE DEF S
    <2> QED BY <1>1, <1>2, InductiveSet, Zenon DEF S
<1>4. CASE n = 0
    <2>1. FlattenSeq(q) = q /\ q = <<>>
        BY <1>4 DEF FlattenSeq
    <2> DEFINE F == [i \in 0..0 |-> <<>>]
    <2>2. F \in [0..n -> Seq(Nat)] /\ F[0] = <<>> /\ FlattenSeq(q) = F[n]
        BY <1>4, <2>1
    <2>3. \A i \in 1..n : F[i] = F[i - 1] \o q[i]
        <3>1. 1..n = {}
            BY <1>4
        <3> QED BY <3>1, Zenon
    <2> HIDE DEF F
    <2> QED BY <2>2, <2>3, Zenon
<1>5. CASE n # 0
    <2>1. PICK g : Solves(g, n)
        <3>1. n \in S
            BY <1>0, <1>3, Zenon
        <3> QED BY <1>0, <3>1
    <2>2. g = [i \in 1..n |-> Step(g, i)]
        BY <1>0, <2>1, Zenon
    <2>3. \E f : f = [i \in 1..n |-> IF i = 1 THEN q[i] ELSE f[i - 1] \o q[i]]
            /\ FlattenSeq(q) = f[n]
        BY <1>5, <2>2, Zenon DEF FlattenSeq
    <2>4. PICK f : f = [i \in 1..n |-> IF i = 1 THEN q[i] ELSE f[i - 1] \o q[i]]
            /\ FlattenSeq(q) = f[n]
        BY <2>3, Zenon
    <2> HIDE DEF n
    <2> DEFINE F == [i \in 0..n |-> IF i = 0 THEN <<>> ELSE f[i]]
    <2>5. F[0] = <<>> /\ FlattenSeq(q) = F[n]
        BY <1>0, <1>5, <2>4
    <2>6. \A i \in 1..n : F[i] = F[i - 1] \o q[i]
        <3> SUFFICES ASSUME NEW i \in 1..n PROVE F[i] = F[i - 1] \o q[i]
            BY Zenon
        <3>1. CASE i = 1
            <4>1. F[i] = q[i] /\ F[i - 1] = <<>>
                BY <1>0, <2>4, <3>1
            <4> QED BY <4>1, <1>0, ConcatEmptySeq, Zenon
        <3>2. CASE i # 1
            <4>1. i - 1 \in 0..n /\ i \in 0..n /\ i # 0 /\ i - 1 # 0
                BY <1>0, <3>2
            <4>2. F[i] = f[i] /\ F[i - 1] = f[i - 1]
                BY <4>1
            <4>3. f[i] = f[i - 1] \o q[i]
                BY <2>4, <3>2, Zenon
            <4> QED BY <4>2, <4>3, Zenon
        <3> QED BY <3>1, <3>2, Zenon
    <2> DEFINE T == {d \in Nat : d <= n => F[d] \in Seq(Nat)}
    <2> HIDE DEF F
    <2>7. 0 \in T
        <3>1. <<>> \in Seq(Nat)
            OBVIOUS
        <3> QED BY <2>5, <3>1, Zenon
    <2>8. ASSUME NEW d \in T PROVE d + 1 \in T
        <3>1. d \in Nat /\ d + 1 \in Nat
            OBVIOUS
        <3> SUFFICES ASSUME d + 1 <= n PROVE F[d + 1] \in Seq(Nat)
            BY <3>1
        <3>2. F[d] \in Seq(Nat)
            BY <1>0, <3>1
        <3>3. F[d + 1] = F[d] \o q[d + 1] /\ q[d + 1] \in Seq(Nat)
            <4>1. d + 1 \in 1..n /\ (d + 1) - 1 = d
                BY <1>0, <3>1
            <4> QED BY <1>0, <2>6, <4>1, Zenon
        <3> QED BY <3>2, <3>3, ConcatProperties
    <2>9. T = Nat
        <3> HIDE DEF T
        <3> QED BY <2>7, <2>8, InductiveSet, Zenon DEF T
    <2>10. \A i \in 0..n : F[i] \in Seq(Nat)
        BY <1>0, <2>9
    <2>11. F \in [0..n -> Seq(Nat)]
        BY <2>10 DEF F
    <2> QED BY <2>5, <2>6, <2>11, Zenon DEF n
<1> HIDE DEF n
<1> QED BY <1>4, <1>5, Zenon DEF n

\* What pack_tun puts on the wire: two length bytes that give the length back,
\* then the packet.
LEMMA PackShape ==
    ASSUME NEW p \in Seq(Nat)
    PROVE  /\ PackTun(p) \in Seq(Nat)
           /\ Len(PackTun(p)) = Len(p) + 2
           /\ 256 * PackTun(p)[1] + PackTun(p)[2] = Len(p)
           /\ \A m \in 1..Len(p) : PackTun(p)[m + 2] = p[m]
<1> DEFINE hd == <<Len(p) \div 256, Len(p) % 256>>
<1>1. Len(p) \in Nat
    BY LenProperties
<1>2. Len(p) \div 256 \in Nat /\ Len(p) % 256 \in Nat
        /\ 256 * (Len(p) \div 256) + (Len(p) % 256) = Len(p)
    BY <1>1
<1>3. hd \in Seq(Nat) /\ Len(hd) = 2 /\ 256 * hd[1] + hd[2] = Len(p)
    BY <1>2
<1>4. PackTun(p) = hd \o p
    BY DEF PackTun
<1> HIDE DEF hd
<1> DEFINE w == hd \o p
<1>5. /\ w \in Seq(Nat)
      /\ Len(w) = 2 + Len(p)
      /\ \A i \in 1..(2 + Len(p)) : w[i] = IF i <= 2 THEN hd[i] ELSE p[i - 2]
    <2>1. /\ w \in Seq(Nat)
          /\ Len(w) = Len(hd) + Len(p)
          /\ \A i \in 1..(Len(hd) + Len(p)) :
                 w[i] = IF i <= Len(hd) THEN hd[i] ELSE p[i - Len(hd)]
        BY <1>3, ConcatProperties, ZenonT(30)
    <2>2. Len(hd) = 2
        BY <1>3
    <2> HIDE DEF w
    <2> QED BY <2>1, <2>2
<1> HIDE DEF w
<1>6. w[1] = hd[1] /\ w[2] = hd[2]
    BY <1>1, <1>5 DEF w
<1>7. ASSUME NEW m \in 1..Len(p) PROVE w[m + 2] = p[m]
    <2>1. m + 2 \in 1..(2 + Len(p)) /\ ~(m + 2 <= 2) /\ (m + 2) - 2 = m
        BY <1>1
    <2> QED BY <1>5, <2>1 DEF w
<1> QED BY <1>1, <1>3, <1>4, <1>5, <1>6, <1>7, SMTT(30) DEF w

\* v starts with u.
Begins(u, v) == Len(u) <= Len(v) /\ \A i \in 1..Len(u) : v[i] = u[i]

\* Each partial join of a batch is the beginning of every longer one.
LEMMA FlattenPrefix ==
    ASSUME NEW q \in Seq(Seq(Nat)), NEW F \in [0..Len(q) -> Seq(Nat)],
           \A i \in 1..Len(q) : F[i] = F[i - 1] \o q[i]
    PROVE  \A k \in 0..Len(q) : \A j \in k..Len(q) : Begins(F[k], F[j])
<1> DEFINE n == Len(q)
           S == {d \in Nat : \A k \in 0..n : k + d <= n => Begins(F[k], F[k + d])}
<1>0. n \in Nat /\ \A i \in 1..n : q[i] \in Seq(Nat)
    BY LenProperties
<1> HIDE DEF n
<1>1. 0 \in S
    BY <1>0 DEF Begins
<1>2. ASSUME NEW d \in S PROVE d + 1 \in S
    <2>1. d \in Nat /\ d + 1 \in Nat
        OBVIOUS
    <2> SUFFICES ASSUME NEW k \in 0..n, k + (d + 1) <= n
                 PROVE Begins(F[k], F[k + (d + 1)])
        BY <2>1
    <2> DEFINE u == F[k]
               v == F[k + d]
               w == F[k + (d + 1)]
               x == q[k + (d + 1)]
    <2>2. /\ k + d \in 0..n /\ k + (d + 1) \in 1..n /\ k + (d + 1) \in 0..n
          /\ (k + (d + 1)) - 1 = k + d /\ k + d <= n
        BY <1>0, <2>1
    <2>3. Begins(u, v)
        BY <2>2
    <2>4. u \in Seq(Nat) /\ v \in Seq(Nat) /\ w \in Seq(Nat) /\ x \in Seq(Nat)
        BY <1>0, <2>2, Zenon DEF n
    <2>5. w = v \o x
        <3>1. F[k + (d + 1)] = F[(k + (d + 1)) - 1] \o q[k + (d + 1)]
            BY <2>2, Zenon DEF n
        <3> QED BY <2>2, <3>1, Zenon
    <2> HIDE DEF u, v, w, x
    <2>6. Len(w) = Len(v) + Len(x)
            /\ \A i \in 1..(Len(v) + Len(x)) :
                   w[i] = IF i <= Len(v) THEN v[i] ELSE x[i - Len(v)]
        BY <2>4, <2>5, ConcatProperties
    <2>7. Len(u) \in Nat /\ Len(v) \in Nat /\ Len(x) \in Nat
        BY <2>4, LenProperties
    <2>8. Begins(u, w)
        <3>1. Len(u) <= Len(v) /\ Len(u) <= Len(w)
            BY <2>3, <2>6, <2>7 DEF Begins
        <3>2. ASSUME NEW i \in 1..Len(u) PROVE w[i] = u[i]
            <4>1. i <= Len(v) /\ i \in 1..(Len(v) + Len(x))
                BY <2>7, <3>1
            <4>2. w[i] = v[i]
                BY <2>6, <4>1
            <4>3. v[i] = u[i]
                BY <2>3 DEF Begins
            <4> QED BY <4>2, <4>3
        <3> QED BY <3>1, <3>2 DEF Begins
    <2> QED BY <2>8 DEF u, w
<1>3. S = Nat
    <2> HIDE DEF S
    <2> QED BY <1>1, <1>2, InductiveSet, Zenon DEF S
<1>4. ASSUME NEW k \in 0..n, NEW j \in k..n PROVE Begins(F[k], F[j])
    <2>1. j - k \in Nat /\ k + (j - k) = j /\ j <= n
        BY <1>0
    <2>2. j - k \in S
        BY <1>3, <2>1, Zenon
    <2> QED BY <2>1, <2>2
<1> QED BY <1>4 DEF n

\* The messages that put() was given for the packets ps.
Packed(ps) == [k \in 1..Len(ps) |-> PackTun(ps[k])]

\* Appending one message to the queue appends its bytes to the joined batch.
LEMMA FlattenAppend ==
    ASSUME NEW q \in Seq(Seq(Nat)), NEW x \in Seq(Nat)
    PROVE  /\ FlattenSeq(q) \in Seq(Nat)
           /\ FlattenSeq(Append(q, x)) = FlattenSeq(q) \o x
<1> DEFINE n == Len(q)
           r == Append(q, x)
<1>1. n \in Nat /\ r \in Seq(Seq(Nat)) /\ Len(r) = n + 1 /\ r[n + 1] = x
        /\ \A i \in 1..n : r[i] = q[i]
    BY LenProperties, AppendProperties
<1> HIDE DEF n, r
<1>2. PICK F \in [0..n -> Seq(Nat)] :
          /\ F[0] = <<>>
          /\ \A i \in 1..n : F[i] = F[i - 1] \o q[i]
          /\ FlattenSeq(q) = F[n]
    BY FlattenEquation, Zenon DEF n
<1>3. PICK G \in [0..(n + 1) -> Seq(Nat)] :
          /\ G[0] = <<>>
          /\ \A i \in 1..(n + 1) : G[i] = G[i - 1] \o r[i]
          /\ FlattenSeq(r) = G[n + 1]
    BY <1>1, FlattenEquation, Zenon
<1> DEFINE S == {d \in Nat : d <= n => G[d] = F[d]}
<1>4. 0 \in S
    BY <1>2, <1>3
<1>5. ASSUME NEW d \in S PROVE d + 1 \in S
    <2>1. d \in Nat /\ d + 1 \in Nat
        OBVIOUS
    <2> SUFFICES ASSUME d + 1 <= n PROVE G[d + 1] = F[d + 1]
        BY <2>1
    <2>2. d <= n /\ d + 1 \in 1..n /\ d + 1 \in 1..(n + 1) /\ (d + 1) - 1 = d
        BY <1>1, <2>1
    <2>3. G[d] = F[d]
        BY <2>2
    <2>4. G[d + 1] = G[d] \o r[d + 1] /\ F[d + 1] = F[d] \o q[d + 1]
        BY <1>2, <1>3, <2>2, Zenon
    <2> QED BY <1>1, <2>2, <2>3, <2>4, Zenon
<1>6. S = Nat
    <2> HIDE DEF S
    <2> QED BY <1>4, <1>5, InductiveSet, Zenon DEF S
<1>7. G[n] = F[n]
    <2>1. n \in S
        <3> HIDE DEF S
        <3> QED BY <1>1, <1>6
    <2>2. n <= n
        BY <1>1
    <2> QED BY <2>1, <2>2
<1>8. n + 1 \in 1..(n + 1) /\ (n + 1) - 1 = n
    BY <1>1
<1>9. G[n + 1] = G[n] \o x
    BY <1>1, <1>3, <1>8, Zenon
<1>10. F[n] \in Seq(Nat)
    BY <1>1, <1>2
<1> QED BY <1>2, <1>3, <1>7, <1>9, <1>10, Zenon DEF r

\* Reading one more packet appends one more message.
LEMMA PackedAppend ==
    ASSUME NEW w \in Seq(Seq(Nat)), NEW p \in Seq(Nat)
    PROVE  /\ Packed(w) \in Seq(Seq(Nat))
           /\ Packed(Append(w, p)) = Append(Packed(w), PackTun(p))
           /\ Packed(w) = <<>> <=> w = <<>>
<1> DEFINE n == Len(w)
           u == Append(w, p)
           q == Packed(w)
           r == Append(q, PackTun(p))
<1>1. n \in Nat /\ u \in Seq(Seq(Nat)) /\ Len(u) = n + 1 /\ u[n + 1] = p
        /\ \A i \in 1..n : u[i] = w[i] /\ w[i] \in Seq(Nat)
    BY LenProperties, AppendProperties
<1>2. \A i \in 1..n : PackTun(w[i]) \in Seq(Nat)
    BY <1>1, PackShape, Zenon
<1>3. q \in Seq(Seq(Nat)) /\ Len(q) = n /\ \A i \in 1..n : q[i] = PackTun(w[i])
    BY <1>1, <1>2 DEF Packed
<1>4. PackTun(p) \in Seq(Nat)
    BY PackShape
<1>5. r \in Seq(Seq(Nat)) /\ Len(r) = n + 1 /\ r[n + 1] = PackTun(p)
        /\ \A i \in 1..n : r[i] = q[i]
    <2> HIDE DEF q, n
    <2> QED BY <1>3, <1>4, AppendProperties
<1>6. Packed(u) \in Seq(Seq(Nat)) /\ Len(Packed(u)) = n + 1
        /\ \A i \in 1..(n + 1) : Packed(u)[i] = PackTun(u[i])
    <2> HIDE DEF u, n
    <2>1. \A i \in 1..(n + 1) : PackTun(u[i]) \in Seq(Nat)
        <3>1. \A i \in 1..(n + 1) : u[i] \in Seq(Nat)
            BY <1>1, LenProperties
        <3> QED BY <3>1, PackShape, SMTT(30)
    <2>2. Packed(u) = [i \in 1..(n + 1) |-> PackTun(u[i])]
        BY <1>1 DEF Packed
    <2> QED BY <1>1, <2>1, <2>2
<1> HIDE DEF n, u, q, r
<1>7. ASSUME NEW i \in 1..(n + 1) PROVE Packed(u)[i] = r[i]
    <2>1. i = n + 1 \/ i \in 1..n
        BY <1>1
    <2>2. CASE i = n + 1
        BY <1>1, <1>5, <1>6, <2>2
    <2>3. CASE i \in 1..n
        <3>1. u[i] = w[i] /\ r[i] = q[i] /\ q[i] = PackTun(w[i])
            BY <1>1, <1>3, <1>5, <2>3
        <3> QED BY <1>6, <3>1
    <2> QED BY <2>1, <2>2, <2>3
<1>8. Packed(u) = r
    BY <1>5, <1>6, <1>7, SeqEqual
<1>9. q = <<>> <=> w = <<>>
    BY <1>3 DEF n
<1> QED BY <1>3, <1>8, <1>9 DEF u, q, r

\* The batch of the first k packets of ps.
Bytes(ps, k) == FlattenSeq(Packed(SubSeq(ps, 1, k)))

\* The first k members of a sequence are the first k - 1 and one more.
LEMMA PrefixGrows ==
    ASSUME NEW V, NEW s \in Seq(V), NEW k \in 1..Len(s)
    PROVE  /\ SubSeq(s, 1, k) = Append(SubSeq(s, 1, k - 1), s[k])
           /\ SubSeq(s, 1, k - 1) \in Seq(V) /\ s[k] \in V
<1>1. Len(s) \in Nat /\ \A i \in 1..Len(s) : s[i] \in V
    BY LenProperties
<1> DEFINE a == SubSeq(s, 1, k - 1)
           b == SubSeq(s, 1, k)
<1>2. a \in Seq(V) /\ Len(a) = k - 1 /\ \A i \in 1..(k - 1) : a[i] = s[i]
    <2>1. \A i \in 1..(k - 1) : s[i] \in V
        BY <1>1
    <2>2. /\ a \in Seq(V) /\ Len(a) = (IF 1 <= k - 1 THEN (k - 1) - 1 + 1 ELSE 0)
          /\ \A i \in 1..((k - 1) - 1 + 1) : a[i] = s[1 + i - 1]
        BY <1>1, <2>1, SubSeqProperties
    <2> HIDE DEF a
    <2> QED BY <1>1, <2>2
<1>3. b \in Seq(V) /\ Len(b) = k /\ \A i \in 1..k : b[i] = s[i]
    <2>1. \A i \in 1..k : s[i] \in V
        BY <1>1
    <2>2. /\ b \in Seq(V) /\ Len(b) = (IF 1 <= k THEN k - 1 + 1 ELSE 0)
          /\ \A i \in 1..(k - 1 + 1) : b[i] = s[1 + i - 1]
        BY <1>1, <2>1, SubSeqProperties
    <2> HIDE DEF b
    <2> QED BY <1>1, <2>2
<1> DEFINE x == s[k]
           c == Append(a, x)
<1>4. x \in V
    BY <1>1
<1>5. c \in Seq(V) /\ Len(c) = k /\ c[k] = x /\ \A i \in 1..(k - 1) : c[i] = a[i]
    <2> HIDE DEF a, x
    <2>1. c \in Seq(V) /\ Len(c) = Len(a) + 1 /\ c[Len(a) + 1] = x
            /\ \A i \in 1..Len(a) : c[i] = a[i]
        BY <1>2, <1>4, AppendProperties
    <2>2. Len(a) + 1 = k
        BY <1>1, <1>2
    <2> HIDE DEF c
    <2> QED BY <1>2, <2>1, <2>2
<1>6. ASSUME NEW i \in 1..k PROVE b[i] = c[i]
    <2> HIDE DEF a, b, c
    <2>1. CASE i = k
        BY <1>1, <1>3, <1>5, <2>1 DEF x
    <2>2. CASE i # k
        <3>1. i \in 1..(k - 1)
            BY <1>1, <2>2
        <3> QED BY <1>2, <1>3, <1>5, <3>1
    <2> QED BY <2>1, <2>2
<1>7. b = c
    <2> HIDE DEF a, b, c, x
    <2> QED BY <1>3, <1>5, <1>6, SeqEqual
<1> QED BY <1>2, <1>4, <1>7

\* A batch grows packet by packet.
LEMMA BatchBytes ==
    ASSUME NEW ps \in Seq(Seq(Nat))
    PROVE  /\ Bytes(ps, 0) = <<>> /\ Bytes(ps, Len(ps)) = FlattenSeq(Packed(ps))
           /\ \A k \in 0..Len(ps) : Bytes(ps, k) \in Seq(Nat)
           /\ \A k \in 1..Len(ps) : Bytes(ps, k) = Bytes(ps, k - 1) \o PackTun(ps[k])
<1>1. Len(ps) \in Nat
    BY LenProperties
<1>2. Bytes(ps, 0) = <<>>
    <2>1. SubSeq(ps, 1, 0) = <<>>
        BY SubSeqEmpty
    <2>2. Packed(<<>>) = <<>>
        BY DEF Packed
    <2>3. FlattenSeq(<<>>) = <<>>
        BY DEF FlattenSeq
    <2> QED BY <2>1, <2>2, <2>3, Zenon DEF Bytes
<1>3. Bytes(ps, Len(ps)) = FlattenSeq(Packed(ps))
    <2>1. SubSeq(ps, 1, Len(ps)) = ps
        BY SubSeqFull
    <2> QED BY <2>1, Zenon DEF Bytes
<1>4. ASSUME NEW k \in 0..Len(ps) PROVE SubSeq(ps, 1, k) \in Seq(Seq(Nat))
    <2>1. k \in Int /\ 1 \in Int /\ \A i \in 1..k : ps[i] \in Seq(Nat)
        BY <1>1, LenProperties
    <2> QED BY <2>1, SubSeqProperties
<1>5. ASSUME NEW k \in 0..Len(ps) PROVE Bytes(ps, k) \in Seq(Nat)
    <2> DEFINE w == SubSeq(ps, 1, k)
    <2>1. w \in Seq(Seq(Nat)) /\ <<>> \in Seq(Nat)
        BY <1>4
    <2> HIDE DEF w
    <2>2. Packed(w) \in Seq(Seq(Nat))
        BY <2>1, PackedAppend, ZenonT(30)
    <2>3. FlattenSeq(Packed(w)) \in Seq(Nat)
        BY <2>1, <2>2, FlattenAppend
    <2> QED BY <2>3 DEF Bytes, w
<1>6. ASSUME NEW k \in 1..Len(ps) PROVE Bytes(ps, k) = Bytes(ps, k - 1) \o PackTun(ps[k])
    <2> DEFINE w == SubSeq(ps, 1, k - 1)
               p == ps[k]
    <2>1. k - 1 \in 0..Len(ps)
        BY <1>1
    <2>2. w \in Seq(Seq(Nat)) /\ p \in Seq(Nat)
        BY <1>1, <1>4, <2>1, LenProperties
    <2>3. SubSeq(ps, 1, k) = Append(w, p)
        <3> DEFINE V == Seq(Nat)
        <3>1. ps \in Seq(V)
            OBVIOUS
        <3> HIDE DEF V
        <3> QED BY <3>1, PrefixGrows
    <2> HIDE DEF w, p
    <2>4. /\ Packed(w) \in Seq(Seq(Nat)) /\ PackTun(p) \in Seq(Nat)
          /\ Packed(Append(w, p)) = Append(Packed(w), PackTun(p))
        BY <2>2, PackedAppend, PackShape, Zenon
    <2>5. FlattenSeq(Append(Packed(w), PackTun(p))) = FlattenSeq(Packed(w)) \o PackTun(p)
        BY <2>4, FlattenAppend, Zenon
    <2>6. FlattenSeq(Packed(SubSeq(ps, 1, k))) = FlattenSeq(Packed(w)) \o PackTun(p)
        BY <2>3, <2>4, <2>5, Zenon
    <2> QED BY <2>6, Zenon DEF Bytes, w, p
<1> QED BY <1>2, <1>3, <1>5, <1>6

\* A batch begins with the batch of every prefix of its packets.
LEMMA BytesBegin ==
    ASSUME NEW ps \in Seq(Seq(Nat)), NEW k \in 0..Len(ps), NEW j \in k..Len(ps)
    PROVE  Begins(Bytes(ps, k), Bytes(ps, j))
<1> DEFINE n == Len(ps)
           q == Packed(ps)
           F == [i \in 0..n |-> Bytes(ps, i)]
<1>1. n \in Nat /\ \A i \in 1..n : ps[i] \in Seq(Nat)
    BY LenProperties
<1>2. q \in Seq(Seq(Nat)) /\ Len(q) = n /\ \A i \in 1..n : q[i] = PackTun(ps[i])
    <2>1. \A i \in 1..n : PackTun(ps[i]) \in Seq(Nat)
        BY <1>1, PackShape, Zenon
    <2> QED BY <1>1, <2>1 DEF Packed
<1>3. /\ \A i \in 0..n : Bytes(ps, i) \in Seq(Nat)
      /\ \A i \in 1..n : Bytes(ps, i) = Bytes(ps, i - 1) \o PackTun(ps[i])
    BY BatchBytes, SMTT(30)
<1> HIDE DEF n, q
<1>4. F \in [0..n -> Seq(Nat)]
    BY <1>3
<1>5. ASSUME NEW i \in 1..n PROVE F[i] = F[i - 1] \o q[i]
    <2>1. i \in 0..n /\ i - 1 \in 0..n
        BY <1>1
    <2>2. F[i] = Bytes(ps, i) /\ F[i - 1] = Bytes(ps, i - 1)
        BY <2>1
    <2> HIDE DEF F
    <2> QED BY <1>2, <1>3, <2>2, Zenon
<1>6. k \in 0..n /\ j \in k..n /\ j \in 0..n
    BY <1>1 DEF n
<1>7. Begins(F[k], F[j])
    <2> HIDE DEF F
    <2> QED BY <1>2, <1>4, <1>5, <1>6, FlattenPrefix, Zenon
<1> QED BY <1>6, <1>7

\* unpack_batch at the first byte of a packet that is there in full yields the
\* packet and goes on after it.
LEMMA UnpackOne ==
    ASSUME NEW p \in Seq(Nat), NEW u \in Seq(Nat), NEW msg \in Seq(Nat),
           Begins(u \o PackTun(p), msg), NEW from
    PROVE  Unpacked(msg, from, Len(u) + 1) = <<p>> \o from[Len(u \o PackTun(p)) + 1]
<1> DEFINE a == Len(u)
           z == Len(p)
           v == u \o PackTun(p)
           L == Len(msg)
<1>1. a \in Nat /\ z \in Nat /\ L \in Nat
    BY LenProperties
<1>2. /\ v \in Seq(Nat) /\ Len(v) = a + Len(PackTun(p))
      /\ \A i \in 1..(a + Len(PackTun(p))) :
             v[i] = IF i <= a THEN u[i] ELSE PackTun(p)[i - a]
    BY PackShape, ConcatProperties
<1>3. Begins(v, msg)
    OBVIOUS
<1> HIDE DEF a, z, v, L
<1>4. Len(PackTun(p)) = z + 2
    BY PackShape DEF z
<1>5. Len(v) = a + z + 2 /\ a + z + 2 <= L
    BY <1>1, <1>2, <1>3, <1>4 DEF Begins, L
<1>6. ASSUME NEW j \in 1..(z + 2) PROVE msg[a + j] = PackTun(p)[j]
    <2>1. a + j \in 1..(a + (z + 2)) /\ ~(a + j <= a) /\ (a + j) - a = j
            /\ a + j \in 1..(a + z + 2)
        BY <1>1
    <2>2. v[a + j] = PackTun(p)[j]
        BY <1>2, <1>4, <2>1, Zenon
    <2>3. msg[a + j] = v[a + j]
        BY <1>3, <1>5, <2>1 DEF Begins
    <2> QED BY <2>2, <2>3
<1>7. 256 * msg[a + 1] + msg[(a + 1) + 1] = z
    <2>1. 1 \in 1..(z + 2) /\ 2 \in 1..(z + 2) /\ (a + 1) + 1 = a + 2
        BY <1>1
    <2>2. msg[a + 1] = PackTun(p)[1] /\ msg[(a + 1) + 1] = PackTun(p)[2]
        BY <1>6, <2>1
    <2> QED BY <2>2, PackShape DEF z
<1>8. SubSeq(msg, (a + 1) + 2, (a + 1) + 1 + z) = p
    <2> DEFINE lo == (a + 1) + 2
               hi == (a + 1) + 1 + z
               w == SubSeq(msg, lo, hi)
    <2>1. lo \in Int /\ hi \in Int /\ hi - lo + 1 = z /\ (lo <= hi <=> z # 0)
            /\ lo = a + 3 /\ hi <= L /\ lo >= 1
        BY <1>1, <1>5
    <2> HIDE DEF lo, hi
    <2>2. \A i \in lo..hi : msg[i] \in Nat
        <3> SUFFICES ASSUME NEW i \in lo..hi PROVE msg[i] \in Nat
            OBVIOUS
        <3>1. i \in 1..L
            BY <1>1, <2>1
        <3> QED BY <3>1, LenProperties DEF L
    <2>3. /\ w \in Seq(Nat) /\ Len(w) = (IF lo <= hi THEN hi - lo + 1 ELSE 0)
          /\ \A i \in 1..(hi - lo + 1) : w[i] = msg[lo + i - 1]
        BY <2>1, <2>2, SubSeqProperties, SMTT(30)
    <2> HIDE DEF w
    <2>4. Len(w) = z
        BY <1>1, <2>1, <2>3
    <2>5. ASSUME NEW i \in 1..z PROVE w[i] = p[i]
        <3>1. lo + i - 1 = a + (i + 2) /\ i + 2 \in 1..(z + 2)
            BY <1>1, <2>1
        <3>2. w[i] = msg[a + (i + 2)]
            BY <2>1, <2>3, <3>1, Zenon
        <3>3. msg[a + (i + 2)] = PackTun(p)[i + 2]
            BY <1>6, <3>1
        <3> QED BY <3>2, <3>3, PackShape DEF z
    <2>6. w = p
        BY <2>3, <2>4, <2>5, SeqEqual DEF z
    <2> QED BY <2>6 DEF w, lo, hi
<1>9. /\ ~(L - (a + 1) + 1 < 2) /\ ~(L - (a + 1) - 1 < z)
      /\ (a + 1) + 2 + z = Len(v) + 1
    BY <1>1, <1>5
<1>10. Unpacked(msg, from, a + 1) = <<p>> \o from[Len(v) + 1]
    BY <1>7, <1>8, <1>9, ZenonT(30) DEF Unpacked, L
<1> QED BY <1>10 DEF a, v

\* from gives what unpack_batch yields of msg at every offset.
Reads(msg, from) ==
    \A i \in 1..(Len(msg) + 1) : from[i] = Unpacked(msg, from, i)

\* unpack_batch yields the packets that lie in msg in full, when it stops
\* after them.
LEMMA UnpackPrefix ==
    ASSUME NEW ps \in Seq(Seq(Nat)), NEW m \in 0..Len(ps), NEW msg \in Seq(Nat),
           \A k \in 0..m : Begins(Bytes(ps, k), msg),
           NEW from, Reads(msg, from), from[Len(Bytes(ps, m)) + 1] = <<>>
    PROVE  from[1] = SubSeq(ps, 1, m)
<1> DEFINE n == Len(ps)
<1>1. n \in Nat /\ m \in 0..n /\ m \in Nat /\ Len(msg) \in Nat
        /\ \A k \in 1..n : ps[k] \in Seq(Nat)
    BY LenProperties
<1>2. /\ Bytes(ps, 0) = <<>>
      /\ \A k \in 0..n : Bytes(ps, k) \in Seq(Nat)
      /\ \A k \in 1..n : Bytes(ps, k) = Bytes(ps, k - 1) \o PackTun(ps[k])
    BY BatchBytes
<1> HIDE DEF n
<1>3. ASSUME NEW k \in 1..m
      PROVE  from[Len(Bytes(ps, k - 1)) + 1] = <<ps[k]>> \o from[Len(Bytes(ps, k)) + 1]
    <2> DEFINE u == Bytes(ps, k - 1)
               p == ps[k]
    <2>1. k \in 1..n /\ k \in 0..m /\ k - 1 \in 0..m /\ k - 1 \in 0..n
        BY <1>1
    <2>2. u \in Seq(Nat) /\ p \in Seq(Nat) /\ Len(u) \in Nat
        BY <1>1, <1>2, <2>1, LenProperties, SMTT(30)
    <2>3. Bytes(ps, k) = u \o PackTun(p)
        BY <1>2, <2>1, SMTT(30)
    <2>4. Begins(u, msg) /\ Begins(Bytes(ps, k), msg)
        BY <2>1, Zenon
    <2> HIDE DEF u, p
    <2>5. Begins(u \o PackTun(p), msg)
        BY <2>3, <2>4, Zenon
    <2>6. Unpacked(msg, from, Len(u) + 1) = <<p>> \o from[Len(u \o PackTun(p)) + 1]
        BY <2>2, <2>5, UnpackOne, Zenon
    <2>7. Len(u) + 1 \in 1..(Len(msg) + 1)
        BY <1>1, <2>2, <2>4 DEF Begins
    <2>8. from[Len(u) + 1] = <<p>> \o from[Len(Bytes(ps, k)) + 1]
        BY <2>3, <2>6, <2>7, Zenon DEF Reads
    <2> QED BY <2>8 DEF u, p
<1> DEFINE S == {d \in Nat : d <= m
      => from[Len(Bytes(ps, m - d)) + 1] = SubSeq(ps, (m - d) + 1, m)}
<1>4. 0 \in S
    <2>1. m - 0 = m /\ m < m + 1 /\ m + 1 \in Int
        BY <1>1
    <2>2. SubSeq(ps, m + 1, m) = <<>>
        BY <1>1, <2>1, SubSeqEmpty
    <2> QED BY <2>1, <2>2, Zenon
<1>5. ASSUME NEW d \in S PROVE d + 1 \in S
    <2>1. d \in Nat /\ d + 1 \in Nat
        OBVIOUS
    <2> SUFFICES ASSUME d + 1 <= m
                 PROVE  from[Len(Bytes(ps, m - (d + 1))) + 1]
                     = SubSeq(ps, (m - (d + 1)) + 1, m)
        BY <2>1
    <2> DEFINE k == m - d
    <2>2. d <= m /\ k \in 1..m /\ k \in 1..n /\ m \in k..n /\ m - (d + 1) = k - 1
            /\ (k - 1) + 1 = k
        BY <1>1, <2>1
    <2>3. from[Len(Bytes(ps, k)) + 1] = SubSeq(ps, k + 1, m)
        BY <2>2, Zenon
    <2> HIDE DEF k, S
    <2>4. SubSeq(ps, k, m) = <<ps[k]>> \o SubSeq(ps, k + 1, m)
        BY <2>2, SubSeqRecursiveFirst DEF n
    <2>5. from[Len(Bytes(ps, k - 1)) + 1] = SubSeq(ps, k, m)
        BY <1>3, <2>2, <2>3, <2>4, Zenon
    <2> QED BY <2>2, <2>5, Zenon
<1>6. S = Nat
    <2> HIDE DEF S
    <2> QED BY <1>4, <1>5, InductiveSet, Zenon DEF S
<1>7. m \in S /\ m <= m /\ m - m = 0
    <2>1. m <= m /\ m - m = 0
        BY <1>1
    <2> HIDE DEF S
    <2> QED BY <1>1, <1>6, <2>1
<1>8. from[Len(Bytes(ps, 0)) + 1] = SubSeq(ps, 0 + 1, m)
    BY <1>7, Zenon
<1>9. Len(Bytes(ps, 0)) + 1 = 1 /\ 0 + 1 = 1
    BY <1>2
<1> QED BY <1>8, <1>9, Zenon

\* unpack_batch undoes pack_tun: for every list of packets, of any number and
\* of any lengths that two bytes can hold, the peer gets back from a batch the
\* packets that were put in it, in order.
THEOREM BatchRoundTrip ==
    ASSUME NEW ps \in Seq(Seq(Nat))
    PROVE  UnpackBatch(FlattenSeq(Packed(ps))) = ps
<1> DEFINE n == Len(ps)
           msg == Bytes(ps, n)
<1>1. n \in Nat /\ n \in 0..n
    BY LenProperties
<1>2. msg \in Seq(Nat) /\ n \in 0..Len(ps)
    BY <1>1, BatchBytes
<1>0. msg = FlattenSeq(Packed(ps))
    BY BatchBytes
<1>3. \A k \in 0..n : Begins(Bytes(ps, k), msg)
    BY <1>1, BytesBegin
<1> HIDE DEF msg
<1>4. PICK from : /\ from = [i \in 1..(Len(msg) + 1) |-> Unpacked(msg, from, i)]
                  /\ UnpackBatch(msg) = from[1]
    BY <1>2, UnpackEquation
<1>5. from[Len(msg) + 1] = <<>>
    <2>1. Len(msg) + 1 \in 1..(Len(msg) + 1) /\ Len(msg) - (Len(msg) + 1) + 1 < 2
        BY <1>2, LenProperties
    <2> QED BY <1>4, <2>1, ZenonT(30) DEF Unpacked
<1>6. from[Len(Bytes(ps, n)) + 1] = <<>>
    BY <1>5 DEF msg
<1> HIDE DEF n
<1>7. Reads(msg, from)
    BY <1>4, Zenon DEF Reads
<1>8. from[1] = SubSeq(ps, 1, n)
    BY <1>2, <1>3, <1>6, <1>7, UnpackPrefix, Zenon
<1>9. SubSeq(ps, 1, n) = ps
    BY SubSeqFull DEF n
<1> QED BY <1>0, <1>4, <1>8, <1>9, Zenon

\* At a packet whose header or body is cut short unpack_batch stops.
LEMMA CutHeader ==
    ASSUME NEW u \in Seq(Nat), NEW p \in Seq(Nat), NEW flat \in Seq(Nat),
           Begins(u \o PackTun(p), flat), NEW msg \in Seq(Nat), Len(u) <= Len(msg),
           Len(msg) < Len(u \o PackTun(p)), \A i \in 1..Len(msg) : msg[i] = flat[i],
           NEW from
    PROVE  Unpacked(msg, from, Len(u) + 1) = <<>>
<1> DEFINE a == Len(u)
           z == Len(p)
           v == u \o PackTun(p)
           c == Len(msg)
<1>1. a \in Nat /\ z \in Nat /\ c \in Nat /\ a <= c
    BY LenProperties
<1>2. /\ Len(v) = a + Len(PackTun(p))
      /\ \A i \in 1..(a + Len(PackTun(p))) :
             v[i] = IF i <= a THEN u[i] ELSE PackTun(p)[i - a]
    BY PackShape, ConcatProperties
<1>3. Begins(v, flat) /\ c < Len(v)
    OBVIOUS
<1> HIDE DEF a, z, v, c
<1>4. Len(PackTun(p)) = z + 2 /\ 256 * PackTun(p)[1] + PackTun(p)[2] = z
    BY PackShape DEF z
<1>5. Len(v) = a + (z + 2) /\ c < a + (z + 2)
    BY <1>1, <1>2, <1>3, <1>4
<1>6. CASE c - (a + 1) + 1 < 2
    BY <1>6, Zenon DEF Unpacked, c, a
<1>7. CASE ~(c - (a + 1) + 1 < 2)
    <2>1. ASSUME NEW j \in 1..2 PROVE msg[a + j] = PackTun(p)[j]
        <3>1. /\ a + j \in 1..(a + (z + 2)) /\ a + j \in 1..c
              /\ ~(a + j <= a) /\ (a + j) - a = j
            BY <1>1, <1>7
        <3>2. v[a + j] = PackTun(p)[j]
            BY <1>2, <1>4, <3>1, Zenon
        <3>3. flat[a + j] = v[a + j]
            BY <1>3, <1>5, <3>1 DEF Begins
        <3>4. msg[a + j] = flat[a + j]
            BY <3>1, SMTT(30) DEF c
        <3> QED BY <3>2, <3>3, <3>4, SMTT(30)
    <2>2. 1 \in 1..2 /\ 2 \in 1..2 /\ (a + 1) + 1 = a + 2
        BY <1>1
    <2>3. msg[a + 1] = PackTun(p)[1] /\ msg[(a + 1) + 1] = PackTun(p)[2]
        BY <2>1, <2>2
    <2>4. 256 * msg[a + 1] + msg[(a + 1) + 1] = z
        BY <1>4, <2>3
    <2>5. c - (a + 1) - 1 < z
        BY <1>1, <1>5
    <2>6. c - (a + 1) - 1 < 256 * msg[a + 1] + msg[(a + 1) + 1]
        BY <2>4, <2>5, Zenon
    <2> QED BY <1>7, <2>6, Zenon DEF Unpacked, c, a
<1> QED BY <1>6, <1>7

\* unpack_batch's docstring: "a truncated body ... stops processing the rest
\* of the batch (packets already parsed before the corruption are still
\* returned)".  Wherever a batch is cut, it yields exactly the packets that are
\* there in full, and no part of the one that is cut.
THEOREM CutBatch ==
    ASSUME NEW ps \in Seq(Seq(Nat)), NEW c \in 0..Len(FlattenSeq(Packed(ps)))
    PROVE  \E m \in 0..Len(ps) :
              /\ UnpackBatch(SubSeq(FlattenSeq(Packed(ps)), 1, c)) = SubSeq(ps, 1, m)
              /\ Len(Bytes(ps, m)) <= c
              /\ m < Len(ps) => c < Len(Bytes(ps, m + 1))
<1> DEFINE n == Len(ps)
           flat == Bytes(ps, n)
           msg == SubSeq(flat, 1, c)
           size(k) == Len(Bytes(ps, k))
           K == {k \in 0..n : size(k) <= c}
<1>1. n \in Nat /\ \A k \in 1..n : ps[k] \in Seq(Nat)
    BY LenProperties
<1>2. /\ flat = FlattenSeq(Packed(ps)) /\ Bytes(ps, 0) = <<>>
      /\ \A k \in 0..n : Bytes(ps, k) \in Seq(Nat)
      /\ \A k \in 1..n : Bytes(ps, k) = Bytes(ps, k - 1) \o PackTun(ps[k])
    BY BatchBytes
<1>3. flat \in Seq(Nat) /\ Len(flat) \in Nat /\ c \in Nat /\ c <= Len(flat)
    <2>1. n \in 0..n
        BY <1>1
    <2>2. flat \in Seq(Nat)
        BY <1>2, <2>1
    <2>3. c \in 0..Len(flat)
        BY <1>2
    <2> HIDE DEF flat
    <2>4. Len(flat) \in Nat
        BY <2>2, LenProperties
    <2> QED BY <2>2, <2>3, <2>4
<1>4. \A k \in 0..n : \A j \in k..n : Begins(Bytes(ps, k), Bytes(ps, j))
    BY BytesBegin
<1>5. \A k \in 0..n : Begins(Bytes(ps, k), flat)
    BY <1>1, <1>4
<1> HIDE DEF n, flat
<1>6. msg \in Seq(Nat) /\ Len(msg) = c /\ \A i \in 1..c : msg[i] = flat[i]
    <2>1. \A i \in 1..c : flat[i] \in Nat
        BY <1>3, LenProperties
    <2>2. /\ msg \in Seq(Nat) /\ Len(msg) = (IF 1 <= c THEN c - 1 + 1 ELSE 0)
          /\ \A i \in 1..(c - 1 + 1) : msg[i] = flat[1 + i - 1]
        BY <1>3, <2>1, SubSeqProperties
    <2> HIDE DEF msg
    <2> QED BY <1>3, <2>2
<1> HIDE DEF msg
<1>7. \A k \in 0..n : size(k) \in Nat
    BY <1>2, LenProperties
<1>8. PICK m \in K : \A k \in K : k <= m
    <2> DEFINE f == [k \in K |-> k]
    <2>1. IsFiniteSet(K)
        <3>1. IsFiniteSet(0..n) /\ K \subseteq 0..n
            BY <1>1, FS_Interval
        <3> QED BY <3>1, FS_Subset, Zenon
    <2>2. 0 \in K
        <3>1. size(0) = 0
            BY <1>2
        <3>2. 0 <= c /\ 0 \in 0..n
            BY <1>1, <1>3
        <3> HIDE DEF size
        <3> QED BY <3>1, <3>2
    <2>3. \A k \in K : f[k] \in Int /\ f[k] = k
        BY <1>1
    <2>4. \E x \in K : \A k \in K : f[k] <= f[x]
        <3> HIDE DEF f, K
        <3> QED BY <2>1, <2>2, <2>3, MaxByKey, Zenon
    <2> QED BY <2>3, <2>4
<1>9. m \in 0..n /\ m \in Nat /\ size(m) <= c
    BY <1>1, <1>8
<1>10. m < n => c < size(m + 1) /\ m + 1 \in 0..n /\ m + 1 \in 1..n /\ (m + 1) - 1 = m
    <2> SUFFICES ASSUME m < n PROVE c < size(m + 1) /\ m + 1 \in 0..n
                   /\ m + 1 \in 1..n /\ (m + 1) - 1 = m
        OBVIOUS
    <2>1. m + 1 \in 0..n /\ m + 1 \in 1..n /\ (m + 1) - 1 = m /\ ~(m + 1 <= m)
        BY <1>1, <1>9
    <2>2. m + 1 \notin K
        <3> HIDE DEF K
        <3> QED BY <1>8, <2>1
    <2>3. ~(size(m + 1) <= c) /\ size(m + 1) \in Nat
        BY <1>7, <2>1, <2>2
    <2> HIDE DEF size
    <2> QED BY <1>3, <2>1, <2>3
<1>11. ASSUME NEW k \in 0..m PROVE Begins(Bytes(ps, k), msg)
    <2> DEFINE u == Bytes(ps, k)
    <2>1. k \in 0..n /\ m \in k..n
        BY <1>1, <1>9
    <2>2. Begins(u, flat) /\ Begins(u, Bytes(ps, m))
        BY <1>4, <1>5, <2>1
    <2>3. Len(u) \in Nat /\ size(m) \in Nat /\ Len(u) <= size(m)
        BY <1>7, <1>9, <2>1, <2>2 DEF Begins
    <2>4. Len(u) <= c
        <3> HIDE DEF u, size
        <3> QED BY <1>3, <1>9, <2>3
    <2>5. \A i \in 1..Len(u) : i \in 1..c /\ flat[i] = u[i]
        <3> HIDE DEF u
        <3> QED BY <1>3, <2>2, <2>3, <2>4, SMTT(30) DEF Begins
    <2> HIDE DEF u
    <2>6. Begins(u, msg)
        BY <1>6, <2>4, <2>5 DEF Begins
    <2> QED BY <2>6 DEF u
<1>12. PICK from : /\ from = [i \in 1..(Len(msg) + 1) |-> Unpacked(msg, from, i)]
                   /\ UnpackBatch(msg) = from[1]
    BY <1>6, UnpackEquation, Zenon
<1>13. size(m) + 1 \in 1..(Len(msg) + 1)
    <2>1. size(m) \in Nat
        BY <1>7, <1>9
    <2> HIDE DEF size
    <2> QED BY <1>3, <1>6, <1>9, <2>1
<1>14. Unpacked(msg, from, size(m) + 1) = <<>>
    <2>1. CASE m < n
        <3> DEFINE u == Bytes(ps, m)
                   p == ps[m + 1]
        <3>1. u \in Seq(Nat) /\ p \in Seq(Nat) /\ Bytes(ps, m + 1) = u \o PackTun(p)
            BY <1>1, <1>2, <1>9, <1>10, <2>1, Zenon
        <3>2. Begins(Bytes(ps, m + 1), flat) /\ c < Len(Bytes(ps, m + 1)) /\ Len(u) <= c
            BY <1>5, <1>9, <1>10, <2>1
        <3> HIDE DEF u, p
        <3>3. Begins(u \o PackTun(p), flat) /\ c < Len(u \o PackTun(p))
            BY <3>1, <3>2, Zenon
        <3>4. Unpacked(msg, from, Len(u) + 1) = <<>>
            BY <1>3, <1>6, <3>1, <3>2, <3>3, CutHeader, Zenon
        <3> QED BY <3>4 DEF u
    <2>2. CASE ~(m < n)
        <3>1. m = n
            BY <1>1, <1>9, <2>2
        <3>2. size(m) = c
            <4>1. size(m) = Len(flat)
                BY <3>1 DEF flat
            <4> HIDE DEF size
            <4> QED BY <1>3, <1>9, <4>1
        <3>3. Len(msg) - (size(m) + 1) + 1 < 2
            <4> HIDE DEF size
            <4> QED BY <1>3, <1>6, <3>2
        <3> QED BY <3>3, Zenon DEF Unpacked
    <2> QED BY <2>1, <2>2
<1>15. from[size(m) + 1] = <<>>
    <2> HIDE DEF size
    <2> QED BY <1>12, <1>13, <1>14, ZenonT(30)
<1>16. from[1] = SubSeq(ps, 1, m)
    <2>1. Reads(msg, from)
        BY <1>12, Zenon DEF Reads
    <2> QED BY <1>6, <1>9, <1>11, <1>15, <2>1, UnpackPrefix, ZenonT(30) DEF n
<1>17. UnpackBatch(SubSeq(FlattenSeq(Packed(ps)), 1, c)) = SubSeq(ps, 1, m)
    BY <1>2, <1>12, <1>16, Zenon DEF msg
<1> QED BY <1>9, <1>10, <1>17 DEF n

\* An empty batch, which is a keepalive, yields no packets.
LEMMA EmptyBatch == FlattenSeq(<<>>) = <<>> /\ UnpackBatch(<<>>) = <<>>
    /\ Packed(<<>>) = <<>>
<1>1. FlattenSeq(<<>>) = <<>>
    BY DEF FlattenSeq
<1>2. Packed(<<>>) = <<>>
    BY DEF Packed
<1>3. <<>> \in Seq(Seq(Nat))
    OBVIOUS
<1> QED BY <1>1, <1>2, <1>3, BatchRoundTrip, Zenon

\* A packet is a string of bytes.
Packet == Seq(Nat)

\* A packet read last comes last.
LEMMA AppendToConcat ==
    ASSUME NEW s \in Seq(Packet), NEW t \in Seq(Packet), NEW e \in Packet
    PROVE  Append(s \o t, e) = s \o Append(t, e)
BY SMTT(60)

=============================================================================
