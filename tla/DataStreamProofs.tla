-------------------------- MODULE DataStreamProofs ---------------------------
(***************************************************************************)
(* The two data streams of a session implement Relay, and cut the bytes    *)
(* where the sender's packets end, for any packets, any sizes of the       *)
(* queues and of the header, and whatever recv() and send() give and take. *)
(*                                                                         *)
(* The argument: the packets sent are those that have left output.pkts,    *)
(* those that wait and those to come; the first are the bytes on the wire, *)
(* in the output queue and in what is left of output.mypkt, the last are   *)
(* the bytes in input.mypkt, in the input queue and in the network.        *)
(***************************************************************************)
EXTENDS DataStream, SequenceTheorems, WellFoundedInduction, TLAPS

-----------------------------------------------------------------------------
(* Sequences of sequences. *)

LEMMA Least ==
    ASSUME NEW T \in SUBSET Nat, T # {}
    PROVE  \E m \in T : \A k \in T : m <= k
  <1> DEFINE R == OpToRel(<, Nat)
  <1>1. IsWellFoundedOn(R, Nat)
    BY NatLessThanWellFounded, Zenon
  <1>2. \A k, m \in T : <<k, m>> \notin R => m <= k
    BY DEF OpToRel
  <1> HIDE DEF R
  <1>3. \E m \in T : \A k \in T : <<k, m>> \notin R
    BY <1>1, WFMin, Zenon
  <1> QED BY <1>2, <1>3, Zenon

Associate(x, y, z) == (x \o y) \o z = x \o (y \o z)

LEMMA Associates ==
    ASSUME NEW S, NEW x \in Seq(S), NEW y \in Seq(S), NEW z \in Seq(S)
    PROVE  Associate(x, y, z)
  BY ConcatAssociative DEF Associate

(* g[i] is the first i of the sequences in s, one after the other. *)
JoinsAt(g, s, i) == g[i] = IF i = 0 THEN <<>> ELSE g[i - 1] \o s[i]
Joins(g, s, n) == \A i \in 0 .. n : JoinsAt(g, s, i)

LEMMA JoinExists ==
    ASSUME NEW S, NEW s \in Seq(Seq(S)), NEW n \in 0 .. Len(s)
    PROVE  \E g \in [0 .. n -> Seq(S)] : Joins(g, s, n)
  <1> DEFINE T == {m \in 0 .. Len(s) : ~ \E g \in [0 .. m -> Seq(S)] : Joins(g, s, m)}
  <1>1. Len(s) \in Nat /\ \A i \in 1 .. Len(s) : s[i] \in Seq(S)
    BY ElementOfSeq, LenProperties
  <1>2. SUFFICES T = {}
    BY Zenon
  <1>3. SUFFICES ASSUME T # {} PROVE FALSE
    BY Zenon
  <1>4. PICK m \in T : \A k \in T : m <= k
    <2>1. T \in SUBSET Nat
      BY <1>1
    <2> HIDE DEF T
    <2> QED BY <1>3, <2>1, Least, Zenon
  <1>5. m \in 0 .. Len(s) /\ m \in Nat /\ ~ \E g \in [0 .. m -> Seq(S)] : Joins(g, s, m)
    BY <1>1, <1>4
  <1>6. CASE m = 0
    <2> DEFINE g == [i \in 0 .. 0 |-> <<>>]
    <2>0. <<>> \in Seq(S)
      BY EmptySeq
    <2>1. g \in [0 .. m -> Seq(S)]
      BY <1>6, <2>0
    <2>2. Joins(g, s, m)
      BY <1>6 DEF Joins, JoinsAt
    <2> QED BY <1>5, <2>1, <2>2, Zenon
  <1>7. CASE m # 0
    <2>1. m - 1 \in 0 .. Len(s) /\ ~(m <= m - 1) /\ m - 1 \in 0 .. m - 1 /\ m \in 1 .. Len(s)
      BY <1>1, <1>5, <1>7
    <2>2. m - 1 \notin T
      BY <1>4, <2>1, Zenon
    <2>3. PICK h \in [0 .. m - 1 -> Seq(S)] : Joins(h, s, m - 1)
      BY <2>1, <2>2, Zenon
    <2> DEFINE g == [i \in 0 .. m |-> IF i = m THEN h[m - 1] \o s[m] ELSE h[i]]
    <2>4. h[m - 1] \o s[m] \in Seq(S)
      <3>1. h[m - 1] \in Seq(S) /\ s[m] \in Seq(S)
        BY <1>1, <2>1, <2>3, Zenon
      <3> QED BY <3>1, ConcatProperties, Zenon
    <2>5. g \in [0 .. m -> Seq(S)]
      BY <1>5, <2>4
    <2>6. ASSUME NEW i \in 0 .. m
          PROVE  g[i] = IF i = 0 THEN <<>> ELSE g[i - 1] \o s[i]
      <3>1. CASE i = m
        <4>1. m - 1 \in 0 .. m /\ m - 1 # m
          BY <1>5, <1>7
        <4>2. g[i] = h[m - 1] \o s[m] /\ g[m - 1] = h[m - 1]
          BY <3>1, <4>1, Zenon
        <4> HIDE DEF g
        <4> QED BY <1>7, <3>1, <4>2, Zenon
      <3>2. CASE i # m
        <4>1. i \in 0 .. m - 1
          BY <1>5, <3>2
        <4>2. i # 0 => i - 1 \in 0 .. m /\ i - 1 # m
          BY <1>5, <4>1
        <4>3. h[i] = IF i = 0 THEN <<>> ELSE h[i - 1] \o s[i]
          BY <2>3, <4>1, Zenon DEF Joins, JoinsAt
        <4>4. g[i] = h[i] /\ (i # 0 => g[i - 1] = h[i - 1])
          BY <3>2, <4>2, Zenon
        <4> HIDE DEF g
        <4> QED BY <4>3, <4>4, Zenon
      <3> QED BY <3>1, <3>2, Zenon
    <2>7. Joins(g, s, m)
      BY <2>6, Zenon DEF Joins, JoinsAt
    <2> HIDE DEF g
    <2> QED BY <1>5, <2>5, <2>7, Zenon
  <1> QED BY <1>6, <1>7, Zenon

LEMMA BytesAre ==
    ASSUME NEW S, NEW s \in Seq(Seq(S)),
           NEW g \in [0 .. Len(s) -> Seq(S)], Joins(g, s, Len(s))
    PROVE  Bytes(s) = g[Len(s)]
  <1> DEFINE n == Len(s)
             F(h) == [i \in 0 .. n |-> IF i = 0 THEN <<>> ELSE h[i - 1] \o s[i]]
             f == CHOOSE h : h = F(h)
             T == {i \in 0 .. n : f[i] # g[i]}
  <1>1. n \in Nat
    BY LenProperties
  <1>2. Bytes(s) = f[n]
    BY Zenon DEF Bytes
  <1>3. g = F(g)
    BY Zenon DEF Joins, JoinsAt
  <1>4. f = F(f)
    <2> HIDE DEF F
    <2> QED BY <1>3, Zenon
  <1> HIDE DEF f
  <1>5. \A i \in 0 .. n : /\ f[i] = IF i = 0 THEN <<>> ELSE f[i - 1] \o s[i]
                          /\ g[i] = IF i = 0 THEN <<>> ELSE g[i - 1] \o s[i]
    BY <1>4, Zenon DEF Joins, JoinsAt
  <1> HIDE DEF F, n
  <1>6. T = {}
    <2>1. SUFFICES ASSUME T # {} PROVE FALSE
      BY Zenon
    <2>2. PICK m \in T : \A k \in T : m <= k
      <3>1. T \in SUBSET Nat
        BY <1>1
      <3> HIDE DEF T
      <3> QED BY <2>1, <3>1, Least, Zenon
    <2>3. m \in 0 .. n /\ f[m] # g[m]
      BY <2>2
    <2>4. CASE m = 0
      BY <1>5, <2>3, <2>4, Zenon
    <2>5. CASE m # 0
      <3>1. m - 1 \in 0 .. n /\ ~(m <= m - 1)
        BY <1>1, <2>3, <2>5
      <3>2. f[m - 1] = g[m - 1]
        BY <2>2, <3>1, Zenon
      <3> QED BY <1>5, <2>3, <2>5, <3>2, Zenon
    <2> QED BY <2>4, <2>5, Zenon
  <1>7. n \in 0 .. n
    BY <1>1
  <1>8. f[n] = g[n]
    BY <1>6, <1>7, Zenon
  <1> QED BY <1>2, <1>8, Zenon DEF n

LEMMA BytesOfNone == Bytes(<<>>) = <<>>
  <1>1. <<>> \in Seq(Seq(Nat)) /\ Len(<<>>) = 0 /\ 0 \in 0 .. 0 /\ 0 \in 0 .. Len(<<>>)
    BY EmptySeq
  <1>2. PICK g \in [0 .. 0 -> Seq(Nat)] : Joins(g, <<>>, 0)
    BY <1>1, JoinExists, Zenon
  <1>3. Bytes(<<>>) = g[0]
    BY <1>1, <1>2, BytesAre, Zenon
  <1>4. g[0] = <<>>
    BY <1>1, <1>2, Zenon DEF Joins, JoinsAt
  <1> QED BY <1>3, <1>4, Zenon

LEMMA BytesAppend ==
    ASSUME NEW S, NEW s \in Seq(Seq(S)), NEW p \in Seq(S)
    PROVE  /\ Bytes(s) \in Seq(S)
           /\ Bytes(Append(s, p)) = Bytes(s) \o p
  <1> DEFINE n == Len(s)
             t == Append(s, p)
  <1>1. n \in Nat
    BY LenProperties
  <1>2. /\ t \in Seq(Seq(S)) /\ Len(t) = n + 1
        /\ \A i \in 1 .. n : t[i] = s[i]
        /\ t[n + 1] = p
    BY AppendProperties
  <1>3. /\ n + 1 \in 0 .. Len(t) /\ n + 1 \in Nat /\ n + 1 \in 0 .. n + 1 /\ n \in 0 .. n + 1
        /\ n \in 0 .. n /\ (n + 1) - 1 = n /\ n + 1 # 0
    BY <1>1, <1>2
  <1> HIDE DEF t
  <1>4. PICK g \in [0 .. n + 1 -> Seq(S)] : Joins(g, t, n + 1)
    BY <1>2, <1>3, JoinExists, Zenon
  <1>5. Bytes(t) = g[n + 1]
    <2>1. g \in [0 .. Len(t) -> Seq(S)] /\ Joins(g, t, Len(t))
      BY <1>2, <1>4, Zenon
    <2> QED BY <1>2, <2>1, BytesAre, Zenon
  <1>6. g[n + 1] = g[n] \o p
    <2>1. JoinsAt(g, t, n + 1)
      BY <1>3, <1>4, Zenon DEF Joins
    <2> QED BY <1>2, <1>3, <2>1, Zenon DEF JoinsAt
  <1> DEFINE h == [i \in 0 .. n |-> g[i]]
  <1>7. h \in [0 .. n -> Seq(S)]
    BY <1>1, <1>4
  <1>8. ASSUME NEW i \in 0 .. n
        PROVE  h[i] = IF i = 0 THEN <<>> ELSE h[i - 1] \o s[i]
    <2>1. i \in 0 .. n + 1 /\ (i # 0 => i - 1 \in 0 .. n /\ i \in 1 .. n)
      BY <1>1
    <2>2. g[i] = IF i = 0 THEN <<>> ELSE g[i - 1] \o s[i]
      BY <1>2, <1>4, <2>1, Zenon DEF Joins, JoinsAt
    <2>3. h[i] = g[i] /\ (i # 0 => h[i - 1] = g[i - 1])
      BY <2>1, Zenon
    <2> HIDE DEF h
    <2> QED BY <2>2, <2>3, Zenon
  <1>9. Joins(h, s, n)
    BY <1>8, Zenon DEF Joins, JoinsAt
  <1>10. h[n] = g[n] /\ g[n] \in Seq(S)
    BY <1>3, <1>4, Zenon
  <1> HIDE DEF h
  <1>11. Bytes(s) = h[n]
    BY <1>7, <1>9, BytesAre, Zenon
  <1> QED BY <1>5, <1>6, <1>10, <1>11, Zenon DEF t

LEMMA BytesConcat ==
    ASSUME NEW S, NEW s \in Seq(Seq(S)), NEW t \in Seq(Seq(S))
    PROVE  Bytes(s \o t) = Bytes(s) \o Bytes(t)
  <1> DEFINE Same(u) == Bytes(s \o u) = Bytes(s) \o Bytes(u)
             T == {n \in Nat : \E u \in Seq(Seq(S)) : Len(u) = n /\ ~Same(u)}
  <1>1. SUFFICES T = {}
    <2>1. Len(t) \in Nat
      OBVIOUS
    <2> QED BY <1>1, <2>1, Zenon
  <1>2. SUFFICES ASSUME T # {} PROVE FALSE
    BY Zenon
  <1>3. PICK n \in T : \A k \in T : n <= k
    <2>1. T \in SUBSET Nat
      BY Zenon
    <2> HIDE DEF T
    <2> QED BY <1>2, <2>1, Least, Zenon
  <1>4. PICK u \in Seq(Seq(S)) : Len(u) = n /\ ~Same(u)
    BY <1>3, Zenon
  <1>5. n \in Nat
    BY <1>3, Zenon
  <1>0. Bytes(s) \in Seq(S) /\ Bytes(<<>>) = <<>>
    <2>1. <<>> \in Seq(S)
      BY EmptySeq
    <2> QED BY <2>1, BytesAppend, BytesOfNone, Zenon
  <1>6. CASE u = <<>>
    <2>1. s \o <<>> = s
      BY ConcatEmptySeq, Zenon
    <2>2. Bytes(s) \o <<>> = Bytes(s)
      BY <1>0, ConcatEmptySeq, Zenon
    <2> QED BY <1>0, <1>4, <1>6, <2>1, <2>2, Zenon
  <1>7. CASE u # <<>>
    <2>1. PICK v \in Seq(Seq(S)), e \in Seq(S) : u = Append(v, e)
      BY <1>7, SequenceEmptyOrAppend, Zenon
    <2>2. Len(v) \in Nat /\ ~(n <= Len(v))
      BY <1>4, <1>5, <2>1
    <2>3. Same(v)
      BY <1>3, <2>2, Zenon
    <2>4. s \o v \in Seq(Seq(S))
      BY ConcatProperties, Zenon
    <2>5. s \o u = Append(s \o v, e)
      <3>1. u = v \o <<e>> /\ Append(s \o v, e) = (s \o v) \o <<e>>
        BY <2>1, <2>4, AppendIsConcat, Zenon
      <3>2. <<e>> \in Seq(Seq(S))
        OBVIOUS
      <3>3. Associate(s, v, <<e>>)
        BY <3>2, Associates, Zenon
      <3> QED BY <3>1, <3>3, Zenon DEF Associate
    <2>6. /\ Bytes(v) \in Seq(S)
          /\ Bytes(u) = Bytes(v) \o e
          /\ Bytes(s \o u) = Bytes(s \o v) \o e
      BY <2>1, <2>4, <2>5, BytesAppend, Zenon
    <2>7. (Bytes(s) \o Bytes(v)) \o e = Bytes(s) \o (Bytes(v) \o e)
      <3>1. Bytes(s) \in Seq(S) /\ Bytes(v) \in Seq(S)
        BY <1>0, <2>6, Zenon
      <3>2. Associate(Bytes(s), Bytes(v), e)
        BY <3>1, Associates, Zenon
      <3> QED BY <3>2, Zenon DEF Associate
    <2> QED BY <1>4, <2>3, <2>6, <2>7, Zenon
  <1> QED BY <1>6, <1>7, Zenon

LEMMA BytesHead ==
    ASSUME NEW S, NEW s \in Seq(Seq(S)), s # <<>>
    PROVE  Bytes(s) = Head(s) \o Bytes(Tail(s))
  <1>1. Head(s) \in Seq(S) /\ Tail(s) \in Seq(Seq(S))
    BY HeadTailProperties, Zenon
  <1>2. /\ <<Head(s)>> \in Seq(Seq(S)) /\ <<>> \in Seq(Seq(S)) /\ <<>> \in Seq(S)
        /\ Append(<<>>, Head(s)) = <<Head(s)>> /\ s = <<Head(s)>> \o Tail(s)
    BY <1>1
  <1>3. Bytes(<<Head(s)>>) = Bytes(<<>>) \o Head(s) /\ Bytes(<<>>) = <<>>
    BY <1>1, <1>2, BytesAppend, BytesOfNone, Zenon
  <1>4. Bytes(<<Head(s)>>) = Head(s)
    BY <1>1, <1>3, ConcatEmptySeq, Zenon
  <1>5. Bytes(<<Head(s)>> \o Tail(s)) = Bytes(<<Head(s)>>) \o Bytes(Tail(s))
    BY <1>1, <1>2, BytesConcat, Zenon
  <1> QED BY <1>2, <1>4, <1>5, Zenon

(* Two ways of writing the same bytes, the first parts of the same length. *)
LEMMA Cut ==
    ASSUME NEW S, NEW x \in Seq(S), NEW y \in Seq(S), NEW p \in Seq(S), NEW r \in Seq(S),
           x \o y = p \o r, Len(x) = Len(p)
    PROVE  x = p /\ y = r
  <1>1. /\ Len(x) \in Nat /\ Len(y) \in Nat
        /\ \A i \in 1 .. Len(x) + Len(y) : (x \o y)[i] = IF i <= Len(x) THEN x[i] ELSE y[i - Len(x)]
        /\ \A i \in 1 .. Len(p) + Len(r) : (p \o r)[i] = IF i <= Len(p) THEN p[i] ELSE r[i - Len(p)]
    <2>1. Len(x) \in Nat /\ Len(y) \in Nat
      OBVIOUS
    <2> QED BY <2>1, ConcatProperties, Zenon
  <1>2. \A i \in 1 .. Len(x) : /\ i \in 1 .. Len(x) + Len(y) /\ i \in 1 .. Len(p) + Len(r)
                               /\ i <= Len(x) /\ i <= Len(p)
    BY <1>1
  <1>3. \A i \in 1 .. Len(x) : x[i] = p[i]
    BY <1>1, <1>2, Zenon
  <1>4. x = p
    BY <1>3, SeqEqual, Zenon
  <1>5. y = r
    <2>1. x \o y = x \o r
      BY <1>4, Zenon
    <2> QED BY <2>1, ConcatSimplifications, Zenon
  <1> QED BY <1>4, <1>5, Zenon

(* More bytes behind some. *)
LEMMA LongerBy ==
    ASSUME NEW S, NEW x \in Seq(S), NEW y \in Seq(S)
    PROVE  x \o y = x \/ Abstract!Extends(x \o y, x)
  <1>1. /\ Len(x) \in Nat /\ Len(y) \in Nat /\ x \o y \in Seq(S)
        /\ Len(x \o y) = Len(x) + Len(y)
        /\ SubSeq(x \o y, 1, Len(x)) = x
    OBVIOUS
  <1>2. Len(x \o y) >= Len(x)
    BY <1>1
  <1> QED BY <1>1, <1>2, Zenon DEF Abstract!Extends

-----------------------------------------------------------------------------
(* The state of the two streams. *)

Pkts == {p \in Seq(Nat) : Len(p) >= Hdr /\ Len(p) = Hdr + p[1]}
Queues == {q \in [data : Seq(Nat), tail : Nat] : q.tail + Len(q.data) <= Size}
Parts == [length : Nat, data : Seq(Nat)]
Inputs == [queue : Queues, mypkt : Parts \cup {NoPkt}, pkts : Seq(Pkts)]
Outputs == [pkts : Seq(Pkts), mypkt : Seq(Nat) \cup {NoPkt}, partial : Nat, queue : Queues]

NoPart == [length |-> 0, data |-> <<>>]
Begun(in) == IF in.mypkt = NoPkt THEN NoPart ELSE in.mypkt

(* What input.mypkt, the queue and the network hold is the packets to come;   *)
(* the length of a packet that is begun is the length of the first of them.   *)
Reads(pkt, q, nt, coming) ==
    /\ pkt.data \o (q.data \o nt) = Bytes(coming)
    /\ pkt.length = 0 => pkt.data = <<>>
    /\ pkt.length > 0 => /\ coming # <<>> /\ pkt.length = Len(Head(coming))
                         /\ Len(pkt.data) <= pkt.length

LEMMA PktsAreSeqs == \A s \in Seq(Pkts) : s \in Seq(Seq(Nat)) /\ Bytes(s) \in Seq(Nat)
  <1>1. Pkts \subseteq Seq(Nat)
    BY Zenon DEF Pkts
  <1>2. \A s \in Seq(Pkts) : s \in Seq(Seq(Nat))
    BY <1>1, SeqMonotonic, Zenon
  <1>3. <<>> \in Seq(Nat)
    BY EmptySeq
  <1> QED BY <1>2, <1>3, BytesAppend, Zenon

LEMMA SplitAt ==
    ASSUME NEW S, NEW d \in Seq(S), NEW n \in 0 .. Len(d)
    PROVE  /\ SubSeq(d, 1, n) \in Seq(S) /\ Len(SubSeq(d, 1, n)) = n
           /\ SubSeq(d, n + 1, Len(d)) \in Seq(S) /\ Len(SubSeq(d, n + 1, Len(d))) = Len(d) - n
           /\ SubSeq(d, 1, n) \o SubSeq(d, n + 1, Len(d)) = d
  <1>1. /\ SubSeq(d, 1, n) \in Seq(S) /\ Len(SubSeq(d, 1, n)) = n
        /\ SubSeq(d, n + 1, Len(d)) \in Seq(S) /\ Len(SubSeq(d, n + 1, Len(d))) = Len(d) - n
    OBVIOUS
  <1>2. 1 \in 1 .. Len(d) + 1 /\ n \in 1 - 1 .. Len(d) /\ Len(d) \in n .. Len(d)
    OBVIOUS
  <1>3. SubSeq(d, 1, n) \o SubSeq(d, n + 1, Len(d)) = SubSeq(d, 1, Len(d))
    BY <1>2, ConcatAdjacentSubSeq, Zenon
  <1>4. SubSeq(d, 1, Len(d)) = d
    BY SubSeqFull, Zenon
  <1> QED BY <1>1, <1>3, <1>4, Zenon

Middle(d, k, m, S) ==
    /\ SubSeq(d, k + 1, m) \in Seq(S) /\ Len(SubSeq(d, k + 1, m)) = m - k
    /\ SubSeq(d, m + 1, Len(d)) \in Seq(S)
    /\ SubSeq(d, k + 1, m) \o SubSeq(d, m + 1, Len(d)) = SubSeq(d, k + 1, Len(d))

LEMMA SplitBehind ==
    ASSUME NEW S, NEW d \in Seq(S), NEW k \in 0 .. Len(d), NEW m \in k .. Len(d)
    PROVE  Middle(d, k, m, S)
  <1>1. SubSeq(d, k + 1, m) \in Seq(S) /\ Len(SubSeq(d, k + 1, m)) = m - k
    OBVIOUS
  <1>2. SubSeq(d, m + 1, Len(d)) \in Seq(S)
    OBVIOUS
  <1>3. SubSeq(d, k + 1, m) \o SubSeq(d, m + 1, Len(d)) = SubSeq(d, k + 1, Len(d))
    <2> DEFINE j == k + 1
    <2>1. j \in 1 .. Len(d) + 1 /\ m \in j - 1 .. Len(d) /\ Len(d) \in m .. Len(d)
      OBVIOUS
    <2> HIDE DEF j
    <2>2. SubSeq(d, j, m) \o SubSeq(d, m + 1, Len(d)) = SubSeq(d, j, Len(d))
      BY <2>1, ConcatAdjacentSubSeq, Zenon
    <2> QED BY <2>2, Zenon DEF j
  <1> QED BY <1>1, <1>2, <1>3, Zenon DEF Middle

LEMMA QueueRead ==
    ASSUME NEW q \in Queues, NEW n \in 0 .. Len(q.data)
    PROVE  /\ queue_r(q, n) \in Queues
           /\ SubSeq(q.data, 1, n) \in Seq(Nat) /\ Len(SubSeq(q.data, 1, n)) = n
           /\ SubSeq(q.data, 1, n) \o queue_r(q, n).data = q.data
  <1> DEFINE d == q.data
             l == Len(d)
             rest == SubSeq(d, n + 1, l)
  <1>1. d \in Seq(Nat) /\ q.tail \in Nat /\ l \in Nat /\ q.tail + l <= Size /\ Size \in Nat
    BY DataStreamAssumption DEF Queues
  <1>2. /\ SubSeq(d, 1, n) \in Seq(Nat) /\ Len(SubSeq(d, 1, n)) = n
        /\ rest \in Seq(Nat) /\ Len(rest) = l - n
        /\ SubSeq(d, 1, n) \o rest = d
    BY <1>1, SplitAt, Zenon
  <1> HIDE DEF l, rest
  <1>4. /\ queue_r(q, n).data = rest
        /\ queue_r(q, n) = [data |-> rest, tail |-> queue_r(q, n).tail]
        /\ queue_r(q, n).tail \in {0, q.tail + n}
    BY DEF queue_r, rest, l
  <1>5. queue_r(q, n).tail \in Nat /\ queue_r(q, n).tail + Len(rest) <= Size
    BY <1>1, <1>2, <1>4, SMTT(20)
  <1>6. queue_r(q, n) \in Queues
    <2> DEFINE t == queue_r(q, n).tail
               c == queue_r(q, n)
    <2>1. t \in Nat /\ t + Len(rest) <= Size /\ c = [data |-> rest, tail |-> t] /\ rest \in Seq(Nat)
      BY <1>2, <1>4, <1>5
    <2> HIDE DEF t, c
    <2>2. c \in Queues
      BY <2>1 DEF Queues
    <2> QED BY <2>2 DEF c
  <1> QED BY <1>2, <1>4, <1>6, Zenon

LEMMA EmptyLen == \A S : \A s \in Seq(S) : Len(s) \in Nat /\ (Len(s) = 0 <=> s = <<>>)
  OBVIOUS

(* The header of the next packet is read. *)
LEMMA HeaderRead ==
    ASSUME NEW pkt \in Parts, NEW q \in Queues, NEW nt \in Seq(Nat), NEW coming \in Seq(Pkts),
           Reads(pkt, q, nt, coming), pkt.length = 0, Len(q.data) >= Hdr
    PROVE  LET h == SubSeq(q.data, 1, Hdr)
               p == [length |-> PktLength(h), data |-> h]
           IN  p \in Parts /\ queue_r(q, Hdr) \in Queues /\ Reads(p, queue_r(q, Hdr), nt, coming)
  <1> DEFINE h == SubSeq(q.data, 1, Hdr)
             p == [length |-> PktLength(h), data |-> h]
             qq == queue_r(q, Hdr)
             first == Head(coming)
             later == Bytes(Tail(coming))
             all == Bytes(coming)
  <1>1. Hdr \in Nat /\ Hdr >= 1 /\ q.data \in Seq(Nat) /\ Len(q.data) \in Nat
    BY DataStreamAssumption DEF Queues
  <1>2. qq \in Queues /\ h \in Seq(Nat) /\ Len(h) = Hdr /\ h \o qq.data = q.data
    <2>1. Hdr \in 0 .. Len(q.data)
      BY <1>1
    <2> QED BY <2>1, QueueRead, Zenon
  <1>3. q.data \o nt = all
    <2>1. pkt.data = <<>> /\ pkt.data \o (q.data \o nt) = all
      BY Zenon DEF Reads
    <2>2. q.data \o nt \in Seq(Nat)
      BY <1>1, ConcatProperties, Zenon
    <2> QED BY <2>1, <2>2, ConcatEmptySeq, Zenon
  <1>4. all \in Seq(Nat) /\ coming \in Seq(Seq(Nat)) /\ Bytes(<<>>) = <<>>
    <2>1. <<>> \in Seq(Nat)
      BY EmptySeq
    <2> QED BY <2>1, PktsAreSeqs, BytesAppend, BytesOfNone, Zenon
  <1>5. /\ Len(all) \in Nat /\ Len(all) >= Hdr
        /\ all[1] = q.data[1]
    BY <1>1, <1>3
  <1>6. coming # <<>>
    <2>1. all # <<>>
      BY <1>1, <1>5
    <2> QED BY <1>4, <2>1, Zenon
  <1>7. first \in Pkts /\ Tail(coming) \in Seq(Pkts)
    BY <1>6, HeadTailProperties, Zenon
  <1>8. all = first \o later /\ later \in Seq(Nat)
    BY <1>4, <1>6, <1>7, BytesHead, PktsAreSeqs, Zenon
  <1>9. first \in Seq(Nat) /\ Len(first) >= Hdr /\ Len(first) = Hdr + first[1] /\ Len(first) \in Nat
    <2> HIDE DEF first
    <2> QED BY <1>7 DEF Pkts
  <1> HIDE DEF first, later, all
  <1>10. all[1] = first[1]
    BY <1>1, <1>8, <1>9
  <1>11. h[1] = q.data[1]
    BY <1>1
  <1>12. PktLength(h) = Len(first)
    <2> HIDE DEF h
    <2> QED BY <1>5, <1>9, <1>10, <1>11, Zenon DEF PktLength
  <1>13. h \o (qq.data \o nt) = all
    <2>1. qq.data \in Seq(Nat)
      <3> HIDE DEF qq
      <3> QED BY <1>2 DEF Queues
    <2> HIDE DEF h, qq
    <2>2. Associate(h, qq.data, nt)
      BY <1>2, <2>1, Associates, Zenon
    <2> QED BY <1>2, <1>3, <2>2, Zenon DEF Associate
  <1>14. p \in Parts /\ p.length = Len(first) /\ p.data = h
    <2> HIDE DEF h
    <2> QED BY <1>2, <1>9, <1>12, Zenon DEF Parts
  <1>15. Len(first) # 0
    BY <1>1, <1>9
  <1> HIDE DEF p, h, qq
  <1>16. Reads(p, qq, nt, coming)
    BY <1>2, <1>6, <1>9, <1>13, <1>14, <1>15, Zenon DEF Reads, first, all
  <1> QED BY <1>2, <1>14, <1>16, Zenon DEF p, h, qq

(* Bytes of the packet that is begun are read. *)
LEMMA BodyRead ==
    ASSUME NEW pkt \in Parts, NEW q \in Queues, NEW nt \in Seq(Nat), NEW coming \in Seq(Pkts),
           Reads(pkt, q, nt, coming), NEW b \in 0 .. Len(q.data),
           pkt.length = 0 => b = 0, pkt.length > 0 => b <= pkt.length - Len(pkt.data)
    PROVE  LET p == [pkt EXCEPT !.data = @ \o SubSeq(q.data, 1, b)]
               qq == IF b > 0 THEN queue_r(q, b) ELSE q
           IN  p \in Parts /\ qq \in Queues /\ Reads(p, qq, nt, coming)
  <1> DEFINE h == SubSeq(q.data, 1, b)
             p == [pkt EXCEPT !.data = @ \o h]
             qq == IF b > 0 THEN queue_r(q, b) ELSE q
             all == Bytes(coming)
  <1>1. /\ q.data \in Seq(Nat) /\ Len(q.data) \in Nat /\ b \in Nat
        /\ pkt.data \in Seq(Nat) /\ Len(pkt.data) \in Nat /\ pkt.length \in Nat
    BY DEF Queues, Parts
  <1>2. qq \in Queues /\ h \in Seq(Nat) /\ Len(h) = b /\ h \o qq.data = q.data
    <2>1. /\ queue_r(q, b) \in Queues /\ h \in Seq(Nat) /\ Len(h) = b
          /\ h \o queue_r(q, b).data = q.data
      BY QueueRead, Zenon
    <2>2. CASE b > 0
      BY <2>1, <2>2, Zenon
    <2>3. CASE ~(b > 0)
      <3>1. b = 0
        BY <1>1, <2>3
      <3>2. h = <<>> /\ <<>> \o q.data = q.data
        BY <1>1, <2>1, <3>1, EmptyLen, ConcatEmptySeq, Zenon
      <3> HIDE DEF h
      <3> QED BY <2>1, <2>3, <3>2, Zenon
    <2> QED BY <2>2, <2>3, Zenon
  <1> HIDE DEF h, qq, all
  <1>3. /\ pkt.data \o h \in Seq(Nat) /\ Len(pkt.data \o h) = Len(pkt.data) + b
        /\ qq.data \in Seq(Nat)
    <2>1. qq.data \in Seq(Nat)
      BY <1>2 DEF Queues
    <2> QED BY <1>1, <1>2, <2>1, ConcatProperties, Zenon
  <1>4. p \in Parts /\ p.length = pkt.length /\ p.data = pkt.data \o h
    BY <1>3, Zenon DEF Parts
  <1> HIDE DEF p
  <1>5. (pkt.data \o h) \o (qq.data \o nt) = all
    <2>1. qq.data \o nt \in Seq(Nat)
      BY <1>3, ConcatProperties, Zenon
    <2>2. Associate(pkt.data, h, qq.data \o nt)
      BY <1>1, <1>2, <2>1, Associates, Zenon
    <2>3. Associate(h, qq.data, nt)
      BY <1>2, <1>3, Associates, Zenon
    <2>4. pkt.data \o (q.data \o nt) = all
      BY Zenon DEF Reads, all
    <2> QED BY <1>2, <2>2, <2>3, <2>4, Zenon DEF Associate
  <1>6. CASE pkt.length = 0
    <2>1. b = 0 /\ ~(pkt.length > 0)
      BY <1>6
    <2>2. h = <<>> /\ pkt.data = <<>>
      BY <1>2, <1>6, <2>1, EmptyLen, Zenon DEF Reads
    <2>3. pkt.data \o h = <<>>
      BY <1>1, <2>2, ConcatEmptySeq, Zenon
    <2> QED BY <1>2, <1>4, <1>5, <1>6, <2>1, <2>3, Zenon DEF Reads, all, h, p, qq
  <1>7. CASE pkt.length # 0
    <2>1. pkt.length > 0
      BY <1>1, <1>7
    <2>2. coming # <<>> /\ pkt.length = Len(Head(coming))
      BY <2>1, Zenon DEF Reads
    <2>3. Len(pkt.data \o h) <= pkt.length
      BY <1>1, <1>3, <2>1
    <2>4. Reads(p, qq, nt, coming)
      BY <1>4, <1>5, <1>7, <2>2, <2>3, Zenon DEF Reads, all
    <2> QED BY <1>2, <1>4, <2>4, Zenon DEF h, p, qq
  <1> QED BY <1>6, <1>7, Zenon

(* The packet is whole. *)
LEMMA PacketDone ==
    ASSUME NEW pkt \in Parts, NEW q \in Queues, NEW nt \in Seq(Nat), NEW coming \in Seq(Pkts),
           Reads(pkt, q, nt, coming), pkt.length > 0, pkt.length = Len(pkt.data)
    PROVE  coming # <<>> /\ pkt.data = Head(coming) /\ Reads(NoPart, q, nt, Tail(coming))
  <1> DEFINE first == Head(coming)
             later == Bytes(Tail(coming))
             rest == q.data \o nt
  <1>1. coming # <<>> /\ pkt.length = Len(first) /\ pkt.data \o rest = Bytes(coming)
    BY Zenon DEF Reads
  <1>2. pkt.data \in Seq(Nat) /\ q.data \in Seq(Nat)
    BY DEF Parts, Queues
  <1>3. rest \in Seq(Nat)
    BY <1>2, ConcatProperties, Zenon
  <1>4. first \in Seq(Nat) /\ Tail(coming) \in Seq(Pkts)
    <2>1. first \in Pkts /\ Tail(coming) \in Seq(Pkts)
      BY <1>1, HeadTailProperties, Zenon
    <2> QED BY <2>1, Zenon DEF Pkts
  <1>5. later \in Seq(Nat) /\ Bytes(coming) = first \o later
    BY <1>1, <1>4, PktsAreSeqs, BytesHead, Zenon
  <1> HIDE DEF first, later
  <1>6. pkt.data = first /\ rest = later
    <2> HIDE DEF rest
    <2>1. pkt.data \o rest = first \o later /\ Len(pkt.data) = Len(first)
      BY <1>1, <1>5, Zenon
    <2> QED BY <1>2, <1>3, <1>4, <1>5, <2>1, Cut, Zenon
  <1>7. <<>> \o rest = later
    BY <1>3, <1>6, ConcatEmptySeq, Zenon
  <1>8. NoPart.data = <<>> /\ NoPart.length = 0 /\ ~(0 > 0)
    BY DEF NoPart
  <1>9. Reads(NoPart, q, nt, Tail(coming))
    BY <1>7, <1>8, Zenon DEF Reads, later
  <1> QED BY <1>1, <1>6, <1>9, Zenon DEF first

(* What a call of buffer2array does: it may complete one packet. *)
Cuts(in, r, nt, coming) ==
    /\ r \in Inputs
    /\ \/ r.pkts = in.pkts /\ Reads(Begun(r), r.queue, nt, coming)
       \/ /\ coming # <<>> /\ r.pkts = Append(in.pkts, Head(coming))
          /\ Reads(Begun(r), r.queue, nt, Tail(coming))

LEMMA Buffer2ArrayCuts ==
    ASSUME NEW in \in Inputs, NEW nt \in Seq(Nat), NEW coming \in Seq(Pkts),
           Reads(Begun(in), in.queue, nt, coming)
    PROVE  Cuts(in, buffer2array(in).in, nt, coming)
  <1> DEFINE pkt0 == Begun(in)
             q0 == IF pkt0.length = 0 /\ queue_data(in.queue) < Hdr
                   THEN queue_zero(in.queue) ELSE in.queue
             header == pkt0.length = 0 /\ queue_data(q0) >= Hdr
             h == SubSeq(q0.data, 1, Hdr)
             q1 == IF header THEN queue_r(q0, Hdr) ELSE q0
             pkt1 == IF header THEN [length |-> PktLength(h), data |-> h] ELSE pkt0
             b == IF pkt1.length > 0 THEN Smaller(queue_data(q1), pkt1.length - Len(pkt1.data)) ELSE 0
             pkt2 == [pkt1 EXCEPT !.data = @ \o SubSeq(q1.data, 1, b)]
             q2 == IF b > 0 THEN queue_r(q1, b) ELSE q1
             whole == pkt2.length > 0 /\ pkt2.length = Len(pkt2.data)
             r == [queue |-> q2, mypkt |-> IF whole THEN NoPkt ELSE pkt2,
                   pkts |-> IF whole THEN Append(in.pkts, pkt2.data) ELSE in.pkts]
  <1>1. /\ in.queue \in Queues /\ in.mypkt \in Parts \cup {NoPkt} /\ in.pkts \in Seq(Pkts)
        /\ NoPart \in Parts /\ pkt0 \in Parts
    <2>1. <<>> \in Seq(Nat) /\ 0 \in Nat
      BY EmptySeq
    <2> QED BY <2>1, Zenon DEF Inputs, Begun, NoPart, Parts
  <1>2. buffer2array(in).in = IF queue_data(in.queue) = 0 THEN in ELSE r
    BY Zenon DEF buffer2array, Begun, NoPart
  <1>3. SUFFICES Cuts(in, r, nt, coming)
    <2>1. Cuts(in, in, nt, coming)
      BY Zenon DEF Cuts
    <2> HIDE DEF r
    <2> QED BY <1>2, <1>3, <2>1, Zenon
  <1>4. q0 \in Queues /\ q0.data = in.queue.data
    <2> DEFINE q == in.queue
    <2>1. q \in Queues /\ q.data \in Seq(Nat) /\ q.tail \in Nat /\ q.tail + Len(q.data) <= Size
      BY <1>1 DEF Queues
    <2> HIDE DEF q
    <2>2. 0 + Len(q.data) <= Size /\ 0 \in Nat
      BY <2>1, DataStreamAssumption
    <2>3. queue_zero(q) \in [data : Seq(Nat), tail : Nat] /\ queue_zero(q).data = q.data
          /\ queue_zero(q).tail = 0
      BY <2>1, <2>2, Zenon DEF queue_zero, Queues
    <2>4. queue_zero(q) \in Queues /\ queue_zero(q).data = q.data
      BY <2>2, <2>3, Zenon DEF Queues
    <2> QED BY <2>1, <2>4, Zenon DEF q
  <1>5. Reads(pkt0, q0, nt, coming)
    BY <1>4, Zenon DEF Reads
  <1> HIDE DEF pkt0, q0
  <1>6. pkt1 \in Parts /\ q1 \in Queues /\ Reads(pkt1, q1, nt, coming)
    <2>1. CASE header
      <3>1. pkt0.length = 0 /\ Len(q0.data) >= Hdr
        BY <2>1, Zenon DEF queue_data
      <3>2. LET p == [length |-> PktLength(h), data |-> h]
            IN  p \in Parts /\ queue_r(q0, Hdr) \in Queues /\ Reads(p, queue_r(q0, Hdr), nt, coming)
        BY <1>1, <1>4, <1>5, <3>1, HeaderRead, Zenon
      <3> QED BY <2>1, <3>2, Zenon
    <2>2. CASE ~header
      BY <1>1, <1>4, <1>5, <2>2, Zenon
    <2> QED BY <2>1, <2>2, Zenon
  <1> HIDE DEF pkt1, q1
  <1>7. /\ b \in 0 .. Len(q1.data)
        /\ pkt1.length = 0 => b = 0
        /\ pkt1.length > 0 => b <= pkt1.length - Len(pkt1.data)
    <2> DEFINE l == Len(q1.data)
               n == pkt1.length
               k == Len(pkt1.data)
    <2>1. l \in Nat /\ n \in Nat /\ k \in Nat /\ (n > 0 => k <= n)
      BY <1>6 DEF Queues, Parts, Reads
    <2>2. b = IF n > 0 THEN IF l < n - k THEN l ELSE n - k ELSE 0
      BY Zenon DEF Smaller, queue_data
    <2> HIDE DEF b, l, n, k
    <2>3. b \in 0 .. l /\ (n = 0 => b = 0) /\ (n > 0 => b <= n - k)
      BY <2>1, <2>2
    <2> QED BY <2>3 DEF l, n, k
  <1> HIDE DEF b
  <1>8. pkt2 \in Parts /\ q2 \in Queues /\ Reads(pkt2, q2, nt, coming)
    BY <1>6, <1>7, BodyRead, Zenon
  <1> HIDE DEF pkt2, q2
  <1>9. CASE whole
    <2>1. coming # <<>> /\ pkt2.data = Head(coming) /\ Reads(NoPart, q2, nt, Tail(coming))
      BY <1>8, <1>9, PacketDone, Zenon
    <2>2. /\ r.pkts = Append(in.pkts, Head(coming)) /\ r.queue = q2 /\ r.mypkt = NoPkt
          /\ r = [queue |-> q2, mypkt |-> NoPkt, pkts |-> Append(in.pkts, Head(coming))]
      BY <1>9, <2>1, Zenon
    <2>3. Append(in.pkts, Head(coming)) \in Seq(Pkts)
      <3>1. Head(coming) \in Pkts
        BY <2>1, HeadTailProperties, Zenon
      <3> QED BY <1>1, <3>1, AppendProperties, Zenon
    <2> HIDE DEF r
    <2>4. r \in Inputs /\ Begun(r) = NoPart
      BY <1>8, <2>2, <2>3, Zenon DEF Inputs, Begun
    <2>5. Cuts(in, r, nt, coming)
      BY <2>1, <2>2, <2>4, Zenon DEF Cuts
    <2> QED BY <2>5, Zenon DEF r
  <1>10. CASE ~whole
    <2>1. /\ r.pkts = in.pkts /\ r.queue = q2 /\ r.mypkt = pkt2
          /\ r = [queue |-> q2, mypkt |-> pkt2, pkts |-> in.pkts]
      BY <1>10, Zenon
    <2> HIDE DEF r
    <2>2. r \in Inputs
      BY <1>1, <1>8, <2>1, Zenon DEF Inputs
    <2>3. Begun(r) = pkt2
      BY <1>8, <2>1, DataStreamAssumption, Zenon DEF Begun, Parts
    <2>4. Cuts(in, r, nt, coming)
      BY <1>8, <2>1, <2>2, <2>3, Zenon DEF Cuts
    <2> QED BY <2>4, Zenon DEF r
  <1> QED BY <1>9, <1>10, Zenon

(* What the receiver was sent, the output queue and the rest of output.mypkt  *)
(* are the packets that have left output.pkts.                                *)
Unsent(out) == IF out.partial = 0 THEN <<>> ELSE SubSeq(out.mypkt, out.partial + 1, Len(out.mypkt))

Wrote(out, w, done) ==
    /\ w \o (out.queue.data \o Unsent(out)) = Bytes(done)
    /\ out.partial > 0 => out.mypkt \in Pkts /\ out.partial < Len(out.mypkt)

(* Some of a packet goes to the output queue. *)
InQueue(q, w, p, m, all) == q \in Queues /\ w \o (q.data \o SubSeq(p, m + 1, Len(p))) = all

LEMMA BodyWritten ==
    ASSUME NEW q \in Queues, NEW p \in Seq(Nat), NEW w \in Seq(Nat), NEW all,
           NEW k \in 0 .. Len(p), NEW m \in k .. Len(p), q.tail + Len(q.data) + (m - k) <= Size,
           w \o (q.data \o SubSeq(p, k + 1, Len(p))) = all
    PROVE  InQueue(queue_w(q, SubSeq(p, k + 1, m)), w, p, m, all)
  <1> DEFINE x == SubSeq(p, k + 1, m)
             y == SubSeq(p, m + 1, Len(p))
             qq == queue_w(q, x)
  <1>1. q.data \in Seq(Nat) /\ q.tail \in Nat /\ Len(q.data) \in Nat /\ Len(p) \in Nat
    BY DEF Queues
  <1>2. x \in Seq(Nat) /\ Len(x) = m - k /\ y \in Seq(Nat) /\ x \o y = SubSeq(p, k + 1, Len(p))
    <2>1. Middle(p, k, m, Nat)
      BY SplitBehind, Zenon
    <2> QED BY <2>1, Zenon DEF Middle
  <1> HIDE DEF x, y
  <1>4. q.data \o x \in Seq(Nat) /\ Len(q.data \o x) = Len(q.data) + (m - k)
    BY <1>1, <1>2, ConcatProperties, ZenonT(30)
  <1>5. qq.data = q.data \o x /\ qq.tail = q.tail /\ qq \in [data : Seq(Nat), tail : Nat]
    BY <1>4, Zenon DEF queue_w, Queues
  <1> HIDE DEF qq
  <1>6. qq.tail + Len(qq.data) <= Size
    <2> DEFINE t == q.tail
               l == Len(q.data)
    <2>1. /\ t \in Nat /\ l \in Nat /\ t + l + (m - k) <= Size
          /\ qq.tail = t /\ Len(qq.data) = l + (m - k)
      BY <1>1, <1>4, <1>5, Zenon
    <2>2. m \in Nat /\ k \in Nat /\ Size \in Nat
      BY <1>1, DataStreamAssumption
    <2> HIDE DEF t, l
    <2> QED BY <2>1, <2>2
  <1>7. qq \in Queues
    BY <1>5, <1>6, Zenon DEF Queues
  <1>8. w \o ((q.data \o x) \o y) = all
    <2>1. Associate(q.data, x, y)
      BY <1>1, <1>2, Associates, Zenon
    <2> QED BY <1>2, <2>1, Zenon DEF Associate
  <1> QED BY <1>5, <1>7, <1>8, Zenon DEF InQueue, qq, x, y

(* What a call of array2buffer does: it may take the next packet. *)
Fills(out, r, w, done) ==
    /\ r \in Outputs
    /\ \/ r.pkts = out.pkts /\ Wrote(r, w, done)
       \/ /\ out.pkts # <<>> /\ r.pkts = Tail(out.pkts)
          /\ Wrote(r, w, Append(done, Head(out.pkts)))

LEMMA Array2BufferFills ==
    ASSUME NEW out \in Outputs, NEW w \in Seq(Nat), NEW done \in Seq(Pkts), Wrote(out, w, done)
    PROVE  Fills(out, array2buffer(out).out, w, done)
  <1> DEFINE new == out.partial = 0
             pkt == IF new THEN Head(out.pkts) ELSE out.mypkt
             b == Smaller(queue_available(out.queue), Len(pkt) - out.partial)
             left == StillPartial(out, b, pkt)
             idle == queue_available(out.queue) = 0 \/ (new /\ out.pkts = <<>>)
             qq == queue_w(out.queue, SubSeq(pkt, out.partial + 1, out.partial + b))
             r == [pkts |-> IF new THEN Tail(out.pkts) ELSE out.pkts,
                   mypkt |-> IF left = 0 THEN NoPkt ELSE pkt,
                   partial |-> left, queue |-> qq]
             after == IF new THEN Append(done, pkt) ELSE done
             k == out.partial
             q == out.queue
             all == Bytes(after)
  <1>1. /\ q \in Queues /\ k \in Nat /\ out.pkts \in Seq(Pkts)
        /\ q.data \in Seq(Nat) /\ q.tail \in Nat /\ q.tail + Len(q.data) <= Size
        /\ Len(q.data) \in Nat /\ Size \in Nat
    <2>1. q \in Queues /\ k \in Nat /\ out.pkts \in Seq(Pkts)
      BY Zenon DEF Outputs
    <2> HIDE DEF q
    <2> QED BY <2>1, DataStreamAssumption DEF Queues
  <1>2. array2buffer(out).out = IF idle THEN out ELSE r
    BY Zenon DEF array2buffer
  <1>3. SUFFICES ASSUME ~idle PROVE Fills(out, r, w, done)
    <2>1. Fills(out, out, w, done)
      BY Zenon DEF Fills
    <2> HIDE DEF r, idle
    <2> QED BY <1>2, <1>3, <2>1, Zenon
  <1>4. /\ pkt \in Pkts
        /\ new => out.pkts # <<>> /\ Tail(out.pkts) \in Seq(Pkts) /\ pkt = Head(out.pkts)
        /\ ~new => k < Len(pkt) /\ pkt = out.mypkt
    <2>1. CASE new
      <3>1. out.pkts # <<>>
        BY <1>3, <2>1, Zenon
      <3> QED BY <1>1, <2>1, <3>1, HeadTailProperties, Zenon
    <2>2. CASE ~new
      <3>1. k > 0
        BY <1>1, <2>2
      <3> QED BY <2>2, <3>1, Zenon DEF Wrote
    <2> QED BY <2>1, <2>2, Zenon
  <1> HIDE DEF pkt
  <1>5. pkt \in Seq(Nat) /\ Len(pkt) \in Nat /\ Len(pkt) >= 1 /\ k < Len(pkt)
    <2>1. pkt \in Seq(Nat) /\ Len(pkt) \in Nat /\ Len(pkt) >= 1
      BY <1>4, DataStreamAssumption DEF Pkts
    <2> QED BY <1>1, <1>4, <2>1
  <1>6. b \in Nat /\ k + b <= Len(pkt) /\ q.tail + Len(q.data) + b <= Size /\ b >= 1
    <2> DEFINE room == Size - (q.tail + Len(q.data))
    <2>1. room # 0
      BY <1>3, Zenon DEF queue_available
    <2>2. b = IF room < Len(pkt) - k THEN room ELSE Len(pkt) - k
      BY Zenon DEF Smaller, queue_available
    <2> DEFINE t == q.tail
               l == Len(q.data)
               n == Len(pkt)
    <2>3. /\ t \in Nat /\ l \in Nat /\ n \in Nat /\ k \in Nat /\ Size \in Nat
          /\ t + l <= Size /\ Size - (t + l) # 0 /\ k < n
          /\ b = IF Size - (t + l) < n - k THEN Size - (t + l) ELSE n - k
      BY <1>1, <1>5, <2>1, <2>2, Zenon
    <2> HIDE DEF b, t, l, n, k
    <2>4. b \in Nat /\ k + b <= n /\ t + l + b <= Size /\ b >= 1
      BY <2>3
    <2> QED BY <2>4, Zenon DEF t, l, n, k
  <1>7. left = IF k + b = Len(pkt) THEN 0 ELSE k + b
    BY Zenon DEF StillPartial
  <1> HIDE DEF left, b
  <1>8. w \o (q.data \o SubSeq(pkt, k + 1, Len(pkt))) = all
    <2>1. w \o (q.data \o Unsent(out)) = Bytes(done)
      BY Zenon DEF Wrote
    <2>2. CASE new
      <3>1. done \in Seq(Seq(Nat)) /\ Bytes(Append(done, pkt)) = Bytes(done) \o pkt
        BY <1>5, PktsAreSeqs, BytesAppend, Zenon
      <3>2. Unsent(out) = <<>> /\ q.data \o <<>> = q.data
        BY <1>1, <2>2, ConcatEmptySeq, Zenon DEF Unsent
      <3>3. SubSeq(pkt, k + 1, Len(pkt)) = pkt
        <4>1. k + 1 = 1
          BY <2>2
        <4> QED BY <1>5, <4>1, SubSeqFull, Zenon
      <3>4. Associate(w, q.data, pkt)
        BY <1>1, <1>5, Associates, Zenon
      <3>5. all = Bytes(done) \o pkt
        BY <2>2, <3>1, Zenon
      <3> HIDE DEF all
      <3> QED BY <2>1, <3>2, <3>3, <3>4, <3>5, Zenon DEF Associate
    <2>3. CASE ~new
      <3>1. Unsent(out) = SubSeq(pkt, k + 1, Len(pkt))
        BY <1>4, <2>3, Zenon DEF Unsent
      <3>2. all = Bytes(done)
        BY <2>3, Zenon
      <3> HIDE DEF all
      <3> QED BY <2>1, <3>1, <3>2, Zenon
    <2> QED BY <2>2, <2>3, Zenon
  <1>9. qq \in Queues /\ w \o (qq.data \o SubSeq(pkt, k + b + 1, Len(pkt))) = all
    <2> HIDE DEF all, q, k
    <2>1. k \in 0 .. Len(pkt) /\ k + b \in k .. Len(pkt) /\ (k + b) - k = b
      BY <1>1, <1>5, <1>6
    <2>2. q.tail + Len(q.data) + ((k + b) - k) <= Size
      BY <1>6, <2>1, Zenon
    <2>3. InQueue(queue_w(q, SubSeq(pkt, k + 1, k + b)), w, pkt, k + b, all)
      BY <1>1, <1>5, <1>8, <2>1, <2>2, BodyWritten, Zenon
    <2> QED BY <2>3, Zenon DEF InQueue, q, k
  <1> HIDE DEF qq
  <1>10. left \in Nat /\ left < Len(pkt) /\ (left # 0 => left = k + b) /\ (left = 0 => k + b = Len(pkt))
    <2> DEFINE n == Len(pkt)
    <2>1. k \in Nat /\ b \in Nat /\ n \in Nat /\ k + b <= n /\ b >= 1 /\ k < n
      BY <1>1, <1>5, <1>6, Zenon
    <2>2. left = IF k + b = n THEN 0 ELSE k + b
      BY <1>7, Zenon
    <2> HIDE DEF n, k
    <2>3. left \in Nat /\ left < n /\ (left # 0 => left = k + b) /\ (left = 0 => k + b = n)
      BY <2>1, <2>2
    <2> QED BY <2>3, Zenon DEF n, k
  <1>11. /\ r.pkts = IF new THEN Tail(out.pkts) ELSE out.pkts
         /\ r.mypkt = (IF left = 0 THEN NoPkt ELSE pkt) /\ r.partial = left /\ r.queue = qq
         /\ r \in Outputs
    <2>1. (IF new THEN Tail(out.pkts) ELSE out.pkts) \in Seq(Pkts)
      BY <1>1, <1>4, Zenon
    <2>2. (IF left = 0 THEN NoPkt ELSE pkt) \in Seq(Nat) \cup {NoPkt}
      BY <1>5, Zenon
    <2> QED BY <1>9, <1>10, <2>1, <2>2, Zenon DEF Outputs
  <1> HIDE DEF r
  <1>12. Unsent(r) = SubSeq(pkt, k + b + 1, Len(pkt))
    <2>1. CASE left = 0
      <3>1. SubSeq(pkt, k + b + 1, Len(pkt)) = <<>>
        <4>1. k + b + 1 \in Int /\ Len(pkt) \in Int /\ Len(pkt) < k + b + 1
          BY <1>1, <1>5, <1>6, <1>10, <2>1, SMTT(20)
        <4> QED BY <4>1, SubSeqEmpty, Zenon
      <3> QED BY <1>11, <2>1, <3>1, Zenon DEF Unsent
    <2>2. CASE left # 0
      BY <1>10, <1>11, <2>2, Zenon DEF Unsent
    <2> QED BY <2>1, <2>2, Zenon
  <1>13. Wrote(r, w, after)
    <2>1. r.partial > 0 => r.mypkt = pkt /\ r.partial < Len(pkt)
      BY <1>10, <1>11
    <2> QED BY <1>4, <1>9, <1>11, <1>12, <2>1, Zenon DEF Wrote
  <1> QED BY <1>4, <1>11, <1>13, Zenon DEF Fills

-----------------------------------------------------------------------------
(* A packet moves from one sequence to the next. *)

MovedUp(x, y) == Append(x, Head(y)) \o Tail(y) = x \o y

LEMMA MovesUp ==
    ASSUME NEW S, NEW x \in Seq(S), NEW y \in Seq(S), y # <<>>
    PROVE  MovedUp(x, y)
  <1>1. Head(y) \in S /\ Tail(y) \in Seq(S)
    BY HeadTailProperties, Zenon
  <1>2. <<Head(y)>> \in Seq(S) /\ <<Head(y)>> \o Tail(y) = y
    BY <1>1
  <1>3. Append(x, Head(y)) = x \o <<Head(y)>>
    BY <1>1, AppendIsConcat, Zenon
  <1>4. Associate(x, <<Head(y)>>, Tail(y))
    BY <1>1, <1>2, Associates, Zenon
  <1> QED BY <1>2, <1>3, <1>4, Zenon DEF Associate, MovedUp

PutLast(x, y, e) == x \o Append(y, e) = Append(x \o y, e)

LEMMA AppendLast ==
    ASSUME NEW S, NEW x \in Seq(S), NEW y \in Seq(S), NEW e \in S
    PROVE  PutLast(x, y, e)
  <1>1. x \o y \in Seq(S) /\ <<e>> \in Seq(S)
    BY ConcatProperties
  <1>2. Append(y, e) = y \o <<e>> /\ Append(x \o y, e) = (x \o y) \o <<e>>
    BY <1>1, AppendIsConcat, Zenon
  <1>3. Associate(x, y, <<e>>)
    BY <1>1, Associates, Zenon
  <1> QED BY <1>2, <1>3, Zenon DEF Associate, PutLast

-----------------------------------------------------------------------------
(* The inductive invariant. *)

Places == {"poll", "read", "write", "parse", "process", "fill", "flush", "closed"}

(* The packets sent are those that have left output.pkts, those that wait and *)
(* those to come.                                                             *)
Split(snt, in, out, nt, w, done, coming) ==
    /\ snt = done \o ((out.pkts \o in.pkts) \o coming)
    /\ Wrote(out, w, done)
    /\ Reads(Begun(in), in.queue, nt, coming)

Streams(snt, in, out, nt, w) ==
    /\ snt \in Seq(Pkts) /\ in \in Inputs /\ out \in Outputs /\ nt \in Seq(Nat) /\ w \in Seq(Nat)
    /\ \E done \in Seq(Pkts) : \E coming \in Seq(Pkts) : Split(snt, in, out, nt, w, done, coming)

IInv == pc \in Places /\ Streams(sent, input, output, net, wire)

LEMMA InitInv == Init => IInv
  <1>1. SUFFICES ASSUME Init PROVE IInv
    BY Zenon
  <1> DEFINE q == EmptyQueue
  <1>2. /\ \A S : <<>> \in Seq(S) /\ <<>> \o <<>> = <<>>
        /\ Len(<<>>) = 0 /\ 0 \in Nat /\ ~(0 > 0)
    BY EmptySeq
  <1>3. q \in Queues /\ q.data = <<>>
    <2>1. q \in [data : Seq(Nat), tail : Nat] /\ q.data = <<>> /\ q.tail = 0
      BY <1>2, Zenon DEF EmptyQueue
    <2> HIDE DEF q
    <2>2. q.tail + Len(q.data) <= Size
      BY <1>2, <2>1, DataStreamAssumption
    <2> QED BY <2>1, <2>2, Zenon DEF Queues
  <1> HIDE DEF q
  <1>4. /\ input.queue = q /\ input.mypkt = NoPkt /\ input.pkts = <<>> /\ input \in Inputs
        /\ output.queue = q /\ output.partial = 0 /\ output.pkts = <<>> /\ output \in Outputs
        /\ sent = <<>> /\ net = <<>> /\ wire = <<>> /\ pc \in Places
    BY <1>1, <1>2, <1>3, Zenon DEF Init, Inputs, Outputs, Places, q
  <1>5. Bytes(<<>>) = <<>>
    BY <1>2, BytesAppend, BytesOfNone, Zenon
  <1>6. Wrote(output, wire, <<>>)
    BY <1>2, <1>3, <1>4, <1>5, Zenon DEF Wrote, Unsent
  <1>7. Reads(Begun(input), input.queue, net, <<>>)
    <2>1. Begun(input) = NoPart /\ NoPart.length = 0 /\ NoPart.data = <<>>
      BY <1>4, Zenon DEF Begun, NoPart
    <2> QED BY <1>2, <1>3, <1>4, <1>5, <2>1, Zenon DEF Reads
  <1>8. Split(sent, input, output, net, wire, <<>>, <<>>)
    BY <1>2, <1>4, <1>6, <1>7, Zenon DEF Split
  <1> QED BY <1>2, <1>4, <1>8, Zenon DEF IInv, Streams

(* The sender's packets are packets. *)
LEMMA PacketType ==
    ASSUME NEW n \in Nat, NEW l \in Nat
    PROVE  Packet(n, l) \in Pkts
  <1> DEFINE a == <<l>>
             z == [i \in 1 .. Hdr - 1 |-> 0]
             d == [i \in 1 .. l |-> n]
  <1>1. Hdr \in Nat /\ Hdr >= 1 /\ Hdr - 1 \in Nat
    BY DataStreamAssumption
  <1>2. a \in Seq(Nat) /\ Len(a) = 1 /\ a[1] = l
    OBVIOUS
  <1>3. z \in Seq(Nat) /\ Len(z) = Hdr - 1
    BY <1>1
  <1>4. d \in Seq(Nat) /\ Len(d) = l
    OBVIOUS
  <1> HIDE DEF a, z, d
  <1>5. a \o z \in Seq(Nat) /\ Len(a \o z) = Hdr /\ (a \o z)[1] = l
    <2>1. a \o z \in Seq(Nat) /\ Len(a \o z) = Len(a) + Len(z)
      BY <1>2, <1>3, ConcatProperties, Zenon
    <2>2. (a \o z)[1] = a[1]
      <3>1. 1 \in 1 .. Len(a) + Len(z) /\ 1 <= Len(a)
        BY <1>1, <1>2, <1>3
      <3> QED BY <1>2, <1>3, <3>1, ConcatProperties, ZenonT(30)
    <2>3. Len(a) + Len(z) = Hdr
      BY <1>1, <1>2, <1>3
    <2> QED BY <1>2, <2>1, <2>2, <2>3, Zenon
  <1>6. (a \o z) \o d \in Seq(Nat) /\ Len((a \o z) \o d) = Hdr + l /\ ((a \o z) \o d)[1] = l
    <2> DEFINE h == a \o z
    <2>1. h \in Seq(Nat) /\ Len(h) = Hdr /\ h[1] = l
      BY <1>5
    <2> HIDE DEF h
    <2>2. h \o d \in Seq(Nat) /\ Len(h \o d) = Len(h) + Len(d)
      BY <1>4, <2>1, ConcatProperties, Zenon
    <2>3. (h \o d)[1] = h[1]
      BY <1>1, <1>4, <2>1
    <2>4. h \o d \in Seq(Nat) /\ Len(h \o d) = Hdr + l /\ (h \o d)[1] = l
      BY <1>4, <2>1, <2>2, <2>3, Zenon
    <2> QED BY <2>4, Zenon DEF h
  <1>7. Hdr + l >= Hdr
    BY <1>1
  <1>8. (a \o z) \o d \in Pkts
    BY <1>6, <1>7, Zenon DEF Pkts
  <1> QED BY <1>8, Zenon DEF Packet, a, z, d

-----------------------------------------------------------------------------
(* One lemma for each step. *)

LEMMA SenderKeeps ==
    ASSUME IInv, SenderSends
    PROVE  IInv' /\ \E p \in Seq(Nat) : p # <<>> /\ Bytes(sent') = Bytes(sent) \o p
  <1>1. /\ pc \in Places /\ sent \in Seq(Pkts) /\ input \in Inputs /\ output \in Outputs
        /\ net \in Seq(Nat) /\ wire \in Seq(Nat)
    BY Zenon DEF IInv, Streams
  <1>2. PICK done \in Seq(Pkts) : \E coming \in Seq(Pkts) :
               Split(sent, input, output, net, wire, done, coming)
    BY Zenon DEF IInv, Streams
  <1>3. PICK coming \in Seq(Pkts) : Split(sent, input, output, net, wire, done, coming)
    BY <1>2, Zenon
  <1>4. PICK l \in Payloads : /\ sent' = Append(sent, Packet(Len(sent) + 1, l))
                              /\ net' = net \o Packet(Len(sent) + 1, l)
    BY Zenon DEF SenderSends
  <1> DEFINE p == Packet(Len(sent) + 1, l)
             more == Append(coming, p)
             waiting == output.pkts \o input.pkts
             part == Begun(input)
             q == input.queue
  <1>5. p \in Pkts
    <2>1. Len(sent) + 1 \in Nat /\ l \in Nat
      BY <1>1, DataStreamAssumption
    <2> QED BY <2>1, PacketType, Zenon
  <1> HIDE DEF p
  <1>6. p \in Seq(Nat) /\ p # <<>>
    BY <1>5, DataStreamAssumption DEF Pkts
  <1>7. more \in Seq(Pkts) /\ sent' \in Seq(Pkts) /\ net' \in Seq(Nat)
    <2>1. more \in Seq(Pkts) /\ sent' \in Seq(Pkts)
      BY <1>1, <1>4, <1>5, AppendProperties, Zenon DEF p
    <2>2. net' \in Seq(Nat)
      BY <1>1, <1>4, <1>6, ConcatProperties, Zenon DEF p
    <2> QED BY <2>1, <2>2, Zenon
  <1>8. waiting \in Seq(Pkts) /\ waiting \o coming \in Seq(Pkts)
    <2>1. output.pkts \in Seq(Pkts) /\ input.pkts \in Seq(Pkts)
      BY <1>1, Zenon DEF Inputs, Outputs
    <2>2. waiting \in Seq(Pkts)
      BY <2>1, ConcatProperties, Zenon
    <2> HIDE DEF waiting
    <2> QED BY <2>2, ConcatProperties, Zenon
  <1>9. sent' = done \o (waiting \o more)
    <2>1. sent = done \o (waiting \o coming)
      BY <1>3, Zenon DEF Split
    <2> HIDE DEF waiting
    <2>2. PutLast(waiting, coming, p) /\ PutLast(done, waiting \o coming, p)
      BY <1>5, <1>8, AppendLast, Zenon
    <2> QED BY <1>4, <2>1, <2>2, Zenon DEF PutLast, p
  <1>10. Bytes(more) = Bytes(coming) \o p /\ Bytes(sent') = Bytes(sent) \o p
    <2>1. coming \in Seq(Seq(Nat)) /\ sent \in Seq(Seq(Nat))
      BY <1>1, PktsAreSeqs, Zenon
    <2> QED BY <1>4, <1>6, <2>1, BytesAppend, Zenon DEF p
  <1>11. Reads(part, q, net', more)
    <2>1. /\ part.data \o (q.data \o net) = Bytes(coming)
          /\ part.length = 0 => part.data = <<>>
          /\ part.length > 0 => /\ coming # <<>> /\ part.length = Len(Head(coming))
                                /\ Len(part.data) <= part.length
      BY <1>3, Zenon DEF Split, Reads
    <2>2. part.data \in Seq(Nat) /\ q.data \in Seq(Nat)
      <3>1. <<>> \in Seq(Nat) /\ 0 \in Nat
        BY EmptySeq
      <3>2. q \in Queues /\ part \in Parts
        BY <1>1, <3>1, Zenon DEF Inputs, Begun, NoPart, Parts
      <3> HIDE DEF q, part
      <3> QED BY <3>2 DEF Queues, Parts
    <2> HIDE DEF q, part
    <2>3. q.data \o net \in Seq(Nat)
      BY <1>1, <2>2, ConcatProperties, Zenon
    <2>4. Associate(q.data, net, p) /\ Associate(part.data, q.data \o net, p)
      BY <1>1, <1>6, <2>2, <2>3, Associates, Zenon
    <2>5. part.data \o (q.data \o net') = Bytes(more)
      <3> HIDE DEF more
      <3> QED BY <1>4, <1>10, <2>1, <2>4, Zenon DEF Associate, p
    <2>6. coming # <<>> => more # <<>> /\ Head(more) = Head(coming)
      BY <1>5, AppendProperties, HeadTailAppend, ZenonT(30)
    <2> HIDE DEF more
    <2> QED BY <2>1, <2>5, <2>6, Zenon DEF Reads
  <1>12. UNCHANGED <<pc, input, output, wire>>
    BY Zenon DEF SenderSends
  <1>13. Split(sent', input, output, net', wire, done, more)
    <2>1. Wrote(output, wire, done)
      BY <1>3, Zenon DEF Split
    <2> HIDE DEF more
    <2> QED BY <1>9, <1>11, <2>1, Zenon DEF Split
  <1>14. Streams(sent', input', output', net', wire')
    <2> HIDE DEF more
    <2> QED BY <1>1, <1>7, <1>12, <1>13, Zenon DEF Streams
  <1>15. IInv'
    BY <1>1, <1>12, <1>14, Zenon DEF IInv
  <1> QED BY <1>6, <1>10, <1>15, Zenon

LEMMA ReadKeeps ==
    ASSUME IInv, ReadFromNet
    PROVE  IInv'
  <1>1. /\ sent \in Seq(Pkts) /\ input \in Inputs /\ output \in Outputs
        /\ net \in Seq(Nat) /\ wire \in Seq(Nat)
    BY Zenon DEF IInv, Streams
  <1>2. pc' \in Places /\ UNCHANGED <<sent, output, wire>>
    BY Zenon DEF ReadFromNet, Places
  <1>3. CASE UNCHANGED <<input, net>>
    BY <1>2, <1>3, Zenon DEF IInv
  <1>4. ASSUME NEW r \in 1 .. Smaller(Len(net), queue_available(input.queue)),
               input' = [input EXCEPT !.queue = queue_w(@, SubSeq(net, 1, r))],
               net' = SubSeq(net, r + 1, Len(net))
        PROVE  IInv'
    <2> DEFINE q == input.queue
               x == SubSeq(net, 1, r)
               y == SubSeq(net, r + 1, Len(net))
               qq == queue_w(q, x)
    <2>1. q \in Queues /\ q.data \in Seq(Nat) /\ Len(q.data) \in Nat /\ q.tail \in Nat
      <3>1. q \in Queues
        BY <1>1, Zenon DEF Inputs
      <3> HIDE DEF q
      <3> QED BY <3>1 DEF Queues
    <2>2. r \in 0 .. Len(net) /\ q.tail + Len(q.data) + r <= Size
      <3> DEFINE t == q.tail
                 l == Len(q.data)
                 n == Len(net)
      <3>1. t \in Nat /\ l \in Nat /\ n \in Nat /\ Size \in Nat
        BY <1>1, <2>1, DataStreamAssumption
      <3>2. r \in 1 .. IF n < Size - (t + l) THEN n ELSE Size - (t + l)
        BY <1>4, Zenon DEF Smaller, queue_available
      <3> HIDE DEF t, l, n
      <3>3. r \in 0 .. n /\ t + l + r <= Size
        BY <3>1, <3>2
      <3> QED BY <3>3, Zenon DEF t, l, n
    <2>3. x \in Seq(Nat) /\ Len(x) = r /\ y \in Seq(Nat) /\ x \o y = net
      BY <1>1, <2>2, SplitAt, Zenon
    <2> HIDE DEF x, y
    <2>4. q.data \o x \in Seq(Nat) /\ Len(q.data \o x) = Len(q.data) + r
      BY <2>1, <2>3, ConcatProperties, Zenon
    <2>5. qq.data = q.data \o x /\ qq.tail = q.tail /\ qq \in [data : Seq(Nat), tail : Nat]
      BY <2>1, <2>4, Zenon DEF queue_w, Queues
    <2>6. qq \in Queues
      <3> HIDE DEF qq, q
      <3>1. qq.tail + Len(qq.data) <= Size
        <4> DEFINE t == q.tail
                   l == Len(q.data)
        <4>1. /\ t \in Nat /\ l \in Nat /\ t + l + r <= Size
              /\ qq.tail = t /\ Len(qq.data) = l + r
          BY <2>1, <2>2, <2>4, <2>5, Zenon
        <4>2. r \in Nat /\ Size \in Nat
          BY DataStreamAssumption
        <4> HIDE DEF t, l
        <4> QED BY <4>1, <4>2
      <3> QED BY <2>5, <3>1, Zenon DEF Queues
    <2>7. /\ input' \in Inputs /\ input'.queue = qq /\ input'.pkts = input.pkts
          /\ input'.mypkt = input.mypkt /\ Begun(input') = Begun(input)
      BY <1>1, <1>4, <2>6, Zenon DEF Inputs, Begun, x
    <2> HIDE DEF qq
    <2>8. q.data \o net = qq.data \o y
      <3>1. Associate(q.data, x, y)
        BY <2>1, <2>3, Associates, Zenon
      <3> HIDE DEF q
      <3> QED BY <2>3, <2>5, <3>1, Zenon DEF Associate
    <2>9. ASSUME NEW done \in Seq(Pkts), NEW coming \in Seq(Pkts),
                 Split(sent, input, output, net, wire, done, coming)
          PROVE  Split(sent', input', output', net', wire', done, coming)
      <3>1. Reads(Begun(input'), input'.queue, net', coming)
        BY <1>4, <2>7, <2>8, <2>9, Zenon DEF Split, Reads, y
      <3>2. Wrote(output, wire, done) /\ sent = done \o ((output.pkts \o input.pkts) \o coming)
        BY <2>9, Zenon DEF Split
      <3> QED BY <1>2, <2>7, <3>1, <3>2, Zenon DEF Split
    <2>10. net' \in Seq(Nat)
      BY <1>4, <2>3, Zenon DEF y
    <2>11. Streams(sent', input', output', net', wire')
      <3>1. \E done \in Seq(Pkts) : \E coming \in Seq(Pkts) :
               Split(sent', input', output', net', wire', done, coming)
        BY <2>9, Zenon DEF IInv, Streams
      <3> QED BY <1>1, <1>2, <2>7, <2>10, <3>1, Zenon DEF Streams
    <2> QED BY <1>2, <2>11, Zenon DEF IInv
  <1> QED BY <1>3, <1>4, Zenon DEF ReadFromNet


(* What is left of output.mypkt is bytes. *)
LEMMA UnsentType ==
    ASSUME NEW out \in Outputs, NEW w, NEW done, Wrote(out, w, done)
    PROVE  Unsent(out) \in Seq(Nat)
  <1>1. CASE out.partial = 0
    <2>1. <<>> \in Seq(Nat)
      BY EmptySeq
    <2> QED BY <1>1, <2>1, Zenon DEF Unsent
  <1>2. CASE out.partial # 0
    <2> DEFINE k == out.partial
               p == out.mypkt
    <2>1. k \in Nat /\ k > 0
      BY <1>2 DEF Outputs
    <2>2. p \in Seq(Nat) /\ k < Len(p)
      BY <2>1, Zenon DEF Wrote, Pkts
    <2> HIDE DEF k, p
    <2>3. SubSeq(p, k + 1, Len(p)) \in Seq(Nat)
      BY <2>1, <2>2
    <2> QED BY <1>2, <2>3, Zenon DEF Unsent, k, p
  <1> QED BY <1>1, <1>2, Zenon

(* write_to_net sends bytes, and they are taken from the output queue. *)
LEMMA WrittenKeeps ==
    ASSUME IInv, NEW next \in Places, Written(next)
    PROVE  IInv' /\ \E x \in Seq(Nat) : x # <<>> /\ wire' = wire \o x
  <1>1. /\ sent \in Seq(Pkts) /\ input \in Inputs /\ output \in Outputs
        /\ net \in Seq(Nat) /\ wire \in Seq(Nat)
    BY Zenon DEF IInv, Streams
  <1>2. PICK done \in Seq(Pkts) : \E coming \in Seq(Pkts) :
               Split(sent, input, output, net, wire, done, coming)
    BY Zenon DEF IInv, Streams
  <1>3. PICK coming \in Seq(Pkts) : Split(sent, input, output, net, wire, done, coming)
    BY <1>2, Zenon
  <1>4. pc' = next /\ UNCHANGED <<sent, net, input>>
    BY Zenon DEF Written
  <1> DEFINE q == output.queue
             u == Unsent(output)
  <1>5. PICK r \in 1 .. Len(q.data) : /\ output' = [output EXCEPT !.queue = queue_r(@, r)]
                                      /\ wire' = wire \o SubSeq(q.data, 1, r)
    BY Zenon DEF Written, queue_data
  <1> DEFINE x == SubSeq(q.data, 1, r)
             qq == queue_r(q, r)
  <1>6. q \in Queues /\ u \in Seq(Nat) /\ Wrote(output, wire, done)
    BY <1>1, <1>3, UnsentType, Zenon DEF Outputs, Split
  <1>7. q.data \in Seq(Nat) /\ r \in 0 .. Len(q.data) /\ r # 0
    <2> HIDE DEF q
    <2> QED BY <1>6 DEF Queues
  <1>8. qq \in Queues /\ x \in Seq(Nat) /\ Len(x) = r /\ x \o qq.data = q.data
    BY <1>6, <1>7, QueueRead, Zenon
  <1>9. qq.data \in Seq(Nat)
    <2> HIDE DEF qq
    <2> QED BY <1>8 DEF Queues
  <1>10. x # <<>>
    BY <1>7, <1>8, EmptyLen, Zenon
  <1>11. /\ output' \in Outputs /\ output'.queue = qq /\ output'.pkts = output.pkts
         /\ output'.mypkt = output.mypkt /\ output'.partial = output.partial
    BY <1>1, <1>5, <1>8, Zenon DEF Outputs
  <1>12. Unsent(output') = u
    BY <1>11, Zenon DEF Unsent
  <1>13. wire' = wire \o x
    BY <1>5, Zenon
  <1> HIDE DEF x, qq, u
  <1>14. wire' \in Seq(Nat)
    BY <1>1, <1>8, <1>13, ConcatProperties, Zenon
  <1>15. wire' \o (qq.data \o u) = Bytes(done)
    <2>1. wire \o (q.data \o u) = Bytes(done)
      BY <1>6, Zenon DEF Wrote, u
    <2>2. qq.data \o u \in Seq(Nat)
      BY <1>6, <1>9, ConcatProperties, Zenon
    <2>3. Associate(wire, x, qq.data \o u) /\ Associate(x, qq.data, u)
      BY <1>1, <1>6, <1>8, <1>9, <2>2, Associates, Zenon
    <2> HIDE DEF q
    <2> QED BY <1>8, <1>13, <2>1, <2>3, Zenon DEF Associate
  <1>16. Wrote(output', wire', done)
    <2>1. output.partial > 0 => output.mypkt \in Pkts /\ output.partial < Len(output.mypkt)
      BY <1>6, Zenon DEF Wrote
    <2> QED BY <1>11, <1>12, <1>15, <2>1, Zenon DEF Wrote
  <1>17. Split(sent', input', output', net', wire', done, coming)
    <2>1. /\ sent = done \o ((output.pkts \o input.pkts) \o coming)
          /\ Reads(Begun(input), input.queue, net, coming)
      BY <1>3, Zenon DEF Split
    <2> QED BY <1>4, <1>11, <1>16, <2>1, Zenon DEF Split
  <1>18. Streams(sent', input', output', net', wire')
    BY <1>1, <1>4, <1>11, <1>14, <1>17, Zenon DEF Streams
  <1> QED BY <1>4, <1>8, <1>10, <1>13, <1>18, Zenon DEF IInv

(* buffer2array puts the packet it completes behind those that wait. *)
LEMMA BufferKeeps ==
    ASSUME IInv, Buffer2Array
    PROVE  IInv'
  <1>1. /\ sent \in Seq(Pkts) /\ input \in Inputs /\ output \in Outputs
        /\ net \in Seq(Nat) /\ wire \in Seq(Nat)
    BY Zenon DEF IInv, Streams
  <1>2. PICK done \in Seq(Pkts) : \E coming \in Seq(Pkts) :
               Split(sent, input, output, net, wire, done, coming)
    BY Zenon DEF IInv, Streams
  <1>3. PICK coming \in Seq(Pkts) : Split(sent, input, output, net, wire, done, coming)
    BY <1>2, Zenon
  <1>4. /\ input' = buffer2array(input).in /\ pc' \in Places
        /\ UNCHANGED <<sent, net, output, wire>>
    BY Zenon DEF Buffer2Array, Places
  <1> DEFINE O == output.pkts
             I == input.pkts
  <1>5. /\ sent = done \o ((O \o I) \o coming) /\ Wrote(output, wire, done)
        /\ Reads(Begun(input), input.queue, net, coming)
    BY <1>3, Zenon DEF Split
  <1>6. Cuts(input, input', net, coming)
    BY <1>1, <1>4, <1>5, Buffer2ArrayCuts, Zenon
  <1>7. O \in Seq(Pkts) /\ I \in Seq(Pkts)
    BY <1>1, Zenon DEF Inputs, Outputs
  <1>8. input' \in Inputs
    BY <1>6, Zenon DEF Cuts
  <1>9. \E left \in Seq(Pkts) : Split(sent', input', output', net', wire', done, left)
    <2>1. CASE input'.pkts = input.pkts /\ Reads(Begun(input'), input'.queue, net, coming)
      <3>1. Split(sent', input', output', net', wire', done, coming)
        BY <1>4, <1>5, <2>1, Zenon DEF Split
      <3> QED BY <3>1, Zenon
    <2>2. CASE /\ coming # <<>> /\ input'.pkts = Append(input.pkts, Head(coming))
               /\ Reads(Begun(input'), input'.queue, net, Tail(coming))
      <3>1. Head(coming) \in Pkts /\ Tail(coming) \in Seq(Pkts)
        BY <2>2, HeadTailProperties, Zenon
      <3>2. input'.pkts = Append(I, Head(coming))
        BY <2>2, Zenon
      <3>3. (O \o Append(I, Head(coming))) \o Tail(coming) = (O \o I) \o coming
        <4> HIDE DEF O, I
        <4>1. O \o I \in Seq(Pkts)
          BY <1>7, ConcatProperties, Zenon
        <4>2. PutLast(O, I, Head(coming))
          BY <1>7, <3>1, AppendLast, Zenon
        <4>3. MovedUp(O \o I, coming)
          BY <2>2, <4>1, MovesUp, Zenon
        <4> QED BY <4>2, <4>3, Zenon DEF PutLast, MovedUp
      <3>4. sent = done \o ((output.pkts \o input'.pkts) \o Tail(coming))
        BY <1>5, <3>2, <3>3, Zenon
      <3>5. Split(sent', input', output', net', wire', done, Tail(coming))
        BY <1>4, <1>5, <2>2, <3>4, Zenon DEF Split
      <3> QED BY <3>1, <3>5, Zenon
    <2> QED BY <1>6, <2>1, <2>2, Zenon DEF Cuts
  <1>10. Streams(sent', input', output', net', wire')
    BY <1>1, <1>4, <1>8, <1>9, Zenon DEF Streams
  <1> QED BY <1>4, <1>10, Zenon DEF IInv

(* process_client_pkts hands the packets over. *)
LEMMA ProcessKeeps ==
    ASSUME IInv, ProcessPkts
    PROVE  IInv'
  <1>1. /\ sent \in Seq(Pkts) /\ input \in Inputs /\ output \in Outputs
        /\ net \in Seq(Nat) /\ wire \in Seq(Nat)
    BY Zenon DEF IInv, Streams
  <1>2. PICK done \in Seq(Pkts) : \E coming \in Seq(Pkts) :
               Split(sent, input, output, net, wire, done, coming)
    BY Zenon DEF IInv, Streams
  <1>3. PICK coming \in Seq(Pkts) : Split(sent, input, output, net, wire, done, coming)
    BY <1>2, Zenon
  <1>4. /\ pc' \in Places /\ UNCHANGED <<sent, net, wire>>
        /\ output' = [output EXCEPT !.pkts = @ \o input.pkts]
        /\ input' = [input EXCEPT !.pkts = <<>>]
    BY Zenon DEF ProcessPkts, Places
  <1>5. /\ output.pkts \o input.pkts \in Seq(Pkts) /\ <<>> \in Seq(Pkts)
        /\ (output.pkts \o input.pkts) \o <<>> = output.pkts \o input.pkts
    <2> DEFINE O == output.pkts
               I == input.pkts
    <2>1. O \in Seq(Pkts) /\ I \in Seq(Pkts)
      BY <1>1, Zenon DEF Inputs, Outputs
    <2> HIDE DEF O, I
    <2>2. O \o I \in Seq(Pkts) /\ <<>> \in Seq(Pkts)
      BY <2>1, ConcatProperties, EmptySeq, Zenon
    <2>3. (O \o I) \o <<>> = O \o I
      BY <2>2, ConcatEmptySeq, Zenon
    <2> QED BY <2>2, <2>3, Zenon DEF O, I
  <1>6. /\ output' \in Outputs /\ output'.pkts = output.pkts \o input.pkts
        /\ output'.queue = output.queue /\ output'.mypkt = output.mypkt
        /\ output'.partial = output.partial
    BY <1>1, <1>4, <1>5, Zenon DEF Outputs
  <1>7. /\ input' \in Inputs /\ input'.pkts = <<>> /\ input'.queue = input.queue
        /\ input'.mypkt = input.mypkt
    BY <1>1, <1>4, <1>5, Zenon DEF Inputs
  <1>8. /\ sent = done \o ((output.pkts \o input.pkts) \o coming) /\ Wrote(output, wire, done)
        /\ Reads(Begun(input), input.queue, net, coming)
    BY <1>3, Zenon DEF Split
  <1>9. Wrote(output', wire', done)
    BY <1>4, <1>6, <1>8, Zenon DEF Wrote, Unsent
  <1>10. Reads(Begun(input'), input'.queue, net', coming)
    BY <1>4, <1>7, <1>8, Zenon DEF Begun
  <1>11. sent' = done \o ((output'.pkts \o input'.pkts) \o coming)
    BY <1>4, <1>5, <1>6, <1>7, <1>8, Zenon
  <1>12. Split(sent', input', output', net', wire', done, coming)
    BY <1>9, <1>10, <1>11, Zenon DEF Split
  <1>13. Streams(sent', input', output', net', wire')
    BY <1>1, <1>4, <1>6, <1>7, <1>12, Zenon DEF Streams
  <1> QED BY <1>4, <1>13, Zenon DEF IInv

(* array2buffer takes the next packet that waits when it is done with one. *)
LEMMA ArrayKeeps ==
    ASSUME IInv, Array2Buffer
    PROVE  IInv'
  <1>1. /\ sent \in Seq(Pkts) /\ input \in Inputs /\ output \in Outputs
        /\ net \in Seq(Nat) /\ wire \in Seq(Nat)
    BY Zenon DEF IInv, Streams
  <1>2. PICK done \in Seq(Pkts) : \E coming \in Seq(Pkts) :
               Split(sent, input, output, net, wire, done, coming)
    BY Zenon DEF IInv, Streams
  <1>3. PICK coming \in Seq(Pkts) : Split(sent, input, output, net, wire, done, coming)
    BY <1>2, Zenon
  <1>4. /\ output' = array2buffer(output).out /\ pc' \in Places
        /\ UNCHANGED <<sent, net, input, wire>>
    BY Zenon DEF Array2Buffer, Places
  <1> DEFINE O == output.pkts
             I == input.pkts
  <1>5. /\ sent = done \o ((O \o I) \o coming) /\ Wrote(output, wire, done)
        /\ Reads(Begun(input), input.queue, net, coming)
    BY <1>3, Zenon DEF Split
  <1>6. Fills(output, output', wire, done)
    BY <1>1, <1>4, <1>5, Array2BufferFills, Zenon
  <1>7. O \in Seq(Pkts) /\ I \in Seq(Pkts)
    BY <1>1, Zenon DEF Inputs, Outputs
  <1>8. output' \in Outputs
    BY <1>6, Zenon DEF Fills
  <1>9. \E gone \in Seq(Pkts) : Split(sent', input', output', net', wire', gone, coming)
    <2>1. CASE output'.pkts = output.pkts /\ Wrote(output', wire, done)
      <3>1. Split(sent', input', output', net', wire', done, coming)
        BY <1>4, <1>5, <2>1, Zenon DEF Split
      <3> QED BY <3>1, Zenon
    <2>2. CASE /\ output.pkts # <<>> /\ output'.pkts = Tail(output.pkts)
               /\ Wrote(output', wire, Append(done, Head(output.pkts)))
      <3> DEFINE gone == Append(done, Head(O))
      <3>1. Head(O) \in Pkts /\ Tail(O) \in Seq(Pkts)
        BY <1>7, <2>2, HeadTailProperties, Zenon
      <3>2. gone \in Seq(Pkts)
        BY <3>1, AppendProperties, Zenon
      <3>3. output'.pkts = Tail(O) /\ O # <<>> /\ Wrote(output', wire, gone)
        BY <2>2, Zenon
      <3>4. gone \o ((Tail(O) \o I) \o coming) = done \o ((O \o I) \o coming)
        <4> DEFINE R == I \o coming
                   T == Tail(O)
        <4> HIDE DEF O, I
        <4>1. R \in Seq(Pkts) /\ T \in Seq(Pkts)
          BY <1>7, <3>1, ConcatProperties, Zenon
        <4>2. MovedUp(done, O)
          BY <1>7, <3>3, MovesUp, Zenon
        <4>3. gone \o T = done \o O
          BY <4>2, Zenon DEF MovedUp
        <4> HIDE DEF R, T, gone
        <4>4. /\ Associate(T, I, coming) /\ Associate(O, I, coming)
              /\ Associate(gone, T, R) /\ Associate(done, O, R)
          BY <1>7, <3>2, <4>1, Associates, Zenon
        <4>5. (T \o I) \o coming = T \o R /\ (O \o I) \o coming = O \o R
          BY <4>4, Zenon DEF Associate, R
        <4> QED BY <4>3, <4>4, <4>5, Zenon DEF Associate, T
      <3>5. sent = gone \o ((output'.pkts \o input.pkts) \o coming)
        <4> HIDE DEF gone, O
        <4> QED BY <1>5, <3>3, <3>4, Zenon
      <3> HIDE DEF gone
      <3>6. Split(sent', input', output', net', wire', gone, coming)
        BY <1>4, <1>5, <3>3, <3>5, Zenon DEF Split
      <3> QED BY <3>2, <3>6, Zenon
    <2> QED BY <1>6, <2>1, <2>2, Zenon DEF Fills
  <1>10. Streams(sent', input', output', net', wire')
    BY <1>1, <1>4, <1>8, <1>9, Zenon DEF Streams
  <1> QED BY <1>4, <1>10, Zenon DEF IInv

-----------------------------------------------------------------------------
(* The theorems. *)

LEMMA StepInv == IInv /\ [Next]_vars => IInv'
  <1>1. SUFFICES ASSUME IInv, [Next]_vars PROVE IInv'
    BY Zenon
  <1>2. ASSUME UNCHANGED <<sent, input, output, net, wire>>, pc' \in Places
        PROVE  IInv'
    BY <1>1, <1>2, Zenon DEF IInv
  <1>3. ASSUME NEW when, NEW next \in Places, WriteToNet(when, next)
        PROVE  IInv'
    <2>1. CASE Written(next)
      BY <1>1, <2>1, WrittenKeeps, Zenon
    <2>2. CASE SendFails
      BY <1>2, <2>2, Zenon DEF SendFails, Places
    <2>3. CASE pc' = next /\ UNCHANGED <<sent, input, output, net, wire>>
      BY <1>2, <2>3, Zenon
    <2> QED BY <1>3, <2>1, <2>2, <2>3, Zenon DEF WriteToNet
  <1>4. ASSUME NEW ready \in BOOLEAN, Poll(ready)
        PROVE  IInv'
    BY <1>2, <1>4, Zenon DEF Poll, Places
  <1>5. CASE Close
    BY <1>2, <1>5, Zenon DEF Close, Places
  <1>6. CASE ReadFromNet
    BY <1>1, <1>6, ReadKeeps, Zenon
  <1>7. CASE Write
    BY <1>3, <1>7, Zenon DEF Write, Places
  <1>8. CASE Buffer2Array
    BY <1>1, <1>8, BufferKeeps, Zenon
  <1>9. CASE ProcessPkts
    BY <1>1, <1>9, ProcessKeeps, Zenon
  <1>10. CASE Array2Buffer
    BY <1>1, <1>10, ArrayKeeps, Zenon
  <1>11. CASE Flush
    BY <1>3, <1>11, Zenon DEF Flush, Places
  <1>12. CASE SenderSends
    BY <1>1, <1>12, SenderKeeps, Zenon
  <1>13. CASE SenderHangsUp
    BY <1>1, <1>2, <1>13, Zenon DEF SenderHangsUp, IInv
  <1>14. CASE UNCHANGED vars
    BY <1>1, <1>2, <1>14, Zenon DEF vars, IInv
  <1> QED BY <1>1, <1>4, <1>5, <1>6, <1>7, <1>8, <1>9, <1>10, <1>11, <1>12, <1>13, <1>14, Zenon
          DEF Next, Handler

(* Every byte the sender sent is at one place on its way, in order, and the   *)
(* queues never hold more than net_buffer_size.                               *)
THEOREM EveryByteInPlace == Spec => []IInv
  BY InitInv, StepInv, PTL DEF Spec

(* buffer2array cuts where the sender's packets end, and the packets that     *)
(* wait in input.pkts and output.pkts are packets as they were sent, in their *)
(* order, whatever the sizes of packets, queues and reads.                    *)
THEOREM CutsWhole == Spec => []WholePackets
  <1>1. IInv => WholePackets
    <2>1. SUFFICES ASSUME IInv PROVE WholePackets
      BY Zenon
    <2>2. PICK done \in Seq(Pkts) : \E coming \in Seq(Pkts) :
                 Split(sent, input, output, net, wire, done, coming)
      BY <2>1, Zenon DEF IInv, Streams
    <2>3. PICK coming \in Seq(Pkts) : Split(sent, input, output, net, wire, done, coming)
      BY <2>2, Zenon
    <2> DEFINE W == output.pkts \o input.pkts
               R == W \o coming
               i == Len(done)
    <2>4. W \in Seq(Pkts)
      <3>1. output.pkts \in Seq(Pkts) /\ input.pkts \in Seq(Pkts)
        BY <2>1, Zenon DEF IInv, Streams, Inputs, Outputs
      <3> QED BY <3>1, ConcatProperties, Zenon
    <2>5. sent = done \o R
      BY <2>3, Zenon DEF Split
    <2>6. WholePackets <=> \E k \in 0 .. Len(sent) - Len(W) :
                              W = [j \in 1 .. Len(W) |-> sent[k + j]]
      BY Zenon DEF WholePackets
    <2> HIDE DEF W
    <2>7. /\ R \in Seq(Pkts) /\ Len(R) = Len(W) + Len(coming)
          /\ \A j \in 1 .. Len(W) + Len(coming) :
                R[j] = IF j <= Len(W) THEN W[j] ELSE coming[j - Len(W)]
      BY <2>4, ConcatProperties, Zenon
    <2> HIDE DEF R
    <2>8. /\ Len(sent) = Len(done) + Len(R)
          /\ \A j \in 1 .. Len(done) + Len(R) :
                sent[j] = IF j <= Len(done) THEN done[j] ELSE R[j - Len(done)]
      <3>1. R \in Seq(Pkts)
        BY <2>7, Zenon
      <3>2. /\ Len(done \o R) = Len(done) + Len(R)
            /\ \A j \in 1 .. Len(done) + Len(R) :
                  (done \o R)[j] = IF j <= Len(done) THEN done[j] ELSE R[j - Len(done)]
        BY <3>1, ConcatProperties, Zenon
      <3> QED BY <2>5, <3>2, Zenon
    <2>9. Len(done) \in Nat /\ Len(W) \in Nat /\ Len(coming) \in Nat
      BY <2>4
    <2>10. i \in 0 .. Len(sent) - Len(W)
      BY <2>7, <2>8, <2>9
    <2>11. ASSUME NEW j \in 1 .. Len(W)
           PROVE  W[j] = sent[i + j]
      <3>1. /\ j \in 1 .. Len(W) + Len(coming) /\ j <= Len(W)
            /\ i + j \in 1 .. Len(done) + Len(R) /\ ~(i + j <= Len(done))
            /\ (i + j) - Len(done) = j
        BY <2>7, <2>9
      <3>2. R[j] = W[j]
        BY <2>7, <3>1, Zenon
      <3>3. sent[i + j] = R[(i + j) - Len(done)]
        BY <2>8, <3>1, Zenon
      <3> QED BY <3>1, <3>2, <3>3, Zenon
    <2>12. W = [j \in 1 .. Len(W) |-> W[j]]
      <3>1. W \in [1 .. Len(W) -> Pkts]
        BY <2>4, LenProperties, Zenon
      <3> QED BY <3>1, Zenon
    <2>13. W = [j \in 1 .. Len(W) |-> sent[i + j]]
      <3> HIDE DEF i
      <3>1. [j \in 1 .. Len(W) |-> sent[i + j]] = [j \in 1 .. Len(W) |-> W[j]]
        BY <2>11, Zenon
      <3> QED BY <2>12, <3>1, Zenon
    <2> QED BY <2>6, <2>10, <2>13, Zenon
  <1> QED BY <1>1, EveryByteInPlace, PTL

(* What the receiver was sent is a first part of what the sender sent. *)
LEMMA FirstPart ==
    ASSUME IInv
    PROVE  \E rest \in Seq(Nat) : Bytes(sent) = wire \o rest
  <1>1. PICK done \in Seq(Pkts) : \E coming \in Seq(Pkts) :
               Split(sent, input, output, net, wire, done, coming)
    BY Zenon DEF IInv, Streams
  <1>2. PICK coming \in Seq(Pkts) : Split(sent, input, output, net, wire, done, coming)
    BY <1>1, Zenon
  <1> DEFINE W == output.pkts \o input.pkts
             R == W \o coming
             Q == output.queue.data \o Unsent(output)
  <1>3. R \in Seq(Pkts)
    <2>1. output.pkts \in Seq(Pkts) /\ input.pkts \in Seq(Pkts)
      BY Zenon DEF IInv, Streams, Inputs, Outputs
    <2>2. W \in Seq(Pkts)
      BY <2>1, ConcatProperties, Zenon
    <2> HIDE DEF W
    <2> QED BY <2>2, ConcatProperties, Zenon
  <1>4. sent = done \o R /\ Wrote(output, wire, done)
    BY <1>2, Zenon DEF Split
  <1>5. wire \in Seq(Nat) /\ output \in Outputs
    BY Zenon DEF IInv, Streams
  <1>6. Q \in Seq(Nat)
    <2> DEFINE q == output.queue
    <2>1. q \in Queues /\ Unsent(output) \in Seq(Nat)
      BY <1>4, <1>5, UnsentType, Zenon DEF Outputs
    <2> HIDE DEF q
    <2>2. q.data \in Seq(Nat)
      BY <2>1 DEF Queues
    <2>3. q.data \o Unsent(output) \in Seq(Nat)
      BY <2>1, <2>2, ConcatProperties, Zenon
    <2> QED BY <2>3, Zenon DEF q
  <1>7. wire \o Q = Bytes(done)
    BY <1>4, Zenon DEF Wrote
  <1> HIDE DEF R, Q
  <1>8. /\ done \in Seq(Seq(Nat)) /\ R \in Seq(Seq(Nat)) /\ Bytes(R) \in Seq(Nat)
        /\ Bytes(done \o R) = Bytes(done) \o Bytes(R)
    <2>1. done \in Seq(Seq(Nat)) /\ R \in Seq(Seq(Nat)) /\ Bytes(R) \in Seq(Nat)
      BY <1>3, PktsAreSeqs, Zenon
    <2> QED BY <2>1, BytesConcat, Zenon
  <1>9. Associate(wire, Q, Bytes(R))
    BY <1>5, <1>6, <1>8, Associates, Zenon
  <1>10. Q \o Bytes(R) \in Seq(Nat)
    BY <1>6, <1>8, ConcatProperties, Zenon
  <1> QED BY <1>4, <1>7, <1>8, <1>9, <1>10, Zenon DEF Associate

(* The receiver gets the sender's bytes, each once and in order, until the    *)
(* session ends, for any sizes: the two streams implement Relay.              *)
THEOREM RelaysInOrder == Spec => BytesInOrder
  <1>1. Init => Abstract!RelayInit
    BY BytesOfNone, Zenon DEF Init, Abstract!RelayInit
  <1> DEFINE Step == Abstract!Send \/ Abstract!Deliver \/ Abstract!Break
  <1>2. ASSUME IInv, IInv', [Next]_vars
        PROVE  [Step]_(Abstract!relay)
    <2>1. ASSUME UNCHANGED <<sent, wire>>, pc # "closed"
          PROVE  Abstract!Break \/ UNCHANGED Abstract!relay
      BY <2>1, Zenon DEF Abstract!Break, Abstract!relay
    <2>2. ASSUME NEW when, NEW next \in Places, next # "closed", pc # "closed",
                 WriteToNet(when, next)
          PROVE  [Step]_(Abstract!relay)
      <3>1. CASE Written(next)
        <4>1. PICK x \in Seq(Nat) : x # <<>> /\ wire' = wire \o x
          BY <1>2, <3>1, WrittenKeeps, Zenon
        <4>2. PICK rest \in Seq(Nat) : Bytes(sent') = wire' \o rest
          <5>1. (\E rest \in Seq(Nat) : Bytes(sent) = wire \o rest)'
            BY <1>2, FirstPart, PTL
          <5> QED BY <5>1, Zenon
        <4>3. wire \in Seq(Nat) /\ wire' \in Seq(Nat)
          BY <1>2, Zenon DEF IInv, Streams
        <4>4. wire \o x # wire
          BY <4>1, <4>3, ConcatSimplifications, Zenon
        <4>5. Abstract!Extends(wire', wire)
          BY <4>1, <4>3, <4>4, LongerBy, Zenon
        <4>6. Bytes(sent') = wire' \/ Abstract!Extends(Bytes(sent'), wire')
          BY <4>2, <4>3, LongerBy, Zenon
        <4>7. sent' = sent /\ pc' = next
          BY <3>1, Zenon DEF Written
        <4>8. Abstract!Deliver
          BY <2>2, <4>5, <4>6, <4>7, Zenon DEF Abstract!Deliver
        <4> QED BY <4>8, Zenon
      <3>2. CASE UNCHANGED <<sent, wire>>
        BY <2>1, <2>2, <3>2, Zenon
      <3> QED BY <2>2, <3>1, <3>2, Zenon DEF WriteToNet, SendFails
    <2>3. CASE SenderSends
      <3>1. PICK p \in Seq(Nat) : p # <<>> /\ Bytes(sent') = Bytes(sent) \o p
        BY <1>2, <2>3, SenderKeeps, Zenon
      <3>2. Bytes(sent) \in Seq(Nat)
        BY <1>2, PktsAreSeqs, Zenon DEF IInv, Streams
      <3>3. Bytes(sent) \o p # Bytes(sent)
        BY <3>1, <3>2, ConcatSimplifications, Zenon
      <3>4. Abstract!Extends(Bytes(sent'), Bytes(sent))
        BY <3>1, <3>2, <3>3, LongerBy, Zenon
      <3>5. UNCHANGED <<wire, pc>>
        BY <2>3, Zenon DEF SenderSends
      <3>6. Abstract!Send
        BY <3>4, <3>5, Zenon DEF Abstract!Send
      <3> QED BY <3>6, Zenon
    <2>4. CASE Write
      BY <2>2, <2>4, Zenon DEF Write, Places
    <2>5. CASE Flush
      BY <2>2, <2>5, Zenon DEF Flush, Places
    <2>6. CASE \E ready \in BOOLEAN : Poll(ready)
      BY <2>1, <2>6, Zenon DEF Poll
    <2>7. CASE Close
      BY <2>1, <2>7, Zenon DEF Close
    <2>8. CASE ReadFromNet
      BY <2>1, <2>8, Zenon DEF ReadFromNet
    <2>9. CASE Buffer2Array
      BY <2>1, <2>9, Zenon DEF Buffer2Array
    <2>10. CASE ProcessPkts
      BY <2>1, <2>10, Zenon DEF ProcessPkts
    <2>11. CASE Array2Buffer
      BY <2>1, <2>11, Zenon DEF Array2Buffer
    <2>12. CASE SenderHangsUp \/ UNCHANGED vars
      <3>1. UNCHANGED <<sent, wire, pc>>
        BY <2>12, Zenon DEF SenderHangsUp, vars
      <3> QED BY <3>1, Zenon DEF Abstract!relay
    <2> QED BY <1>2, <2>3, <2>4, <2>5, <2>6, <2>7, <2>8, <2>9, <2>10, <2>11, <2>12, Zenon
            DEF Next, Handler
  <1> QED BY <1>1, <1>2, EveryByteInPlace, PTL DEF Spec, BytesInOrder, Abstract!RelaySpec
=============================================================================
