---------------------------- MODULE PollSetProofs ----------------------------
(***************************************************************************)
(* OwnEvents holds in PollSet for any numbers of sessions and descriptors  *)
(* and any growth of the array: the entries that mysql_thread copies back  *)
(* to a session are those of its own descriptors, although the array is    *)
(* read by a running index while sessions lose, change and close theirs.   *)
(*                                                                         *)
(* Layout is the argument: there are offsets into the array, one per       *)
(* session, and the running index is at the offset of the session whose    *)
(* turn it is.                                                             *)
(***************************************************************************)
EXTENDS PollSet, SequenceTheorems, WellFoundedInduction, TLAPS

FdOrNone == Fds \cup {NoFd}
SessionRec == [client : FdOrNone, server : FdOrNone, fds : [1 .. 2 -> FdOrNone],
               nfds : {1, 2}, healthy : BOOLEAN]

Pcs == {"prepare", "maintain", "handle", "sweep", "tcp", "unix", "grow"}

TypeOK ==
    /\ pc \in Pcs
    /\ sessions \in Seq(Sessions) /\ IsInjective(sessions)
    /\ sess \in [Sessions -> SessionRec]
    /\ pollfds \in Seq(FdOrNone)
    /\ i \in Nat \ {0} /\ nfds \in Nat /\ max_fds \in Nat /\ forced \in BOOLEAN

S(k) == sess[sessions[k]]

(* The array has room for the sessions there are; for those that were         *)
(* accepted since it grew, it will.                                           *)
Room ==
    /\ 3 + Len(pollfds) <= max_fds
    /\ pc \notin {"unix", "grow"} => 3 + 2 * Len(sessions) <= max_fds
    /\ pc = "unix" => 3 + 2 * Len(sessions) <= max_fds + 2
    /\ pc = "grow" => 3 + 2 * Len(sessions) <= max_fds + 4

(* Who is closed is swept out before the next poll().                         *)
Healthy ==
    /\ pc \notin {"handle", "sweep"} => \A k \in 1 .. Len(sessions) : S(k).healthy
    /\ pc = "sweep" => \A k \in 1 .. Len(sessions) : k < i => S(k).healthy
    /\ ~forced => \A k \in 1 .. Len(sessions) : S(k).healthy => S(k).fds[1] = S(k).client

(* The entries of session x are at offset o of the array.                     *)
EntriesAt(o, x) ==
    /\ x.healthy
    /\ pollfds[o + 1] = x.client
    /\ x.nfds = 2 /\ x.server # NoFd => pollfds[o + 2] = x.server

Offsets(off) ==
    /\ off \in [1 .. Len(sessions) + 1 -> Nat]
    /\ off[1] = 0
    /\ \A k \in 1 .. Len(sessions) : off[k + 1] = off[k] + S(k).nfds
    /\ \A k \in 1 .. Len(sessions) + 1 : off[k] <= Len(pollfds)

Waiting(k) == pc = "handle" => i <= k

Laid(off) ==
    /\ Offsets(off)
    /\ ~forced => \A k \in 1 .. Len(sessions) : Waiting(k) => EntriesAt(off[k], S(k))
    /\ pc = "handle" => /\ i <= Len(sessions) + 1 /\ nfds <= off[i]
                        /\ ~forced => nfds = off[i]

Layout == pc \in {"maintain", "handle"} => \E off : Laid(off)

IInv == TypeOK /\ Room /\ Healthy /\ Layout

-----------------------------------------------------------------------------
(* The array that is polled. *)

LEMMA Least ==
    ASSUME NEW T \in SUBSET Nat, T # {}
    PROVE  \E m \in T : \A k \in T : m <= k
  <1> DEFINE R == OpToRel(<, Nat)
  <1>1. IsWellFoundedOn(R, Nat)
    BY NatLessThanWellFounded, Zenon
  <1>2. \A k, m \in T : <<k, m>> \notin R => m <= k
    BY DEF OpToRel
  <1> HIDE DEF R
  <1>3. \E m \in T : \A k \in T : <<k, m>> \notin R
    BY <1>1, WFMin, Zenon
  <1> QED BY <1>2, <1>3, Zenon

(* What the loop adds to the array for its n-th session. *)
Part(A, n) == Polled(A[sessions[n]])

AllHealthy(A) == \A n \in 1 .. Len(sessions) : A[sessions[n]].healthy

Collects(f, A) ==
    /\ f[0] = <<>>
    /\ \A n \in 1 .. Len(sessions) : f[n] = f[n - 1] \o Part(A, n)

LEMMA GatheredUnfolds ==
    ASSUME NEW A, Len(sessions) \in Nat
    PROVE  \E f : Gathered(A) = f[Len(sessions)] /\ Collects(f, A)
  <1> DEFINE L == Len(sessions)
             Body(h, n) == IF n = 0 THEN <<>> ELSE h[n - 1] \o Part(A, n)
             Fix(n, h) == h = [k \in 0 .. n |-> Body(h, k)]
             iter == CHOOSE g : g = [n \in 0 .. L |-> Body(g, n)]
  <1>1. Gathered(A) = iter[L]
    BY Zenon DEF Gathered, Part
  <1>2. \A n \in Nat : \E h : Fix(n, h)
    <2> DEFINE Bad == {n \in Nat : ~\E h : Fix(n, h)}
    <2>1. SUFFICES ASSUME Bad # {} PROVE FALSE
      BY Zenon
    <2>2. PICK m \in Bad : \A k \in Bad : m <= k
      <3>1. Bad \in SUBSET Nat
        BY Zenon
      <3> HIDE DEF Bad
      <3> QED BY <2>1, <3>1, Least, Zenon
    <2>3. m \in Nat /\ ~\E h : Fix(m, h)
      BY <2>2, Zenon
    <2>4. CASE m = 0
      <3> DEFINE g == [k \in 0 .. 0 |-> <<>>]
      <3>1. \A k \in 0 .. 0 : k = 0
        BY SMT
      <3>2. g = [k \in 0 .. 0 |-> Body(g, k)]
        BY <3>1, Zenon
      <3>3. Fix(0, g)
        BY <3>2, Zenon
      <3> HIDE DEF Fix, g
      <3> QED BY <2>3, <2>4, <3>3, Zenon
    <2>5. CASE m # 0
      <3>1. m - 1 \in Nat /\ ~(m <= m - 1)
        BY <2>3, <2>5, SMT
      <3>2. PICK h : Fix(m - 1, h)
        <4>1. m - 1 \notin Bad
          BY <2>2, <3>1, Zenon
        <4> HIDE DEF Fix
        <4> QED BY <3>1, <4>1, Zenon
      <3> DEFINE g == [k \in 0 .. m |-> Body(h, k)]
      <3>3. \A k \in 0 .. m - 1 : k \in 0 .. m
        BY <2>3, SMT
      <3>4. \A k \in 0 .. m : k # 0 => k - 1 \in 0 .. m - 1
        BY <2>3, SMT
      <3>5. \A k \in 0 .. m - 1 : h[k] = Body(h, k)
        <4> HIDE DEF Body
        <4>1. h = [k \in 0 .. m - 1 |-> Body(h, k)]
          BY <3>2, Zenon
        <4> QED BY <4>1, Zenon
      <3>6. \A k \in 0 .. m - 1 : g[k] = h[k]
        <4> HIDE DEF Body
        <4> QED BY <3>3, <3>5, Zenon
      <3> HIDE DEF g
      <3>7. \A k \in 0 .. m : Body(h, k) = Body(g, k)
        BY <3>4, <3>6, Zenon
      <3>8. g = [k \in 0 .. m |-> Body(g, k)]
        <4> HIDE DEF Body
        <4> QED BY <3>7, Zenon DEF g
      <3>9. Fix(m, g)
        <4> HIDE DEF Body
        <4> QED BY <3>8, Zenon
      <3> HIDE DEF Fix
      <3> QED BY <2>3, <3>9, Zenon
    <2> QED BY <2>4, <2>5, Zenon
  <1>3. iter = [n \in 0 .. L |-> Body(iter, n)]
    <2>1. PICK h : Fix(L, h)
      <3> HIDE DEF Fix
      <3> QED BY <1>2, Zenon
    <2> HIDE DEF Body
    <2> QED BY <2>1, Zenon
  <1> HIDE DEF iter
  <1>4. \A n \in 0 .. L : iter[n] = Body(iter, n)
    <2> HIDE DEF Body
    <2> QED BY <1>3, Zenon
  <1>5. 0 \in 0 .. L /\ \A n \in 1 .. L : n \in 0 .. L /\ n # 0
    BY SMT
  <1>6. Collects(iter, A)
    BY <1>4, <1>5, Zenon DEF Collects
  <1> QED BY <1>1, <1>6, Zenon


LEMMA PartIs ==
    ASSUME NEW A \in [Sessions -> SessionRec], AllHealthy(A), sessions \in Seq(Sessions),
           NEW n \in 1 .. Len(sessions)
    PROVE  LET x == A[sessions[n]]
           IN  /\ Part(A, n) \in Seq(FdOrNone) /\ Len(Part(A, n)) = x.nfds /\ x.nfds \in {1, 2}
               /\ Part(A, n)[1] = x.fds[1]
               /\ x.nfds = 2 => Part(A, n)[2] = x.fds[2]
  <1> DEFINE x == A[sessions[n]]
             t == x.fds
             l == x.nfds
  <1>1. sessions[n] \in Sessions
    BY ElementOfSeq, Zenon
  <1>2. x \in SessionRec
    BY <1>1, Zenon
  <1> HIDE DEF x
  <1>3. t \in [1 .. 2 -> FdOrNone] /\ l \in {1, 2}
    BY <1>2, Zenon DEF SessionRec
  <1> HIDE DEF t, l
  <1>4. \A j \in 1 .. l : t[j] \in FdOrNone
    BY <1>3
  <1>5. 1 \in Int /\ l \in Int
    BY <1>3
  <1> DEFINE p == SubSeq(t, 1, l)
  <1>6. p \in Seq(FdOrNone)
    BY <1>4, <1>5, SubSeqProperties, Zenon
  <1>7. Len(p) = l /\ p[1] = t[1] /\ (l = 2 => p[2] = t[2])
    BY <1>3, SMT
  <1> HIDE DEF p
  <1>8. Part(A, n) = p
    BY Zenon DEF Part, Polled, AllHealthy, p, t, l, x
  <1> QED BY <1>3, <1>6, <1>7, <1>8, Zenon DEF t, l, x

(* Every part of the array stays where the loop put it. *)
Grown(f, n) ==
    /\ f[n] \in Seq(FdOrNone) /\ Len(f[n]) <= 2 * n
    /\ \A k \in 0 .. n : /\ Len(f[k]) <= Len(f[n])
                         /\ \A j \in 1 .. Len(f[k]) : f[n][j] = f[k][j]

PartAdded(f, n, x) ==
    LET o == Len(f[n - 1])
    IN  /\ f[n] \in Seq(FdOrNone) /\ Len(f[n]) = o + x.nfds
        /\ o \in Nat /\ x.nfds \in {1, 2}
        /\ \A j \in 1 .. o : f[n][j] = f[n - 1][j]
        /\ f[n][o + 1] = x.fds[1]
        /\ x.nfds = 2 => f[n][o + 2] = x.fds[2]

LEMMA GrowsByPart ==
    ASSUME NEW A \in [Sessions -> SessionRec], AllHealthy(A), sessions \in Seq(Sessions), NEW f, Collects(f, A),
           NEW n \in 1 .. Len(sessions), f[n - 1] \in Seq(FdOrNone)
    PROVE  PartAdded(f, n, A[sessions[n]])
  <1> DEFINE x == A[sessions[n]]
             o == Len(f[n - 1])
             q == f[n - 1]
             p == Part(A, n)
             l == x.nfds
             u == x.fds[1]
             v == x.fds[2]
  <1>1. p \in Seq(FdOrNone) /\ Len(p) = l /\ l \in {1, 2} /\ p[1] = u /\ (l = 2 => p[2] = v)
    BY PartIs, Zenon
  <1>2. f[n] = q \o p
    BY Zenon DEF Collects
  <1> HIDE DEF x, p, q, l, u, v
  <1>3. q \in Seq(FdOrNone) /\ o = Len(q)
    BY Zenon DEF q
  <1> HIDE DEF o
  <1>4. o \in Nat
    BY <1>3, LenProperties, Zenon
  <1>5. /\ q \o p \in Seq(FdOrNone) /\ Len(q \o p) = o + l
        /\ \A j \in 1 .. o + l : (q \o p)[j] = IF j <= o THEN q[j] ELSE p[j - o]
    BY <1>1, <1>3, ConcatProperties, Zenon
  <1> DEFINE z == q \o p
  <1> HIDE DEF z
  <1>6. /\ z \in Seq(FdOrNone) /\ Len(z) = o + l
        /\ \A j \in 1 .. o + l : z[j] = IF j <= o THEN q[j] ELSE p[j - o]
    BY <1>5, Zenon DEF z
  <1>7. \A j \in 1 .. o : z[j] = q[j]
    BY <1>1, <1>4, <1>6, SMT
  <1>8. z[o + 1] = u
    <2>1. o + 1 \in 1 .. o + l /\ ~(o + 1 <= o) /\ (o + 1) - o = 1
      BY <1>1, <1>4, SMT
    <2> QED BY <1>1, <1>6, <2>1, Zenon
  <1>9. l = 2 => z[o + 2] = v
    <2>1. l = 2 => o + 2 \in 1 .. o + l /\ ~(o + 2 <= o) /\ (o + 2) - o = 2
      BY <1>1, <1>4, SMT
    <2> QED BY <1>1, <1>6, <2>1, Zenon
  <1>10. f[n] = z
    BY <1>2, Zenon DEF z
  <1> QED BY <1>1, <1>4, <1>6, <1>7, <1>8, <1>9, <1>10, Zenon DEF x, o, q, l, u, v, PartAdded

LEMMA GrownAll ==
    ASSUME NEW A \in [Sessions -> SessionRec], AllHealthy(A), sessions \in Seq(Sessions), NEW f, Collects(f, A)
    PROVE  \A n \in 0 .. Len(sessions) : Grown(f, n)
  <1> DEFINE L == Len(sessions)
             Bad == {n \in Nat : n <= L /\ ~Grown(f, n)}
  <1>1. L \in Nat
    BY LenProperties, Zenon
  <1>2. SUFFICES ASSUME Bad # {} PROVE FALSE
    <2>1. \A n \in 0 .. L : n \in Nat /\ n <= L
      BY <1>1, SMT
    <2> QED BY <2>1, Zenon
  <1>3. PICK n \in Bad : \A k \in Bad : n <= k
    <2>1. Bad \in SUBSET Nat
      BY Zenon
    <2> HIDE DEF Bad
    <2> QED BY <1>2, <2>1, Least, Zenon
  <1>4. n \in Nat /\ n <= L /\ ~Grown(f, n)
    BY <1>3, Zenon
  <1>5. CASE n = 0
    <2>1. f[0] = <<>>
      BY Zenon DEF Collects
    <2>2. f[0] \in Seq(FdOrNone) /\ Len(f[0]) = 0
      BY <2>1, EmptySeq, Zenon
    <2>3. Grown(f, 0)
      BY <2>2, SMT DEF Grown
    <2> QED BY <1>4, <1>5, <2>3, Zenon
  <1>6. CASE n # 0
    <2>1. n \in 1 .. L /\ n - 1 \in Nat /\ n - 1 <= L /\ ~(n <= n - 1)
      BY <1>1, <1>4, <1>6, SMT
    <2>2. Grown(f, n - 1)
      BY <1>3, <2>1, Zenon
    <2> DEFINE o == Len(f[n - 1])
               l == A[sessions[n]].nfds
    <2>3. f[n - 1] \in Seq(FdOrNone) /\ o <= 2 * (n - 1)
      BY <2>2, Zenon DEF Grown
    <2>4. /\ f[n] \in Seq(FdOrNone) /\ Len(f[n]) = o + l /\ o \in Nat /\ l \in {1, 2}
          /\ \A j \in 1 .. o : f[n][j] = f[n - 1][j]
      <3>1. PartAdded(f, n, A[sessions[n]])
        BY <2>1, <2>3, GrowsByPart, Zenon
      <3> QED BY <3>1, Zenon DEF PartAdded
    <2> HIDE DEF l
    <2>5. Len(f[n]) <= 2 * n /\ o <= Len(f[n])
      <3> HIDE DEF o
      <3> QED BY <1>4, <2>3, <2>4, SMT
    <2>6. ASSUME NEW k \in 0 .. n
          PROVE  /\ Len(f[k]) <= Len(f[n])
                 /\ \A j \in 1 .. Len(f[k]) : f[n][j] = f[k][j]
      <3>1. CASE k = n
        <4>1. Len(f[n]) \in Nat
          BY <2>4, LenProperties, Zenon
        <4>2. Len(f[n]) <= Len(f[n])
          BY <4>1, SMT
        <4> QED BY <3>1, <4>2, Zenon
      <3>2. CASE k # n
        <4>1. k \in 0 .. n - 1
          BY <1>4, <3>2, SMT
        <4> DEFINE c == Len(f[k])
        <4>2. c <= o /\ \A j \in 1 .. c : f[n - 1][j] = f[k][j]
          BY <2>2, <4>1, Zenon DEF Grown
        <4> HIDE DEF c, o
        <4>3. c \in Nat
          <5>1. k \in Nat /\ k <= L /\ ~(n <= k)
            BY <1>1, <1>4, <4>1, SMT
          <5>2. Grown(f, k)
            BY <1>3, <5>1, Zenon
          <5>3. f[k] \in Seq(FdOrNone)
            BY <5>2, Zenon DEF Grown
          <5> QED BY <5>3, LenProperties, Zenon DEF c
        <4>4. c <= Len(f[n]) /\ \A j \in 1 .. c : j \in 1 .. o
          BY <2>4, <4>2, <4>3, SMT
        <4> QED BY <2>4, <4>2, <4>4, Zenon DEF c
      <3> QED BY <3>1, <3>2, Zenon
    <2>7. Grown(f, n)
      BY <2>4, <2>5, <2>6, Zenon DEF Grown
    <2> QED BY <1>4, <2>7, Zenon
  <1> QED BY <1>5, <1>6, Zenon


(* The descriptors of the sessions A lie one after the other in G. *)
Arranged(off, A, G) ==
    /\ off \in [1 .. Len(sessions) + 1 -> Nat]
    /\ off[1] = 0
    /\ \A k \in 1 .. Len(sessions) :
          LET x == A[sessions[k]]
          IN  /\ off[k + 1] = off[k] + x.nfds
              /\ G[off[k] + 1] = x.fds[1]
              /\ x.nfds = 2 => G[off[k] + 2] = x.fds[2]
    /\ \A k \in 1 .. Len(sessions) + 1 : off[k] <= Len(G)

LEMMA GatheredArranged ==
    ASSUME NEW A \in [Sessions -> SessionRec], AllHealthy(A), sessions \in Seq(Sessions)
    PROVE  /\ Gathered(A) \in Seq(FdOrNone) /\ Len(Gathered(A)) <= 2 * Len(sessions)
           /\ \E off : Arranged(off, A, Gathered(A))
  <1> DEFINE L == Len(sessions)
             G == Gathered(A)
  <1>1. L \in Nat
    BY LenProperties, Zenon
  <1>2. PICK f : G = f[L] /\ Collects(f, A)
    BY <1>1, GatheredUnfolds, Zenon
  <1>3. \A n \in 0 .. L : Grown(f, n)
    BY <1>2, GrownAll, Zenon
  <1> HIDE DEF L, G
  <1>4. /\ G \in Seq(FdOrNone) /\ Len(G) <= 2 * L
        /\ \A k \in 0 .. L : /\ Len(f[k]) <= Len(G)
                             /\ \A j \in 1 .. Len(f[k]) : G[j] = f[k][j]
    <2>1. L \in 0 .. L
      BY <1>1, SMT
    <2> QED BY <1>2, <1>3, <2>1, Zenon DEF Grown
  <1>5. ASSUME NEW k \in 1 .. L
        PROVE  PartAdded(f, k, A[sessions[k]])
    <2>1. k - 1 \in 0 .. L
      BY <1>1, SMT
    <2>2. f[k - 1] \in Seq(FdOrNone)
      BY <1>3, <2>1, Zenon DEF Grown
    <2> QED BY <1>2, <2>2, GrowsByPart, Zenon DEF L
  <1> DEFINE off == [k \in 1 .. L + 1 |-> Len(f[k - 1])]
  <1>6. \A k \in 1 .. L + 1 : k - 1 \in 0 .. L /\ off[k] = Len(f[k - 1])
    <2>1. \A k \in 1 .. L + 1 : k - 1 \in 0 .. L
      BY <1>1, SMT
    <2> QED BY <2>1, Zenon
  <1>7. off \in [1 .. L + 1 -> Nat] /\ \A k \in 1 .. L + 1 : off[k] \in Nat /\ off[k] <= Len(G)
    <2>1. \A k \in 1 .. L + 1 : Len(f[k - 1]) \in Nat
      <3>1. ASSUME NEW k \in 1 .. L + 1 PROVE Len(f[k - 1]) \in Nat
        <4>1. f[k - 1] \in Seq(FdOrNone)
          BY <1>3, <1>6, Zenon DEF Grown
        <4> QED BY <4>1, LenProperties, Zenon
      <3> QED BY <3>1, Zenon
    <2>2. off \in [1 .. L + 1 -> Nat]
      BY <2>1, Zenon
    <2> HIDE DEF off
    <2> QED BY <1>4, <1>6, <2>1, <2>2, Zenon
  <1> HIDE DEF off
  <1>8. off[1] = 0
    <2>1. 1 \in 1 .. L + 1 /\ 1 - 1 = 0
      BY <1>1, SMT
    <2>2. f[0] = <<>>
      BY <1>2, Zenon DEF Collects
    <2>3. Len(<<>>) = 0
      BY EmptySeq, Zenon
    <2> QED BY <1>6, <2>1, <2>2, <2>3, Zenon
  <1>9. ASSUME NEW k \in 1 .. L
        PROVE  LET x == A[sessions[k]]
               IN  /\ off[k + 1] = off[k] + x.nfds
                   /\ G[off[k] + 1] = x.fds[1]
                   /\ x.nfds = 2 => G[off[k] + 2] = x.fds[2]
    <2> DEFINE x == A[sessions[k]]
               o == off[k]
               l == x.nfds
               g == f[k]
    <2>1. k \in 1 .. L + 1 /\ k + 1 \in 1 .. L + 1 /\ (k + 1) - 1 = k /\ k \in 0 .. L
      BY <1>1, SMT
    <2>2. o = Len(f[k - 1]) /\ off[k + 1] = Len(g)
      BY <1>6, <2>1, Zenon
    <2>3. /\ Len(g) = o + l /\ o \in Nat /\ l \in {1, 2}
          /\ g[o + 1] = x.fds[1] /\ (l = 2 => g[o + 2] = x.fds[2])
      BY <1>5, <2>2, Zenon DEF PartAdded
    <2>4. \A j \in 1 .. Len(g) : G[j] = g[j]
      BY <1>4, <2>1, Zenon
    <2> HIDE DEF x, o, l, g
    <2>5. o + 1 \in 1 .. Len(g) /\ (l = 2 => o + 2 \in 1 .. Len(g))
      BY <2>3, SMT
    <2> QED BY <2>2, <2>3, <2>4, <2>5, Zenon DEF x, o, l
  <1>10. Arranged(off, A, G)
    BY <1>7, <1>8, <1>9, Zenon DEF Arranged, L
  <1> QED BY <1>4, <1>10, Zenon DEF L, G

-----------------------------------------------------------------------------
(* One lemma per action. *)

LEMMA RecIs ==
    ASSUME NEW x \in SessionRec
    PROVE  /\ x.client \in FdOrNone /\ x.server \in FdOrNone /\ x.fds \in [1 .. 2 -> FdOrNone]
           /\ x.nfds \in {1, 2} /\ x.healthy \in BOOLEAN
           /\ DOMAIN x = {"client", "server", "fds", "nfds", "healthy"}
  BY Zenon DEF SessionRec

LEMMA SessionIs ==
    ASSUME TypeOK
    PROVE  /\ Len(sessions) \in Nat
           /\ DOMAIN sessions = 1 .. Len(sessions)
           /\ \A k \in 1 .. Len(sessions) : sessions[k] \in Sessions /\ S(k) \in SessionRec
           /\ \A k, l \in 1 .. Len(sessions) : sessions[k] = sessions[l] => k = l
  <1>1. Len(sessions) \in Nat /\ DOMAIN sessions = 1 .. Len(sessions)
    BY LenProperties, Zenon DEF TypeOK
  <1>2. \A k \in 1 .. Len(sessions) : sessions[k] \in Sessions
    BY ElementOfSeq, Zenon DEF TypeOK
  <1>3. \A k \in 1 .. Len(sessions) : S(k) \in SessionRec
    BY <1>2, Zenon DEF TypeOK, S
  <1>4. \A k, l \in 1 .. Len(sessions) : sessions[k] = sessions[l] => k = l
    BY <1>1, Zenon DEF TypeOK, IsInjective
  <1> QED BY <1>1, <1>2, <1>3, <1>4, Zenon

Readied(x, y) ==
    /\ y \in SessionRec /\ y.healthy = x.healthy
    /\ y.client = x.client /\ y.server = x.server /\ y.fds[1] = x.fds[1]
    /\ y.nfds = 2 /\ y.server # NoFd => y.fds[2] = y.server

LEMMA ReadyIs ==
    ASSUME NEW x \in SessionRec
    PROVE  Readied(x, Ready(x))
  <1>1. /\ x.client \in FdOrNone /\ x.server \in FdOrNone /\ x.fds \in [1 .. 2 -> FdOrNone]
        /\ x.nfds \in {1, 2} /\ x.healthy \in BOOLEAN
        /\ DOMAIN x = {"client", "server", "fds", "nfds", "healthy"}
    BY RecIs, Zenon
  <1>2. CASE x.server # NoFd
    <2>1. Ready(x) = [x EXCEPT !.nfds = 2, !.fds[2] = x.server]
      BY <1>2, Zenon DEF Ready
    <2> DEFINE z == [x.fds EXCEPT ![2] = x.server]
               y == [x EXCEPT !.nfds = 2, !.fds = z]
    <2>2. z \in [1 .. 2 -> FdOrNone] /\ z[1] = x.fds[1] /\ z[2] = x.server
      BY <1>1, SMT
    <2>3. Ready(x) = y
      BY <1>1, <2>1, Zenon
    <2> HIDE DEF z
    <2>4. /\ y.healthy = x.healthy /\ y.client = x.client /\ y.server = x.server
          /\ y.fds = z /\ y.nfds = 2
      BY <1>1, Zenon
    <2>5. y \in SessionRec
      BY <1>1, <2>2, Zenon DEF SessionRec
    <2> HIDE DEF y
    <2> QED BY <2>2, <2>3, <2>4, <2>5, Zenon DEF Readied
  <1>3. CASE x.server = NoFd
    <2>1. Ready(x) = [x EXCEPT !.nfds = 1]
      BY <1>3, Zenon DEF Ready
    <2> QED BY <1>1, <1>3, <2>1 DEF SessionRec, Readied
  <1> QED BY <1>2, <1>3, Zenon


LEMMA PollKeeps ==
    ASSUME IInv, Poll
    PROVE  IInv'
  <1> DEFINE L == Len(sessions)
             A == sess'
  <1>1. /\ pc = "prepare" /\ pc' = "maintain" /\ pollfds' = Gathered(A)
        /\ sessions' = sessions /\ i' = i /\ nfds' = nfds /\ max_fds' = max_fds /\ forced' = forced
        /\ A = [s \in Sessions |-> IF sess[s].healthy THEN Ready(sess[s]) ELSE sess[s]]
    BY Zenon DEF Poll
  <1>2. TypeOK /\ Room /\ Healthy
    BY Zenon DEF IInv
  <1>3. L \in Nat /\ \A k \in 1 .. L : sessions[k] \in Sessions /\ S(k) \in SessionRec /\ S(k).healthy
    BY <1>1, <1>2, SessionIs, Zenon DEF Healthy
  <1>4. A \in [Sessions -> SessionRec]
    <2>1. \A s \in Sessions : sess[s] \in SessionRec
      BY <1>2, Zenon DEF TypeOK
    <2>2. \A s \in Sessions : Ready(sess[s]) \in SessionRec
      BY <2>1, ReadyIs, Zenon DEF Readied
    <2> QED BY <1>1, <2>1, <2>2, Zenon
  <1>5. \A k \in 1 .. L : A[sessions[k]] = Ready(S(k))
    BY <1>1, <1>3, Zenon DEF S
  <1> HIDE DEF A
  <1>6. /\ pollfds' \in Seq(FdOrNone) /\ Len(pollfds') <= 2 * L
        /\ \E off : Arranged(off, A, pollfds')
    <2>1. AllHealthy(A)
      <3>1. ASSUME NEW k \in 1 .. L PROVE A[sessions[k]].healthy
        <4>1. S(k).healthy /\ S(k) \in SessionRec /\ A[sessions[k]] = Ready(S(k))
          BY <1>3, <1>5, Zenon
        <4>2. Ready(S(k)).healthy = S(k).healthy
          BY <4>1, ReadyIs, Zenon DEF Readied
        <4> QED BY <4>1, <4>2
      <3> QED BY <3>1, Zenon DEF AllHealthy
    <2> QED BY <1>1, <1>2, <1>4, <2>1, GatheredArranged, Zenon DEF TypeOK
  <1>7. TypeOK'
    BY <1>1, <1>2, <1>4, <1>6, Zenon DEF TypeOK, Pcs, A
  <1>8. Room'
    <2> DEFINE P == Len(pollfds')
    <2>1. P \in Nat
      BY <1>6, LenProperties, Zenon
    <2>2. 3 + 2 * L <= max_fds /\ max_fds \in Nat
      BY <1>1, <1>2, Zenon DEF Room, TypeOK
    <2> HIDE DEF P, L
    <2>3. 3 + P <= max_fds
      BY <1>3, <1>6, <2>1, <2>2, SMT DEF P
    <2> QED BY <1>1, <2>2, <2>3, Zenon DEF Room, P, L
  <1>9. \A k \in 1 .. L : /\ S(k)'.healthy
                          /\ S(k)'.client = S(k).client /\ S(k)'.server = S(k).server
                          /\ S(k)'.fds[1] = S(k).fds[1]
                          /\ S(k)'.nfds = 2 /\ S(k)'.server # NoFd => S(k)'.fds[2] = S(k)'.server
    <2>1. ASSUME NEW k \in 1 .. L
          PROVE  /\ S(k)'.healthy
                 /\ S(k)'.client = S(k).client /\ S(k)'.server = S(k).server
                 /\ S(k)'.fds[1] = S(k).fds[1]
                 /\ S(k)'.nfds = 2 /\ S(k)'.server # NoFd => S(k)'.fds[2] = S(k)'.server
      <3>1. S(k)' = Ready(S(k)) /\ S(k) \in SessionRec /\ S(k).healthy
        BY <1>1, <1>3, <1>5, Zenon DEF S, A
      <3>2. Readied(S(k), Ready(S(k)))
        BY <3>1, ReadyIs, Zenon
      <3>3. Readied(S(k), S(k)')
        BY <3>1, <3>2, Zenon
      <3> QED BY <3>1, <3>3, Zenon DEF Readied
    <2> QED BY <2>1, Zenon
  <1>10. Healthy'
    BY <1>1, <1>2, <1>9, Zenon DEF Healthy
  <1>11. Layout'
    <2>1. PICK off : Arranged(off, A, pollfds')
      BY <1>6, Zenon
    <2>2. \A k \in 1 .. L : A[sessions[k]] = S(k)'
      BY <1>1, Zenon DEF S, A
    <2>3. Offsets(off)'
      BY <1>1, <2>1, <2>2, Zenon DEF Arranged, Offsets
    <2>4. ~forced => \A k \in 1 .. L : EntriesAt(off[k], S(k))'
      <3>1. ASSUME ~forced, NEW k \in 1 .. L
            PROVE  EntriesAt(off[k], S(k))'
        <4>1. S(k).fds[1] = S(k).client
          BY <1>2, <1>3, <3>1, Zenon DEF Healthy
        <4>2. /\ pollfds'[off[k] + 1] = S(k)'.fds[1]
              /\ S(k)'.nfds = 2 => pollfds'[off[k] + 2] = S(k)'.fds[2]
          BY <2>1, <2>2, Zenon DEF Arranged
        <4> QED BY <1>9, <4>1, <4>2, Zenon DEF EntriesAt
      <3> QED BY <3>1, Zenon
    <2>5. Laid(off)'
      BY <1>1, <2>3, <2>4, Zenon DEF Laid
    <2> QED BY <2>5, Zenon DEF Layout
  <1> QED BY <1>7, <1>8, <1>10, <1>11, Zenon DEF IInv

(* What maintenance may do to a session.  The timeout may have closed it. *)
Maintained(x, y, timeout) ==
    /\ y \in SessionRec /\ y.nfds = x.nfds /\ y.fds = x.fds
    /\ ~timeout => /\ y.healthy = x.healthy /\ y.client = x.client
                   /\ y.server \in {x.server, NoFd}

LEMMA GivesUpServer ==
    ASSUME NEW x \in SessionRec
    PROVE  /\ Maintained(x, x, FALSE) /\ Maintained(x, x, TRUE)
           /\ Maintained(x, [x EXCEPT !.server = NoFd], FALSE)
           /\ Maintained(x, Closed(x), TRUE)
  <1>1. /\ x.client \in FdOrNone /\ x.server \in FdOrNone /\ x.fds \in [1 .. 2 -> FdOrNone]
        /\ x.nfds \in {1, 2} /\ x.healthy \in BOOLEAN
        /\ DOMAIN x = {"client", "server", "fds", "nfds", "healthy"}
    BY RecIs, Zenon
  <1>2. NoFd \in FdOrNone
    BY Zenon DEF FdOrNone
  <1> DEFINE y == [x EXCEPT !.server = NoFd]
             c == Closed(x)
  <1>3. y \in SessionRec /\ c \in SessionRec
    BY <1>1, <1>2, Zenon DEF SessionRec, Closed
  <1>4. /\ y.nfds = x.nfds /\ y.fds = x.fds /\ y.healthy = x.healthy /\ y.client = x.client
        /\ y.server = NoFd
    BY <1>1, Zenon
  <1>5. c.nfds = x.nfds /\ c.fds = x.fds
    BY <1>1, Zenon DEF Closed
  <1> HIDE DEF y, c
  <1>6. Maintained(x, x, FALSE) /\ Maintained(x, x, TRUE)
    BY Zenon DEF Maintained
  <1>7. Maintained(x, y, FALSE) /\ Maintained(x, c, TRUE)
    BY <1>3, <1>4, <1>5, Zenon DEF Maintained
  <1> QED BY <1>6, <1>7, Zenon DEF y, c

LEMMA MaintainKeeps ==
    ASSUME IInv, Maintain
    PROVE  IInv'
  <1> DEFINE L == Len(sessions)
  <1>1. /\ pc = "maintain" /\ pc' = "handle" /\ i' = 1 /\ nfds' = 0
        /\ sessions' = sessions /\ pollfds' = pollfds /\ max_fds' = max_fds
    BY Zenon DEF Maintain
  <1>2. TypeOK /\ Room /\ Healthy /\ Layout
    BY Zenon DEF IInv
  <1>3. L \in Nat /\ \A k \in 1 .. L : sessions[k] \in Sessions /\ S(k) \in SessionRec
    BY <1>2, SessionIs, Zenon
  <1>4. /\ forced' \in BOOLEAN /\ (~forced' => ~forced)
        /\ DOMAIN sess' = Sessions /\ sess' = [s \in Sessions |-> sess'[s]]
        /\ \A s \in Sessions : Maintained(sess[s], sess'[s], forced')
    <2>1. PICK gone \in SUBSET {s \in Sessions : sess[s].server # NoFd} :
             \/ /\ sess' = [s \in Sessions |->
                        IF s \in gone THEN [sess[s] EXCEPT !.server = NoFd] ELSE sess[s]]
                /\ UNCHANGED forced
             \/ /\ sess' = [s \in Sessions |-> IF s \in gone THEN Closed(sess[s]) ELSE sess[s]]
                /\ forced' = TRUE
      BY Zenon DEF Maintain
    <2>2. ASSUME NEW s \in Sessions
          PROVE  /\ Maintained(sess[s], sess[s], FALSE) /\ Maintained(sess[s], sess[s], TRUE)
                 /\ Maintained(sess[s], [sess[s] EXCEPT !.server = NoFd], FALSE)
                 /\ Maintained(sess[s], Closed(sess[s]), TRUE)
      <3>1. sess[s] \in SessionRec
        BY <1>2, Zenon DEF TypeOK
      <3> QED BY <3>1, GivesUpServer, Zenon
    <2>3. ASSUME NEW x, NEW y, Maintained(x, y, FALSE)
          PROVE  Maintained(x, y, TRUE)
      BY <2>3, Zenon DEF Maintained
    <2>4. forced \in BOOLEAN
      BY <1>2, Zenon DEF TypeOK
    <2>5. CASE /\ sess' = [s \in Sessions |->
                     IF s \in gone THEN [sess[s] EXCEPT !.server = NoFd] ELSE sess[s]]
               /\ UNCHANGED forced
      <3>1. \A s \in Sessions : Maintained(sess[s], sess'[s], FALSE)
        BY <2>2, <2>5, Zenon
      <3>2. \A s \in Sessions : Maintained(sess[s], sess'[s], TRUE)
        BY <2>3, <3>1, Zenon
      <3>3. forced' = TRUE \/ forced' = FALSE
        BY <2>4, <2>5, Zenon
      <3> QED BY <2>4, <2>5, <3>1, <3>2, <3>3, Zenon
    <2>6. CASE /\ sess' = [s \in Sessions |-> IF s \in gone THEN Closed(sess[s]) ELSE sess[s]]
               /\ forced' = TRUE
      <3>1. \A s \in Sessions : Maintained(sess[s], sess'[s], TRUE)
        BY <2>2, <2>6, Zenon
      <3> QED BY <2>6, <3>1, Zenon
    <2> QED BY <2>1, <2>5, <2>6, Zenon
  <1>5. TypeOK'
    <2>1. sess' \in [Sessions -> SessionRec]
      BY <1>4, Zenon DEF Maintained
    <2>2. 1 \in Nat \ {0} /\ 0 \in Nat
      BY SMT
    <2> QED BY <1>1, <1>2, <1>4, <2>1, <2>2, Zenon DEF TypeOK, Pcs
  <1>6. Room'
    BY <1>1, <1>2, Zenon DEF Room
  <1>7. \A k \in 1 .. L : Maintained(S(k), S(k)', forced')
    BY <1>1, <1>3, <1>4, Zenon DEF S
  <1>8. Healthy'
    <2>1. ASSUME ~forced', NEW k \in 1 .. L
          PROVE  S(k)'.healthy => S(k)'.fds[1] = S(k)'.client
      <3>1. S(k).healthy => S(k).fds[1] = S(k).client
        BY <1>2, <1>4, <2>1, Zenon DEF Healthy
      <3> QED BY <1>7, <2>1, <3>1, Zenon DEF Maintained
    <2> QED BY <1>1, <2>1, Zenon DEF Healthy
  <1>9. Layout'
    <2>1. PICK off : Laid(off)
      BY <1>1, <1>2, Zenon DEF Layout
    <2>2. Offsets(off)'
      BY <1>1, <1>7, <2>1, Zenon DEF Laid, Offsets, Maintained
    <2>3. ASSUME ~forced', NEW k \in 1 .. L
          PROVE  EntriesAt(off[k], S(k))'
      <3>1. EntriesAt(off[k], S(k))
        BY <1>1, <1>4, <2>1, <2>3, Zenon DEF Laid, Waiting
      <3> QED BY <1>1, <1>7, <2>3, <3>1, Zenon DEF EntriesAt, Maintained
    <2>4. 1 <= L + 1 /\ 0 <= off[1] /\ 0 = off[1]
      <3>1. off[1] = 0
        BY <2>1, Zenon DEF Laid, Offsets
      <3> QED BY <1>3, <3>1, SMT
    <2>5. Laid(off)'
      BY <1>1, <2>2, <2>3, <2>4, Zenon DEF Laid
    <2> QED BY <2>5, Zenon DEF Layout
  <1> QED BY <1>5, <1>6, <1>8, <1>9, Zenon DEF IInv


(* What a handler may do to a session whose entries have been copied. *)
Worked(c, x) ==
    /\ x \in SessionRec /\ x.nfds = c.nfds /\ x.fds = c.fds
    /\ x.healthy => x.client = c.client

LEMMA HandledIs ==
    ASSUME NEW c \in SessionRec, NEW x \in Handled(c)
    PROVE  Worked(c, x)
  <1>1. /\ c.client \in FdOrNone /\ c.server \in FdOrNone /\ c.fds \in [1 .. 2 -> FdOrNone]
        /\ c.nfds \in {1, 2} /\ c.healthy \in BOOLEAN
        /\ DOMAIN c = {"client", "server", "fds", "nfds", "healthy"}
    BY RecIs, Zenon
  <1>2. NoFd \in FdOrNone /\ \A f \in UnusedFds : f \in FdOrNone
    BY Zenon DEF FdOrNone, UnusedFds
  <1>3. CASE x = c
    BY <1>3, Zenon DEF Worked
  <1>4. CASE x = Closed(c)
    <2>1. x \in SessionRec /\ x.nfds = c.nfds /\ x.fds = c.fds /\ x.healthy = FALSE
      BY <1>1, <1>2, <1>4, Zenon DEF Closed, SessionRec
    <2> QED BY <2>1, Zenon DEF Worked
  <1>5. ASSUME NEW f \in FdOrNone, x = [c EXCEPT !.server = f]
        PROVE  Worked(c, x)
    <2>1. x \in SessionRec /\ x.nfds = c.nfds /\ x.fds = c.fds /\ x.client = c.client
      BY <1>1, <1>5, Zenon DEF SessionRec
    <2> QED BY <2>1, Zenon DEF Worked
  <1> QED BY <1>2, <1>3, <1>4, <1>5, Zenon DEF Handled

(* The entries of the session whose turn it is are in the array. *)
LEMMA CopiedIs ==
    ASSUME TypeOK, i \in 1 .. Len(sessions), NEW off, Offsets(off), nfds <= off[i]
    PROVE  LET s == sessions[i]
               c == [sess[s] EXCEPT !.fds = [j \in 1 .. 2 |->
                         IF j <= sess[s].nfds THEN Entry(j) ELSE @[j]]]
           IN  /\ c \in SessionRec /\ c.nfds = sess[s].nfds /\ c.client = sess[s].client
               /\ c.fds[1] = Entry(1)
  <1> DEFINE x == sess[sessions[i]]
             l == x.nfds
             z == [j \in 1 .. 2 |-> IF j <= l THEN Entry(j) ELSE x.fds[j]]
             c == [x EXCEPT !.fds = z]
             o == off[i]
             P == Len(pollfds)
  <1>1. x \in SessionRec
    BY SessionIs, Zenon DEF S
  <1>2. /\ x.client \in FdOrNone /\ x.server \in FdOrNone /\ x.fds \in [1 .. 2 -> FdOrNone]
        /\ l \in {1, 2} /\ x.healthy \in BOOLEAN
        /\ DOMAIN x = {"client", "server", "fds", "nfds", "healthy"}
    BY <1>1, RecIs, Zenon
  <1>3. o \in Nat /\ o + l <= P
    <2>1. Len(sessions) \in Nat
      BY SessionIs, Zenon
    <2>2. i \in 1 .. Len(sessions) + 1 /\ i + 1 \in 1 .. Len(sessions) + 1
      BY <2>1, SMT
    <2>3. o \in Nat
      BY <2>2, Zenon DEF Offsets
    <2>4. off[i + 1] = o + l /\ off[i + 1] <= P
      BY <2>2, Zenon DEF Offsets, S
    <2> QED BY <2>3, <2>4, Zenon
  <1>4. P \in Nat /\ \A n \in 1 .. P : pollfds[n] \in FdOrNone
    BY LenProperties, ElementOfSeq, Zenon DEF TypeOK
  <1>5. nfds \in Nat /\ nfds <= o
    BY Zenon DEF TypeOK
  <1> HIDE DEF x, o, P
  <1>6. \A j \in 1 .. 2 : j <= l => Entry(j) \in FdOrNone
    <2>1. \A j \in 1 .. 2 : j <= l => nfds + j \in 1 .. P
      <3> HIDE DEF l
      <3> QED BY <1>2, <1>3, <1>4, <1>5, SMT
    <2> QED BY <1>4, <2>1, Zenon DEF Entry
  <1>7. z \in [1 .. 2 -> FdOrNone]
    BY <1>2, <1>6, Zenon
  <1>8. z[1] = Entry(1)
    <2>1. 1 \in 1 .. 2 /\ 1 <= l
      <3> HIDE DEF l
      <3> QED BY <1>2, SMT
    <2> QED BY <2>1, Zenon
  <1> HIDE DEF z
  <1>9. c \in SessionRec
    BY <1>2, <1>7, Zenon DEF SessionRec
  <1>10. c.nfds = l /\ c.client = x.client /\ c.fds = z
    BY <1>2, Zenon
  <1> HIDE DEF c
  <1>11. c \in SessionRec /\ c.nfds = l /\ c.client = x.client /\ c.fds[1] = Entry(1)
    BY <1>8, <1>9, <1>10, Zenon
  <1> QED BY <1>11, Zenon DEF c, z, l, x

LEMMA HandleKeeps ==
    ASSUME IInv, Handle
    PROVE  IInv'
  <1> DEFINE L == Len(sessions)
  <1>1. /\ pc = "handle" /\ pc' = pc /\ i <= L /\ i' = i + 1
        /\ sessions' = sessions /\ pollfds' = pollfds /\ max_fds' = max_fds /\ forced' = forced
    BY Zenon DEF Handle
  <1>2. TypeOK /\ Room /\ Healthy /\ Layout
    BY Zenon DEF IInv
  <1>3. PICK off : Laid(off)
    BY <1>1, <1>2, Zenon DEF Layout
  <1>4. /\ L \in Nat /\ \A k \in 1 .. L : sessions[k] \in Sessions /\ S(k) \in SessionRec
        /\ \A k, m \in 1 .. L : sessions[k] = sessions[m] => k = m
    BY <1>2, SessionIs, Zenon
  <1>5. PICK n \in 1 .. L : n = i
    <2>1. i \in Nat \ {0}
      BY <1>2, Zenon DEF TypeOK
    <2>2. i \in 1 .. L
      BY <1>1, <1>4, <2>1, SMT
    <2> QED BY <2>2, Zenon
  <1>6. /\ n + 1 \in 1 .. L + 1 /\ n \in 1 .. L + 1 /\ n + 1 <= L + 1 /\ n + 1 \in Nat \ {0}
        /\ n <= n /\ \A k \in 1 .. L : n + 1 <= k => k # n /\ n <= k
    BY <1>4, SMT
  <1> DEFINE s == sessions[n]
             l == S(n).nfds
             c == [sess[s] EXCEPT !.fds = [j \in 1 .. 2 |->
                      IF j <= sess[s].nfds THEN Entry(j) ELSE @[j]]]
  <1>7. IF S(n).healthy
        THEN /\ \E x \in Handled(c) : sess' = [sess EXCEPT ![s] = x]
             /\ nfds' = nfds + l
        ELSE sess' = sess /\ nfds' = nfds
    BY <1>5, Zenon DEF Handle, S
  <1>8. /\ off[n] \in Nat /\ off[n + 1] = off[n] + l /\ l \in {1, 2}
        /\ nfds <= off[n] /\ (~forced => nfds = off[n]) /\ nfds \in Nat
    <2>1. off[n] \in Nat /\ off[n + 1] = off[n] + l
      BY <1>3, <1>6, Zenon DEF Laid, Offsets
    <2>2. l \in {1, 2}
      BY <1>4, RecIs, Zenon
    <2> QED BY <1>1, <1>2, <1>3, <1>5, <2>1, <2>2, Zenon DEF Laid, TypeOK
  <1>9. ~forced => EntriesAt(off[n], S(n))
    <2>1. Waiting(n)
      BY <1>5, <1>6, Zenon DEF Waiting
    <2> QED BY <1>3, <2>1, Zenon DEF Laid
  <1>10. /\ c \in SessionRec /\ c.nfds = l /\ c.client = S(n).client
         /\ c.fds[1] = pollfds[nfds + 1]
    <2>1. Offsets(off)
      BY <1>3, Zenon DEF Laid
    <2>2. /\ c \in SessionRec /\ c.nfds = sess[s].nfds /\ c.client = sess[s].client
          /\ c.fds[1] = Entry(1)
      BY <1>2, <1>5, <1>8, <2>1, CopiedIs, Zenon
    <2> QED BY <2>2, Zenon DEF S, Entry
  <1> HIDE DEF c
  (* The session whose turn it is, and the others. *)
  <1>11. /\ sess' \in [Sessions -> SessionRec]
         /\ \A k \in 1 .. L : k # n => S(k)' = S(k)
         /\ S(n)'.nfds = l
         /\ ~forced /\ S(n)'.healthy => S(n)'.fds[1] = S(n)'.client
    <2>1. sess \in [Sessions -> SessionRec] /\ s \in Sessions
      BY <1>2, <1>4, Zenon DEF TypeOK
    <2>2. \A k \in 1 .. L : k # n => sessions[k] \in Sessions \ {s}
      BY <1>4, Zenon
    <2>3. \A k : S(k)' = sess'[sessions[k]] /\ S(k) = sess[sessions[k]]
      BY <1>1, Zenon DEF S
    <2>4. CASE S(n).healthy
      <3>1. PICK x \in Handled(c) : sess' = [sess EXCEPT ![s] = x]
        BY <1>7, <2>4, Zenon
      <3>2. Worked(c, x)
        BY <1>10, HandledIs, Zenon
      <3>3. x \in SessionRec
        BY <3>2, Zenon DEF Worked
      <3>4. sess' \in [Sessions -> SessionRec] /\ sess'[s] = x
            /\ \A t \in Sessions \ {s} : sess'[t] = sess[t]
        BY <2>1, <3>1, <3>3, Zenon
      <3>5. S(n)' = x
        BY <2>3, <3>4, Zenon
      <3>6. \A k \in 1 .. L : k # n => S(k)' = S(k)
        BY <2>2, <2>3, <3>4, Zenon
      <3>7. x.nfds = l
        BY <1>10, <3>2, Zenon DEF Worked
      <3>8. ASSUME ~forced, x.healthy
            PROVE  x.fds[1] = x.client
        <4>1. x.fds[1] = pollfds[nfds + 1] /\ x.client = S(n).client
          BY <1>10, <3>2, <3>8, Zenon DEF Worked
        <4>2. pollfds[nfds + 1] = S(n).client
          BY <1>8, <1>9, <3>8, Zenon DEF EntriesAt
        <4> QED BY <4>1, <4>2, Zenon
      <3> QED BY <3>4, <3>5, <3>6, <3>7, <3>8, Zenon
    <2>5. CASE ~S(n).healthy
      <3>1. sess' = sess
        BY <1>7, <2>5, Zenon
      <3>2. \A k : S(k)' = S(k)
        BY <2>3, <3>1, Zenon
      <3>3. ~S(n)'.healthy
        BY <2>5, <3>2, Zenon
      <3> QED BY <2>1, <3>1, <3>2, <3>3, Zenon
    <2> QED BY <2>4, <2>5, Zenon
  <1>12. /\ nfds' \in Nat /\ nfds' <= off[n + 1]
         /\ ~forced => nfds' = off[n + 1]
    <2>1. CASE S(n).healthy
      <3>1. nfds' = nfds + l
        BY <1>7, <2>1, Zenon
      <3> HIDE DEF l
      <3> QED BY <1>8, <3>1, SMT
    <2>2. CASE ~S(n).healthy
      <3>1. nfds' = nfds /\ forced
        BY <1>7, <1>9, <2>2, Zenon DEF EntriesAt
      <3> HIDE DEF l
      <3> QED BY <1>8, <3>1, SMT
    <2> QED BY <2>1, <2>2, Zenon
  <1>13. i' = n + 1
    BY <1>1, <1>5, Zenon
  <1>14. TypeOK'
    BY <1>1, <1>2, <1>6, <1>11, <1>12, <1>13, Zenon DEF TypeOK
  <1>15. Room'
    BY <1>1, <1>2, Zenon DEF Room
  <1>16. Healthy'
    <2>1. ASSUME ~forced, NEW k \in 1 .. L, S(k)'.healthy
          PROVE  S(k)'.fds[1] = S(k)'.client
      <3>1. CASE k = n
        BY <1>11, <2>1, <3>1, Zenon
      <3>2. CASE k # n
        BY <1>2, <1>11, <2>1, <3>2, Zenon DEF Healthy
      <3> QED BY <3>1, <3>2, Zenon
    <2> QED BY <1>1, <2>1, Zenon DEF Healthy
  <1>17. Layout'
    <2>1. Offsets(off)'
      <3>1. \A k \in 1 .. L : S(k)'.nfds = S(k).nfds
        BY <1>11, Zenon
      <3>2. Offsets(off)
        BY <1>3, Zenon DEF Laid
      <3> QED BY <1>1, <3>1, <3>2, Zenon DEF Offsets
    <2>2. ASSUME ~forced, NEW k \in 1 .. L, Waiting(k)'
          PROVE  EntriesAt(off[k], S(k))'
      <3>1. n + 1 <= k
        BY <1>1, <1>13, <2>2, Zenon DEF Waiting
      <3>2. k # n /\ Waiting(k)
        BY <1>5, <1>6, <3>1, Zenon DEF Waiting
      <3>3. EntriesAt(off[k], S(k)) /\ S(k)' = S(k)
        BY <1>3, <1>11, <2>2, <3>2, Zenon DEF Laid
      <3> QED BY <1>1, <3>3, Zenon DEF EntriesAt
    <2>3. /\ i' <= Len(sessions)' + 1 /\ nfds' <= off[i']
          /\ ~forced' => nfds' = off[i']
      BY <1>1, <1>6, <1>12, <1>13, Zenon
    <2>4. Laid(off)'
      BY <1>1, <2>1, <2>2, <2>3, Zenon DEF Laid
    <2> QED BY <2>4, Zenon DEF Layout
  <1> QED BY <1>14, <1>15, <1>16, <1>17, Zenon DEF IInv

LEMMA HandledAllKeeps ==
    ASSUME IInv, HandledAll
    PROVE  IInv'
  <1>1. /\ pc = "handle" /\ pc' = "sweep" /\ i' = 1 /\ nfds' = nfds /\ sess' = sess
        /\ sessions' = sessions /\ pollfds' = pollfds /\ max_fds' = max_fds /\ forced' = forced
    BY Zenon DEF HandledAll
  <1>2. TypeOK /\ Room /\ Healthy
    BY Zenon DEF IInv
  <1>3. 1 \in Nat \ {0} /\ \A k \in 1 .. Len(sessions) : ~(k < 1)
    <2>1. Len(sessions) \in Nat
      BY <1>2, SessionIs, Zenon
    <2> QED BY <2>1, SMT
  <1>4. TypeOK'
    BY <1>1, <1>2, <1>3, Zenon DEF TypeOK, Pcs
  <1>5. Room'
    BY <1>1, <1>2, Zenon DEF Room
  <1>6. Healthy'
    BY <1>1, <1>2, <1>3, Zenon DEF Healthy, S
  <1>7. Layout'
    BY <1>1, Zenon DEF Layout
  <1> QED BY <1>4, <1>5, <1>6, <1>7, Zenon DEF IInv


(* Taking a session out moves only the last one, so nobody is there twice. *)
Removed(q, k, r) ==
    /\ r \in Seq(Sessions) /\ IsInjective(r) /\ Len(r) = Len(q) - 1
    /\ \A m \in 1 .. Len(r) : /\ r[m] # q[k]
                              /\ \E h \in 1 .. Len(q) : r[m] = q[h]
                              /\ m < k => r[m] = q[m]

LEMMA RemovedIs ==
    ASSUME NEW q \in Seq(Sessions), IsInjective(q), NEW k \in 1 .. Len(q)
    PROVE  Removed(q, k, RemoveIndexFast(q, k))
  <1> DEFINE L == Len(q)
             r == [m \in 1 .. L - 1 |-> IF m = k THEN q[L] ELSE q[m]]
             at(m) == IF m = k THEN L ELSE m
  <1>1. RemoveIndexFast(q, k) = r
    BY Zenon DEF RemoveIndexFast
  <1>2. L \in Nat /\ DOMAIN q = 1 .. L /\ \A m \in 1 .. L : q[m] \in Sessions
    BY LenProperties, ElementOfSeq, Zenon
  <1>3. \A m, h \in 1 .. L : q[m] = q[h] => m = h
    BY <1>2, Zenon DEF IsInjective
  <1>11. k \in 1 .. L
    BY Zenon DEF L
  <1> HIDE DEF L
  <1>4. /\ L - 1 \in Nat /\ L \in 1 .. L
        /\ \A m \in 1 .. L - 1 : m \in 1 .. L /\ m # L /\ (m < k => m # k)
    BY <1>2, <1>11, SMT
  <1>5. \A m \in 1 .. L - 1 : at(m) \in 1 .. L /\ r[m] = q[at(m)] /\ at(m) # k
    BY <1>4, Zenon
  <1>6. \A m, h \in 1 .. L - 1 : at(m) = at(h) => m = h
    BY <1>4, Zenon
  <1>7. \A m \in 1 .. L - 1 : m < k => r[m] = q[m]
    BY <1>4, Zenon
  <1>8. \A m \in 1 .. L - 1 : r[m] \in Sessions
    BY <1>2, <1>5, Zenon
  <1>9. r \in Seq(Sessions) /\ Len(r) = L - 1
    <2>1. r \in [1 .. L - 1 -> Sessions]
      BY <1>8, Zenon
    <2>2. DOMAIN r = 1 .. L - 1
      BY Zenon
    <2> HIDE DEF r
    <2> QED BY <1>4, <2>1, <2>2, SMT
  <1>10. DOMAIN r = 1 .. L - 1
    BY Zenon
  <1> HIDE DEF r, at
  <1>12. IsInjective(r)
    <2>1. ASSUME NEW m \in 1 .. L - 1, NEW h \in 1 .. L - 1, r[m] = r[h]
          PROVE  m = h
      BY <1>3, <1>5, <1>6, <2>1, Zenon
    <2> QED BY <1>10, <2>1, Zenon DEF IsInjective
  <1>13. \A m \in 1 .. L - 1 : r[m] # q[k] /\ \E h \in 1 .. L : r[m] = q[h]
    BY <1>3, <1>5, <1>11, Zenon
  <1> QED BY <1>1, <1>7, <1>9, <1>12, <1>13, Zenon DEF L, Removed

LEMMA SweepKeeps ==
    ASSUME IInv, Sweep
    PROVE  IInv'
  <1> DEFINE L == Len(sessions)
  <1>1. /\ pc = "sweep" /\ pc' = "sweep" /\ i <= L /\ nfds' = nfds
        /\ pollfds' = pollfds /\ max_fds' = max_fds /\ forced' = forced
        /\ IF S(i).healthy
           THEN i' = i + 1 /\ sessions' = sessions /\ sess' = sess
           ELSE /\ sessions' = RemoveIndexFast(sessions, i)
                /\ sess' = [sess EXCEPT ![sessions[i]] = Free]
                /\ i' = i
    BY Zenon DEF Sweep, S
  <1>2. TypeOK /\ Room /\ Healthy
    BY Zenon DEF IInv
  <1>3. /\ L \in Nat /\ \A k \in 1 .. L : sessions[k] \in Sessions /\ S(k) \in SessionRec
        /\ \A k, m \in 1 .. L : sessions[k] = sessions[m] => k = m
    BY <1>2, SessionIs, Zenon
  <1>4. i \in Nat \ {0} /\ i \in 1 .. L
    <2>1. i \in Nat \ {0}
      BY <1>2, Zenon DEF TypeOK
    <2> QED BY <1>1, <1>3, <2>1, SMT
  <1>5. Layout'
    BY <1>1, Zenon DEF Layout
  <1>6. CASE S(i).healthy
    <2>1. i' = i + 1 /\ sessions' = sessions /\ sess' = sess
      BY <1>1, <1>6, Zenon
    <2>2. i + 1 \in Nat \ {0} /\ \A k \in 1 .. L : k < i + 1 => k < i \/ k = i
      BY <1>3, <1>4, SMT
    <2>3. TypeOK'
      BY <1>1, <1>2, <2>1, <2>2, Zenon DEF TypeOK
    <2>4. Room'
      BY <1>1, <1>2, <2>1, Zenon DEF Room
    <2>5. \A k : S(k)' = S(k)
      BY <2>1, Zenon DEF S
    <2>6. Healthy'
      BY <1>1, <1>2, <1>6, <2>1, <2>2, <2>5, Zenon DEF Healthy
    <2> QED BY <1>5, <2>3, <2>4, <2>6, Zenon DEF IInv
  <1>7. CASE ~S(i).healthy
    <2> DEFINE r == sessions'
    <2>1. /\ r = RemoveIndexFast(sessions, i)
          /\ sess' = [sess EXCEPT ![sessions[i]] = Free] /\ i' = i
      BY <1>1, <1>7, Zenon
    <2>2. /\ r \in Seq(Sessions) /\ IsInjective(r) /\ Len(r) = L - 1
          /\ \A m \in 1 .. Len(r) : /\ r[m] # sessions[i]
                                    /\ \E h \in 1 .. L : r[m] = sessions[h]
                                    /\ m < i => r[m] = sessions[m]
      <3>1. sessions \in Seq(Sessions) /\ IsInjective(sessions)
        BY <1>2, Zenon DEF TypeOK
      <3>2. Removed(sessions, i, RemoveIndexFast(sessions, i))
        BY <1>4, <3>1, RemovedIs, Zenon
      <3>3. Removed(sessions, i, r)
        BY <2>1, <3>2, Zenon
      <3> QED BY <3>3, Zenon DEF Removed
    <2>3. Free \in SessionRec
      <3>1. NoFd \in FdOrNone
        BY Zenon DEF FdOrNone
      <3>2. <<NoFd, NoFd>> \in [1 .. 2 -> FdOrNone]
        BY <3>1, SMT
      <3> QED BY <3>1, <3>2, SMT DEF Free, SessionRec
    <2>4. /\ sess' \in [Sessions -> SessionRec]
          /\ \A t \in Sessions : t # sessions[i] => sess'[t] = sess[t]
      BY <1>2, <2>1, <2>3, Zenon DEF TypeOK
    <2>5. \A m \in 1 .. Len(r) : /\ \E h \in 1 .. L : S(m)' = S(h)
                                 /\ m < i => S(m)' = S(m)
      <3>1. \A m : S(m)' = sess'[r[m]] /\ S(m) = sess[sessions[m]]
        BY Zenon DEF S
      <3>2. \A m \in 1 .. Len(r) : sess'[r[m]] = sess[r[m]]
        BY <1>3, <2>2, <2>4, Zenon
      <3>3. ASSUME NEW m \in 1 .. Len(r)
            PROVE  (\E h \in 1 .. L : S(m)' = S(h)) /\ (m < i => S(m)' = S(m))
        <4>1. S(m)' = sess[r[m]]
          BY <3>1, <3>2, Zenon
        <4>2. PICK h \in 1 .. L : r[m] = sessions[h]
          BY <2>2, Zenon
        <4>3. S(m)' = S(h)
          BY <3>1, <4>1, <4>2, Zenon
        <4>4. m < i => S(m)' = S(m)
          <5>1. m < i => r[m] = sessions[m]
            BY <2>2, Zenon
          <5> QED BY <3>1, <4>1, <5>1, Zenon
        <4> QED BY <4>3, <4>4, Zenon
      <3> QED BY <3>3, Zenon
    <2>6. TypeOK'
      BY <1>1, <1>2, <2>1, <2>2, <2>4, Zenon DEF TypeOK
    <2>7. Room'
      <3> DEFINE m == Len(r)
      <3>1. m = L - 1 /\ 3 + 2 * L <= max_fds /\ max_fds \in Nat /\ 3 + Len(pollfds) <= max_fds
        BY <1>1, <1>2, <2>2, Zenon DEF Room, TypeOK
      <3> HIDE DEF m, L
      <3>2. 3 + 2 * m <= max_fds
        BY <1>3, <3>1, SMT
      <3> QED BY <1>1, <3>1, <3>2, Zenon DEF Room, m
    <2>8. Healthy'
      <3>1. \A k \in 1 .. Len(r) : k < i => S(k)'.healthy
        <4>1. \A k \in 1 .. Len(r) : k \in 1 .. L
          BY <1>3, <2>2, SMT
        <4> QED BY <1>1, <1>2, <2>5, <4>1, Zenon DEF Healthy
      <3>2. ~forced => \A k \in 1 .. Len(r) : S(k)'.healthy => S(k)'.fds[1] = S(k)'.client
        BY <1>2, <2>5, Zenon DEF Healthy
      <3> QED BY <1>1, <2>1, <3>1, <3>2, Zenon DEF Healthy
    <2> QED BY <1>5, <2>6, <2>7, <2>8, Zenon DEF IInv
  <1> QED BY <1>6, <1>7, Zenon

LEMMA SweptAllKeeps ==
    ASSUME IInv, SweptAll
    PROVE  IInv'
  <1>1. /\ pc = "sweep" /\ pc' = "tcp" /\ i > Len(sessions) /\ i' = i /\ nfds' = nfds
        /\ sess' = sess /\ sessions' = sessions
        /\ pollfds' = pollfds /\ max_fds' = max_fds /\ forced' = forced
    BY Zenon DEF SweptAll
  <1>2. TypeOK /\ Room /\ Healthy
    BY Zenon DEF IInv
  <1>3. \A k \in 1 .. Len(sessions) : k < i
    <2>1. Len(sessions) \in Nat /\ i \in Nat
      BY <1>2, SessionIs, Zenon DEF TypeOK
    <2> QED BY <1>1, <2>1, SMT
  <1>4. TypeOK'
    BY <1>1, <1>2, Zenon DEF TypeOK, Pcs
  <1>5. Room'
    BY <1>1, <1>2, Zenon DEF Room
  <1>6. Healthy'
    BY <1>1, <1>2, <1>3, Zenon DEF Healthy, S
  <1>7. Layout'
    BY <1>1, Zenon DEF Layout
  <1> QED BY <1>4, <1>5, <1>6, <1>7, Zenon DEF IInv


LEMMA AcceptKeeps ==
    ASSUME IInv, Accept
    PROVE  IInv'
  <1> DEFINE L == Len(sessions)
  <1>1. /\ pc \in {"tcp", "unix"} /\ pc' = IF pc = "tcp" THEN "unix" ELSE "grow"
        /\ i' = i /\ nfds' = nfds
        /\ pollfds' = pollfds /\ max_fds' = max_fds /\ forced' = forced
    BY Zenon DEF Accept
  <1>2. TypeOK /\ Room /\ Healthy
    BY Zenon DEF IInv
  <1>3. L \in Nat /\ \A k \in 1 .. L : sessions[k] \in Sessions /\ S(k) \in SessionRec
    BY <1>2, SessionIs, Zenon
  <1>4. Layout'
    BY <1>1, Zenon DEF Layout
  <1>5. /\ pc = "tcp" => pc' = "unix" /\ 3 + 2 * L <= max_fds
        /\ pc = "unix" => pc' = "grow" /\ 3 + 2 * L <= max_fds + 2
        /\ max_fds \in Nat /\ 3 + Len(pollfds) <= max_fds
    BY <1>1, <1>2, Zenon DEF Room, TypeOK
  <1>6. ASSUME Len(sessions)' \in Nat, Len(sessions)' <= L + 1
        PROVE  Room'
    <2> DEFINE m == Len(sessions')
    <2>1. m \in Nat /\ m <= L + 1
      BY <1>6, Zenon
    <2> HIDE DEF m, L
    <2>2. /\ pc = "tcp" => 3 + 2 * m <= max_fds + 2
          /\ pc = "unix" => 3 + 2 * m <= max_fds + 4
      BY <1>3, <1>5, <2>1, SMT
    <2> QED BY <1>1, <1>5, <2>2, Zenon DEF Room, m
  <1>7. CASE sessions' = sessions /\ sess' = sess
    <2>1. TypeOK'
      BY <1>1, <1>2, <1>7, Zenon DEF TypeOK, Pcs
    <2>2. Room'
      <3>1. Len(sessions)' = L /\ L <= L + 1
        BY <1>3, <1>7, SMT
      <3> QED BY <1>3, <1>6, <3>1, Zenon
    <2>3. \A k : S(k)' = S(k)
      BY <1>7, Zenon DEF S
    <2>4. Healthy'
      BY <1>1, <1>2, <1>7, <2>3, Zenon DEF Healthy
    <2> QED BY <1>4, <2>1, <2>2, <2>4, Zenon DEF IInv
  <1>8. ASSUME NEW s \in Sessions \ Range(sessions), NEW f \in UnusedFds,
               sess' = [sess EXCEPT ![s] = [Free EXCEPT !.client = f, !.fds = <<f, NoFd>>,
                                                        !.healthy = TRUE]],
               sessions' = Append(sessions, s)
        PROVE  IInv'
    <2> DEFINE x == [Free EXCEPT !.client = f, !.fds = <<f, NoFd>>, !.healthy = TRUE]
               q == sessions'
    <2>1. x \in SessionRec /\ x.healthy /\ x.fds[1] = x.client
      <3>1. NoFd \in FdOrNone /\ f \in FdOrNone
        BY Zenon DEF FdOrNone, UnusedFds
      <3> DEFINE z == <<f, NoFd>>
      <3>2. z \in [1 .. 2 -> FdOrNone] /\ z[1] = f
        BY <3>1, SMT
      <3>3. Free \in SessionRec
        BY <3>1, SMT DEF Free, SessionRec
      <3>4. /\ Free.client \in FdOrNone /\ Free.server \in FdOrNone
            /\ Free.nfds \in {1, 2} /\ Free.healthy \in BOOLEAN
            /\ DOMAIN Free = {"client", "server", "fds", "nfds", "healthy"}
        BY <3>3, RecIs, Zenon
      <3> HIDE DEF z
      <3> DEFINE y == [Free EXCEPT !.client = f, !.fds = z, !.healthy = TRUE]
      <3>5. y \in SessionRec
        BY <3>1, <3>2, <3>3, <3>4, Zenon DEF SessionRec
      <3>6. y.healthy = TRUE /\ y.fds = z /\ y.client = f
        BY <3>4, Zenon
      <3> HIDE DEF y
      <3>7. y \in SessionRec /\ y.healthy /\ y.fds[1] = y.client
        BY <3>2, <3>5, <3>6, Zenon
      <3> QED BY <3>7, Zenon DEF y, z
    <2> HIDE DEF x
    <2>2. sess' = [sess EXCEPT ![s] = x]
      BY <1>8, Zenon DEF x
    <2>3. s \in Sessions /\ \A k \in 1 .. L : sessions[k] # s
      <3>1. DOMAIN sessions = 1 .. L
        BY <1>2, SessionIs, Zenon
      <3> QED BY <3>1, Zenon DEF Range
    <2>4. /\ sess' \in [Sessions -> SessionRec] /\ sess'[s] = x
          /\ \A t \in Sessions : t # s => sess'[t] = sess[t]
      BY <1>2, <2>1, <2>2, <2>3, Zenon DEF TypeOK
    <2>5. /\ q \in Seq(Sessions) /\ Len(q) = L + 1 /\ q[L + 1] = s
          /\ \A k \in 1 .. L : q[k] = sessions[k]
      <3>1. sessions \in Seq(Sessions)
        BY <1>2, Zenon DEF TypeOK
      <3> DEFINE a == Append(sessions, s)
      <3>2. /\ a \in Seq(Sessions) /\ Len(a) = L + 1 /\ a[L + 1] = s
            /\ \A k \in 1 .. L : a[k] = sessions[k]
        BY <2>3, <3>1, SMT
      <3> HIDE DEF a
      <3>3. q = a
        BY <1>8, Zenon DEF a
      <3> QED BY <3>2, <3>3, Zenon
    <2>6. \A k \in 1 .. L + 1 : k \in 1 .. L \/ k = L + 1
      BY <1>3, SMT
    <2>7. IsInjective(q)
      <3>1. DOMAIN q = 1 .. L + 1
        BY <2>5, LenProperties, Zenon
      <3>2. \A k, m \in 1 .. L : sessions[k] = sessions[m] => k = m
        BY <1>2, SessionIs, Zenon
      <3> HIDE DEF q, L
      <3>3. ASSUME NEW k \in 1 .. L + 1, NEW m \in 1 .. L + 1, q[k] = q[m]
            PROVE  k = m
        <4>1. CASE k \in 1 .. L /\ m \in 1 .. L
          BY <2>5, <3>2, <3>3, <4>1, Zenon
        <4>2. CASE k \in 1 .. L /\ m = L + 1
          BY <2>3, <2>5, <3>3, <4>2, Zenon DEF L
        <4>3. CASE k = L + 1 /\ m \in 1 .. L
          BY <2>3, <2>5, <3>3, <4>3, Zenon DEF L
        <4> QED BY <2>6, <4>1, <4>2, <4>3, Zenon
      <3> QED BY <3>1, <3>3, Zenon DEF IsInjective
    <2>8. \A k \in 1 .. L + 1 : S(k)' = x \/ (k \in 1 .. L /\ S(k)' = S(k))
      <3>1. \A k : S(k)' = sess'[q[k]] /\ S(k) = sess[sessions[k]]
        BY Zenon DEF S
      <3>2. \A k \in 1 .. L : sess'[sessions[k]] = sess[sessions[k]]
        BY <1>3, <2>3, <2>4, Zenon
      <3> HIDE DEF q
      <3> QED BY <2>4, <2>5, <2>6, <3>1, <3>2, Zenon
    <2>9. TypeOK'
      BY <1>1, <1>2, <2>4, <2>5, <2>7, Zenon DEF TypeOK, Pcs
    <2>10. Room'
      <3>1. L + 1 \in Nat /\ L + 1 <= L + 1
        BY <1>3, SMT
      <3> QED BY <1>6, <2>5, <3>1, Zenon
    <2>11. Healthy'
      <3>1. \A k \in 1 .. L + 1 : S(k)'.healthy
        BY <1>1, <1>2, <2>1, <2>8, Zenon DEF Healthy
      <3>2. ~forced => \A k \in 1 .. L + 1 : S(k)'.healthy => S(k)'.fds[1] = S(k)'.client
        BY <1>2, <2>1, <2>8, Zenon DEF Healthy
      <3>3. pc' # "sweep"
        BY <1>1, Zenon
      <3> QED BY <1>1, <2>5, <3>1, <3>2, <3>3, Zenon DEF Healthy
    <2> QED BY <1>4, <2>9, <2>10, <2>11, Zenon DEF IInv
  <1> QED BY <1>7, <1>8, Zenon DEF Accept

LEMMA GrowKeeps ==
    ASSUME IInv, Grow
    PROVE  IInv'
  <1> DEFINE L == Len(sessions)
             P == Len(pollfds)
  <1>1. /\ pc = "grow" /\ pc' = "prepare" /\ i' = i /\ nfds' = nfds
        /\ sessions' = sessions /\ sess' = sess /\ pollfds' = pollfds /\ forced' = forced
        /\ max_fds' = IF TooSmall THEN max_fds + MIN_FDS_PER_THREAD ELSE max_fds
    BY Zenon DEF Grow
  <1>2. TypeOK /\ Room /\ Healthy
    BY Zenon DEF IInv
  <1>3. L \in Nat /\ P \in Nat /\ max_fds \in Nat
    BY <1>2, LenProperties, Zenon DEF TypeOK
  <1>4. 3 + P <= max_fds /\ 3 + 2 * L <= max_fds + 4
    BY <1>1, <1>2, Zenon DEF Room
  <1>5. TooSmall = ((L + Spare) * 2 > max_fds)
    BY PollSetAssumption, Zenon DEF TooSmall
  <1> HIDE DEF L, P
  <1>6. max_fds' \in Nat /\ 3 + P <= max_fds' /\ 3 + 2 * L <= max_fds'
    <2>1. CASE TooSmall
      BY <1>1, <1>3, <1>4, <2>1, PollSetAssumption, SMT
    <2>2. CASE ~TooSmall
      <3>1. max_fds' = max_fds /\ ~((L + Spare) * 2 > max_fds)
        BY <1>1, <1>5, <2>2, Zenon
      <3>2. Spare \in Nat /\ Spare >= 2
        BY PollSetAssumption, Zenon
      <3> QED BY <1>3, <1>4, <3>1, <3>2, SMT
    <2> QED BY <2>1, <2>2, Zenon
  <1>7. TypeOK'
    BY <1>1, <1>2, <1>6, Zenon DEF TypeOK, Pcs
  <1>8. Room'
    BY <1>1, <1>6, Zenon DEF Room, L, P
  <1>9. Healthy'
    BY <1>1, <1>2, Zenon DEF Healthy, S
  <1>10. Layout'
    BY <1>1, Zenon DEF Layout
  <1> QED BY <1>7, <1>8, <1>9, <1>10, Zenon DEF IInv

-----------------------------------------------------------------------------
LEMMA InitHolds ==
    ASSUME Init
    PROVE  IInv
  <1>1. /\ pc = "prepare" /\ sessions = <<>> /\ sess = [s \in Sessions |-> Free]
        /\ pollfds = <<>> /\ i = 1 /\ nfds = 0 /\ max_fds = MIN_FDS_PER_THREAD /\ forced = FALSE
    BY Zenon DEF Init
  <1>2. Free \in SessionRec
    <2>1. NoFd \in FdOrNone
      BY Zenon DEF FdOrNone
    <2> QED BY <2>1, SMT DEF Free, SessionRec
  <1>3. /\ <<>> \in Seq(Sessions) /\ <<>> \in Seq(FdOrNone) /\ Len(<<>>) = 0
        /\ IsInjective(<<>>) /\ 1 .. 0 = {}
    <2>1. DOMAIN <<>> = {}
      BY SMT
    <2> QED BY <2>1, EmptySeq, SMT DEF IsInjective
  <1>4. sess \in [Sessions -> SessionRec]
    BY <1>1, <1>2, Zenon
  <1>5. 1 \in Nat \ {0} /\ 0 \in Nat /\ MIN_FDS_PER_THREAD \in Nat /\ 3 + 0 <= MIN_FDS_PER_THREAD
        /\ 3 + 2 * 0 <= MIN_FDS_PER_THREAD
    BY PollSetAssumption, SMT
  <1>6. TypeOK
    BY <1>1, <1>3, <1>4, <1>5, Zenon DEF TypeOK, Pcs
  <1>7. Room
    BY <1>1, <1>3, <1>5, Zenon DEF Room
  <1>8. Healthy
    BY <1>1, <1>3, Zenon DEF Healthy
  <1>9. Layout
    BY <1>1, Zenon DEF Layout
  <1> QED BY <1>6, <1>7, <1>8, <1>9, Zenon DEF IInv

LEMMA StepKeeps ==
    ASSUME IInv, [Next]_vars
    PROVE  IInv'
  <1>1. CASE Next
    BY <1>1, PollKeeps, MaintainKeeps, HandleKeeps, HandledAllKeeps, SweepKeeps,
       SweptAllKeeps, AcceptKeeps, GrowKeeps, Zenon DEF Next
  <1>2. CASE UNCHANGED vars
    <2>1. /\ pc' = pc /\ sessions' = sessions /\ sess' = sess /\ pollfds' = pollfds
          /\ i' = i /\ nfds' = nfds /\ max_fds' = max_fds /\ forced' = forced
      BY <1>2, Zenon DEF vars
    <2>2. \A k : S(k)' = S(k) /\ (Waiting(k)' <=> Waiting(k))
      BY <2>1, Zenon DEF S, Waiting
    <2>3. TypeOK' /\ Room' /\ Healthy'
      BY <2>1, <2>2, Zenon DEF IInv, TypeOK, Room, Healthy
    <2>4. Layout'
      <3>1. ASSUME pc \in {"maintain", "handle"}
            PROVE  \E off : Laid(off)'
        <4>1. PICK off : Laid(off)
          BY <3>1, Zenon DEF IInv, Layout
        <4>2. Offsets(off)'
          BY <2>1, <2>2, <4>1, Zenon DEF Laid, Offsets
        <4>3. \A k : EntriesAt(off[k], S(k)) => EntriesAt(off[k], S(k))'
          BY <2>1, <2>2, Zenon DEF EntriesAt
        <4>4. Laid(off)'
          BY <2>1, <2>2, <4>1, <4>2, <4>3, Zenon DEF Laid
        <4> QED BY <4>4, Zenon
      <3> QED BY <2>1, <3>1, Zenon DEF Layout
    <2> QED BY <2>3, <2>4, Zenon DEF IInv
  <1> QED BY <1>1, <1>2, Zenon

(* The array always has an entry for every descriptor, and the entries that a *)
(* session takes are its own: the running index is at its offset.             *)
LEMMA OwnEventsFollows ==
    ASSUME IInv
    PROVE  OwnEvents
  <1>1. TypeOK /\ Room /\ Layout
    BY Zenon DEF IInv
  <1>2. Listening + Len(pollfds) <= max_fds
    BY <1>1, PollSetAssumption, Zenon DEF Room
  <1>3. ASSUME ~forced, pc = "handle", i <= Len(sessions)
        PROVE  LET x == sess[sessions[i]]
               IN  /\ Entry(1) = x.client
                   /\ x.nfds = 2 /\ x.server # NoFd => Entry(2) = x.server
    <2>1. i \in 1 .. Len(sessions) /\ i <= i
      <3>1. Len(sessions) \in Nat /\ i \in Nat \ {0}
        BY <1>1, SessionIs, Zenon DEF TypeOK
      <3> QED BY <1>3, <3>1, SMT
    <2>2. PICK off : Laid(off)
      BY <1>1, <1>3, Zenon DEF Layout
    <2>3. EntriesAt(off[i], S(i)) /\ nfds = off[i]
      BY <1>3, <2>1, <2>2, Zenon DEF Laid, Waiting
    <2> QED BY <2>3, Zenon DEF EntriesAt, Entry, S
  <1> QED BY <1>2, <1>3, Zenon DEF OwnEvents

(* mysql_thread hands every session the events of its own descriptors, as     *)
(* long as no maintenance timeout has closed a session behind poll(), and     *)
(* never writes past the end of its array: for any number of sessions and     *)
(* descriptors, whatever the handlers do to the servers of their sessions.    *)
THEOREM EveryoneTheirOwnEvents == Spec => []OwnEvents
  <1>1. Init => IInv
    BY InitHolds
  <1>2. IInv /\ [Next]_vars => IInv'
    BY StepKeeps
  <1>3. IInv => OwnEvents
    BY OwnEventsFollows
  <1> QED BY <1>1, <1>2, <1>3, PTL DEF Spec
=============================================================================
