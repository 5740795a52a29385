---------------------------- MODULE SessionProofs ----------------------------
(***************************************************************************)
(* OwnedOnce, PooledMatches, BackendMatches and HandedOutYoung hold in     *)
(* Session for any sessions, connections, servers, users, passwords,       *)
(* schemas, hostgroups and settings; OwnAnswersOnly and BrokenIsClosed     *)
(* hold as well when clients wait for their answers (ClientsWait).         *)
(*                                                                         *)
(* First the inductive invariant, and the lemmas that the pool's           *)
(* operations and the handlers of a session keep it.  A handler works on   *)
(* one session: the lemmas are about the pools p, the backends B of that   *)
(* session and the set O of connections that other sessions hold.          *)
(***************************************************************************)
EXTENDS Session, TLAPS

(* Servers accept connections with the user's password only.                  *)
OpenKeys == {k \in PoolKeys : Accepted(k)}
ConnRec == [key : OpenKeys, reusable : BOOLEAN, expire : Nat, used : Nat]
Backend == [mshge : Servers \cup {NoServer}, mycpe : Conns \cup {NoConn},
            ref : PoolKeys \cup {NoPool}, myds : {"none", "active", "shut"}, trx : BOOLEAN]
Backends == [Hostgroups -> Backend]
SessionRec ==
    [state : {"none", "auth", "ready"}, user : Users \cup {NoUser}, pass : Passwords \cup {NoPass},
     schema : Schemas \cup {NoSchema},
     mybe : Hostgroups \cup {NoHg}, mybes : Backends, pkt : Packets \cup {NoPkt},
     command : Commands \cup {"END"}, change_user : BOOLEAN, waiting : BOOLEAN]
WireRec ==
    [up : BOOLEAN, tx : Sessions \cup {NoSession, Gone},
     asked : Seq(Sessions \cup {Gone}), reply : {"none", "OK", "ERR", "COUNTS"}]

PoolType(p) ==
    /\ p = [conn |-> p.conn, pool |-> p.pool]
    /\ DOMAIN p.conn \subseteq Conns /\ p.conn \in [DOMAIN p.conn -> ConnRec]
    /\ p.pool \in [PoolKeys -> SUBSET Conns]

TypeOK ==
    /\ time \in Nat /\ tv \in Nat
    /\ PoolType(cp)
    /\ status \in [Servers -> Statuses] /\ hostgroup \in [Hostgroups -> SUBSET Servers]
    /\ sess \in [Sessions -> SessionRec]
    /\ wire \in [Conns -> WireRec]
    /\ crashed \in {"", "assert", "sigsegv"}

-----------------------------------------------------------------------------
(* Who has a connection: a pool, the one of its key; a backend of the session *)
(* at hand; or another session.                                               *)
PoolsSound(p, O) ==
    \A k \in PoolKeys : \A c \in p.pool[k] :
        c \in Live(p) /\ c \notin O /\ p.conn[c].key = k /\ p.conn[c].reusable
BackendsSound(p, B, O) ==
    \A h \in Hostgroups : B[h].mycpe # NoConn =>
        /\ B[h].mycpe \in Live(p) /\ B[h].mycpe \notin O
        /\ \A k \in PoolKeys : B[h].mycpe \notin p.pool[k]
        /\ \A g \in Hostgroups : B[g].mycpe = B[h].mycpe => g = h
NoneLost(p, B, O) ==
    \A c \in Live(p) : \/ c \in O
                       \/ \E k \in PoolKeys : c \in p.pool[k]
                       \/ \E h \in Hostgroups : B[h].mycpe = c

Sound(p, B, O) ==
    /\ PoolType(p) /\ B \in Backends /\ O \subseteq Live(p)
    /\ PoolsSound(p, O) /\ BackendsSound(p, B, O) /\ NoneLost(p, B, O)

(* The connections of the backends are for the server, the user, the password *)
(* and the schema they should be; a backend without one remembers no pool.    *)
Matching(p, B, user, pass, schema) ==
    \A h \in Hostgroups :
        IF B[h].mycpe = NoConn THEN B[h].ref = NoPool
        ELSE p.conn[B[h].mycpe].key = [server |-> B[h].mshge, user |-> user, pass |-> pass, schema |-> schema]

(* In the middle of a handler that began in the present state: connections of *)
(* other sessions are as they were; none expires later than WaitTimeout after *)
(* it was taken; what was free and is open is free and untouched, or was      *)
(* taken before it had expired.                                               *)
Untouched(p, O) == \A c \in O : c \in Live(p) /\ p.conn[c] = cp.conn[c]
Progress(p, O) ==
    /\ Untouched(p, O)
    /\ \A c \in Live(p) : p.conn[c].expire <= p.conn[c].used + WaitTimeout
    /\ \A k \in PoolKeys : \A c \in cp.pool[k] :
          c \in Live(p) => \/ c \in p.pool[k] /\ p.conn[c] = cp.conn[c]
                           \/ tv < cp.conn[c].expire

(* Between packets: a session that is not logged in has nothing; one that is  *)
(* has a user, a password and a schema.                                       *)
SessionSound(S) ==
    /\ S.state # "ready" => S.mybes = [h \in Hostgroups |-> NewBackend]
    /\ S.state = "ready" => S.user \in Users /\ S.pass \in Passwords /\ S.schema \in Schemas

(* The connections that sessions other than s hold.                           *)
Others(s) == UNION {Held(t, h) : t \in Sessions \ {s}, h \in Hostgroups}

(* No server leaves in this module.                                           *)
AllOnline ==
    /\ crashed = ""
    /\ \A m \in Servers : status[m] = "ONLINE"
    /\ \A h \in Hostgroups : hostgroup[h] # {}

(* Servers answer what they were asked, and names of connections that are not *)
(* open have a fresh wire.                                                    *)
WiresFit(w) ==
    /\ w \in [Conns -> WireRec]
    /\ \A c \in Conns : w[c].reply # "none" => w[c].asked # <<>>
WiresSound ==
    /\ WiresFit(wire)
    /\ \A c \in Conns : c \notin Live(cp) => wire[c] = IdleWire

(* A connection expires WaitTimeout after it was taken, by a clock that is at *)
(* most MaxLag behind.                                                        *)
ClockSound ==
    /\ tv <= time /\ time <= tv + MaxLag
    /\ \A c \in Live(cp) : cp.conn[c].expire <= cp.conn[c].used + WaitTimeout

(* What the handlers rely on in the state they begin in.                      *)
Begun ==
    /\ TypeOK /\ AllOnline /\ WiresSound /\ ClockSound
    /\ \A k \in PoolKeys : cp.pool[k] \subseteq Live(cp)

IInv ==
    /\ TypeOK /\ AllOnline /\ WiresSound /\ ClockSound
    /\ \A s \in Sessions : /\ Sound(cp, sess[s].mybes, Others(s))
                           /\ Matching(cp, sess[s].mybes, sess[s].user, sess[s].pass, sess[s].schema)
                           /\ SessionSound(sess[s])

-----------------------------------------------------------------------------
(* Detach, when every connection is given back to the pool of its key and     *)
(* none twice: each of them is closed or free afterwards.                     *)
GivenBack(p, D) ==
    /\ \A d \in D : d.mycpe \in Live(p) /\ d.ref = NoPool
    /\ \A d, e \in D : d.mycpe = e.mycpe => d = e

LEMMA DetachSteps ==
    ASSUME NEW p, PoolType(p), NEW D, GivenBack(p, D)
    PROVE  LET q == Detach(p, D)
               X == {d.mycpe : d \in D}
           IN  /\ PoolType(q) /\ Live(q) \subseteq Live(p)
               /\ \A c \in Live(p) : c \notin X => c \in Live(q)
               /\ \A c \in Live(q) : q.conn[c] = p.conn[c]
               /\ \A c \in X : c \in Live(q) => c \in q.pool[p.conn[c].key] /\ p.conn[c].reusable
               /\ \A k \in PoolKeys : \A c :
                     c \in q.pool[k] <=> \/ c \in p.pool[k]
                                         \/ c \in X /\ c \in Live(q) /\ p.conn[c].key = k
  <1> DEFINE kept == {d \in D : Kept(p.conn[d.mycpe], d.force)}
             closed == {d.mycpe : d \in D \ kept}
             q == Detach(p, D)
             X == {d.mycpe : d \in D}
  <1>1. \A c : c \in X <=> \E d \in D : d.mycpe = c
    BY Zenon
  <1>2. \A c : c \in closed <=> \E d \in D \ kept : d.mycpe = c
    BY Zenon
  <1>3. q.conn = Keep(p.conn, Live(p) \ closed) /\ q = [conn |-> q.conn, pool |-> q.pool]
    BY Zenon DEF Detach
  <1>4. /\ Live(q) = Live(p) \ closed
        /\ \A c \in Live(q) : q.conn[c] = p.conn[c]
        /\ DOMAIN q.conn \subseteq Conns /\ q.conn \in [DOMAIN q.conn -> ConnRec]
    BY <1>3, Zenon DEF Keep, Live, PoolType
  <1>5. \A d \in kept : PoolFor(p.conn[d.mycpe], d.ref) = p.conn[d.mycpe].key /\ p.conn[d.mycpe].reusable
    BY Zenon DEF GivenBack, PoolFor, Kept
  <1>6. q.pool = [k \in PoolKeys |-> p.pool[k] \cup
                     {d.mycpe : d \in {e \in kept : PoolFor(p.conn[e.mycpe], e.ref) = k}}]
    BY Zenon DEF Detach
  <1>7. \A k \in PoolKeys : \A c :
           c \in q.pool[k] <=> c \in p.pool[k] \/ (\E d \in kept : d.mycpe = c /\ p.conn[c].key = k)
    BY <1>5, <1>6
  <1> HIDE DEF q, X, closed, kept
  <1>8. \A c \in X : c \in Live(q) <=> \E d \in kept : d.mycpe = c
    <2>1. \A d \in D : d \in kept \/ d \in D \ kept
      BY Zenon
    <2>2. kept \subseteq D
      BY Zenon DEF kept
    <2> QED BY <1>1, <1>2, <1>4, <2>1, <2>2 DEF GivenBack
  <1>9. \A c : (\E d \in kept : d.mycpe = c) => c \in X /\ c \in Conns /\ p.conn[c].key \in PoolKeys
    <2>1. kept \subseteq D
      BY Zenon DEF kept
    <2> QED BY <1>1, <2>1, Zenon DEF GivenBack, PoolType, Live, ConnRec, OpenKeys
  <1>10. \A k \in PoolKeys : \A c :
            c \in q.pool[k] <=> c \in p.pool[k] \/ (c \in X /\ c \in Live(q) /\ p.conn[c].key = k)
    BY <1>7, <1>8, <1>9
  <1>11. \A c \in X : c \in Live(q) => c \in q.pool[p.conn[c].key] /\ p.conn[c].reusable
    BY <1>5, <1>8, <1>9, <1>10, Zenon
  <1>12. q.pool \in [PoolKeys -> SUBSET Conns]
    BY <1>6, <1>9, <1>10 DEF PoolType, Live
  <1>13. \A c \in Live(p) : c \notin X => c \in Live(q)
    BY <1>1, <1>2, <1>4, Zenon DEF kept
  <1>14. PoolType(q)
    BY <1>3, <1>4, <1>12, Zenon DEF PoolType
  <1> QED BY <1>4, <1>10, <1>11, <1>13, <1>14, Zenon DEF q, X

-----------------------------------------------------------------------------
(* Giving back connections of backends keeps the pools sound: D says which,   *)
(* G are the backends that lose theirs, and A is what is left of them.        *)
Losing(B, G, D, A) ==
    /\ G \subseteq Hostgroups /\ A \in Backends
    /\ \A h \in G : \E d \in D : d.mycpe = B[h].mycpe
    /\ \A d \in D : d.ref = NoPool /\ \E h \in G : d.mycpe = B[h].mycpe /\ B[h].mycpe # NoConn
    /\ \A d, e \in D : d.mycpe = e.mycpe => d = e
    /\ \A h \in Hostgroups : A[h].mycpe = IF h \in G THEN NoConn ELSE B[h].mycpe

LEMMA GiveBack ==
    ASSUME NEW p, NEW B, NEW O, Sound(p, B, O), Progress(p, O), NEW G, NEW D, NEW A, Losing(B, G, D, A)
    PROVE  /\ Sound(Detach(p, D), A, O) /\ Progress(Detach(p, D), O)
           /\ \A h \in Hostgroups : A[h].mycpe # NoConn =>
                 Detach(p, D).conn[A[h].mycpe] = p.conn[A[h].mycpe]
  <1> DEFINE q == Detach(p, D)
             X == {d.mycpe : d \in D}
  <1>1. PoolType(p) /\ B \in Backends
    BY Zenon DEF Sound
  <1>2. GivenBack(p, D)
    BY Zenon DEF Sound, BackendsSound, Losing, GivenBack
  <1>3. /\ PoolType(q) /\ Live(q) \subseteq Live(p)
        /\ \A c \in Live(p) : c \notin X => c \in Live(q)
        /\ \A c \in Live(q) : q.conn[c] = p.conn[c]
        /\ \A c \in X : c \in Live(q) => c \in q.pool[p.conn[c].key] /\ p.conn[c].reusable
        /\ \A k \in PoolKeys : \A c :
              c \in q.pool[k] <=> \/ c \in p.pool[k]
                                  \/ c \in X /\ c \in Live(q) /\ p.conn[c].key = k
    BY <1>1, <1>2, DetachSteps, Zenon
  <1>4. \A c : c \in X <=> \E h \in G : B[h].mycpe = c
    BY DEF Losing
  <1> HIDE DEF q, X
  <1>5. \A c \in X : c \notin O /\ c \in Live(p) /\ c # NoConn /\ p.conn[c].key \in PoolKeys
                     /\ \A k \in PoolKeys : c \notin p.pool[k]
    <2>1. \A c \in X : c \notin O /\ c \in Live(p) /\ c # NoConn /\ \A k \in PoolKeys : c \notin p.pool[k]
      BY <1>4 DEF Sound, BackendsSound, Losing
    <2> QED BY <1>1, <2>1, Zenon DEF PoolType, Live, ConnRec, OpenKeys
  <1>6. PoolsSound(q, O)
    BY <1>3, <1>5 DEF PoolsSound, Sound
  <1>7. BackendsSound(q, A, O)
    <2> SUFFICES ASSUME NEW h \in Hostgroups, A[h].mycpe # NoConn
                 PROVE  /\ A[h].mycpe \in Live(q) /\ A[h].mycpe \notin O
                        /\ \A k \in PoolKeys : A[h].mycpe \notin q.pool[k]
                        /\ \A g \in Hostgroups : A[g].mycpe = A[h].mycpe => g = h
      BY Zenon DEF BackendsSound
    <2>1. h \notin G /\ A[h].mycpe = B[h].mycpe
      BY Zenon DEF Losing
    <2>2. B[h].mycpe \notin X
      BY <1>4, <2>1 DEF Sound, BackendsSound, Losing
    <2> QED BY <1>3, <2>1, <2>2 DEF Sound, BackendsSound, Losing
  <1>8. NoneLost(q, A, O)
    <2> SUFFICES ASSUME NEW c \in Live(q)
                 PROVE  c \in O \/ (\E k \in PoolKeys : c \in q.pool[k]) \/ \E h \in Hostgroups : A[h].mycpe = c
      BY Zenon DEF NoneLost
    <2>1. CASE c \in X
      BY <1>3, <1>5, <2>1
    <2>2. CASE c \notin X
      BY <1>3, <1>4, <2>2 DEF Sound, NoneLost, Losing
    <2> QED BY <2>1, <2>2, Zenon
  <1>9. Sound(q, A, O)
    BY <1>3, <1>5, <1>6, <1>7, <1>8, Zenon DEF Sound, Losing
  <1>10. Progress(q, O)
    <2>1. Untouched(q, O)
      BY <1>3, <1>5, Zenon DEF Progress, Untouched
    <2> QED BY <1>3, <2>1, Zenon DEF Progress
  <1>11. \A h \in Hostgroups : A[h].mycpe # NoConn => q.conn[A[h].mycpe] = p.conn[A[h].mycpe]
    BY <1>3, <1>7, Zenon DEF BackendsSound
  <1> QED BY <1>9, <1>10, <1>11, Zenon DEF q

(* backend_reset: the backends H are as new.                                  *)
LEMMA ResetSteps ==
    ASSUME NEW p, NEW S \in SessionRec, NEW O, Sound(p, S.mybes, O), Progress(p, O),
           NEW H \in SUBSET Hostgroups, NEW fc \in BOOLEAN
    PROVE  LET r == backend_reset(p, S, H, fc)
               A == [h \in Hostgroups |-> IF h \in H THEN NewBackend ELSE S.mybes[h]]
           IN  /\ r.sess = [S EXCEPT !.mybes = A]
               /\ Sound(r.cp, A, O) /\ Progress(r.cp, O)
  <1> DEFINE B == S.mybes
             G == BackendsWithConn(S, H)
             D == {[mycpe |-> B[h].mycpe, ref |-> RefAtReset(B[h]), force |-> ForceAtReset(B[h], fc)] : h \in G}
             A == [h \in Hostgroups |-> IF h \in H THEN NewBackend ELSE B[h]]
  <1>1. B \in Backends /\ NewBackend \in Backend /\ NewBackend.mycpe = NoConn
    BY Zenon DEF SessionRec, Backend, NewBackend
  <1>2. A \in Backends
    BY <1>1, Zenon DEF Backends
  <1>3. Losing(B, G, D, A)
    <2>1. G \subseteq Hostgroups /\ \A h \in G : h \in H /\ B[h].mycpe # NoConn
      BY Zenon DEF BackendsWithConn
    <2>2. \A h \in H : h \notin G => B[h].mycpe = NoConn
      BY Zenon DEF BackendsWithConn
    <2>3. \A d \in D : d.ref = NoPool /\ \E h \in G : d.mycpe = B[h].mycpe
      BY DEF RefAtReset
    <2>4. \A d, e \in D : d.mycpe = e.mycpe => d = e
      <3>1. \A g, h \in G : B[g].mycpe = B[h].mycpe => g = h
        BY <2>1, Zenon DEF Sound, BackendsSound
      <3> QED BY <3>1
    <2>5. ASSUME NEW h \in G PROVE \E d \in D : d.mycpe = B[h].mycpe
      <3> DEFINE d == [mycpe |-> B[h].mycpe, ref |-> RefAtReset(B[h]), force |-> ForceAtReset(B[h], fc)]
      <3>1. d \in D /\ d.mycpe = B[h].mycpe
        BY Zenon
      <3> QED BY <3>1, Zenon
    <2>6. \A h \in Hostgroups : A[h].mycpe = IF h \in G THEN NoConn ELSE B[h].mycpe
      BY <1>1, <2>1, <2>2, Zenon
    <2> HIDE DEF A, D, G, B
    <2> QED BY <1>2, <2>1, <2>3, <2>4, <2>5, <2>6, Zenon DEF Losing
  <1>4. backend_reset(p, S, H, fc).cp = Detach(p, D)
        /\ backend_reset(p, S, H, fc).sess = [S EXCEPT !.mybes = A]
    BY Zenon DEF backend_reset
  <1> HIDE DEF A, D, G
  <1>5. Sound(Detach(p, D), A, O) /\ Progress(Detach(p, D), O)
    BY <1>3, GiveBack, Zenon
  <1> QED BY <1>4, <1>5, Zenon DEF A

(* backend_detach: the backends lose the connections that are reusable, and   *)
(* all of them forget their pool.                                             *)
LEMMA DetachAllSteps ==
    ASSUME NEW p, NEW S \in SessionRec, NEW O, Sound(p, S.mybes, O), Progress(p, O),
           NEW user, NEW pass, NEW schema, Matching(p, S.mybes, user, pass, schema)
    PROVE  LET r == backend_detach(p, S, Hostgroups)
           IN  /\ r.sess = [S EXCEPT !.mybes = r.sess.mybes]
               /\ Sound(r.cp, r.sess.mybes, O) /\ Progress(r.cp, O)
               /\ Matching(r.cp, r.sess.mybes, user, pass, schema)
  <1> DEFINE B == S.mybes
             G == Detachable(p, S, Hostgroups)
             d(h) == [mycpe |-> B[h].mycpe, ref |-> NoPool, force |-> FALSE]
             D == {d(h) : h \in G}
             A == [h \in Hostgroups |-> [B[h] EXCEPT !.ref = IF h \in Hostgroups THEN NoPool ELSE @,
                                                     !.mycpe = IF h \in G THEN NoConn ELSE @]]
  <1>1. B \in Backends
    BY Zenon DEF SessionRec
  <1>2. A \in Backends
    BY <1>1, Zenon DEF Backends, Backend
  <1>3. \A h \in Hostgroups : /\ A[h].mycpe = IF h \in G THEN NoConn ELSE B[h].mycpe
                              /\ A[h].mshge = B[h].mshge /\ A[h].ref = NoPool
    BY <1>1, Zenon DEF Backends, Backend
  <1>4. Losing(B, G, D, A)
    <2>1. G \subseteq Hostgroups /\ \A h \in G : B[h].mycpe # NoConn
      BY Zenon DEF Detachable, BackendsWithConn
    <2>2. \A g, h \in G : B[g].mycpe = B[h].mycpe => g = h
      BY <2>1, Zenon DEF Sound, BackendsSound
    <2>3. \A h : d(h).mycpe = B[h].mycpe /\ d(h).ref = NoPool
      BY Zenon
    <2>4. \A e : e \in D <=> \E h \in G : e = d(h)
      BY Zenon
    <2> HIDE DEF A, d, D, G, B
    <2> QED BY <1>2, <1>3, <2>1, <2>2, <2>3, <2>4 DEF Losing
  <1>5. backend_detach(p, S, Hostgroups).cp = Detach(p, D)
        /\ backend_detach(p, S, Hostgroups).sess = [S EXCEPT !.mybes = A]
    BY Zenon DEF backend_detach
  <1>6. [S EXCEPT !.mybes = A].mybes = A
    BY Zenon DEF SessionRec
  <1> HIDE DEF A, D, G
  <1>7. Sound(Detach(p, D), A, O) /\ Progress(Detach(p, D), O)
        /\ \A h \in Hostgroups : A[h].mycpe # NoConn =>
              Detach(p, D).conn[A[h].mycpe] = p.conn[A[h].mycpe]
    BY <1>4, GiveBack
  <1>8. Matching(Detach(p, D), A, user, pass, schema)
    BY <1>3, <1>7 DEF Matching
  <1> QED BY <1>5, <1>6, <1>7, <1>8, Zenon

-----------------------------------------------------------------------------
(* mysql_connpool_get_connection, for a backend without connection.           *)
Gaining(B, h, c, A) ==
    /\ A \in Backends /\ h \in Hostgroups /\ B[h].mycpe = NoConn
    /\ A[h].mycpe = c
    /\ \A g \in Hostgroups \ {h} : A[g].mycpe = B[g].mycpe

(* Connections that are in no pool are as they were.                          *)
HeldSame(p, q) ==
    \A c \in Live(p) : (\A k \in PoolKeys : c \notin p.pool[k]) => c \in Live(q) /\ q.conn[c] = p.conn[c]

(* An expired connection is closed, a good one is taken: what is left.        *)
LEMMA TakeSteps ==
    ASSUME NEW p, NEW B, NEW O, Sound(p, B, O), Progress(p, O), Begun,
           NEW k \in PoolKeys, NEW c \in p.pool[k], tv < p.conn[c].expire,
           NEW closed \in SUBSET p.pool[k], c \notin closed, NEW h, NEW A, Gaining(B, h, c, A)
    PROVE  LET q == Take(p, k, c, closed)
           IN  /\ Sound(q, A, O) /\ Progress(q, O) /\ HeldSame(p, q)
               /\ c \in Live(q) /\ q.conn[c].key = k
  <1> DEFINE q == Take(p, k, c, closed)
  <1>1. PoolType(p) /\ c \in Live(p) /\ p.conn[c] \in ConnRec /\ p.conn[c].key = k /\ c \in Conns /\ c # NoConn
    BY PoolAssumption, Zenon DEF Sound, PoolsSound, PoolType, Live
  <1>2. WaitTimeout \in Nat /\ tv \in Nat /\ time \in Nat /\ tv <= time
    BY PoolAssumption, Zenon DEF Begun, TypeOK, ClockSound
  <1>3. \A d : d \in closed => d \in p.pool[k]
    BY Zenon
  <1>4. /\ Live(q) = Live(p) \ closed
        /\ \A d \in Live(q) : d # c => q.conn[d] = p.conn[d]
        /\ q.conn[c] = [p.conn[c] EXCEPT !.expire = tv + WaitTimeout, !.used = time]
        /\ q = [conn |-> q.conn, pool |-> q.pool]
        /\ q.pool = [j \in PoolKeys |-> IF j = k THEN p.pool[j] \ (closed \cup {c}) ELSE p.pool[j]]
    BY <1>1, Zenon DEF Take, Live
  <1> HIDE DEF q
  <1>5. /\ q.conn[c] \in ConnRec /\ q.conn[c].key = k /\ q.conn[c].reusable = p.conn[c].reusable
        /\ q.conn[c].expire = tv + WaitTimeout /\ q.conn[c].used = time
    <2>1. tv + WaitTimeout \in Nat
      BY <1>2
    <2> QED BY <1>1, <1>2, <1>4, <2>1, Zenon DEF ConnRec
  <1>6. \A j \in PoolKeys : \A d :
           d \in q.pool[j] <=> d \in p.pool[j] /\ (j = k => d \notin closed /\ d # c)
    BY <1>4
  <1>7. PoolType(q)
    <2>1. q.pool \in [PoolKeys -> SUBSET Conns]
      BY <1>1, <1>4 DEF PoolType
    <2>2. q.conn \in [DOMAIN q.conn -> ConnRec]
      <3>1. q.conn = [d \in DOMAIN q.conn |-> q.conn[d]]
        BY Zenon DEF q, Take
      <3>2. \A d \in DOMAIN q.conn : q.conn[d] \in ConnRec
        BY <1>1, <1>4, <1>5, Zenon DEF PoolType, Live
      <3> QED BY <3>1, <3>2, Zenon
    <2> QED BY <1>1, <1>4, <2>1, <2>2, Zenon DEF PoolType, Live
  <1>8. \A j \in PoolKeys : j # k => c \notin p.pool[j] /\ \A d \in closed : d \notin p.pool[j]
    BY <1>1, <1>3 DEF Sound, PoolsSound
  <1>9. O \subseteq Live(q) /\ c \notin O /\ \A d \in O : q.conn[d] = p.conn[d]
    BY <1>3, <1>4 DEF Sound, PoolsSound
  <1>10. PoolsSound(q, O)
    BY <1>3, <1>4, <1>6, <1>8 DEF Sound, PoolsSound
  <1>11. BackendsSound(q, A, O)
    <2>1. \A g \in Hostgroups : B[g].mycpe # NoConn => B[g].mycpe # c /\ B[g].mycpe \notin closed
      BY <1>3, Zenon DEF Sound, BackendsSound
    <2> QED BY <1>1, <1>4, <1>6, <1>8, <1>9, <2>1 DEF Sound, BackendsSound, Gaining
  <1>12. NoneLost(q, A, O)
    <2>1. \A d \in Live(p) : d # NoConn
      BY <1>1, PoolAssumption, Zenon DEF PoolType, Live
    <2> QED BY <1>4, <1>6, <2>1 DEF Sound, NoneLost, Gaining
  <1>13. Sound(q, A, O)
    BY <1>7, <1>9, <1>10, <1>11, <1>12, Zenon DEF Sound, Gaining
  <1>14. Progress(q, O)
    <2>1. Untouched(q, O)
      BY <1>9, Zenon DEF Progress, Untouched
    <2>2. \A d \in Live(q) : q.conn[d].expire <= q.conn[d].used + WaitTimeout
      <3>1. q.conn[c].expire <= q.conn[c].used + WaitTimeout
        BY <1>2, <1>5
      <3> QED BY <1>4, <3>1, Zenon DEF Progress
    <2>3. ASSUME NEW j \in PoolKeys, NEW d \in cp.pool[j], d \in Live(q)
          PROVE  (d \in q.pool[j] /\ q.conn[d] = cp.conn[d]) \/ tv < cp.conn[d].expire
      BY <1>4, <1>6, <2>3, Zenon DEF Progress
    <2> QED BY <2>1, <2>2, <2>3, Zenon DEF Progress
  <1>15. HeldSame(p, q)
    BY <1>3, <1>4, Zenon DEF HeldSame
  <1> QED BY <1>1, <1>4, <1>5, <1>13, <1>14, <1>15, Zenon DEF q

(* All of a pool is closed.                                                   *)
LEMMA DrainSteps ==
    ASSUME NEW p, NEW B, NEW O, Sound(p, B, O), Progress(p, O), NEW k \in PoolKeys
    PROVE  LET q == Drain(p, k)
           IN  /\ Sound(q, B, O) /\ Progress(q, O) /\ HeldSame(p, q)
               /\ q.pool[k] = {} /\ Live(q) \subseteq Live(p)
  <1> DEFINE q == Drain(p, k)
  <1>1. PoolType(p)
    BY Zenon DEF Sound
  <1>2. /\ Live(q) = Live(p) \ p.pool[k]
        /\ q.conn = [d \in DOMAIN q.conn |-> q.conn[d]] /\ \A d \in Live(q) : q.conn[d] = p.conn[d]
        /\ q = [conn |-> q.conn, pool |-> q.pool]
        /\ q.pool = [j \in PoolKeys |-> IF j = k THEN {} ELSE p.pool[j]]
    BY <1>1, Zenon DEF Drain, Live, Keep
  <1> HIDE DEF q
  <1>3. \A j \in PoolKeys : \A d : d \in q.pool[j] <=> d \in p.pool[j] /\ j # k
    BY <1>2, Zenon
  <1>4. PoolType(q)
    <2>1. q.pool \in [PoolKeys -> SUBSET Conns]
      BY <1>1, <1>2 DEF PoolType
    <2>2. q.conn \in [DOMAIN q.conn -> ConnRec] /\ DOMAIN q.conn \subseteq Conns
      BY <1>1, <1>2 DEF PoolType, Live
    <2> QED BY <1>2, <2>1, <2>2, Zenon DEF PoolType
  <1>5. PoolsSound(q, O) /\ O \subseteq Live(q)
    BY <1>2, <1>3 DEF Sound, PoolsSound
  <1>6. BackendsSound(q, B, O)
    BY <1>2, <1>3, Zenon DEF Sound, BackendsSound
  <1>7. NoneLost(q, B, O)
    BY <1>2, <1>3, Zenon DEF Sound, NoneLost
  <1>8. Progress(q, O)
    <2>1. Untouched(q, O)
      BY <1>2, <1>5, Zenon DEF Progress, Untouched
    <2> QED BY <1>2, <1>3, <2>1, Zenon DEF Progress
  <1>9. HeldSame(p, q)
    BY <1>2, Zenon DEF HeldSame
  <1> QED BY <1>2, <1>4, <1>5, <1>6, <1>7, <1>8, <1>9, Zenon DEF Sound, q

(* A connection is opened, under a name that was not in use.                  *)
LEMMA CreateSteps ==
    ASSUME NEW p, NEW B, NEW O, Sound(p, B, O), Progress(p, O), Begun,
           NEW key \in OpenKeys, NEW c \in Conns, c \notin Live(p), c \notin Live(cp),
           NEW h, NEW A, Gaining(B, h, c, A)
    PROVE  LET q == create_new_mysql_connection(p, key, c)
           IN  /\ Sound(q, A, O) /\ Progress(q, O) /\ HeldSame(p, q)
               /\ c \in Live(q) /\ q.conn[c].key = key
  <1> DEFINE q == create_new_mysql_connection(p, key, c)
             new == [key |-> key, reusable |-> TRUE, expire |-> tv + WaitTimeout, used |-> time]
  <1>1. PoolType(p) /\ c # NoConn
    BY PoolAssumption, Zenon DEF Sound
  <1>2. WaitTimeout \in Nat /\ tv \in Nat /\ time \in Nat /\ tv <= time
    BY PoolAssumption, Zenon DEF Begun, TypeOK, ClockSound
  <1>3. /\ Live(q) = Live(p) \cup {c}
        /\ q.conn = [d \in DOMAIN q.conn |-> q.conn[d]]
        /\ \A d \in Live(p) : q.conn[d] = p.conn[d]
        /\ q.conn[c] = new
        /\ q = [conn |-> q.conn, pool |-> q.pool] /\ q.pool = p.pool
    BY Zenon DEF create_new_mysql_connection, Live
  <1> HIDE DEF q
  <1>4. new \in ConnRec /\ new.expire <= new.used + WaitTimeout /\ new.key = key
    <2>1. tv + WaitTimeout \in Nat /\ tv + WaitTimeout <= time + WaitTimeout
      BY <1>2
    <2> QED BY <1>2, <2>1, Zenon DEF ConnRec
  <1> HIDE DEF new
  <1>5. PoolType(q)
    BY <1>1, <1>3, <1>4, Zenon DEF PoolType, Live
  <1>6. PoolsSound(q, O) /\ O \subseteq Live(q)
    BY <1>3 DEF Sound, PoolsSound
  <1>7. BackendsSound(q, A, O)
    <2>1. \A k \in PoolKeys : c \notin p.pool[k]
      BY Zenon DEF Sound, PoolsSound
    <2>2. c \notin O /\ \A g \in Hostgroups : B[g].mycpe # c
      BY <1>1, Zenon DEF Sound, BackendsSound
    <2> QED BY <1>1, <1>3, <2>1, <2>2 DEF Sound, BackendsSound, Gaining
  <1>8. NoneLost(q, A, O)
    <2>1. \A d \in Live(p) : d # NoConn
      BY <1>1, PoolAssumption, Zenon DEF PoolType, Live
    <2> QED BY <1>3, <2>1 DEF Sound, NoneLost, Gaining
  <1>9. Progress(q, O)
    <2>1. Untouched(q, O)
      BY <1>3, Zenon DEF Progress, Untouched
    <2>3. \A k \in PoolKeys : c \notin cp.pool[k]
      BY Zenon DEF Begun
    <2>4. \A d \in Live(q) : q.conn[d].expire <= q.conn[d].used + WaitTimeout
      BY <1>3, <1>4, Zenon DEF Progress
    <2>5. \A k \in PoolKeys : \A d \in cp.pool[k] :
             d \in Live(q) => (d \in q.pool[k] /\ q.conn[d] = cp.conn[d]) \/ tv < cp.conn[d].expire
      BY <1>3, <2>3, Zenon DEF Progress
    <2> QED BY <2>1, <2>4, <2>5, Zenon DEF Progress
  <1>10. HeldSame(p, q)
    BY <1>3, Zenon DEF HeldSame
  <1> QED BY <1>3, <1>4, <1>5, <1>6, <1>7, <1>8, <1>9, <1>10, Zenon DEF Sound, Gaining, q

(* get_connection, for backend h: A is the backends with what it returns.     *)
(* When there is a pool to look at that the caller remembers, it is empty.    *)
Searched(p, ref) == ref = NoPool \/ (ref \in PoolKeys /\ p.pool[ref] = {})

(* What get_connection may return: a connection of the pool it looks at that  *)
(* has not expired, a new one, or none.                                       *)
FromPool(p, k, r, g) ==
    \E c \in p.pool[k] : \E closed \in SUBSET p.pool[k] :
        /\ c \notin closed /\ ~IsExpired(p.conn[c], tv)
        /\ g = [cp |-> Take(p, k, c, closed), mycpe |-> c, ref |-> r]
Opened(p, k, r, key, g) ==
    \E c \in Conns \ (Live(p) \cup Live(cp)) :
        Accepted(key) /\
        g = [cp |-> create_new_mysql_connection(Drain(p, k), key, c), mycpe |-> c, ref |-> r]
NotOpened(p, k, r, g) == g = [cp |-> Drain(p, k), mycpe |-> NoConn, ref |-> r]

LEMMA GetCases ==
    ASSUME NEW p, NEW ref, NEW key, NEW g \in GetConnection(p, ref, key)
    PROVE  \E k, r : /\ k = IF ref = NoPool THEN key ELSE ref
                     /\ r = IF PoolEnabled THEN k ELSE ref
                     /\ FromPool(p, k, r, g) \/ Opened(p, k, r, key, g) \/ NotOpened(p, k, r, g)
  <1> DEFINE k == IF ref = NoPool THEN key ELSE ref
             r == IF PoolEnabled THEN k ELSE ref
             expired == {c \in p.pool[k] : IsExpired(p.conn[c], tv)}
             good == p.pool[k] \ expired
             result(q, c) == [cp |-> q, mycpe |-> c, ref |-> r]
  <1>1. GetConnection(p, ref, key) =
          IF good # {}
          THEN {result(Take(p, k, c, closed), c) : c \in good, closed \in SUBSET expired}
          ELSE {result(create_new_mysql_connection(Drain(p, k), key, c), c) :
                   c \in {d \in Conns \ (Live(p) \cup Live(cp)) : Accepted(key)}}
               \cup {result(Drain(p, k), NoConn)}
    BY DEF GetConnection
  <1>2. k = (IF ref = NoPool THEN key ELSE ref) /\ r = (IF PoolEnabled THEN k ELSE ref)
    BY Zenon
  <1> HIDE DEF k, r
  <1>3. CASE good # {}
    <2>1. g \in {result(Take(p, k, c, closed), c) : c \in good, closed \in SUBSET expired}
      BY <1>1, <1>3
    <2>2. PICK c \in good, closed \in SUBSET expired : g = result(Take(p, k, c, closed), c)
      BY <2>1
    <2>3. c \in p.pool[k] /\ ~IsExpired(p.conn[c], tv) /\ closed \in SUBSET p.pool[k] /\ c \notin closed
      BY Zenon
    <2>4. FromPool(p, k, r, g)
      BY <2>2, <2>3, Zenon DEF FromPool
    <2> QED BY <1>2, <2>4, Zenon
  <1>4. CASE good = {}
    <2>1. \/ g \in {result(create_new_mysql_connection(Drain(p, k), key, c), c) :
                       c \in {d \in Conns \ (Live(p) \cup Live(cp)) : Accepted(key)}}
          \/ g = result(Drain(p, k), NoConn)
      BY <1>1, <1>4
    <2>2. Opened(p, k, r, key, g) \/ NotOpened(p, k, r, g)
      BY <2>1, Zenon DEF Opened, NotOpened
    <2> QED BY <1>2, <2>2, Zenon
  <1> QED BY <1>3, <1>4, Zenon

LEMMA GetSteps ==
    ASSUME NEW p, NEW B, NEW O, Sound(p, B, O), Progress(p, O), Begun,
           NEW key \in PoolKeys, NEW ref, Searched(p, ref), NEW g \in GetConnection(p, ref, key),
           NEW h, NEW A, Gaining(B, h, g.mycpe, A)
    PROVE  /\ Sound(g.cp, A, O) /\ Progress(g.cp, O) /\ HeldSame(p, g.cp)
           /\ IF g.mycpe = NoConn THEN Searched(g.cp, g.ref)
              ELSE g.mycpe \in Live(g.cp) /\ g.cp.conn[g.mycpe].key = key
  <1>1. PICK k, r : /\ k = IF ref = NoPool THEN key ELSE ref
                    /\ r = IF PoolEnabled THEN k ELSE ref
                    /\ FromPool(p, k, r, g) \/ Opened(p, k, r, key, g) \/ NotOpened(p, k, r, g)
    BY GetCases
  <1>2. k \in PoolKeys /\ (p.pool[k] # {} => k = key) /\ (r = NoPool \/ r = k) /\ PoolType(p)
    BY <1>1, Zenon DEF Searched, Sound
  <1> DEFINE drained == Drain(p, k)
  <1>3. Sound(drained, B, O) /\ Progress(drained, O) /\ HeldSame(p, drained)
        /\ drained.pool[k] = {} /\ Live(drained) \subseteq Live(p)
    BY <1>2, DrainSteps, Zenon
  <1>4. CASE FromPool(p, k, r, g)
    <2>1. PICK c \in p.pool[k] : \E closed \in SUBSET p.pool[k] :
             /\ c \notin closed /\ ~IsExpired(p.conn[c], tv)
             /\ g = [cp |-> Take(p, k, c, closed), mycpe |-> c, ref |-> r]
      BY <1>4, Zenon DEF FromPool
    <2>2. PICK closed \in SUBSET p.pool[k] :
             /\ c \notin closed /\ ~IsExpired(p.conn[c], tv)
             /\ g = [cp |-> Take(p, k, c, closed), mycpe |-> c, ref |-> r]
      BY <2>1, Zenon
    <2>3. g.mycpe = c /\ g.cp = Take(p, k, c, closed) /\ k = key
      BY <1>2, <2>2, Zenon
    <2>4. tv < p.conn[c].expire /\ c # NoConn
      <3>1. c \in Live(p) /\ p.conn[c] \in ConnRec /\ c # NoConn
        BY <1>2, PoolAssumption, Zenon DEF Sound, PoolsSound, PoolType, Live
      <3>2. p.conn[c].expire \in Nat /\ tv \in Nat
        BY <3>1, Zenon DEF ConnRec, Begun, TypeOK
      <3> QED BY <2>2, <3>1, <3>2 DEF IsExpired
    <2>5. Gaining(B, h, c, A)
      BY <2>3, Zenon
    <2>6. LET q == Take(p, k, c, closed)
          IN  Sound(q, A, O) /\ Progress(q, O) /\ HeldSame(p, q) /\ c \in Live(q) /\ q.conn[c].key = k
      BY <1>2, <2>2, <2>4, <2>5, TakeSteps
    <2> QED BY <2>3, <2>4, <2>6, Zenon
  <1> HIDE DEF drained
  <1>5. CASE Opened(p, k, r, key, g)
    <2>1. PICK c \in Conns \ (Live(p) \cup Live(cp)) :
             Accepted(key) /\ g = [cp |-> create_new_mysql_connection(drained, key, c), mycpe |-> c, ref |-> r]
      BY <1>5, Zenon DEF Opened, drained
    <2>2. g.mycpe = c /\ g.cp = create_new_mysql_connection(drained, key, c) /\ c # NoConn
      BY <2>1, PoolAssumption, Zenon
    <2>3. /\ c \in Conns /\ c \notin Live(drained) /\ c \notin Live(cp) /\ Gaining(B, h, c, A)
          /\ key \in OpenKeys
      BY <1>3, <2>1, <2>2, Zenon DEF OpenKeys
    <2>4. /\ Sound(g.cp, A, O) /\ Progress(g.cp, O) /\ HeldSame(drained, g.cp)
          /\ c \in Live(g.cp) /\ g.cp.conn[c].key = key
      BY <1>3, <2>2, <2>3, CreateSteps
    <2>5. \A d \in Live(p) : (\A j \in PoolKeys : d \notin p.pool[j]) =>
             d \in Live(drained) /\ \A j \in PoolKeys : d \notin drained.pool[j]
      <3>1. \A j \in PoolKeys : drained.pool[j] \subseteq p.pool[j]
        BY Zenon DEF drained, Drain
      <3> QED BY <1>3, <3>1, Zenon DEF HeldSame
    <2>6. HeldSame(p, g.cp)
      BY <1>3, <2>4, <2>5, Zenon DEF HeldSame
    <2> QED BY <2>2, <2>4, <2>6, Zenon
  <1>6. CASE NotOpened(p, k, r, g)
    <2>1. g.mycpe = NoConn /\ g.cp = drained /\ g.ref = r
      BY <1>6, Zenon DEF NotOpened, drained
    <2>2. Searched(drained, g.ref)
      BY <1>2, <1>3, <2>1, Zenon DEF Searched
    <2>3. Sound(drained, A, O)
      BY <1>3, <2>1 DEF Sound, BackendsSound, NoneLost, Gaining
    <2> QED BY <1>3, <2>1, <2>2, <2>3, Zenon
  <1> QED BY <1>1, <1>4, <1>5, <1>6, Zenon

LEMMA GetType ==
    ASSUME NEW p, PoolType(p), NEW key \in PoolKeys, NEW ref, Searched(p, ref),
           NEW g \in GetConnection(p, ref, key)
    PROVE  g.mycpe \in Conns \cup {NoConn} /\ g.ref \in PoolKeys \cup {NoPool}
  <1>1. PICK k, r : /\ k = IF ref = NoPool THEN key ELSE ref
                    /\ r = IF PoolEnabled THEN k ELSE ref
                    /\ FromPool(p, k, r, g) \/ Opened(p, k, r, key, g) \/ NotOpened(p, k, r, g)
    BY GetCases
  <1>2. k \in PoolKeys /\ r \in PoolKeys \cup {NoPool} /\ p.pool[k] \subseteq Conns
    BY <1>1, Zenon DEF Searched, PoolType
  <1>3. g.ref = r /\ g.mycpe \in Conns \cup {NoConn}
    <2>1. CASE FromPool(p, k, r, g)
      BY <1>2, <2>1 DEF FromPool
    <2>2. CASE Opened(p, k, r, key, g)
      BY <2>2 DEF Opened
    <2>3. CASE NotOpened(p, k, r, g)
      BY <2>3, Zenon DEF NotOpened
    <2> QED BY <1>1, <2>1, <2>2, <2>3, Zenon
  <1> QED BY <1>2, <1>3, Zenon

(* One attempt of create_backend_for_hostgroup to get a connection.           *)
AfterTry(b, ms, g) ==
    [b EXCEPT !.mshge = ms, !.mycpe = g.mycpe, !.ref = g.ref,
              !.myds = IF g.mycpe # NoConn /\ @ = "none" THEN "active" ELSE @]

LEMMA TrySteps ==
    ASSUME NEW p, NEW S \in SessionRec, NEW O, Sound(p, S.mybes, O), Progress(p, O), Begun,
           S.user \in Users, S.pass \in Passwords, S.schema \in Schemas, Matching(p, S.mybes, S.user, S.pass, S.schema),
           NEW h \in Hostgroups, S.mybes[h].mycpe = NoConn, NEW ref, Searched(p, ref),
           NEW ms \in Servers,
           NEW g \in GetConnection(p, ref, [server |-> ms, user |-> S.user, pass |-> S.pass, schema |-> S.schema])
    PROVE  LET be == AfterTry(S.mybes[h], ms, g)
               A == [S.mybes EXCEPT ![h] = be]
           IN  /\ be \in Backend /\ be.mshge = ms /\ be.mycpe = g.mycpe /\ be.ref = g.ref
               /\ be.trx = S.mybes[h].trx
               /\ Sound(g.cp, A, O) /\ Progress(g.cp, O)
               /\ IF g.mycpe = NoConn
                  THEN /\ Searched(g.cp, g.ref) /\ Sound(g.cp, S.mybes, O)
                       /\ Matching(g.cp, S.mybes, S.user, S.pass, S.schema)
                  ELSE Matching(g.cp, A, S.user, S.pass, S.schema)
  <1> DEFINE B == S.mybes
             key == [server |-> ms, user |-> S.user, pass |-> S.pass, schema |-> S.schema]
             be == AfterTry(B[h], ms, g)
             A == [B EXCEPT ![h] = be]
  <1>1. B \in Backends /\ B[h] \in Backend /\ key \in PoolKeys /\ PoolType(p)
    BY Zenon DEF SessionRec, Backends, PoolKeys, Sound
  <1>2. g.mycpe \in Conns \cup {NoConn} /\ g.ref \in PoolKeys \cup {NoPool}
    BY <1>1, GetType, Zenon
  <1>3. be \in Backend /\ be.mshge = ms /\ be.mycpe = g.mycpe /\ be.ref = g.ref /\ be.trx = B[h].trx
    BY <1>1, <1>2, ZenonT(40) DEF AfterTry, Backend
  <1> HIDE DEF be
  <1>4. A \in Backends /\ A[h] = be /\ \A f \in Hostgroups \ {h} : A[f] = B[f]
    BY <1>1, <1>3, Zenon DEF Backends
  <1>5. Sound(p, B, O) /\ Matching(p, B, S.user, S.pass, S.schema) /\ B[h].mycpe = NoConn
    BY Zenon
  <1> HIDE DEF A, key, B
  <1>6. Gaining(B, h, g.mycpe, A)
    BY <1>3, <1>4, <1>5, Zenon DEF Gaining
  <1>7. /\ Sound(g.cp, A, O) /\ Progress(g.cp, O) /\ HeldSame(p, g.cp)
        /\ IF g.mycpe = NoConn THEN Searched(g.cp, g.ref)
           ELSE g.mycpe \in Live(g.cp) /\ g.cp.conn[g.mycpe].key = key
    BY <1>1, <1>5, <1>6, GetSteps DEF key
  <1>8. \A f \in Hostgroups : B[f].mycpe # NoConn => g.cp.conn[B[f].mycpe] = p.conn[B[f].mycpe]
    <2>1. ASSUME NEW f \in Hostgroups, B[f].mycpe # NoConn
          PROVE  g.cp.conn[B[f].mycpe] = p.conn[B[f].mycpe]
      <3>1. B[f].mycpe \in Live(p) /\ \A k \in PoolKeys : B[f].mycpe \notin p.pool[k]
        BY <1>5, <2>1, Zenon DEF Sound, BackendsSound
      <3> QED BY <1>7, <3>1, Zenon DEF HeldSame
    <2> QED BY <2>1, Zenon
  <1>9. CASE g.mycpe = NoConn
    <2>1. \A f \in Hostgroups : A[f].mycpe = B[f].mycpe
      BY <1>3, <1>4, <1>5, <1>9
    <2>2. Sound(g.cp, B, O)
      BY <1>1, <1>7, <2>1 DEF Sound, BackendsSound, NoneLost
    <2>3. Matching(g.cp, B, S.user, S.pass, S.schema)
      BY <1>5, <1>8, Zenon DEF Matching
    <2> QED BY <1>3, <1>7, <1>9, <2>2, <2>3, Zenon DEF A, be, B
  <1>10. CASE g.mycpe # NoConn
    <2>1. Matching(g.cp, A, S.user, S.pass, S.schema)
      <3>1. \A f \in Hostgroups \ {h} : IF A[f].mycpe = NoConn THEN A[f].ref = NoPool
               ELSE g.cp.conn[A[f].mycpe].key = [server |-> A[f].mshge, user |-> S.user, pass |-> S.pass, schema |-> S.schema]
        BY <1>4, <1>5, <1>8 DEF Matching
      <3>2. /\ A[h].mycpe = g.mycpe
            /\ g.cp.conn[g.mycpe].key = [server |-> A[h].mshge, user |-> S.user, pass |-> S.pass, schema |-> S.schema]
        BY <1>3, <1>4, <1>7, <1>10, Zenon DEF key
      <3> QED BY <1>10, <3>1, <3>2, Zenon DEF Matching
    <2> QED BY <1>3, <1>7, <1>10, <2>1, Zenon DEF A, be, B
  <1> QED BY <1>9, <1>10, Zenon

(* create_backend_for_hostgroup finds a server, and a connection to it or     *)
(* none.                                                                      *)
LEMMA CreateBackendSteps ==
    ASSUME NEW p, NEW S \in SessionRec, NEW O, Sound(p, S.mybes, O), Progress(p, O), Begun,
           S.user \in Users, S.pass \in Passwords, S.schema \in Schemas, Matching(p, S.mybes, S.user, S.pass, S.schema),
           NEW h \in Hostgroups, S.mybes[h].mycpe = NoConn, NEW r \in CreateBackend(p, S, h)
    PROVE  LET A == [S.mybes EXCEPT ![h] = r.be]
           IN  /\ r.be \in Backend /\ r.be.mshge \in Servers /\ r.be.trx = S.mybes[h].trx
               /\ Sound(r.cp, A, O) /\ Progress(r.cp, O)
               /\ r.be.mycpe # NoConn => Matching(r.cp, A, S.user, S.pass, S.schema)
  <1> DEFINE b == S.mybes[h]
             key(ms) == [server |-> ms, user |-> S.user, pass |-> S.pass, schema |-> S.schema]
             left(g, ms) == [cp |-> g.cp, be |-> AfterTry(b, ms, g)]
             tries(q, ref, M) == UNION {{left(g, ms) : g \in GetConnection(q, ref, key(ms))} : ms \in M}
             again(x) == IF hostgroup[h] = {}
                         THEN {[x EXCEPT !.be.mshge = NoServer]}
                         ELSE tries(x.cp, x.be.ref, hostgroup[h])
             first == IF b.mshge = NoServer THEN hostgroup[h] ELSE {b.mshge}
             Good(x) == LET A == [S.mybes EXCEPT ![h] = x.be]
                        IN  /\ x.be \in Backend /\ x.be.mshge \in Servers /\ x.be.trx = S.mybes[h].trx
                            /\ Sound(x.cp, A, O) /\ Progress(x.cp, O)
                            /\ x.be.mycpe # NoConn => Matching(x.cp, A, S.user, S.pass, S.schema)
  <1>1. /\ hostgroup[h] \subseteq Servers /\ hostgroup[h] # {}
        /\ first \subseteq Servers /\ first # {} /\ b.ref = NoPool
    <2>1. hostgroup[h] \subseteq Servers /\ hostgroup[h] # {}
      BY Zenon DEF Begun, TypeOK, AllOnline
    <2>2. b \in Backend
      BY Zenon DEF SessionRec, Backends
    <2>3. b.mshge \in Servers \cup {NoServer}
      BY <2>2, Zenon DEF Backend
    <2>4. b.ref = NoPool
      BY Zenon DEF Matching
    <2> QED BY <2>1, <2>3, <2>4, Zenon
  <1>2. ASSUME NEW q, NEW ref, Sound(q, S.mybes, O), Progress(q, O), Matching(q, S.mybes, S.user, S.pass, S.schema),
               Searched(q, ref), NEW M \in SUBSET Servers, NEW x \in tries(q, ref, M)
        PROVE  /\ Good(x)
               /\ x.be.mycpe = NoConn => /\ Searched(x.cp, x.be.ref) /\ Sound(x.cp, S.mybes, O)
                                         /\ Matching(x.cp, S.mybes, S.user, S.pass, S.schema)
    <2>1. PICK ms \in M : \E g \in GetConnection(q, ref, key(ms)) : x = left(g, ms)
      BY <1>2, Zenon
    <2>2. PICK g \in GetConnection(q, ref, key(ms)) : x = left(g, ms)
      BY <2>1, Zenon
    <2>3. x.cp = g.cp /\ x.be = AfterTry(b, ms, g)
      BY <2>2, Zenon
    <2>4. ms \in Servers
      BY <1>2, Zenon
    <2>5. LET be == AfterTry(S.mybes[h], ms, g)
              A == [S.mybes EXCEPT ![h] = be]
          IN  /\ be \in Backend /\ be.mshge = ms /\ be.mycpe = g.mycpe /\ be.ref = g.ref
              /\ be.trx = S.mybes[h].trx
              /\ Sound(g.cp, A, O) /\ Progress(g.cp, O)
              /\ IF g.mycpe = NoConn
                 THEN /\ Searched(g.cp, g.ref) /\ Sound(g.cp, S.mybes, O)
                      /\ Matching(g.cp, S.mybes, S.user, S.pass, S.schema)
                 ELSE Matching(g.cp, A, S.user, S.pass, S.schema)
      BY <1>2, <2>2, <2>4, TrySteps, Zenon
    <2> QED BY <2>3, <2>4, <2>5, Zenon
  <1>3. PICK x \in tries(p, b.ref, first) : r \in IF x.be.mycpe # NoConn THEN {x} ELSE again(x)
    <2>1. CreateBackend(p, S, h) = UNION {IF x.be.mycpe # NoConn THEN {x} ELSE again(x) :
                                              x \in tries(p, b.ref, first)}
      BY <1>1, Zenon DEF CreateBackend, AfterTry
    <2> QED BY <2>1, Zenon
  <1>4. /\ Good(x)
        /\ x.be.mycpe = NoConn => /\ Searched(x.cp, x.be.ref) /\ Sound(x.cp, S.mybes, O)
                                  /\ Matching(x.cp, S.mybes, S.user, S.pass, S.schema)
    <2>1. Searched(p, b.ref)
      BY <1>1, Zenon DEF Searched
    <2> HIDE DEF tries, Good, first, b
    <2> QED BY <1>1, <1>2, <1>3, <2>1, Zenon
  <1>5. CASE x.be.mycpe # NoConn
    BY <1>3, <1>4, <1>5, Zenon
  <1>6. CASE x.be.mycpe = NoConn
    <2>1. r \in tries(x.cp, x.be.ref, hostgroup[h])
      BY <1>1, <1>3, <1>6, Zenon
    <2>2. Progress(x.cp, O)
      BY <1>4, Zenon
    <2> HIDE DEF tries, Good
    <2>3. Good(r)
      BY <1>1, <1>2, <1>4, <1>6, <2>1, <2>2, Zenon
    <2> QED BY <2>3, Zenon DEF Good
  <1> QED BY <1>5, <1>6, Zenon

-----------------------------------------------------------------------------
(* The handlers, and the theorems. *)

(* What a handler of a session leaves, when the others hold O.                *)
GoodOutcome(o, O) ==
    /\ o.crash = ""
    /\ o.sess \in SessionRec /\ SessionSound(o.sess)
    /\ Sound(o.cp, o.sess.mybes, O) /\ Progress(o.cp, O)
    /\ Matching(o.cp, o.sess.mybes, o.sess.user, o.sess.pass, o.sess.schema)
    /\ WiresFit(o.wire)
    /\ \A c \in Conns : c \notin Live(o.cp) => o.wire[c] = IdleWire

LEMMA IdleWireType == IdleWire \in WireRec /\ IdleWire.reply = "none"
  BY DEF IdleWire, WireRec

LEMMA OutcomeGood ==
    ASSUME NEW p, NEW w, NEW S \in SessionRec, NEW O, Sound(p, S.mybes, O), Progress(p, O),
           SessionSound(S), Matching(p, S.mybes, S.user, S.pass, S.schema), WiresFit(w)
    PROVE  GoodOutcome(Outcome(p, w, S), O)
  <1> DEFINE o == Outcome(p, w, S)
  <1>1. o.cp = p /\ o.sess = S /\ o.crash = "" /\ o.wire = OnlyLive(w, p)
    BY Zenon DEF Outcome
  <1>2. \A c \in Conns : OnlyLive(w, p)[c] = IF c \in Live(p) THEN w[c] ELSE IdleWire
    BY Zenon DEF OnlyLive
  <1>3. OnlyLive(w, p) \in [Conns -> WireRec]
    BY IdleWireType, Zenon DEF OnlyLive, WiresFit
  <1>4. Live(p) \subseteq Conns
    BY Zenon DEF Sound, PoolType, Live
  <1>5. WiresFit(OnlyLive(w, p))
    BY <1>2, <1>3, <1>4, IdleWireType, Zenon DEF WiresFit
  <1> HIDE DEF o
  <1> QED BY <1>1, <1>2, <1>5, Zenon DEF GoodOutcome, o

(* The wires when a client leaves: only whose work it is changes.             *)
LEMMA OrphanFits ==
    ASSUME NEW w, NEW s \in Sessions, WiresFit(w)
    PROVE  WiresFit(Orphan(w, s))
  <1> DEFINE left(x) == IF x = s THEN Gone ELSE x
             v == Orphan(w, s)
  <1>1. ASSUME NEW c \in Conns
        PROVE  /\ v[c] \in WireRec /\ v[c].reply = w[c].reply
               /\ w[c].asked # <<>> => v[c].asked # <<>>
    <2> DEFINE a == w[c].asked
               b == [i \in DOMAIN a |-> left(a[i])]
    <2>1. v[c] = [w[c] EXCEPT !.tx = left(w[c].tx), !.asked = b]
      BY Zenon DEF Orphan
    <2>2. w[c] \in WireRec
      BY Zenon DEF WiresFit
    <2>3. a \in Seq(Sessions \cup {Gone}) /\ left(w[c].tx) \in Sessions \cup {NoSession, Gone}
      BY <2>2, Zenon DEF WireRec
    <2>4. b \in Seq(Sessions \cup {Gone}) /\ Len(b) = Len(a)
      BY <2>3
    <2>5. a # <<>> => b # <<>>
      BY <2>3, <2>4
    <2> HIDE DEF b, left
    <2> QED BY <2>1, <2>2, <2>3, <2>4, <2>5, Zenon DEF WireRec
  <1>2. v = [c \in Conns |-> v[c]]
    BY Zenon DEF Orphan
  <1> HIDE DEF v
  <1>3. v \in [Conns -> WireRec]
    BY <1>1, <1>2, Zenon
  <1>4. WiresFit(v)
    BY <1>1, <1>3, Zenon DEF WiresFit
  <1> QED BY <1>4, Zenon DEF v

LEMMA FreshSession ==
    ASSUME NEW state \in {"none", "auth"}
    PROVE  /\ NewSession(state) \in SessionRec /\ SessionSound(NewSession(state))
           /\ NewSession(state).mybes = [h \in Hostgroups |-> NewBackend]
           /\ \A p, user, pass, schema : Matching(p, [h \in Hostgroups |-> NewBackend], user, pass, schema)
  <1>1. NewBackend \in Backend /\ NewBackend.mycpe = NoConn /\ NewBackend.ref = NoPool
    BY Zenon DEF NewBackend, Backend
  <1>2. [h \in Hostgroups |-> NewBackend] \in Backends
    BY <1>1, Zenon DEF Backends
  <1>3. NewSession(state) \in SessionRec /\ NewSession(state).mybes = [h \in Hostgroups |-> NewBackend]
        /\ NewSession(state).pkt = NoPkt /\ NewSession(state).state = state
    BY <1>2, Zenon DEF NewSession, SessionRec
  <1>4. SessionSound(NewSession(state))
    BY <1>3, Zenon DEF SessionSound
  <1>5. \A p, user, pass, schema : Matching(p, [h \in Hostgroups |-> NewBackend], user, pass, schema)
    BY <1>1, Zenon DEF Matching
  <1> QED BY <1>3, <1>4, <1>5, Zenon

LEMMA WiresFitBegun == ASSUME Begun PROVE WiresFit(wire)
  BY Zenon DEF Begun, WiresSound

LEMMA ResetAllSteps ==
    ASSUME NEW p, NEW S \in SessionRec, NEW O, Sound(p, S.mybes, O), Progress(p, O), NEW fc \in BOOLEAN
    PROVE  LET r == backend_reset(p, S, Hostgroups, fc)
               A == [h \in Hostgroups |-> NewBackend]
           IN  r.sess = [S EXCEPT !.mybes = A] /\ Sound(r.cp, A, O) /\ Progress(r.cp, O)
  <1> DEFINE r == backend_reset(p, S, Hostgroups, fc)
             A == [h \in Hostgroups |-> IF h \in Hostgroups THEN NewBackend ELSE S.mybes[h]]
  <1>1. \A H \in SUBSET Hostgroups :
           LET q == backend_reset(p, S, H, fc)
               C == [h \in Hostgroups |-> IF h \in H THEN NewBackend ELSE S.mybes[h]]
           IN  q.sess = [S EXCEPT !.mybes = C] /\ Sound(q.cp, C, O) /\ Progress(q.cp, O)
    BY ResetSteps
  <1>2. Hostgroups \in SUBSET Hostgroups
    BY Zenon
  <1>3. r.sess = [S EXCEPT !.mybes = A] /\ Sound(r.cp, A, O) /\ Progress(r.cp, O)
    BY <1>1, <1>2, Zenon
  <1>4. A = [h \in Hostgroups |-> NewBackend]
    BY Zenon
  <1> HIDE DEF A, r
  <1> QED BY <1>3, <1>4, Zenon DEF r

(* sess_close *)
LEMMA SessCloseGood ==
    ASSUME NEW p, NEW S \in SessionRec, NEW s \in Sessions, NEW O, NEW fc \in BOOLEAN,
           Begun, Sound(p, S.mybes, O), Progress(p, O)
    PROVE  GoodOutcome(SessClose(p, wire, S, s, fc), O)
  <1> DEFINE q == backend_reset(p, S, Hostgroups, fc).cp
             A == [h \in Hostgroups |-> NewBackend]
             N == NewSession("none")
  <1>1. Sound(q, A, O) /\ Progress(q, O)
    BY ResetAllSteps, Zenon
  <1>2. N \in SessionRec /\ SessionSound(N) /\ N.mybes = A /\ Matching(q, N.mybes, N.user, N.pass, N.schema)
    BY FreshSession
  <1> HIDE DEF q, A, N
  <1>3. WiresFit(wire) /\ Live(q) \subseteq Conns
    BY <1>1, WiresFitBegun, Zenon DEF Sound, PoolType, Live
  <1>4. WiresFit(Orphan(wire, s))
    BY <1>3, OrphanFits, Zenon
  <1>5. GoodOutcome(Outcome(q, Orphan(wire, s), N), O)
    BY <1>1, <1>2, <1>4, OutcomeGood, Zenon
  <1> QED BY <1>5, Zenon DEF SessClose, q, N

(* client_COM_INIT_DB and client_COM_CHANGE_USER                              *)
LEMMA ResetAllGood ==
    ASSUME NEW S \in SessionRec, NEW O, Begun, Sound(cp, S.mybes, O), Progress(cp, O)
    PROVE  LET r == ResetAll(cp, S)
           IN  /\ r.sess = [S EXCEPT !.mybes = [h \in Hostgroups |-> NewBackend], !.mybe = NoHg]
               /\ Sound(r.cp, [h \in Hostgroups |-> NewBackend], O) /\ Progress(r.cp, O)
  <1> DEFINE q == backend_reset(cp, S, Hostgroups, FALSE)
             A == [h \in Hostgroups |-> NewBackend]
  <1>1. q.sess = [S EXCEPT !.mybes = A] /\ Sound(q.cp, A, O) /\ Progress(q.cp, O)
    BY ResetAllSteps, Zenon
  <1>2. q = [cp |-> q.cp, sess |-> q.sess]
    BY Zenon DEF backend_reset
  <1>3. ResetAll(cp, S) = [q EXCEPT !.sess.mybe = NoHg]
    BY Zenon DEF ResetAll
  <1> HIDE DEF q, A
  <1>4. ResetAll(cp, S).cp = q.cp /\ ResetAll(cp, S).sess = [q.sess EXCEPT !.mybe = NoHg]
    BY <1>2, <1>3, Zenon
  <1>5. [[S EXCEPT !.mybes = A] EXCEPT !.mybe = NoHg] = [S EXCEPT !.mybes = A, !.mybe = NoHg]
    BY Zenon
  <1> QED BY <1>1, <1>4, <1>5, Zenon DEF A

LEMMA InitDBGood ==
    ASSUME NEW S \in SessionRec, NEW O, Begun, Sound(cp, S.mybes, O), Progress(cp, O),
           SessionSound(S), S.state = "ready",
           Matching(cp, S.mybes, S.user, S.pass, S.schema),
           NEW pkt, pkt.schema \in Schemas, NEW o \in client_COM_INIT_DB(cp, wire, S, pkt)
    PROVE  GoodOutcome(o, O)
  <1> DEFINE r == ResetAll(cp, S)
             A == [h \in Hostgroups |-> NewBackend]
             N == Answered([r.sess EXCEPT !.schema = pkt.schema])
  <1>1. CASE SameSchema(S, pkt)
    <2>1. o = Outcome(cp, wire, Answered(S))
      BY <1>1, Zenon DEF client_COM_INIT_DB
    <2>2. /\ Answered(S) \in SessionRec /\ Answered(S).mybes = S.mybes
          /\ Answered(S).user = S.user /\ Answered(S).pass = S.pass /\ Answered(S).schema = S.schema /\ SessionSound(Answered(S))
      BY Zenon DEF Answered, SessionRec, SessionSound
    <2>3. WiresFit(wire)
      BY Zenon DEF Begun, WiresSound
    <2> QED BY <2>1, <2>2, <2>3, OutcomeGood, Zenon
  <1>2. CASE ~SameSchema(S, pkt)
    <2>1. o = Outcome(r.cp, wire, N)
      BY <1>2, Zenon DEF client_COM_INIT_DB
    <2>2. r.sess = [S EXCEPT !.mybes = A, !.mybe = NoHg] /\ Sound(r.cp, A, O) /\ Progress(r.cp, O)
      BY ResetAllGood, Zenon
    <2>3. A \in Backends
      BY <2>2, Zenon DEF Sound
    <2> HIDE DEF r, A
    <2>4. /\ N \in SessionRec /\ N.mybes = A /\ N.state = "ready"
          /\ N.schema = pkt.schema /\ N.user = S.user /\ N.pass = S.pass
      BY <2>2, <2>3, ZenonT(40) DEF Answered, SessionRec
    <2>5. SessionSound(N) /\ Matching(r.cp, N.mybes, N.user, N.pass, N.schema)
      BY <2>4, FreshSession, ZenonT(40) DEF SessionSound, A
    <2>6. WiresFit(wire)
      BY <2>2, WiresFitBegun, Zenon
    <2> HIDE DEF N
    <2> QED BY <2>1, <2>2, <2>4, <2>5, <2>6, OutcomeGood, Zenon
  <1> QED BY <1>1, <1>2, Zenon

LEMMA ChangeUserGood ==
    ASSUME NEW S \in SessionRec, NEW O, Begun, Sound(cp, S.mybes, O), Progress(cp, O),
           SessionSound(S), S.state = "ready", NEW o \in client_COM_CHANGE_USER(cp, wire, S)
    PROVE  GoodOutcome(o, O)
  <1> DEFINE r == ResetAll(cp, S)
             A == [h \in Hostgroups |-> NewBackend]
             N(n) == Answered([r.sess EXCEPT !.user = n.user, !.schema = n.schema, !.change_user = TRUE])
  <1>1. PICK n \in NamesAfterFree : o = Outcome(r.cp, wire, N(n))
    BY Zenon DEF client_COM_CHANGE_USER
  <1>2. r.sess = [S EXCEPT !.mybes = A, !.mybe = NoHg] /\ Sound(r.cp, A, O) /\ Progress(r.cp, O)
    BY ResetAllGood, Zenon
  <1>3. A \in Backends /\ n.user \in Users /\ n.schema \in Schemas
    BY <1>2, Zenon DEF Sound, NamesAfterFree
  <1> HIDE DEF r, A
  <1>4. /\ N(n) \in SessionRec /\ N(n).mybes = A /\ N(n).state = "ready"
        /\ N(n).user = n.user /\ N(n).pass = S.pass /\ N(n).schema = n.schema
    BY <1>2, <1>3, ZenonT(40) DEF Answered, SessionRec
  <1>5. SessionSound(N(n)) /\ Matching(r.cp, N(n).mybes, N(n).user, N(n).pass, N(n).schema)
    BY <1>3, <1>4, FreshSession DEF SessionSound, A
  <1>6. WiresFit(wire)
    BY <1>2, WiresFitBegun, Zenon
  <1> HIDE DEF N
  <1> QED BY <1>1, <1>2, <1>4, <1>5, <1>6, OutcomeGood, Zenon

(* check_auth_switch_response_packet.  The password may change; but the       *)
(* connections the session has were accepted, so theirs is the user's, too.   *)
LEMMA AuthGood ==
    ASSUME NEW S \in SessionRec, NEW s \in Sessions, NEW O, Begun, Sound(cp, S.mybes, O), Progress(cp, O),
           SessionSound(S), S.state = "ready",
           Matching(cp, S.mybes, S.user, S.pass, S.schema),
           NEW pkt, NEW o \in AuthSwitchResponse(cp, wire, S, s, pkt)
    PROVE  GoodOutcome(o, O)
  <1> DEFINE N == Answered([S EXCEPT !.pass = PasswordOf[S.user], !.change_user = FALSE])
             done == pkt.com = "AUTH" /\ pkt.ok /\ S.user \in Known
  <1>1. CASE done
    <2>1. o = Outcome(cp, wire, N)
      BY <1>1, Zenon DEF AuthSwitchResponse
    <2>2. S.user \in Users /\ PasswordOf[S.user] \in Passwords
      BY PoolAssumption, Zenon DEF SessionSound
    <2>3. /\ N \in SessionRec /\ N.mybes = S.mybes /\ N.user = S.user /\ N.schema = S.schema
          /\ N.pass = PasswordOf[S.user] /\ N.state = "ready"
      BY <2>2, Zenon DEF Answered, SessionRec
    <2>4. SessionSound(N)
      BY <2>2, <2>3, Zenon DEF SessionSound
    <2> HIDE DEF N
    <2>5. ASSUME NEW h \in Hostgroups, S.mybes[h].mycpe # NoConn
          PROVE  cp.conn[S.mybes[h].mycpe].key = [server |-> S.mybes[h].mshge, user |-> S.user,
                                                  pass |-> PasswordOf[S.user], schema |-> S.schema]
      <3> DEFINE key == cp.conn[S.mybes[h].mycpe].key
      <3>1. key = [server |-> S.mybes[h].mshge, user |-> S.user, pass |-> S.pass, schema |-> S.schema]
        BY <2>5, Zenon DEF Matching
      <3>2. S.mybes[h].mycpe \in DOMAIN cp.conn /\ cp.conn \in [DOMAIN cp.conn -> ConnRec]
        BY <2>5, Zenon DEF Sound, BackendsSound, PoolType, Live
      <3>3. cp.conn[S.mybes[h].mycpe] \in ConnRec
        BY <3>2, Zenon
      <3>4. Accepted(key)
        BY <3>3, Zenon DEF ConnRec, OpenKeys
      <3> HIDE DEF key
      <3>5. key.pass = S.pass /\ key.user = S.user
        BY <3>1, Zenon
      <3>6. S.pass = PasswordOf[S.user]
        BY <3>4, <3>5, Zenon DEF Accepted
      <3> QED BY <3>1, <3>6, Zenon DEF key
    <2>6. Matching(cp, N.mybes, N.user, N.pass, N.schema)
      BY <2>3, <2>5, Zenon DEF Matching
    <2> QED BY <2>1, <2>3, <2>4, <2>6, WiresFitBegun, OutcomeGood, Zenon
  <1>2. CASE ~done
    BY <1>2, SessCloseGood, Zenon DEF AuthSwitchResponse
  <1> QED BY <1>1, <1>2, Zenon

-----------------------------------------------------------------------------
(* A connection that a backend has is marked not reusable.                    *)
LEMMA MarkSteps ==
    ASSUME NEW p, NEW A, NEW O, Sound(p, A, O), Progress(p, O), NEW h \in Hostgroups,
           NEW user, NEW pass, NEW schema, Matching(p, A, user, pass, schema), A[h].mycpe # NoConn, NEW pkt
    PROVE  LET q == MarkNotReusable(p, A[h], pkt)
           IN  /\ Sound(q, A, O) /\ Progress(q, O) /\ Matching(q, A, user, pass, schema)
  <1> DEFINE c == A[h].mycpe
             q == MarkNotReusable(p, A[h], pkt)
  <1>1. /\ PoolType(p) /\ c \in Live(p) /\ c \notin O /\ p.conn[c] \in ConnRec
        /\ \A k \in PoolKeys : c \notin p.pool[k]
    BY Zenon DEF Sound, BackendsSound, PoolType, Live
  <1>2. CASE pkt.com # "STMT"
    BY <1>1, <1>2, Zenon DEF MarkNotReusable
  <1>3. CASE pkt.com = "STMT"
    <2> DEFINE new == [p.conn[c] EXCEPT !.reusable = FALSE]
    <2>0. /\ new \in ConnRec /\ new.key = p.conn[c].key /\ ~new.reusable
          /\ new.expire = p.conn[c].expire /\ new.used = p.conn[c].used
      BY <1>1, Zenon DEF ConnRec
    <2>1. q = [p EXCEPT !.conn[c].reusable = FALSE]
      BY <1>3, Zenon DEF MarkNotReusable
    <2>2. /\ q = [conn |-> q.conn, pool |-> q.pool] /\ q.pool = p.pool
          /\ q.conn = [p.conn EXCEPT ![c] = new]
      BY <1>1, <2>1, Zenon DEF PoolType
    <2> HIDE DEF new, q
    <2>3. /\ Live(q) = Live(p) /\ \A d \in Live(p) : d # c => q.conn[d] = p.conn[d]
          /\ q.conn[c] \in ConnRec /\ q.conn[c].key = p.conn[c].key /\ ~q.conn[c].reusable
          /\ q.conn[c].expire = p.conn[c].expire /\ q.conn[c].used = p.conn[c].used
          /\ q.conn \in [DOMAIN q.conn -> ConnRec]
      BY <1>1, <2>0, <2>2, ZenonT(40) DEF PoolType, Live
    <2>4. PoolType(q)
      BY <1>1, <2>2, <2>3, Zenon DEF PoolType, Live
    <2>5. Sound(q, A, O)
      BY <1>1, <2>2, <2>3, <2>4 DEF Sound, PoolsSound, BackendsSound, NoneLost
    <2>6. Progress(q, O)
      <3>1. Untouched(q, O)
        BY <1>1, <2>3, ZenonT(40) DEF Progress, Untouched
      <3> QED BY <1>1, <2>2, <2>3, <3>1 DEF Progress
    <2>7. Matching(q, A, user, pass, schema)
      BY <2>3 DEF Matching, Sound, BackendsSound
    <2> QED BY <1>1, <2>3, <2>5, <2>6, <2>7, Zenon DEF q
  <1> QED BY <1>2, <1>3, Zenon

LEMMA AppendFilled ==
    ASSUME NEW T, NEW q \in Seq(T), NEW e \in T
    PROVE  Append(q, e) \in Seq(T) /\ Append(q, e) # <<>>
  <1>1. Append(q, e) \in Seq(T) /\ Len(Append(q, e)) = Len(q) + 1 /\ Len(q) \in Nat
    OBVIOUS
  <1>2. Len(<<>>) = 0
    BY Zenon
  <1> QED BY <1>1, <1>2

(* The command is sent on the connection of backend h.                        *)
LEMMA AskGood ==
    ASSUME NEW p, NEW S \in SessionRec, NEW s \in Sessions, NEW O, Begun,
           Sound(p, S.mybes, O), Progress(p, O), Matching(p, S.mybes, S.user, S.pass, S.schema), SessionSound(S),
           S.state = "ready",
           NEW pkt, pkt.hg \in Hostgroups, S.mybes[pkt.hg].mycpe # NoConn
    PROVE  GoodOutcome(Ask(p, wire, S, s, pkt, S.mybes[pkt.hg]), O)
  <1> DEFINE be == S.mybes[pkt.hg]
             c == be.mycpe
             x == [wire[c] EXCEPT !.asked = Append(wire[c].asked, s)]
             w == [wire EXCEPT ![c].asked = Append(@, s)]
             N == [S EXCEPT !.mybes[pkt.hg] = be, !.mybe = pkt.hg]
  <1>1. WiresFit(wire) /\ c \in Conns
    BY WiresFitBegun, Zenon DEF Sound, BackendsSound, PoolType, Live
  <1>2. wire[c] \in WireRec /\ wire \in [Conns -> WireRec]
    BY <1>1, Zenon DEF WiresFit
  <1>3. x \in WireRec /\ x.asked # <<>>
    <2> DEFINE a == Append(wire[c].asked, s)
    <2>1. wire[c].asked \in Seq(Sessions \cup {Gone})
      BY <1>2, Zenon DEF WireRec
    <2>2. a \in Seq(Sessions \cup {Gone}) /\ a # <<>>
      BY <2>1, AppendFilled, Zenon
    <2>3. x = [wire[c] EXCEPT !.asked = a]
      BY Zenon
    <2> HIDE DEF a, x
    <2> QED BY <1>2, <2>2, <2>3, Zenon DEF WireRec
  <1>4. w = [wire EXCEPT ![c] = x]
    BY <1>1, <1>2, Zenon
  <1> HIDE DEF w, x
  <1>5. w \in [Conns -> WireRec] /\ w[c] = x /\ \A d \in Conns : d # c => w[d] = wire[d]
    BY <1>1, <1>2, <1>3, <1>4, Zenon
  <1>6. \A d \in Conns : w[d].reply # "none" => w[d].asked # <<>>
    BY <1>1, <1>3, <1>5, Zenon DEF WiresFit
  <1>9. WiresFit(w)
    BY <1>5, <1>6, Zenon DEF WiresFit
  <1>10. /\ N \in SessionRec /\ N.mybes = S.mybes /\ N.user = S.user /\ N.pass = S.pass /\ N.schema = S.schema
         /\ N.pkt = S.pkt /\ N.state = S.state /\ N.change_user = S.change_user
    <2>1. [S.mybes EXCEPT ![pkt.hg] = be] = S.mybes
      BY Zenon DEF SessionRec, Backends
    <2> QED BY <2>1, Zenon DEF SessionRec
  <1>11. SessionSound(N)
    BY <1>10, Zenon DEF SessionSound
  <1> HIDE DEF N
  <1>12. GoodOutcome(Outcome(p, w, N), O)
    BY <1>9, <1>10, <1>11, OutcomeGood, Zenon
  <1> QED BY <1>12, Zenon DEF Ask, w, N

(* What a command for a hostgroup needs of its session.                       *)
Ready(S, O) ==
    /\ S \in SessionRec /\ SessionSound(S) /\ S.state = "ready" /\ S.pkt = NoPkt
    /\ Sound(cp, S.mybes, O) /\ Progress(cp, O) /\ Matching(cp, S.mybes, S.user, S.pass, S.schema)

(* The backend of a command before it is used: the one it has or a new one.   *)
LEMMA ServedGood ==
    ASSUME NEW S, NEW O, Ready(S, O), Begun, NEW s \in Sessions,
           NEW pkt, pkt.hg \in Hostgroups, NEW r,
           r.be \in Backend, r.be.mshge \in Servers,
           Sound(r.cp, [S.mybes EXCEPT ![pkt.hg] = r.be], O), Progress(r.cp, O),
           r.be.mycpe # NoConn => Matching(r.cp, [S.mybes EXCEPT ![pkt.hg] = r.be], S.user, S.pass, S.schema)
    PROVE  LET B == [S EXCEPT !.mybes[pkt.hg] = r.be]
               q == MarkNotReusable(r.cp, r.be, pkt)
           IN  /\ r.be.mycpe = NoConn => GoodOutcome(SessClose(q, wire, B, s, FALSE), O)
               /\ r.be.mycpe # NoConn => \A o \in ByStatus(q, wire, S, s, pkt, r.be) : GoodOutcome(o, O)
  <1> DEFINE h == pkt.hg
             A == [S.mybes EXCEPT ![h] = r.be]
             B == [S EXCEPT !.mybes[h] = r.be]
             q == MarkNotReusable(r.cp, r.be, pkt)
  <1>1. S \in SessionRec /\ S.mybes \in Backends /\ A \in Backends /\ A[h] = r.be
    BY Zenon DEF Ready, SessionRec, Backends
  <1>2. /\ B \in SessionRec /\ B.mybes = A /\ B.user = S.user /\ B.pass = S.pass /\ B.schema = S.schema
        /\ B.pkt = S.pkt /\ B.state = S.state /\ B.change_user = S.change_user
    <2>1. B = [S EXCEPT !.mybes = A]
      BY <1>1, Zenon DEF SessionRec
    <2> HIDE DEF A, B
    <2> QED BY <1>1, <2>1, Zenon DEF SessionRec
  <1>3. SessionSound(B) /\ B.state = "ready"
    BY <1>2, Zenon DEF Ready, SessionSound
  <1> HIDE DEF A, B
  <1>4. CASE r.be.mycpe = NoConn
    <2>1. q = r.cp
      BY <1>4, Zenon DEF MarkNotReusable
    <2>2. GoodOutcome(SessClose(r.cp, wire, B, s, FALSE), O)
      BY <1>2, SessCloseGood, Zenon DEF A
    <2> QED BY <1>4, <2>1, <2>2, Zenon DEF B
  <1>5. CASE r.be.mycpe # NoConn
    <2>1. /\ Sound(q, A, O) /\ Progress(q, O) /\ Matching(q, A, S.user, S.pass, S.schema)
      <3>1. A[h].mycpe # NoConn /\ Sound(r.cp, A, O) /\ Matching(r.cp, A, S.user, S.pass, S.schema)
        BY <1>1, <1>5, Zenon DEF A
      <3>2. LET x == MarkNotReusable(r.cp, A[h], pkt)
            IN  /\ Sound(x, A, O) /\ Progress(x, O) /\ Matching(x, A, S.user, S.pass, S.schema)
        BY <3>1, MarkSteps, Zenon
      <3> QED BY <1>1, <3>2, Zenon
    <2>2. ByStatus(q, wire, S, s, pkt, r.be) = {Ask(q, wire, B, s, pkt, r.be)}
      <3>1. status[r.be.mshge] = "ONLINE"
        BY Zenon DEF Begun, AllOnline
      <3> QED BY <3>1, Zenon DEF ByStatus, B
    <2> HIDE DEF q
    <2>3. GoodOutcome(Ask(q, wire, B, s, pkt, B.mybes[pkt.hg]), O)
      BY <1>1, <1>2, <1>3, <1>5, <2>1, AskGood, Zenon
    <2>4. B.mybes[pkt.hg] = r.be
      BY <1>1, <1>2, Zenon
    <2>5. \A o \in ByStatus(q, wire, S, s, pkt, r.be) : GoodOutcome(o, O)
      BY <2>2, <2>3, <2>4, Zenon
    <2> QED BY <1>5, <2>5, Zenon DEF q
  <1> QED BY <1>4, <1>5, Zenon

(* Forward has a backend r.be, the one of before if that had a connection.    *)
Serving(r, S, O, h) ==
    /\ r.be \in Backend /\ r.be.mshge \in Servers
    /\ Sound(r.cp, [S.mybes EXCEPT ![h] = r.be], O) /\ Progress(r.cp, O)
    /\ r.be.mycpe # NoConn => Matching(r.cp, [S.mybes EXCEPT ![h] = r.be], S.user, S.pass, S.schema)
    /\ S.mybes[h].mycpe # NoConn => r.be = S.mybes[h]

LEMMA ForwardServes ==
    ASSUME NEW S, NEW O, Ready(S, O), Begun, NEW s \in Sessions,
           NEW pkt, pkt.hg \in Hostgroups, NEW o \in Forward(cp, wire, S, s, pkt)
    PROVE  \E r : LET B == [S EXCEPT !.mybes[pkt.hg] = r.be]
                      q == MarkNotReusable(r.cp, r.be, pkt)
                  IN  /\ Serving(r, S, O, pkt.hg)
                      /\ r.be.mycpe = NoConn => o = SessClose(q, wire, B, s, FALSE)
                      /\ r.be.mycpe # NoConn => o \in ByStatus(q, wire, S, s, pkt, r.be)
  <1> DEFINE b == S.mybes[pkt.hg]
             active == b.mshge # NoServer /\ b.mycpe # NoConn
             R == IF active THEN {[cp |-> cp, be |-> b]} ELSE CreateBackend(cp, S, pkt.hg)
             B(r) == [S EXCEPT !.mybes[pkt.hg] = r.be]
             q(r) == MarkNotReusable(r.cp, r.be, pkt)
             served(r) == IF r.be.mshge = NoServer
                          THEN {Outcome(q(r), wire, [B(r) EXCEPT !.pkt = pkt])}
                          ELSE IF r.be.mycpe = NoConn
                          THEN {SessClose(q(r), wire, B(r), s, FALSE)}
                          ELSE ByStatus(q(r), wire, S, s, pkt, r.be)
  <1>1. S \in SessionRec /\ S.mybes \in Backends /\ b \in Backend /\ b.mshge \in Servers \cup {NoServer}
    BY Zenon DEF Ready, SessionRec, Backends, Backend
  <1>2. S.user \in Users /\ S.pass \in Passwords /\ S.schema \in Schemas
    BY Zenon DEF Ready, SessionSound
  <1>3. b.mycpe # NoConn => b.mshge \in Servers
    <2> SUFFICES ASSUME b.mycpe # NoConn PROVE b.mshge \in Servers
      BY Zenon
    <2>1. cp.conn[b.mycpe].key = [server |-> b.mshge, user |-> S.user, pass |-> S.pass, schema |-> S.schema]
      BY Zenon DEF Ready, Matching
    <2>2. b.mycpe \in Live(cp) /\ PoolType(cp)
      BY Zenon DEF Ready, Sound, BackendsSound
    <2>3. cp.conn[b.mycpe].key \in PoolKeys
      BY <2>2, Zenon DEF PoolType, Live, ConnRec, OpenKeys
    <2> QED BY <2>1, <2>3 DEF PoolKeys
  <1>4. b.mshge # Wild
    BY <1>1, SessionAssumption, Zenon
  <1>5. PICK r \in R : o \in served(r)
    BY <1>4, Zenon DEF Forward
  <1>6. Serving(r, S, O, pkt.hg)
    <2>1. CASE active
      <3>1. r.cp = cp /\ r.be = b
        BY <2>1
      <3>2. [S.mybes EXCEPT ![pkt.hg] = b] = S.mybes
        BY <1>1, Zenon DEF Backends
      <3> QED BY <1>1, <1>3, <2>1, <3>1, <3>2, Zenon DEF Ready, Serving
    <2>2. CASE ~active
      <3>1. b.mycpe = NoConn
        BY <1>3, <2>2, SessionAssumption, Zenon
      <3>2. r \in CreateBackend(cp, S, pkt.hg)
        BY <2>2, Zenon
      <3> QED BY <1>1, <1>2, <3>1, <3>2, CreateBackendSteps, Zenon DEF Ready, Serving
    <2> QED BY <2>1, <2>2, Zenon
  <1>7. r.be.mshge # NoServer
    BY <1>6, SessionAssumption, Zenon DEF Serving
  <1>8. /\ r.be.mycpe = NoConn => o = SessClose(q(r), wire, B(r), s, FALSE)
        /\ r.be.mycpe # NoConn => o \in ByStatus(q(r), wire, S, s, pkt, r.be)
    <2> HIDE DEF q, B
    <2> QED BY <1>5, <1>7, Zenon
  <1> QED BY <1>6, <1>8, Zenon

LEMMA ForwardGood ==
    ASSUME NEW S, NEW O, Ready(S, O), Begun, NEW s \in Sessions,
           NEW pkt, pkt.hg \in Hostgroups, NEW o \in Forward(cp, wire, S, s, pkt)
    PROVE  GoodOutcome(o, O)
  <1> DEFINE B(r) == [S EXCEPT !.mybes[pkt.hg] = r.be]
             q(r) == MarkNotReusable(r.cp, r.be, pkt)
  <1>1. PICK r : /\ Serving(r, S, O, pkt.hg)
                 /\ r.be.mycpe = NoConn => o = SessClose(q(r), wire, B(r), s, FALSE)
                 /\ r.be.mycpe # NoConn => o \in ByStatus(q(r), wire, S, s, pkt, r.be)
    BY ForwardServes, Zenon
  <1>2. /\ r.be.mycpe = NoConn => GoodOutcome(SessClose(q(r), wire, B(r), s, FALSE), O)
        /\ r.be.mycpe # NoConn => \A x \in ByStatus(q(r), wire, S, s, pkt, r.be) : GoodOutcome(x, O)
    BY <1>1, ServedGood, Zenon DEF Serving
  <1> QED BY <1>1, <1>2, Zenon

-----------------------------------------------------------------------------
LEMMA PacketFields ==
    ASSUME NEW pkt \in Packets
    PROVE  /\ pkt.com \in Commands
           /\ pkt.com \in {"QUERY", "STMT", "OTHER"} => pkt.hg \in Hostgroups
           /\ pkt.com = "INIT_DB" => pkt.schema \in Schemas
           /\ pkt.com \in {"QUIT", "INIT_DB", "CHANGE_USER", "AUTH", "QUERY", "STMT", "OTHER"}
  <1>1. pkt.com \in Commands
    BY Zenon DEF Packets
  <1>2. CASE pkt \in [com : {"QUERY", "STMT", "OTHER"}, hg : Destinations]
    BY <1>1, <1>2, SessionAssumption, Zenon
  <1>3. CASE pkt \in [com : {"INIT_DB"}, schema : Schemas]
    BY <1>1, <1>3, Zenon
  <1>4. CASE pkt \in [com : {"AUTH"}, ok : BOOLEAN]
    BY <1>1, <1>4, Zenon
  <1>5. CASE pkt \in [com : {"QUIT", "CHANGE_USER"}]
    BY <1>1, <1>5, Zenon
  <1> QED BY <1>2, <1>3, <1>4, <1>5, Zenon DEF Packets

(* process_client_pkts *)
LEMMA ClientPktsGood ==
    ASSUME NEW T \in SessionRec, NEW s \in Sessions, NEW O, Begun, Sound(cp, T.mybes, O), Progress(cp, O),
           Matching(cp, T.mybes, T.user, T.pass, T.schema), SessionSound(T), T.state = "ready", T.pkt # NoPkt,
           NEW o \in process_client_pkts(cp, wire, T, s)
    PROVE  GoodOutcome(o, O)
  <1> DEFINE pkt == T.pkt
             S == [T EXCEPT !.pkt = NoPkt, !.command = pkt.com]
  <1>1. pkt \in Packets
    BY Zenon DEF SessionRec
  <1>2. /\ pkt.com \in Commands
        /\ pkt.com \in {"QUERY", "STMT", "OTHER"} => pkt.hg \in Hostgroups
        /\ pkt.com = "INIT_DB" => pkt.schema \in Schemas
        /\ pkt.com \in {"QUIT", "INIT_DB", "CHANGE_USER", "AUTH", "QUERY", "STMT", "OTHER"}
    BY <1>1, PacketFields, Zenon
  <1>4. /\ S \in SessionRec /\ S.mybes = T.mybes /\ S.user = T.user /\ S.pass = T.pass /\ S.schema = T.schema
        /\ S.state = "ready" /\ S.pkt = NoPkt /\ S.change_user = T.change_user
    BY <1>2, Zenon DEF SessionRec
  <1>5. process_client_pkts(cp, wire, T, s) =
          CASE pkt.com = "QUIT"        -> {SessClose(cp, wire, S, s, FALSE)}
            [] pkt.com = "INIT_DB"     -> client_COM_INIT_DB(cp, wire, S, pkt)
            [] pkt.com = "CHANGE_USER" -> client_COM_CHANGE_USER(cp, wire, S)
            [] pkt.com = "AUTH"        -> AuthSwitchResponse(cp, wire, S, s, pkt)
            [] pkt.com = "STMT" /\ S.change_user  -> AuthSwitchResponse(cp, wire, S, s, pkt)
            [] pkt.com = "OTHER" /\ S.change_user -> AuthSwitchResponse(cp, wire, S, s, pkt)
                                                     \cup Forward(cp, wire, S, s, pkt)
            [] pkt.com = "QUERY"       -> {Outcome(cp, wire, Answered(S))} \cup Forward(cp, wire, S, s, pkt)
            [] OTHER                   -> Forward(cp, wire, S, s, pkt)
    BY Zenon DEF process_client_pkts
  <1> HIDE DEF S, pkt
  <1>6. SessionSound(S)
    BY <1>4, Zenon DEF SessionSound
  <1>7. Sound(cp, S.mybes, O) /\ Matching(cp, S.mybes, S.user, S.pass, S.schema)
    BY <1>4, Zenon
  <1>8. Ready(S, O)
    BY <1>4, <1>6, <1>7, Zenon DEF Ready
  <1>9. CASE pkt.com = "QUIT"
    <2>1. o = SessClose(cp, wire, S, s, FALSE)
      BY <1>5, <1>9, Zenon
    <2> QED BY <1>4, <1>7, <2>1, SessCloseGood, Zenon
  <1>10. CASE pkt.com = "INIT_DB"
    <2>1. o \in client_COM_INIT_DB(cp, wire, S, pkt)
      BY <1>5, <1>10, Zenon
    <2> QED BY <1>2, <1>4, <1>6, <1>7, <1>10, <2>1, InitDBGood, Zenon
  <1>11. CASE pkt.com = "CHANGE_USER"
    <2>1. o \in client_COM_CHANGE_USER(cp, wire, S)
      BY <1>5, <1>11, Zenon
    <2> QED BY <1>4, <1>6, <1>7, <2>1, ChangeUserGood, Zenon
  <1>12. CASE pkt.com = "AUTH"
    <2>1. o \in AuthSwitchResponse(cp, wire, S, s, pkt)
      BY <1>5, <1>12, Zenon
    <2> QED BY <1>4, <1>6, <1>7, <2>1, AuthGood, Zenon
  <1>13. CASE pkt.com \in {"QUERY", "STMT", "OTHER"}
    <2>1. \/ o = Outcome(cp, wire, Answered(S)) \/ o \in Forward(cp, wire, S, s, pkt)
          \/ o \in AuthSwitchResponse(cp, wire, S, s, pkt)
      BY <1>5, <1>13, Zenon
    <2>2. pkt.hg \in Hostgroups
      BY <1>2, <1>13, Zenon
    <2>3. o \in Forward(cp, wire, S, s, pkt) => GoodOutcome(o, O)
      BY <1>8, <2>2, ForwardGood, Zenon
    <2>4. /\ Answered(S) \in SessionRec /\ Answered(S).mybes = S.mybes
          /\ Answered(S).user = S.user /\ Answered(S).pass = S.pass /\ Answered(S).schema = S.schema /\ SessionSound(Answered(S))
      BY <1>4, <1>6, ZenonT(40) DEF Answered, SessionRec, SessionSound
    <2>5. WiresFit(wire)
      BY Zenon DEF Begun, WiresSound
    <2>6. GoodOutcome(Outcome(cp, wire, Answered(S)), O)
      BY <1>7, <2>4, <2>5, OutcomeGood, Zenon
    <2>7. o \in AuthSwitchResponse(cp, wire, S, s, pkt) => GoodOutcome(o, O)
      BY <1>4, <1>6, <1>7, AuthGood, Zenon
    <2> QED BY <2>1, <2>3, <2>6, <2>7, Zenon
  <1> QED BY <1>2, <1>9, <1>10, <1>11, <1>12, <1>13, Zenon

(* process_server_pkts *)
Learnt(A, S) ==
    /\ A \in SessionRec
    /\ A.user = S.user /\ A.pass = S.pass /\ A.schema = S.schema /\ A.state = S.state
    /\ A.pkt = S.pkt /\ A.change_user = S.change_user
    /\ \A h \in Hostgroups : /\ A.mybes[h].mycpe = S.mybes[h].mycpe
                             /\ A.mybes[h].mshge = S.mybes[h].mshge
                             /\ A.mybes[h].ref = S.mybes[h].ref

LEMMA LearnSteps ==
    ASSUME NEW S \in SessionRec, S.mybe \in Hostgroups, NEW reply \in {"OK", "ERR", "COUNTS"}, NEW tx,
           NEW A \in LearnTransaction(S, reply, tx)
    PROVE  Learnt(A, S)
  <1>1. PICK x \in BOOLEAN : A = [S EXCEPT !.mybes[S.mybe].trx = x]
    BY Zenon DEF LearnTransaction
  <1> DEFINE b == [S.mybes[S.mybe] EXCEPT !.trx = x]
             C == [S.mybes EXCEPT ![S.mybe] = b]
  <1>2. S.mybes \in Backends /\ S.mybes[S.mybe] \in Backend
    BY Zenon DEF SessionRec, Backends
  <1>3. /\ b \in Backend /\ b.mycpe = S.mybes[S.mybe].mycpe
        /\ b.mshge = S.mybes[S.mybe].mshge /\ b.ref = S.mybes[S.mybe].ref
    BY <1>2, Zenon DEF Backend
  <1> HIDE DEF b
  <1>4. C \in Backends /\ \A h \in Hostgroups : C[h] = IF h = S.mybe THEN b ELSE S.mybes[h]
    BY <1>2, <1>3, Zenon DEF Backends
  <1>5. A = [S EXCEPT !.mybes = C]
    BY <1>1, Zenon DEF SessionRec, b
  <1> HIDE DEF C
  <1>6. /\ A \in SessionRec /\ A.mybes = C
        /\ A.user = S.user /\ A.pass = S.pass /\ A.schema = S.schema /\ A.state = S.state
        /\ A.pkt = S.pkt /\ A.change_user = S.change_user
    BY <1>4, <1>5, Zenon DEF SessionRec
  <1> QED BY <1>3, <1>4, <1>6, Zenon DEF Learnt

LEMMA TailType == ASSUME NEW T, NEW q \in Seq(T), q # <<>> PROVE Tail(q) \in Seq(T)
  OBVIOUS

LEMMA AnsweredFields ==
    ASSUME NEW A \in SessionRec, NEW N, N.mybes \in Backends, N = [A EXCEPT !.mybes = N.mybes]
    PROVE  /\ Answered(N) \in SessionRec /\ Answered(N).mybes = N.mybes
           /\ Answered(N).user = A.user /\ Answered(N).pass = A.pass /\ Answered(N).schema = A.schema /\ Answered(N).state = A.state
           /\ Answered(N).pkt = A.pkt /\ Answered(N).change_user = A.change_user
  BY Zenon DEF Answered, SessionRec

LEMMA ServerPktsGood ==
    ASSUME NEW S \in SessionRec, NEW O, Begun, Sound(cp, S.mybes, O), Progress(cp, O),
           Matching(cp, S.mybes, S.user, S.pass, S.schema), SessionSound(S), S.state = "ready",
           S.mybe \in Hostgroups, S.mybes[S.mybe].mycpe # NoConn,
           wire[S.mybes[S.mybe].mycpe].reply # "none",
           NEW o \in process_server_pkts(cp, wire, S)
    PROVE  GoodOutcome(o, O)
  <1> DEFINE c == S.mybes[S.mybe].mycpe
             read == [wire EXCEPT ![c].asked = Tail(@), ![c].reply = "none"]
             released(A) == IF S.command = "QUERY" /\ wire[c].reply # "ERR" /\ ReleaseAll(A)
                            THEN backend_detach(cp, A, Hostgroups)
                            ELSE [cp |-> cp, sess |-> A]
  <1>1. c \in Conns /\ wire \in [Conns -> WireRec] /\ wire[c] \in WireRec /\ wire[c].asked # <<>>
    BY Zenon DEF Begun, WiresSound, WiresFit, Sound, BackendsSound, PoolType, Live
  <1>2. /\ read \in [Conns -> WireRec]
        /\ \A d \in Conns : read[d].reply # "none" => read[d].asked # <<>>
    <2> DEFINE a == Tail(wire[c].asked)
               x == [wire[c] EXCEPT !.asked = a, !.reply = "none"]
    <2>1. a \in Seq(Sessions \cup {Gone})
      <3>1. wire[c].asked \in Seq(Sessions \cup {Gone})
        BY <1>1, Zenon DEF WireRec
      <3> QED BY <1>1, <3>1, TailType, Zenon
    <2> HIDE DEF a
    <2>2. x \in WireRec /\ x.reply = "none"
      BY <1>1, <2>1, Zenon DEF WireRec
    <2>3. read = [wire EXCEPT ![c] = x]
      BY <1>1, Zenon DEF a
    <2> HIDE DEF x, read
    <2>4. read \in [Conns -> WireRec] /\ read[c] = x /\ \A d \in Conns : d # c => read[d] = wire[d]
      BY <1>1, <2>2, <2>3, Zenon
    <2> QED BY <2>2, <2>4, Zenon DEF Begun, WiresSound, WiresFit
  <1>3. wire[c].reply \in {"OK", "ERR", "COUNTS"}
    BY <1>1, Zenon DEF WireRec
  <1>4. PICK A \in LearnTransaction(S, wire[c].reply, wire[c].tx) :
           o = Outcome(released(A).cp, read, Answered(released(A).sess))
    BY Zenon DEF process_server_pkts
  <1> HIDE DEF read
  <1>5. /\ A \in SessionRec
        /\ A.user = S.user /\ A.pass = S.pass /\ A.schema = S.schema /\ A.state = S.state
        /\ A.pkt = S.pkt /\ A.change_user = S.change_user
        /\ \A h \in Hostgroups : /\ A.mybes[h].mycpe = S.mybes[h].mycpe
                                 /\ A.mybes[h].mshge = S.mybes[h].mshge
                                 /\ A.mybes[h].ref = S.mybes[h].ref
    <2>1. Learnt(A, S)
      BY <1>3, <1>4, LearnSteps, ZenonT(40)
    <2> QED BY <2>1, Zenon DEF Learnt
  <1> HIDE DEF c
  <1>6. Sound(cp, A.mybes, O)
    <2>1. A.mybes \in Backends
      BY <1>5, Zenon DEF SessionRec
    <2> QED BY <1>5, <2>1 DEF Sound, BackendsSound, NoneLost
  <1>7. Matching(cp, A.mybes, A.user, A.pass, A.schema)
    BY <1>5 DEF Matching
  <1> DEFINE q == released(A).cp
             N == released(A).sess
  <1>8. /\ N = [A EXCEPT !.mybes = N.mybes] /\ Sound(q, N.mybes, O) /\ Progress(q, O)
        /\ Matching(q, N.mybes, A.user, A.pass, A.schema)
    <2>1. CASE q = cp /\ N = A
      <3>1. A = [A EXCEPT !.mybes = A.mybes]
        BY <1>5, Zenon DEF SessionRec
      <3> QED BY <1>6, <1>7, <2>1, <3>1, Zenon
    <2>2. CASE q = backend_detach(cp, A, Hostgroups).cp /\ N = backend_detach(cp, A, Hostgroups).sess
      <3>1. LET r == backend_detach(cp, A, Hostgroups)
            IN  /\ r.sess = [A EXCEPT !.mybes = r.sess.mybes]
                /\ Sound(r.cp, r.sess.mybes, O) /\ Progress(r.cp, O)
                /\ Matching(r.cp, r.sess.mybes, A.user, A.pass, A.schema)
        BY <1>5, <1>6, <1>7, DetachAllSteps, Zenon
      <3> HIDE DEF q, N
      <3> QED BY <2>2, <3>1, Zenon
    <2> QED BY <2>1, <2>2, Zenon
  <1> HIDE DEF q, N, released
  <1>9. /\ Answered(N) \in SessionRec /\ Answered(N).mybes = N.mybes
        /\ Answered(N).user = A.user /\ Answered(N).pass = A.pass /\ Answered(N).schema = A.schema /\ Answered(N).state = A.state
        /\ Answered(N).pkt = A.pkt /\ Answered(N).change_user = A.change_user
    <2>1. N.mybes \in Backends
      BY <1>8, Zenon DEF Sound
    <2>2. A \in SessionRec /\ N = [A EXCEPT !.mybes = N.mybes]
      BY <1>5, <1>8, Zenon
    <2> QED BY <2>1, <2>2, AnsweredFields, Zenon
  <1>10. SessionSound(Answered(N))
    BY <1>5, <1>9 DEF SessionSound
  <1>11. WiresFit(read)
    BY <1>2, Zenon DEF WiresFit
  <1>12. GoodOutcome(Outcome(q, read, Answered(N)), O)
    BY <1>8, <1>9, <1>10, <1>11, OutcomeGood, Zenon
  <1> QED BY <1>4, <1>12, Zenon DEF q, N

-----------------------------------------------------------------------------
(* From the handler of one session to the whole thread.                       *)
LEMMA OthersHold ==
    ASSUME NEW s \in Sessions, NEW c
    PROVE  c \in Others(s) <=> /\ c # NoConn
                               /\ \E t \in Sessions \ {s}, h \in Hostgroups : sess[t].mybes[h].mycpe = c
  <1>1. c \in Others(s) <=> \E t \in Sessions \ {s}, h \in Hostgroups : c \in Held(t, h)
    BY DEF Others
  <1> QED BY <1>1, Zenon DEF Held

LEMMA HandlerBegins ==
    ASSUME IInv
    PROVE  /\ Begun
           /\ \A s \in Sessions : /\ sess[s] \in SessionRec /\ SessionSound(sess[s])
                                  /\ Sound(cp, sess[s].mybes, Others(s))
                                  /\ Matching(cp, sess[s].mybes, sess[s].user, sess[s].pass, sess[s].schema)
                                  /\ Progress(cp, Others(s))
  <1>1. \A k \in PoolKeys : cp.pool[k] \subseteq Live(cp)
    BY SessionAssumption, Zenon DEF IInv, Sound, PoolsSound
  <1>2. Begun
    BY <1>1, Zenon DEF IInv, Begun
  <1>3. ASSUME NEW s \in Sessions PROVE Progress(cp, Others(s))
    <2>1. Untouched(cp, Others(s))
      BY Zenon DEF IInv, Sound, Untouched
    <2> QED BY <2>1, Zenon DEF IInv, ClockSound, WiresSound, WiresFit, Progress
  <1> QED BY <1>2, <1>3, Zenon DEF IInv, TypeOK

(* A step in which session s, and nothing else but the pools and the wires,   *)
(* changes as a good outcome of a handler says.                               *)
LEMMA HandlerKeeps ==
    ASSUME IInv, NEW s \in Sessions, NEW o, GoodOutcome(o, Others(s)),
           UNCHANGED <<time, tv, status, hostgroup>>,
           cp' = o.cp, wire' = o.wire, sess' = [sess EXCEPT ![s] = o.sess], crashed' = o.crash
    PROVE  IInv'
  <1>1. /\ sess \in [Sessions -> SessionRec] /\ sess' \in [Sessions -> SessionRec]
        /\ sess'[s] = o.sess /\ \A t \in Sessions \ {s} : sess'[t] = sess[t]
    BY Zenon DEF IInv, TypeOK, GoodOutcome
  <1>2. /\ PoolType(cp') /\ Sound(cp', sess'[s].mybes, Others(s)) /\ Progress(cp', Others(s))
        /\ Matching(cp', sess'[s].mybes, sess'[s].user, sess'[s].pass, sess'[s].schema)
        /\ SessionSound(sess'[s])
    BY <1>1, Zenon DEF GoodOutcome, Sound
  <1>3. \A t \in Sessions : \A c :
           /\ c \in Others(t) <=> /\ c # NoConn
                                  /\ \E u \in Sessions \ {t}, h \in Hostgroups : sess[u].mybes[h].mycpe = c
           /\ c \in Others(t)' <=> /\ c # NoConn
                                   /\ \E u \in Sessions \ {t}, h \in Hostgroups : sess'[u].mybes[h].mycpe = c
    <2>1. \A t \in Sessions : \A c :
            c \in Others(t) <=> /\ c # NoConn
                                /\ \E u \in Sessions \ {t}, h \in Hostgroups : sess[u].mybes[h].mycpe = c
      BY OthersHold, Zenon
    <2>2. ASSUME NEW t \in Sessions, NEW CONSTANT c
          PROVE  c \in Others(t)' <=> /\ c # NoConn
                                      /\ \E u \in Sessions \ {t}, h \in Hostgroups : sess'[u].mybes[h].mycpe = c
      <3>1. c \in Others(t)' <=> \E u \in Sessions \ {t}, h \in Hostgroups : c \in Held(u, h)'
        BY DEF Others
      <3> QED BY <3>1, Zenon DEF Held
    <2> QED BY <2>1, <2>2
  <1>4. Others(s)' = Others(s)
    BY <1>1, <1>3
  <1>5. TypeOK'
    BY <1>1, <1>2, Zenon DEF IInv, TypeOK, GoodOutcome, WiresFit
  <1>6. AllOnline'
    BY Zenon DEF IInv, AllOnline, GoodOutcome
  <1>7. WiresSound'
    BY Zenon DEF WiresSound, GoodOutcome, WiresFit, Live
  <1>8. ClockSound'
    BY <1>2, Zenon DEF IInv, ClockSound, Progress, Live
  <1>9. ASSUME NEW t \in Sessions \ {s}
        PROVE  /\ Sound(cp', sess'[t].mybes, Others(t)')
               /\ Matching(cp', sess'[t].mybes, sess'[t].user, sess'[t].pass, sess'[t].schema)
               /\ SessionSound(sess'[t])
    <2> DEFINE B == sess[t].mybes
               P == Others(t)'
               A == sess'[s].mybes
    <2>1. sess'[t] = sess[t] /\ sess'[t].mybes = B /\ B \in Backends
      BY <1>1, Zenon DEF SessionRec
    <2>2. Sound(cp, B, Others(t)) /\ Matching(cp, B, sess[t].user, sess[t].pass, sess[t].schema) /\ SessionSound(sess[t])
      BY Zenon DEF IInv
    <2>3. \A h \in Hostgroups : B[h].mycpe # NoConn => B[h].mycpe \in Others(s)
      BY <1>3, Zenon
    <2>4. \A c : c \in P => \/ \E h \in Hostgroups : A[h].mycpe = c /\ c # NoConn
                            \/ c \in Others(s) /\ c \in Others(t)
      BY <1>1, <1>3
    <2>5. \A h \in Hostgroups : A[h].mycpe # NoConn => A[h].mycpe \in P
      BY <1>3, Zenon
    <2>6. \A c \in Others(s) : c \in P \/ \E h \in Hostgroups : B[h].mycpe = c
      BY <1>1, <1>3
    <2> HIDE DEF A, B, P
    <2>7. P \subseteq Live(cp')
      BY <1>2, <2>4, ZenonT(40) DEF Sound, BackendsSound, A
    <2>8. PoolsSound(cp', P)
      BY <1>2, <2>4 DEF Sound, BackendsSound, PoolsSound, A
    <2>9. BackendsSound(cp', B, P)
      <3> SUFFICES ASSUME NEW h \in Hostgroups, B[h].mycpe # NoConn
                   PROVE  /\ B[h].mycpe \in Live(cp') /\ B[h].mycpe \notin P
                          /\ \A k \in PoolKeys : B[h].mycpe \notin cp'.pool[k]
                          /\ \A g \in Hostgroups : B[g].mycpe = B[h].mycpe => g = h
        BY Zenon DEF BackendsSound
      <3>1. B[h].mycpe \in Others(s) /\ B[h].mycpe \notin Others(t)
        BY <2>2, <2>3, Zenon DEF Sound, BackendsSound
      <3>2. B[h].mycpe \notin P
        BY <1>2, <2>4, <3>1, Zenon DEF Sound, BackendsSound, A
      <3>3. B[h].mycpe \in Live(cp') /\ \A k \in PoolKeys : B[h].mycpe \notin cp'.pool[k]
        BY <1>2, <3>1, Zenon DEF Sound, PoolsSound
      <3>4. \A g \in Hostgroups : B[g].mycpe = B[h].mycpe => g = h
        BY <2>2, Zenon DEF Sound, BackendsSound
      <3> QED BY <3>2, <3>3, <3>4, Zenon
    <2>10. NoneLost(cp', B, P)
      <3> SUFFICES ASSUME NEW c \in Live(cp')
                   PROVE  \/ c \in P
                          \/ \E k \in PoolKeys : c \in cp'.pool[k]
                          \/ \E h \in Hostgroups : B[h].mycpe = c
        BY Zenon DEF NoneLost
      <3>1. \/ c \in Others(s)
            \/ \E k \in PoolKeys : c \in cp'.pool[k]
            \/ \E h \in Hostgroups : A[h].mycpe = c
        BY <1>2, Zenon DEF Sound, NoneLost, A
      <3>2. c # NoConn
        BY <1>2, PoolAssumption, Zenon DEF PoolType, Live
      <3> QED BY <2>5, <2>6, <3>1, <3>2, Zenon
    <2>11. Matching(cp', B, sess[t].user, sess[t].pass, sess[t].schema)
      BY <1>2, <2>2, <2>3, Zenon DEF Progress, Untouched, Matching
    <2>12. Sound(cp', B, P)
      BY <1>2, <2>1, <2>7, <2>8, <2>9, <2>10, Zenon DEF Sound
    <2> QED BY <2>1, <2>2, <2>11, <2>12, Zenon DEF P
  <1>10. \A t \in Sessions : /\ Sound(cp', sess'[t].mybes, Others(t)')
                             /\ Matching(cp', sess'[t].mybes, sess'[t].user, sess'[t].pass, sess'[t].schema)
                             /\ SessionSound(sess'[t])
    BY <1>2, <1>4, <1>9, Zenon
  <1>11. (\A t \in Sessions : /\ Sound(cp, sess[t].mybes, Others(t))
                              /\ Matching(cp, sess[t].mybes, sess[t].user, sess[t].pass, sess[t].schema)
                              /\ SessionSound(sess[t]))'
    BY <1>10, Zenon DEF Sound, Matching, SessionSound, PoolType, PoolsSound, BackendsSound, NoneLost, Live
  <1> QED BY <1>5, <1>6, <1>7, <1>8, <1>11, Zenon DEF IInv

LEMMA HandleKeeps ==
    ASSUME IInv, NEW s \in Sessions, NEW outcomes,
           \A o \in outcomes : GoodOutcome(o, Others(s)), Handle(s, outcomes)
    PROVE  IInv' /\ Progress(cp', Others(s))
  <1>1. PICK o \in outcomes : /\ cp' = o.cp /\ wire' = o.wire
                              /\ sess' = [sess EXCEPT ![s] = o.sess] /\ crashed' = o.crash
    BY Zenon DEF Handle
  <1>2. GoodOutcome(o, Others(s)) /\ UNCHANGED <<time, tv, status, hostgroup>>
    BY Zenon DEF Handle
  <1>3. IInv'
    BY <1>1, <1>2, HandlerKeeps, Zenon
  <1> QED BY <1>1, <1>2, <1>3, Zenon DEF GoodOutcome

-----------------------------------------------------------------------------
(* The actions: each keeps the invariant, and what a handler of session s     *)
(* does to the pools is progress.                                             *)
LEMMA AcceptKeeps ==
    ASSUME IInv, NEW s \in Sessions, Accept(s)
    PROVE  IInv' /\ Progress(cp', Others(s))
  <1> DEFINE N == NewSession("auth")
  <1>1. /\ Begun /\ Sound(cp, sess[s].mybes, Others(s)) /\ Progress(cp, Others(s))
        /\ SessionSound(sess[s])
    BY HandlerBegins, Zenon
  <1>2. \A state \in {"none", "auth"} :
           /\ NewSession(state) \in SessionRec /\ SessionSound(NewSession(state))
           /\ NewSession(state).mybes = [h \in Hostgroups |-> NewBackend]
           /\ \A p, user, pass, schema : Matching(p, [h \in Hostgroups |-> NewBackend], user, pass, schema)
    BY FreshSession, Zenon
  <1>3. /\ N \in SessionRec /\ SessionSound(N) /\ N.mybes = [h \in Hostgroups |-> NewBackend]
        /\ Matching(cp, N.mybes, N.user, N.pass, N.schema)
    BY <1>2
  <1>4. sess[s].mybes = [h \in Hostgroups |-> NewBackend]
    BY <1>1, Zenon DEF Accept, SessionSound
  <1>5. WiresFit(wire)
    BY <1>1, Zenon DEF Begun, WiresSound
  <1>6. GoodOutcome(Outcome(cp, wire, N), Others(s))
    <2> HIDE DEF N
    <2> QED BY <1>1, <1>3, <1>4, <1>5, OutcomeGood, Zenon
  <1>7. Handle(s, {Outcome(cp, wire, N)})
    BY Zenon DEF Accept
  <1> HIDE DEF N
  <1> QED BY <1>6, <1>7, HandleKeeps, Zenon

LEMMA AuthenticationKeeps ==
    ASSUME IInv, NEW s \in Sessions, process_authentication_pkt(s)
    PROVE  IInv' /\ Progress(cp', Others(s))
  <1> DEFINE N(u, d) == LoggedIn(sess[s], u, d)
  <1>1. /\ Begun /\ Sound(cp, sess[s].mybes, Others(s)) /\ Progress(cp, Others(s))
        /\ SessionSound(sess[s]) /\ sess[s] \in SessionRec
    BY HandlerBegins, Zenon
  <1>2. GoodOutcome(SessClose(cp, wire, sess[s], s, FALSE), Others(s))
    BY <1>1, SessCloseGood, Zenon
  <1>3. ASSUME NEW u \in Known, NEW d \in Schemas \cup {NoSchema}
        PROVE  GoodOutcome(Outcome(cp, wire, N(u, d)), Others(s))
    <2>1. SchemaOrDefault(d) \in Schemas /\ u \in Users /\ PasswordOf[u] \in Passwords
      BY SessionAssumption, PoolAssumption, Zenon DEF SchemaOrDefault
    <2>2. /\ N(u, d) \in SessionRec /\ N(u, d).mybes = sess[s].mybes
          /\ N(u, d).state = "ready" /\ N(u, d).user = u /\ N(u, d).pass \in Passwords
          /\ N(u, d).schema \in Schemas
      BY <1>1, <2>1, Zenon DEF SessionRec, LoggedIn
    <2> HIDE DEF N
    <2>3. SessionSound(N(u, d))
      BY <2>1, <2>2, Zenon DEF SessionSound
    <2>4. sess[s].mybes = [h \in Hostgroups |-> NewBackend]
      BY <1>1, Zenon DEF process_authentication_pkt, SessionSound
    <2>5. Matching(cp, N(u, d).mybes, N(u, d).user, N(u, d).pass, N(u, d).schema)
      BY <2>2, <2>4 DEF Matching, NewBackend
    <2>6. WiresFit(wire)
      BY <1>1, Zenon DEF Begun, WiresSound
    <2> QED BY <1>1, <2>2, <2>3, <2>5, <2>6, OutcomeGood, Zenon
  <1> DEFINE Y == {Outcome(cp, wire, N(u, d)) : u \in Known, d \in Schemas \cup {NoSchema}}
             X == {SessClose(cp, wire, sess[s], s, FALSE)} \cup Y
  <1>4. Handle(s, X)
    BY DEF process_authentication_pkt
  <1> HIDE DEF N
  <1>5. \A o \in Y : \E u \in Known, d \in Schemas \cup {NoSchema} : o = Outcome(cp, wire, N(u, d))
    OBVIOUS
  <1> HIDE DEF Y
  <1>6. \A o \in X : o = SessClose(cp, wire, sess[s], s, FALSE) \/ o \in Y
    BY Zenon
  <1> HIDE DEF X
  <1>7. \A o \in X : GoodOutcome(o, Others(s))
    BY <1>2, <1>3, <1>5, <1>6, ZenonT(40)
  <1> QED BY <1>4, <1>7, HandleKeeps, Zenon

LEMMA ClientPacketKeeps ==
    ASSUME IInv, NEW s \in Sessions, ClientPacket(s)
    PROVE  IInv' /\ Progress(cp', Others(s))
  <1>1. /\ sess[s] \in SessionRec /\ Begun /\ Sound(cp, sess[s].mybes, Others(s))
        /\ Progress(cp, Others(s)) /\ SessionSound(sess[s])
        /\ Matching(cp, sess[s].mybes, sess[s].user, sess[s].pass, sess[s].schema)
    BY HandlerBegins, Zenon
  <1>2. /\ sess[s].state = "ready" /\ sess[s].pkt # NoPkt
        /\ Handle(s, process_client_pkts(cp, wire, sess[s], s))
    BY Zenon DEF ClientPacket
  <1>3. \A o \in process_client_pkts(cp, wire, sess[s], s) : GoodOutcome(o, Others(s))
    BY <1>1, <1>2, ClientPktsGood, Zenon
  <1> QED BY <1>2, <1>3, HandleKeeps, Zenon

LEMMA ServerPacketKeeps ==
    ASSUME IInv, NEW s \in Sessions, ServerPacket(s)
    PROVE  IInv' /\ Progress(cp', Others(s))
  <1>1. /\ sess[s] \in SessionRec /\ Begun /\ Sound(cp, sess[s].mybes, Others(s))
        /\ Progress(cp, Others(s)) /\ SessionSound(sess[s])
        /\ Matching(cp, sess[s].mybes, sess[s].user, sess[s].pass, sess[s].schema)
    BY HandlerBegins, Zenon
  <1>2. /\ sess[s].state = "ready" /\ sess[s].mybe # NoHg
        /\ sess[s].mybes[sess[s].mybe].mycpe # NoConn
        /\ wire[sess[s].mybes[sess[s].mybe].mycpe].reply # "none"
        /\ Handle(s, process_server_pkts(cp, wire, sess[s]))
    BY Zenon DEF ServerPacket, PolledConn
  <1>3. sess[s].mybe \in Hostgroups
    BY <1>1, <1>2, Zenon DEF SessionRec
  <1>4. \A o \in process_server_pkts(cp, wire, sess[s]) : GoodOutcome(o, Others(s))
    BY <1>1, <1>2, <1>3, ServerPktsGood, Zenon
  <1> QED BY <1>2, <1>4, HandleKeeps, Zenon

LEMMA NetFailureKeeps ==
    ASSUME IInv, NEW s \in Sessions, NetFailure(s)
    PROVE  IInv' /\ Progress(cp', Others(s))
  <1> DEFINE B == sess[s].mybes
             g == sess[s].mybe
             b == [B[g] EXCEPT !.myds = "shut"]
             C == [B EXCEPT ![g] = b]
             N == [sess[s] EXCEPT !.mybes[g].myds = "shut"]
  <1>1. /\ sess[s] \in SessionRec /\ Begun /\ Sound(cp, B, Others(s)) /\ Progress(cp, Others(s))
    BY HandlerBegins, Zenon
  <1>2. /\ sess[s].mybe # NoHg /\ Handle(s, {SessClose(cp, wire, N, s, FALSE)})
    BY Zenon DEF NetFailure, PolledConn
  <1>3. g \in Hostgroups /\ B \in Backends /\ B[g] \in Backend
    BY <1>1, <1>2, Zenon DEF SessionRec, Backends
  <1>4. b \in Backend /\ b.mycpe = B[g].mycpe
    BY <1>3, Zenon DEF Backend
  <1>5. N = [sess[s] EXCEPT !.mybes = C]
    BY <1>1, Zenon
  <1> HIDE DEF b
  <1>6. C \in Backends /\ \A h \in Hostgroups : C[h].mycpe = B[h].mycpe
    BY <1>3, <1>4, Zenon DEF Backends
  <1> HIDE DEF C, N, B, g
  <1>7. N \in SessionRec /\ N.mybes = C
    BY <1>1, <1>5, <1>6, Zenon DEF SessionRec
  <1>8. Sound(cp, N.mybes, Others(s))
    BY <1>1, <1>6, <1>7 DEF Sound, BackendsSound, NoneLost
  <1>9. GoodOutcome(SessClose(cp, wire, N, s, FALSE), Others(s))
    BY <1>1, <1>7, <1>8, SessCloseGood, Zenon
  <1> QED BY <1>2, <1>9, HandleKeeps, Zenon

LEMMA ClientGoneKeeps ==
    ASSUME IInv, NEW s \in Sessions, ClientGone(s)
    PROVE  IInv' /\ Progress(cp', Others(s))
  <1>1. /\ sess[s] \in SessionRec /\ Begun /\ Sound(cp, sess[s].mybes, Others(s))
        /\ Progress(cp, Others(s))
    BY HandlerBegins, Zenon
  <1>2. GoodOutcome(SessClose(cp, wire, sess[s], s, FALSE), Others(s))
    BY <1>1, SessCloseGood, Zenon
  <1>3. Handle(s, {SessClose(cp, wire, sess[s], s, FALSE)})
    BY Zenon DEF ClientGone
  <1> QED BY <1>2, <1>3, HandleKeeps, Zenon

LEMMA ClientSendsKeeps ==
    ASSUME IInv, NEW s \in Sessions, ClientSends(s)
    PROVE  IInv'
  <1>1. /\ sess[s] \in SessionRec /\ Begun /\ Sound(cp, sess[s].mybes, Others(s))
        /\ Progress(cp, Others(s)) /\ SessionSound(sess[s])
        /\ Matching(cp, sess[s].mybes, sess[s].user, sess[s].pass, sess[s].schema)
    BY HandlerBegins, Zenon
  <1>2. PICK pkt \in Packets : sess' = [sess EXCEPT ![s].pkt = pkt, ![s].waiting = TRUE]
    BY Zenon DEF ClientSends
  <1> DEFINE N == [sess[s] EXCEPT !.pkt = pkt, !.waiting = TRUE]
             o == [cp |-> cp, wire |-> wire, sess |-> N, crash |-> ""]
  <1>3. /\ N \in SessionRec /\ N.mybes = sess[s].mybes /\ N.user = sess[s].user
        /\ N.pass = sess[s].pass /\ N.schema = sess[s].schema /\ N.state = sess[s].state
    BY <1>1, Zenon DEF SessionRec
  <1>4. sess' = [sess EXCEPT ![s] = N]
    BY <1>2, Zenon DEF IInv, TypeOK
  <1> HIDE DEF N
  <1>5. SessionSound(N)
    BY <1>1, <1>3, Zenon DEF SessionSound
  <1>6. o.cp = cp /\ o.wire = wire /\ o.sess = N /\ o.crash = ""
    BY Zenon
  <1> HIDE DEF o
  <1>7. GoodOutcome(o, Others(s))
    BY <1>1, <1>3, <1>5, <1>6, Zenon DEF GoodOutcome, Begun, WiresSound
  <1>8. /\ UNCHANGED <<time, tv, status, hostgroup>> /\ cp' = o.cp /\ wire' = o.wire
        /\ sess' = [sess EXCEPT ![s] = o.sess] /\ crashed' = o.crash
    BY <1>4, <1>6, Zenon DEF ClientSends, IInv, AllOnline
  <1> QED BY <1>7, <1>8, HandlerKeeps, Zenon

(* What concerns one session and the pools only, when neither changes.        *)
LEMMA OtherStepsKeep ==
    ASSUME IInv, UNCHANGED <<cp, status, hostgroup, sess, crashed>>, WiresSound', ClockSound',
           time' \in Nat, tv' \in Nat
    PROVE  IInv'
  <1>1. \A s \in Sessions : Others(s)' = Others(s)
    BY DEF Others, Held
  <1>2. TypeOK'
    BY Zenon DEF IInv, TypeOK, PoolType, WiresSound, WiresFit
  <1>3. AllOnline'
    BY Zenon DEF IInv, AllOnline
  <1>4. (\A s \in Sessions : /\ Sound(cp, sess[s].mybes, Others(s))
                             /\ Matching(cp, sess[s].mybes, sess[s].user, sess[s].pass, sess[s].schema)
                             /\ SessionSound(sess[s]))'
    <2> SUFFICES ASSUME NEW s \in Sessions
                 PROVE  /\ Sound(cp, sess[s].mybes, Others(s))'
                        /\ Matching(cp, sess[s].mybes, sess[s].user, sess[s].pass, sess[s].schema)'
                        /\ SessionSound(sess[s])'
      BY Zenon
    <2>1. /\ Sound(cp, sess[s].mybes, Others(s)) /\ SessionSound(sess[s])
          /\ Matching(cp, sess[s].mybes, sess[s].user, sess[s].pass, sess[s].schema)
      BY Zenon DEF IInv
    <2>2. cp' = cp /\ sess' = sess /\ Others(s)' = Others(s)
      BY <1>1, Zenon
    <2> QED BY <2>1, <2>2, Zenon
  <1> QED BY <1>2, <1>3, <1>4, Zenon DEF IInv

LEMMA ServerRepliesKeeps ==
    ASSUME IInv, NEW c \in Conns, ServerReplies(c)
    PROVE  IInv'
  <1>1. PICK r \in Replies, t \in {NoSession, wire[c].tx, Head(wire[c].asked)} :
           wire' = [wire EXCEPT ![c].reply = r, ![c].tx = t]
    BY Zenon DEF ServerReplies
  <1>2. wire \in [Conns -> WireRec] /\ wire[c] \in WireRec /\ wire[c].asked # <<>>
    BY Zenon DEF ServerReplies, IInv, TypeOK
  <1>3. wire[c].asked \in Seq(Sessions \cup {Gone}) /\ wire[c].tx \in Sessions \cup {NoSession, Gone}
    BY <1>2, Zenon DEF WireRec
  <1>4. Head(wire[c].asked) \in Sessions \cup {Gone}
    BY <1>2, <1>3
  <1>5. t \in Sessions \cup {NoSession, Gone} /\ r \in {"OK", "ERR", "COUNTS"}
    BY <1>3, <1>4, Zenon DEF Replies
  <1> DEFINE x == [wire[c] EXCEPT !.reply = r, !.tx = t]
  <1>6. x \in WireRec /\ x.asked # <<>>
    BY <1>2, <1>5, Zenon DEF WireRec
  <1>7. wire' = [wire EXCEPT ![c] = x]
    BY <1>1, <1>2, Zenon
  <1> HIDE DEF x
  <1>8. wire' \in [Conns -> WireRec] /\ wire'[c] = x /\ \A d \in Conns \ {c} : wire'[d] = wire[d]
    BY <1>2, <1>6, <1>7, Zenon
  <1>9. c \in Live(cp)
    <2>1. IdleWire.asked = <<>>
      BY Zenon DEF IdleWire
    <2> QED BY <1>2, <2>1, Zenon DEF IInv, WiresSound
  <1>10. Live(cp) \subseteq Conns /\ cp' = cp
    BY Zenon DEF IInv, TypeOK, PoolType, Live, ServerReplies
  <1>11. WiresSound'
    <2>1. Live(cp') = Live(cp)
      BY <1>10, Zenon
    <2>2. WiresFit(wire')
      BY <1>6, <1>8, <1>10, Zenon DEF IInv, WiresSound, WiresFit
    <2>3. \A d \in Conns : d \notin Live(cp) => wire'[d] = IdleWire
      BY <1>8, <1>9, Zenon DEF IInv, WiresSound
    <2> QED BY <1>10, <2>1, <2>2, <2>3, Zenon DEF WiresSound, WiresFit, Live
  <1>12. ClockSound' /\ time' \in Nat /\ tv' \in Nat /\ UNCHANGED <<cp, status, hostgroup, sess, crashed>>
    BY Zenon DEF ServerReplies, IInv, ClockSound, TypeOK, Live
  <1> QED BY <1>11, <1>12, OtherStepsKeep, Zenon

LEMMA ServerHangsUpKeeps ==
    ASSUME IInv, NEW c \in Conns, ServerHangsUp(c)
    PROVE  IInv'
  <1> DEFINE x == [IdleWire EXCEPT !.up = FALSE, !.asked = wire[c].asked]
  <1>1. x \in WireRec /\ x.reply = "none"
    <2>1. wire[c] \in WireRec
      BY Zenon DEF IInv, TypeOK
    <2> QED BY <2>1, IdleWireType, Zenon DEF WireRec
  <1>2. wire \in [Conns -> WireRec] /\ wire' = [wire EXCEPT ![c] = x] /\ c \in Live(cp)
    BY Zenon DEF ServerHangsUp, IInv, TypeOK
  <1> HIDE DEF x
  <1>3. wire' \in [Conns -> WireRec] /\ wire'[c] = x /\ \A d \in Conns \ {c} : wire'[d] = wire[d]
    BY <1>1, <1>2, Zenon
  <1>4. Live(cp) \subseteq Conns /\ cp' = cp
    BY Zenon DEF IInv, TypeOK, PoolType, Live, ServerHangsUp
  <1>5. WiresSound'
    <2>1. Live(cp') = Live(cp)
      BY <1>4, Zenon
    <2>2. WiresFit(wire')
      BY <1>1, <1>3, <1>4, Zenon DEF IInv, WiresSound, WiresFit
    <2>3. \A d \in Conns : d \notin Live(cp) => wire'[d] = IdleWire
      BY <1>2, <1>3, Zenon DEF IInv, WiresSound
    <2> QED BY <1>4, <2>1, <2>2, <2>3, Zenon DEF WiresSound, WiresFit, Live
  <1>6. ClockSound' /\ time' \in Nat /\ tv' \in Nat /\ UNCHANGED <<cp, status, hostgroup, sess, crashed>>
    BY Zenon DEF ServerHangsUp, IInv, ClockSound, TypeOK, Live
  <1> QED BY <1>5, <1>6, OtherStepsKeep, Zenon

LEMMA ClockKeeps ==
    ASSUME IInv, Clock
    PROVE  IInv'
  <1>1. cp' = cp /\ UNCHANGED <<cp, status, hostgroup, sess, crashed>> /\ wire' = wire
    BY Zenon DEF Clock, Tick, mysql_connpool_purge_thread
  <1>2. WiresSound'
    BY <1>1, Zenon DEF IInv, WiresSound, WiresFit, Live
  <1>3. /\ time \in Nat /\ tv \in Nat /\ tv <= time /\ time <= tv + MaxLag
    BY Zenon DEF IInv, TypeOK, ClockSound
  <1>4. time' \in Nat /\ tv' \in Nat /\ tv' <= time' /\ time' <= tv' + MaxLag
    <2>1. CASE Tick
      BY <1>3, <2>1, PoolAssumption DEF Tick
    <2>2. CASE mysql_connpool_purge_thread
      BY <1>3, <2>2, PoolAssumption DEF mysql_connpool_purge_thread
    <2> QED BY <2>1, <2>2, Zenon DEF Clock
  <1>5. ClockSound'
    BY <1>1, <1>4, Zenon DEF IInv, ClockSound, Live
  <1> QED BY <1>1, <1>2, <1>4, <1>5, OtherStepsKeep, Zenon

LEMMA InitHolds ==
    ASSUME Init
    PROVE  IInv
  <1>1. /\ cp.conn = [c \in {} |-> {}] /\ cp.pool = [k \in PoolKeys |-> {}]
        /\ cp = [conn |-> cp.conn, pool |-> cp.pool]
    BY Zenon DEF Init, PoolInit
  <1>2. Live(cp) = {} /\ \A k \in PoolKeys : cp.pool[k] = {}
    BY <1>1, Zenon DEF Live
  <1>3. PoolType(cp)
    <2>1. cp.conn \in [DOMAIN cp.conn -> ConnRec] /\ DOMAIN cp.conn \subseteq Conns
      BY <1>1, Zenon
    <2>2. cp.pool \in [PoolKeys -> SUBSET Conns]
      BY <1>1, Zenon
    <2> QED BY <1>1, <2>1, <2>2, Zenon DEF PoolType
  <1>4. \A state \in {"none", "auth"} :
           /\ NewSession(state) \in SessionRec /\ SessionSound(NewSession(state))
           /\ NewSession(state).mybes = [h \in Hostgroups |-> NewBackend]
           /\ \A p, user, pass, schema : Matching(p, [h \in Hostgroups |-> NewBackend], user, pass, schema)
    BY FreshSession, Zenon
  <1> DEFINE N == NewSession("none")
             E == [h \in Hostgroups |-> NewBackend]
  <1>5. N \in SessionRec /\ SessionSound(N) /\ N.mybes = E /\ Matching(cp, E, N.user, N.pass, N.schema)
    BY <1>4, Zenon
  <1>6. \A h \in Hostgroups : E[h].mycpe = NoConn
    BY Zenon DEF NewBackend
  <1> HIDE DEF N, E
  <1>7. \A s \in Sessions : sess[s] = N
    BY Zenon DEF Init, N
  <1>8. TypeOK
    <2>1. sess \in [Sessions -> SessionRec]
      BY <1>5, Zenon DEF Init, N
    <2>2. wire \in [Conns -> WireRec]
      BY IdleWireType, Zenon DEF Init
    <2>3. time \in Nat /\ tv \in Nat
      BY Zenon DEF Init, PoolInit
    <2>4. status \in [Servers -> Statuses] /\ hostgroup \in [Hostgroups -> SUBSET Servers]
      BY Zenon DEF Init, Statuses
    <2> QED BY <1>3, <2>1, <2>2, <2>3, <2>4, Zenon DEF TypeOK, Init
  <1>9. AllOnline
    <2>1. \A m \in Servers : status[m] = "ONLINE"
      BY Zenon DEF Init
    <2>2. ASSUME NEW h \in Hostgroups PROVE hostgroup[h] # {}
      <3>1. hostgroup[h] \in (SUBSET Servers) \ {{}}
        BY Zenon DEF Init
      <3>2. hostgroup[h] \notin {{}}
        BY <3>1, Zenon
      <3> QED BY <3>2, Zenon
    <2> QED BY <2>1, <2>2, Zenon DEF Init, AllOnline
  <1>10. WiresSound
    BY <1>2, IdleWireType, Zenon DEF Init, WiresSound, WiresFit
  <1>11. ClockSound
    <2>1. time = 0 /\ tv = 0
      BY Zenon DEF Init, PoolInit
    <2> QED BY <1>2, <2>1, PoolAssumption DEF ClockSound
  <1>12. ASSUME NEW s \in Sessions PROVE Sound(cp, sess[s].mybes, Others(s))
    <2>1. Others(s) = {}
      BY <1>5, <1>6, <1>7, OthersHold
    <2>2. sess[s].mybes = E /\ E \in Backends
      BY <1>5, <1>7, Zenon DEF SessionRec
    <2> QED BY <1>2, <1>3, <1>6, <2>1, <2>2, Zenon DEF Sound, PoolsSound, BackendsSound, NoneLost
  <1>13. \A s \in Sessions : /\ Matching(cp, sess[s].mybes, sess[s].user, sess[s].pass, sess[s].schema)
                             /\ SessionSound(sess[s])
    BY <1>5, <1>7, Zenon
  <1> QED BY <1>8, <1>9, <1>10, <1>11, <1>12, <1>13, Zenon DEF IInv

LEMMA StepKeeps ==
    ASSUME IInv, [Next]_vars
    PROVE  IInv'
  <1>1. CASE UNCHANGED vars
    <2>1. UNCHANGED <<time, tv, cp, status, hostgroup, sess, wire, crashed>>
      BY <1>1, Zenon DEF vars
    <2>2. WiresSound' /\ ClockSound' /\ time' \in Nat /\ tv' \in Nat
      BY <2>1, Zenon DEF IInv, TypeOK, WiresSound, WiresFit, ClockSound, Live
    <2> QED BY <2>1, <2>2, OtherStepsKeep, Zenon
  <1>2. ASSUME NEW s \in Sessions, Accept(s) PROVE IInv'
    BY <1>2, AcceptKeeps, Zenon
  <1>3. ASSUME NEW s \in Sessions, process_authentication_pkt(s) PROVE IInv'
    BY <1>3, AuthenticationKeeps, Zenon
  <1>4. ASSUME NEW s \in Sessions, ClientSends(s) PROVE IInv'
    BY <1>4, ClientSendsKeeps, Zenon
  <1>5. ASSUME NEW s \in Sessions, ClientGone(s) PROVE IInv'
    BY <1>5, ClientGoneKeeps, Zenon
  <1>6. ASSUME NEW s \in Sessions, ClientPacket(s) PROVE IInv'
    BY <1>6, ClientPacketKeeps, Zenon
  <1>7. ASSUME NEW s \in Sessions, ServerPacket(s) PROVE IInv'
    BY <1>7, ServerPacketKeeps, Zenon
  <1>8. ASSUME NEW s \in Sessions, NetFailure(s) PROVE IInv'
    BY <1>8, NetFailureKeeps, Zenon
  <1>9. ASSUME NEW c \in Conns, ServerReplies(c) PROVE IInv'
    BY <1>9, ServerRepliesKeeps, Zenon
  <1>10. ASSUME NEW c \in Conns, ServerHangsUp(c) PROVE IInv'
    BY <1>10, ServerHangsUpKeeps, Zenon
  <1>11. CASE Clock
    BY <1>11, ClockKeeps, Zenon
  <1> QED BY <1>1, <1>2, <1>3, <1>4, <1>5, <1>6, <1>7, <1>8, <1>9, <1>10, <1>11, Zenon DEF Next

(* A step either leaves the pools alone or is the progress of a handler.      *)
LEMMA StepProgress ==
    ASSUME IInv, Next
    PROVE  cp' = cp \/ \E s \in Sessions : Progress(cp', Others(s))
  <1>1. ASSUME NEW s \in Sessions, ClientSends(s) PROVE cp' = cp
    BY <1>1, Zenon DEF ClientSends
  <1>2. ASSUME NEW c \in Conns, ServerReplies(c) \/ ServerHangsUp(c) PROVE cp' = cp
    BY <1>2, Zenon DEF ServerReplies, ServerHangsUp
  <1>3. CASE Clock
    BY <1>3, Zenon DEF Clock, Tick, mysql_connpool_purge_thread
  <1>4. ASSUME NEW s \in Sessions,
               \/ Accept(s) \/ process_authentication_pkt(s) \/ ClientGone(s)
               \/ ClientPacket(s) \/ ServerPacket(s) \/ NetFailure(s)
        PROVE  Progress(cp', Others(s))
    BY <1>4, AcceptKeeps, AuthenticationKeeps, ClientGoneKeeps, ClientPacketKeeps,
       ServerPacketKeeps, NetFailureKeeps, Zenon
  <1> QED BY <1>1, <1>2, <1>3, <1>4, Zenon DEF Next

-----------------------------------------------------------------------------
(* The inductive invariant holds in every behaviour of a thread with          *)
(* its sessions, pool and servers.                                            *)
THEOREM SessionInductive == Spec => []IInv
  <1>1. Init => IInv
    BY InitHolds, Zenon
  <1>2. IInv /\ [Next]_vars => IInv'
    BY StepKeeps, Zenon
  <1> QED BY <1>1, <1>2, PTL DEF Spec

(* Every variable of the thread keeps its type, whatever clients and servers  *)
(* do: a session's backends, the pools and the wires are always well formed.  *)
THEOREM SessionTypeCorrect == Spec => []TypeOK
  <1>1. IInv => TypeOK
    BY Zenon DEF IInv
  <1> QED BY <1>1, SessionInductive, PTL

(* create_backend_for_hostgroup, bereset and bedetach never lose a connection *)
(* nor give one to two backends, for any number of sessions and hostgroups.   *)
THEOREM ConnectionsOwnedOnce == Spec => []OwnedOnce
  <1>1. IInv => OwnedOnce
    <2> SUFFICES ASSUME IInv PROVE OwnedOnce
      BY Zenon
    <2>1. \A s \in Sessions : Sound(cp, sess[s].mybes, Others(s))
      BY Zenon DEF IInv
    <2>2. \A s \in Sessions : \A c :
            c \in Others(s) <=> /\ c # NoConn
                                /\ \E t \in Sessions \ {s}, h \in Hostgroups : sess[t].mybes[h].mycpe = c
      BY OthersHold, Zenon
    <2>3. \A c : c \in Pooled(cp) <=> \E k \in PoolKeys : c \in cp.pool[k]
      BY Zenon DEF Pooled
    <2>4. \A s \in Sessions, h \in Hostgroups : \A c :
            c \in Held(s, h) <=> c # NoConn /\ sess[s].mybes[h].mycpe = c
      BY Zenon DEF Held
    <2>5. ASSUME NEW c \in Live(cp)
          PROVE  c \in Pooled(cp) \cup UNION {Held(s, h) : s \in Sessions, h \in Hostgroups}
      <3>1. PICK s \in Sessions : TRUE
        BY SessionAssumption, Zenon
      <3>2. c # NoConn
        BY PoolAssumption, Zenon DEF IInv, TypeOK, PoolType, Live
      <3>3. \/ c \in Others(s)
            \/ \E k \in PoolKeys : c \in cp.pool[k]
            \/ \E h \in Hostgroups : sess[s].mybes[h].mycpe = c
        BY <2>1, Zenon DEF Sound, NoneLost
      <3>4. c \in Pooled(cp) \/ \E t \in Sessions, h \in Hostgroups : c \in Held(t, h)
        BY <2>2, <2>3, <2>4, <3>2, <3>3
      <3> QED BY <3>4
    <2>6. Pooled(cp) \subseteq Live(cp)
      BY <2>1, <2>3, SessionAssumption, ZenonT(40) DEF Sound, PoolsSound
    <2>7. ASSUME NEW s \in Sessions, NEW h \in Hostgroups, NEW c \in Held(s, h)
          PROVE  c \in Live(cp) /\ c \notin Pooled(cp) /\ c \notin Others(s)
                 /\ \A g \in Hostgroups : c \in Held(s, g) => g = h
      BY <2>1, <2>3, <2>4, <2>7 DEF Sound, BackendsSound
    <2>8. Live(cp) = Pooled(cp) \cup UNION {Held(s, h) : s \in Sessions, h \in Hostgroups}
      BY <2>5, <2>6, <2>7
    <2>9. ASSUME NEW s \in Sessions, NEW t \in Sessions, NEW g \in Hostgroups, NEW h \in Hostgroups,
                 <<s, g>> # <<t, h>>, NEW c \in Held(s, g), c \in Held(t, h)
          PROVE  FALSE
      <3>1. CASE s = t
        BY <2>7, <2>9, <3>1, Zenon
      <3>2. CASE s # t
        <4>1. c \in Others(s)
          BY <2>2, <2>4, <2>9, <3>2
        <4> QED BY <2>7, <4>1, Zenon
      <3> QED BY <3>1, <3>2, Zenon
    <2> QED BY <2>7, <2>8, <2>9 DEF OwnedOnce
  <1> QED BY <1>1, SessionInductive, PTL

(* A free connection is open, reusable, and in the pool of its own server,    *)
(* user, password and schema: what get_connection finds under a key is for    *)
(* that key.                                                                  *)
THEOREM FreeConnectionsMatch == Spec => []PooledMatches
  <1>1. IInv => PooledMatches
    <2> SUFFICES ASSUME IInv PROVE PooledMatches
      BY Zenon
    <2> QED BY SessionAssumption, Zenon DEF IInv, Sound, PoolsSound, PooledMatches
  <1> QED BY <1>1, SessionInductive, PTL

(* A backend's connection is to the server it names, with the session's       *)
(* present user, password and schema, across INIT_DB, CHANGE_USER and what    *)
(* the client sends before it has authenticated again, sharing and            *)
(* reconnects; and the password is the user's.                                *)
THEOREM BackendsMatch == Spec => []BackendMatches
  <1>1. IInv => BackendMatches
    <2> SUFFICES ASSUME IInv PROVE BackendMatches
      BY Zenon
    <2> SUFFICES ASSUME NEW s \in Sessions, NEW h \in Hostgroups, NEW c \in Held(s, h)
                 PROVE  /\ cp.conn[c].key = [server |-> sess[s].mybes[h].mshge, user |-> sess[s].user,
                                             pass |-> sess[s].pass, schema |-> sess[s].schema]
                        /\ Accepted(cp.conn[c].key)
      BY Zenon DEF BackendMatches
    <2>1. c = sess[s].mybes[h].mycpe /\ c # NoConn
      BY Zenon DEF Held
    <2>2. c \in Live(cp)
      BY <2>1, Zenon DEF IInv, Sound, BackendsSound
    <2>3. cp.conn[c] \in ConnRec
      BY <2>2, Zenon DEF IInv, TypeOK, PoolType, Live
    <2>4. Accepted(cp.conn[c].key)
      BY <2>3, Zenon DEF ConnRec, OpenKeys
    <2> QED BY <2>1, <2>4, Zenon DEF IInv, Matching
  <1> QED BY <1>1, SessionInductive, PTL

(* get_connection closes what has expired by the cached clock, so what comes  *)
(* out of a pool was last taken less than mysql_wait_timeout, and the lag of  *)
(* that clock, ago: whichever handler takes it, and whatever it closes or     *)
(* gives back in the same step.                                               *)
THEOREM HandedOutIsYoung == Spec => HandedOutYoung
  <1> DEFINE Young == \A c \in Pooled(cp) : c \in Live(cp)' \ Pooled(cp)' =>
                         time < cp.conn[c].used + WaitTimeout + MaxLag
  <1>1. IInv /\ [Next]_vars => [Young]_poolvars
    <2> SUFFICES ASSUME IInv, [Next]_vars PROVE [Young]_poolvars
      BY Zenon
    <2>1. CASE UNCHANGED vars
      BY <2>1, Zenon DEF vars, poolvars
    <2>2. CASE cp' = cp
      BY <2>2, Zenon DEF Live, Pooled
    <2>3. ASSUME NEW s \in Sessions, Progress(cp', Others(s)) PROVE Young
      <3> SUFFICES ASSUME NEW c \in Pooled(cp), c \in Live(cp)', c \notin Pooled(cp)'
                   PROVE  time < cp.conn[c].used + WaitTimeout + MaxLag
        BY Zenon
      <3>1. PICK k \in PoolKeys : c \in cp.pool[k]
        BY Zenon DEF Pooled
      <3>2. c \in Live(cp') /\ c \notin cp'.pool[k]
        BY Zenon DEF Live, Pooled
      <3>3. tv < cp.conn[c].expire
        BY <2>3, <3>1, <3>2, Zenon DEF Progress
      <3>4. c \in Live(cp)
        BY <3>1, Zenon DEF IInv, Sound, PoolsSound
      <3>5. cp.conn[c] \in ConnRec
        BY <3>4, Zenon DEF IInv, TypeOK, PoolType, Live
      <3>6. cp.conn[c].expire \in Nat /\ cp.conn[c].used \in Nat
        BY <3>5, Zenon DEF ConnRec
      <3>7. /\ time \in Nat /\ tv \in Nat /\ time <= tv + MaxLag
            /\ cp.conn[c].expire <= cp.conn[c].used + WaitTimeout
        BY <3>4, Zenon DEF IInv, TypeOK, ClockSound
      <3> QED BY <3>3, <3>6, <3>7, PoolAssumption
    <2> HIDE DEF Young
    <2>4. CASE Next
      BY <2>2, <2>3, <2>4, StepProgress, Zenon
    <2> QED BY <2>1, <2>4, Zenon
  <1> HIDE DEF Young
  <1>2. Spec => [][Young]_poolvars
    BY <1>1, SessionInductive, PTL DEF Spec
  <1> QED BY <1>2, Zenon DEF Young, HandedOutYoung

-----------------------------------------------------------------------------
(***************************************************************************)
(* What sessions leave on the connections they give back, when clients     *)
(* wait for their answers before they leave (ClientsWait): OwnAnswersOnly  *)
(* and BrokenIsClosed, for any hostgroups, commands and settings.  Tidy is *)
(* the inductive invariant, on top of the one above.                       *)
(***************************************************************************)

(* A connection the server owes no answer on.                                 *)
Clear(w) == w.asked = <<>>

(* The connection of backend h of session s, which is S: the server has at    *)
(* most the one command that s waits for, on the backend that s polls.        *)
Work(w, S, s, h) ==
    /\ w.asked \in {<<>>, <<s>>}
    /\ w.asked # <<>> => S.waiting /\ S.pkt = NoPkt /\ S.mybe = h

Holds(S, c) == \E h \in Hostgroups : S.mybes[h].mycpe = c

(* What concerns session s, when the wires are w.                             *)
Orderly(w, S, s) ==
    /\ \A h \in Hostgroups : S.mybes[h].mycpe # NoConn => Work(w[S.mybes[h].mycpe], S, s, h)
    /\ S.pkt # NoPkt => S.waiting

Tidy ==
    /\ \A s \in Sessions : Orderly(wire, sess[s], s)
    /\ \A c \in Conns : (\A s \in Sessions : ~Holds(sess[s], c)) => Clear(wire[c])

-----------------------------------------------------------------------------
(* A handler of session s that leaves N and the wires w.                      *)
LEMMA HandlerTidy ==
    ASSUME IInv, IInv', Tidy, NEW s \in Sessions, NEW N, NEW w,
           sess' = [sess EXCEPT ![s] = N], wire' = OnlyLive(w, cp'),
           \A t \in Sessions \ {s} : Orderly(w, sess[t], t),
           Orderly(w, N, s),
           \A c \in Conns : ~Holds(N, c) /\ (\A t \in Sessions \ {s} : ~Holds(sess[t], c))
                               => Clear(w[c]) \/ c \notin Live(cp')
    PROVE  Tidy'
  <1>1. sess'[s] = N /\ \A t \in Sessions \ {s} : sess'[t] = sess[t]
    BY Zenon DEF IInv, TypeOK
  <1>2. \A c \in Conns : wire'[c] = IF c \in Live(cp') THEN w[c] ELSE IdleWire
    BY Zenon DEF OnlyLive
  <1>3. ASSUME NEW t \in Sessions PROVE Orderly(wire', sess'[t], t)
    <2>1. Orderly(w, sess'[t], t)
      BY <1>1, Zenon
    <2>2. ASSUME NEW h \in Hostgroups, sess'[t].mybes[h].mycpe # NoConn
          PROVE  wire'[sess'[t].mybes[h].mycpe] = w[sess'[t].mybes[h].mycpe]
      <3>1. sess'[t].mybes[h].mycpe \in Live(cp') /\ Live(cp') \subseteq Conns
        BY <2>2, Zenon DEF IInv, Sound, BackendsSound, PoolType, Live
      <3> QED BY <1>2, <3>1, Zenon
    <2> QED BY <2>1, <2>2, Zenon DEF Orderly
  <1>4. ASSUME NEW c \in Conns, \A t \in Sessions : ~Holds(sess'[t], c) PROVE Clear(wire'[c])
    <2>1. Clear(w[c]) \/ c \notin Live(cp')
      BY <1>1, <1>4, Zenon
    <2>2. Clear(IdleWire)
      BY Zenon DEF Clear, IdleWire
    <2> QED BY <1>2, <2>1, <2>2, Zenon
  <1> QED BY <1>3, <1>4, Zenon DEF Tidy, Orderly, Holds, Clear, Work

(* The work of a client that leaves is nobody's, and no other client's        *)
(* changes.                                                                   *)
LEMMA OrphanSame ==
    ASSUME NEW w, NEW s \in Sessions, NEW c \in Conns, w \in [Conns -> WireRec]
    PROVE  /\ w[c].asked = <<>> => Orphan(w, s)[c].asked = <<>>
           /\ \A t \in Sessions \ {s} : w[c].asked = <<t>> => Orphan(w, s)[c].asked = <<t>>
  <1> DEFINE left(x) == IF x = s THEN Gone ELSE x
             a == w[c].asked
             b == [i \in DOMAIN a |-> left(a[i])]
             v == Orphan(w, s)[c]
  <1>1. v = [w[c] EXCEPT !.tx = left(w[c].tx), !.asked = b]
    BY Zenon DEF Orphan
  <1>2. w[c] \in WireRec
    BY Zenon
  <1>3. a = <<>> => b = <<>>
    OBVIOUS
  <1>4. ASSUME NEW t \in Sessions \ {s}, a = <<t>> PROVE b = <<t>>
    <2>1. \A i \in DOMAIN a : left(a[i]) = a[i]
      BY <1>4
    <2>2. b = [i \in DOMAIN a |-> a[i]]
      BY <2>1
    <2> QED BY <1>4, <2>2
  <1> HIDE DEF b
  <1>5. v.asked = b
    BY <1>1, <1>2, Zenon DEF WireRec
  <1> QED BY <1>3, <1>4, <1>5, Zenon

LEMMA OrphanOrderly ==
    ASSUME IInv, NEW s \in Sessions, NEW t \in Sessions \ {s}, Orderly(wire, sess[t], t)
    PROVE  Orderly(Orphan(wire, s), sess[t], t)
  <1>1. ASSUME NEW h \in Hostgroups, sess[t].mybes[h].mycpe # NoConn
        PROVE  Work(Orphan(wire, s)[sess[t].mybes[h].mycpe], sess[t], t, h)
    <2> DEFINE c == sess[t].mybes[h].mycpe
               v == Orphan(wire, s)[c]
    <2>1. c \in Conns /\ wire \in [Conns -> WireRec]
      BY <1>1, Zenon DEF IInv, TypeOK, Sound, BackendsSound, PoolType, Live
    <2>2. Work(wire[c], sess[t], t, h)
      BY <1>1, Zenon DEF Orderly
    <2> HIDE DEF c
    <2>3. /\ wire[c].asked = <<>> => v.asked = <<>>
          /\ wire[c].asked = <<t>> => v.asked = <<t>>
      BY <2>1, OrphanSame
    <2> HIDE DEF v
    <2>4. wire[c].asked = v.asked
      BY <2>2, <2>3, Zenon DEF Work
    <2>5. Work(v, sess[t], t, h)
      BY <2>2, <2>4, Zenon DEF Work
    <2> QED BY <2>5, Zenon DEF c, v
  <1> QED BY <1>1, Zenon DEF Orderly

(* sess_close, when the connections it gives back are clear, or closed.       *)
LEMMA CloseTidy ==
    ASSUME IInv, IInv', Tidy, NEW s \in Sessions,
           sess' = [sess EXCEPT ![s] = NewSession("none")],
           wire' = OnlyLive(Orphan(wire, s), cp'),
           \A h \in Hostgroups : LET c == sess[s].mybes[h].mycpe
                                 IN  c # NoConn => Clear(wire[c]) \/ c \notin Live(cp')
    PROVE  Tidy'
  <1> DEFINE N == NewSession("none")
             w == Orphan(wire, s)
  <1>1. N.mybes = [h \in Hostgroups |-> NewBackend] /\ N.pkt = NoPkt
    BY ZenonT(40) DEF NewSession
  <1> HIDE DEF N
  <1>2. \A h \in Hostgroups : N.mybes[h].mycpe = NoConn
    BY <1>1 DEF NewBackend
  <1>3. Orderly(w, N, s)
    BY <1>1, <1>2, Zenon DEF Orderly
  <1>4. \A t \in Sessions \ {s} : Orderly(w, sess[t], t)
    BY OrphanOrderly, Zenon DEF Tidy
  <1>5. ASSUME NEW c \in Conns, \A t \in Sessions \ {s} : ~Holds(sess[t], c)
        PROVE  Clear(w[c]) \/ c \notin Live(cp')
    <2>1. Clear(wire[c]) \/ c \notin Live(cp')
      <3>1. CASE Holds(sess[s], c)
        <4>1. c # NoConn
          BY PoolAssumption, Zenon
        <4> QED BY <3>1, <4>1, Zenon DEF Holds
      <3>2. CASE ~Holds(sess[s], c)
        BY <1>5, <3>2, Zenon DEF Tidy
      <3> QED BY <3>1, <3>2, Zenon
    <2>2. Clear(wire[c]) => Clear(w[c])
      <3>1. wire \in [Conns -> WireRec]
        BY ZenonT(40) DEF IInv, TypeOK
      <3>2. wire[c].asked = <<>> => w[c].asked = <<>>
        BY <3>1, OrphanSame
      <3> QED BY <3>2, Zenon DEF Clear
    <2> QED BY <2>1, <2>2, Zenon
  <1> HIDE DEF w
  <1>6. sess' = [sess EXCEPT ![s] = N] /\ wire' = OnlyLive(w, cp')
    BY Zenon DEF N, w
  <1>7. \A c \in Conns : ~Holds(N, c) /\ (\A t \in Sessions \ {s} : ~Holds(sess[t], c))
                            => Clear(w[c]) \/ c \notin Live(cp')
    BY <1>5, Zenon
  <1> QED BY <1>3, <1>4, <1>6, <1>7, HandlerTidy, Zenon

(* A handler that sends and reads nothing, when what it gives back is clear.  *)
LEMMA QuietTidy ==
    ASSUME IInv, IInv', Tidy, NEW s \in Sessions, NEW N,
           sess' = [sess EXCEPT ![s] = N], wire' = OnlyLive(wire, cp'),
           Orderly(wire, N, s),
           \A h \in Hostgroups : LET c == sess[s].mybes[h].mycpe
                                 IN  c # NoConn => N.mybes[h].mycpe = c \/ Clear(wire[c])
    PROVE  Tidy'
  <1>1. \A t \in Sessions \ {s} : Orderly(wire, sess[t], t)
    BY Zenon DEF Tidy
  <1>2. ASSUME NEW c \in Conns, ~Holds(N, c), \A t \in Sessions \ {s} : ~Holds(sess[t], c)
        PROVE  Clear(wire[c])
    <2>1. CASE Holds(sess[s], c)
      <3>1. c # NoConn
        BY PoolAssumption, Zenon
      <3> QED BY <1>2, <2>1, <3>1, Zenon DEF Holds
    <2>2. CASE ~Holds(sess[s], c)
      BY <1>2, <2>2, Zenon DEF Tidy
    <2> QED BY <2>1, <2>2, Zenon
  <1> QED BY <1>1, <1>2, HandlerTidy, Zenon

-----------------------------------------------------------------------------
(* The outcomes of handlers, by their fields.                                 *)
LEMMA CloseFields ==
    ASSUME NEW p, NEW w, NEW S, NEW s
    PROVE  /\ SessClose(p, w, S, s, FALSE).sess = NewSession("none")
           /\ SessClose(p, w, S, s, FALSE).cp = backend_reset(p, S, Hostgroups, FALSE).cp
           /\ SessClose(p, w, S, s, FALSE).wire =
                 OnlyLive(Orphan(w, s), SessClose(p, w, S, s, FALSE).cp)
  BY Zenon DEF SessClose, Outcome

LEMMA OutcomeFields ==
    ASSUME NEW p, NEW w, NEW S
    PROVE  /\ Outcome(p, w, S).sess = S /\ Outcome(p, w, S).cp = p
           /\ Outcome(p, w, S).wire = OnlyLive(w, p)
  BY Zenon DEF Outcome

LEMMA CloseStep ==
    ASSUME NEW s, NEW p, NEW S, Handle(s, {SessClose(p, wire, S, s, FALSE)})
    PROVE  /\ sess' = [sess EXCEPT ![s] = NewSession("none")]
           /\ wire' = OnlyLive(Orphan(wire, s), cp')
           /\ cp' = backend_reset(p, S, Hostgroups, FALSE).cp
  <1> DEFINE o == SessClose(p, wire, S, s, FALSE)
  <1>1. sess' = [sess EXCEPT ![s] = o.sess] /\ wire' = o.wire /\ cp' = o.cp
    BY Zenon DEF Handle
  <1>2. /\ o.sess = NewSession("none") /\ o.cp = backend_reset(p, S, Hostgroups, FALSE).cp
        /\ o.wire = OnlyLive(Orphan(wire, s), o.cp)
    BY CloseFields, Zenon
  <1> HIDE DEF o
  <1> QED BY <1>1, <1>2, Zenon

LEMMA OutcomeStep ==
    ASSUME NEW s, NEW w, NEW p, NEW N, Handle(s, {Outcome(p, w, N)})
    PROVE  sess' = [sess EXCEPT ![s] = N] /\ wire' = OnlyLive(w, cp') /\ cp' = p
  <1> DEFINE o == Outcome(p, w, N)
  <1>1. sess' = [sess EXCEPT ![s] = o.sess] /\ wire' = o.wire /\ cp' = o.cp
    BY Zenon DEF Handle
  <1>2. o.sess = N /\ o.cp = p /\ o.wire = OnlyLive(w, p)
    BY OutcomeFields, Zenon
  <1> HIDE DEF o
  <1> QED BY <1>1, <1>2, Zenon

LEMMA HandleOne ==
    ASSUME NEW s, NEW X, Handle(s, X)
    PROVE  \E o \in X : sess' = [sess EXCEPT ![s] = o.sess] /\ wire' = o.wire /\ cp' = o.cp
  BY Zenon DEF Handle

LEMMA HoldsNone ==
    ASSUME NEW state \in {"none", "auth"}
    PROVE  /\ \A h \in Hostgroups : NewSession(state).mybes[h].mycpe = NoConn
           /\ NewSession(state).pkt = NoPkt
  <1>1. NewSession(state).mybes = [h \in Hostgroups |-> NewBackend]
    BY ZenonT(40) DEF NewSession
  <1>2. \A h \in Hostgroups : NewSession(state).mybes[h].mycpe = NoConn
    BY <1>1 DEF NewBackend
  <1>3. NewSession(state).pkt = NoPkt
    BY Zenon DEF NewSession
  <1> QED BY <1>2, <1>3, Zenon

(* A session that has nothing may leave anything but connections.             *)
LEMMA StrangerHoldsNone ==
    ASSUME IInv, NEW s \in Sessions, sess[s].state # "ready"
    PROVE  \A h \in Hostgroups : sess[s].mybes[h].mycpe = NoConn
  <1>1. sess[s].mybes = [h \in Hostgroups |-> NewBackend]
    BY Zenon DEF IInv, SessionSound
  <1> QED BY <1>1 DEF NewBackend

LEMMA AcceptTidy ==
    ASSUME IInv, IInv', Tidy, NEW s \in Sessions, Accept(s)
    PROVE  Tidy'
  <1> DEFINE N == NewSession("auth")
  <1>1. sess' = [sess EXCEPT ![s] = N] /\ wire' = OnlyLive(wire, cp')
    BY OutcomeStep, Zenon DEF Accept
  <1>2. /\ \A h \in Hostgroups : N.mybes[h].mycpe = NoConn
        /\ N.pkt = NoPkt
    BY HoldsNone, Zenon
  <1>3. \A h \in Hostgroups : sess[s].mybes[h].mycpe = NoConn
    BY StrangerHoldsNone, Zenon DEF Accept
  <1> HIDE DEF N
  <1>4. Orderly(wire, N, s)
    BY <1>2, Zenon DEF Orderly
  <1> QED BY <1>1, <1>3, <1>4, QuietTidy, Zenon

LEMMA AuthenticationTidy ==
    ASSUME IInv, IInv', Tidy, NEW s \in Sessions, process_authentication_pkt(s)
    PROVE  Tidy'
  <1> DEFINE N(u, d) == LoggedIn(sess[s], u, d)
  <1>1. \A h \in Hostgroups : sess[s].mybes[h].mycpe = NoConn
    BY StrangerHoldsNone, Zenon DEF process_authentication_pkt
  <1>2. \/ /\ sess' = [sess EXCEPT ![s] = NewSession("none")]
           /\ wire' = OnlyLive(Orphan(wire, s), cp')
        \/ \E u \in Known, d \in Schemas \cup {NoSchema} :
              /\ sess' = [sess EXCEPT ![s] = N(u, d)]
              /\ wire' = OnlyLive(wire, cp')
    <2> DEFINE Y == {Outcome(cp, wire, N(u, d)) : u \in Known, d \in Schemas \cup {NoSchema}}
               X == {SessClose(cp, wire, sess[s], s, FALSE)} \cup Y
    <2>1. Handle(s, X)
      BY DEF process_authentication_pkt
    <2> HIDE DEF N
    <2>2. \A o \in Y : \E u \in Known, d \in Schemas \cup {NoSchema} : o = Outcome(cp, wire, N(u, d))
      OBVIOUS
    <2> HIDE DEF Y
    <2>3. \A o \in X : o = SessClose(cp, wire, sess[s], s, FALSE) \/ o \in Y
      BY Zenon
    <2> HIDE DEF X
    <2>4. PICK o \in X : sess' = [sess EXCEPT ![s] = o.sess] /\ wire' = o.wire /\ cp' = o.cp
      BY <2>1, HandleOne
    <2>5. CASE o = SessClose(cp, wire, sess[s], s, FALSE)
      <3>1. o.sess = NewSession("none") /\ o.wire = OnlyLive(Orphan(wire, s), o.cp)
        BY <2>5, CloseFields, Zenon
      <3> QED BY <2>4, <3>1, Zenon
    <2>6. ASSUME NEW u \in Known, NEW d \in Schemas \cup {NoSchema}, o = Outcome(cp, wire, N(u, d))
          PROVE  sess' = [sess EXCEPT ![s] = N(u, d)] /\ wire' = OnlyLive(wire, cp')
      <3>1. o.sess = N(u, d) /\ o.wire = OnlyLive(wire, o.cp)
        BY <2>6, OutcomeFields
      <3> QED BY <2>4, <3>1, Zenon
    <2>7. CASE o \in Y
      <3>1. PICK u \in Known, d \in Schemas \cup {NoSchema} : o = Outcome(cp, wire, N(u, d))
        BY <2>2, <2>7, Zenon
      <3> QED BY <2>6, <3>1, Zenon
    <2> QED BY <2>3, <2>4, <2>5, <2>7, ZenonT(40)
  <1>3. CASE /\ sess' = [sess EXCEPT ![s] = NewSession("none")]
             /\ wire' = OnlyLive(Orphan(wire, s), cp')
    BY <1>1, <1>3, CloseTidy, Zenon
  <1>4. ASSUME NEW u \in Known, NEW d \in Schemas \cup {NoSchema},
               sess' = [sess EXCEPT ![s] = N(u, d)], wire' = OnlyLive(wire, cp')
        PROVE  Tidy'
    <2>1. /\ N(u, d).mybes = sess[s].mybes /\ N(u, d).pkt = sess[s].pkt
          /\ N(u, d).waiting = sess[s].waiting
      <3>1. sess[s] \in SessionRec
        BY Zenon DEF IInv, TypeOK
      <3> QED BY <3>1, Zenon DEF LoggedIn, SessionRec
    <2> HIDE DEF N
    <2>2. Orderly(wire, N(u, d), s)
      BY <1>1, <2>1, Zenon DEF Orderly, Tidy
    <2> QED BY <1>1, <1>4, <2>2, QuietTidy, Zenon
  <1> QED BY <1>2, <1>3, <1>4, Zenon

(* A client that leaves waits for nothing.                                    *)
LEMMA ClientGoneTidy ==
    ASSUME IInv, IInv', Tidy, ClientsWait, NEW s \in Sessions, ClientGone(s)
    PROVE  Tidy'
  <1>1. sess' = [sess EXCEPT ![s] = NewSession("none")] /\ wire' = OnlyLive(Orphan(wire, s), cp')
    BY CloseStep, Zenon DEF ClientGone
  <1>2. ASSUME NEW h \in Hostgroups, sess[s].mybes[h].mycpe # NoConn
        PROVE  Clear(wire[sess[s].mybes[h].mycpe])
    <2>1. Work(wire[sess[s].mybes[h].mycpe], sess[s], s, h)
      BY <1>2, Zenon DEF Tidy, Orderly
    <2>2. ~sess[s].waiting
      BY Zenon DEF ClientGone
    <2> QED BY <2>1, <2>2, Zenon DEF Work, Clear
  <1> QED BY <1>1, <1>2, CloseTidy, Zenon

LEMMA ClientSendsTidy ==
    ASSUME IInv, IInv', Tidy, NEW s \in Sessions, ClientSends(s)
    PROVE  Tidy'
  <1>1. PICK pkt \in Packets : sess' = [sess EXCEPT ![s].pkt = pkt, ![s].waiting = TRUE]
    BY Zenon DEF ClientSends
  <1> DEFINE N == [sess[s] EXCEPT !.pkt = pkt, !.waiting = TRUE]
  <1>2. sess[s] \in SessionRec /\ sess' = [sess EXCEPT ![s] = N]
    BY <1>1, Zenon DEF IInv, TypeOK
  <1>3. N.mybes = sess[s].mybes /\ N.pkt = pkt /\ N.waiting = TRUE
    BY <1>2, Zenon DEF SessionRec
  <1> HIDE DEF N
  <1>4. wire' = OnlyLive(wire, cp')
    <2>1. wire' = wire /\ cp' = cp /\ wire \in [Conns -> WireRec]
      BY Zenon DEF ClientSends, IInv, TypeOK
    <2>2. \A c \in Conns : wire[c] = IF c \in Live(cp) THEN wire[c] ELSE IdleWire
      BY Zenon DEF IInv, WiresSound
    <2>3. wire = [c \in Conns |-> wire[c]]
      BY <2>1, Zenon
    <2>4. wire = OnlyLive(wire, cp)
      BY <2>2, <2>3, Zenon DEF OnlyLive
    <2> QED BY <2>1, <2>4, Zenon
  <1>5. ASSUME NEW h \in Hostgroups, sess[s].mybes[h].mycpe # NoConn
        PROVE  Work(wire[sess[s].mybes[h].mycpe], N, s, h)
    <2>1. Work(wire[sess[s].mybes[h].mycpe], sess[s], s, h)
      BY <1>5, Zenon DEF Tidy, Orderly
    <2>2. wire[sess[s].mybes[h].mycpe].asked = <<>>
      BY <2>1, Zenon DEF Work, ClientSends
    <2> QED BY <2>1, <2>2, Zenon DEF Work
  <1>6. Orderly(wire, N, s)
    BY <1>3, <1>5, Zenon DEF Orderly, Tidy
  <1> QED BY <1>2, <1>3, <1>4, <1>6, QuietTidy, Zenon

(* The connection whose break is noticed is closed, not pooled.               *)
LEMMA ShutCloses ==
    ASSUME NEW p, NEW S, NEW g \in Hostgroups, S.mybes[g].mycpe # NoConn, S.mybes[g].myds = "shut"
    PROVE  S.mybes[g].mycpe \notin Live(backend_reset(p, S, Hostgroups, FALSE).cp)
  <1> DEFINE H == BackendsWithConn(S, Hostgroups)
             given(h) == [mycpe |-> S.mybes[h].mycpe, ref |-> RefAtReset(S.mybes[h]),
                          force |-> ForceAtReset(S.mybes[h], FALSE)]
             D == {given(h) : h \in H}
             kept == {d \in D : Kept(p.conn[d.mycpe], d.force)}
             closed == {d.mycpe : d \in D \ kept}
             q == backend_reset(p, S, Hostgroups, FALSE).cp
  <1>1. g \in H
    BY Zenon DEF BackendsWithConn
  <1>2. given(g).mycpe = S.mybes[g].mycpe /\ given(g).force = TRUE
    BY Zenon DEF ForceAtReset
  <1>3. q = Detach(p, D)
    BY Zenon DEF backend_reset
  <1>4. given(g) \in D
    BY <1>1, Zenon
  <1> HIDE DEF given, q, D
  <1>5. q.conn = Keep(p.conn, Live(p) \ closed)
    BY <1>3, Zenon DEF Detach
  <1>6. given(g) \notin kept
    BY <1>2, Zenon DEF Kept
  <1>7. S.mybes[g].mycpe \in closed
    BY <1>2, <1>4, <1>6, Zenon
  <1> HIDE DEF closed
  <1>8. Live(q) \subseteq Live(p) \ closed
    BY <1>5, Zenon DEF Live, Keep
  <1>9. S.mybes[g].mycpe \notin Live(q)
    BY <1>7, <1>8, Zenon
  <1> QED BY <1>9, Zenon DEF q

LEMMA NetFailureTidy ==
    ASSUME IInv, IInv', Tidy, NEW s \in Sessions, NetFailure(s)
    PROVE  Tidy'
  <1> DEFINE B == sess[s].mybes
             g == sess[s].mybe
             b == [B[g] EXCEPT !.myds = "shut"]
             C == [B EXCEPT ![g] = b]
             N == [sess[s] EXCEPT !.mybes[g].myds = "shut"]
  <1>1. sess[s] \in SessionRec /\ g # NoHg /\ B[g].mycpe # NoConn
        /\ Handle(s, {SessClose(cp, wire, N, s, FALSE)})
    BY Zenon DEF NetFailure, PolledConn, IInv, TypeOK
  <1>2. g \in Hostgroups /\ B \in Backends /\ B[g] \in Backend
    BY <1>1, Zenon DEF SessionRec, Backends
  <1>3. b.mycpe = B[g].mycpe /\ b.myds = "shut"
    BY <1>2, Zenon DEF Backend
  <1>4. N = [sess[s] EXCEPT !.mybes = C]
    BY <1>1, Zenon
  <1> HIDE DEF b
  <1>5. C[g] = b
    BY <1>2, Zenon DEF Backends
  <1> HIDE DEF C, N
  <1>6. N.mybes = C
    BY <1>1, <1>4, Zenon DEF SessionRec
  <1>7. N.mybes[g].mycpe # NoConn /\ N.mybes[g].myds = "shut" /\ N.mybes[g].mycpe = B[g].mycpe
    BY <1>1, <1>3, <1>5, <1>6, Zenon
  <1>8. /\ sess' = [sess EXCEPT ![s] = NewSession("none")]
        /\ wire' = OnlyLive(Orphan(wire, s), cp')
        /\ cp' = backend_reset(cp, N, Hostgroups, FALSE).cp
    BY <1>1, CloseStep, Zenon
  <1>9. B[g].mycpe \notin Live(cp')
    BY <1>2, <1>7, <1>8, ShutCloses, Zenon
  <1>10. ASSUME NEW h \in Hostgroups, B[h].mycpe # NoConn, h # g
         PROVE  Clear(wire[B[h].mycpe])
    <2>1. Work(wire[B[h].mycpe], sess[s], s, h)
      BY <1>10, Zenon DEF Tidy, Orderly
    <2> QED BY <1>10, <2>1, Zenon DEF Work, Clear
  <1> QED BY <1>8, <1>9, <1>10, CloseTidy, Zenon

-----------------------------------------------------------------------------
(* A step of the server at the end of one connection.                         *)
LEMMA SameAskedTidy ==
    ASSUME IInv, Tidy, NEW c \in Conns, NEW x, x.asked = wire[c].asked,
           wire' = [wire EXCEPT ![c] = x], sess' = sess
    PROVE  Tidy'
  <1>1. wire'[c] = x /\ \A d \in Conns \ {c} : wire'[d] = wire[d]
    BY Zenon DEF IInv, TypeOK
  <1>2. ASSUME NEW s \in Sessions PROVE Orderly(wire', sess[s], s)
    <2>1. Orderly(wire, sess[s], s)
      BY Zenon DEF Tidy
    <2>2. ASSUME NEW h \in Hostgroups, sess[s].mybes[h].mycpe # NoConn
          PROVE  Work(wire'[sess[s].mybes[h].mycpe], sess[s], s, h)
      <3>1. sess[s].mybes[h].mycpe \in Conns
        BY <2>2, Zenon DEF IInv, Sound, BackendsSound, PoolType, Live
      <3>2. Work(wire[sess[s].mybes[h].mycpe], sess[s], s, h)
        BY <2>1, <2>2, Zenon DEF Orderly
      <3>3. wire'[sess[s].mybes[h].mycpe].asked = wire[sess[s].mybes[h].mycpe].asked
        BY <1>1, <3>1, Zenon
      <3> QED BY <3>2, <3>3, Zenon DEF Work
    <2> QED BY <2>1, <2>2, Zenon DEF Orderly
  <1>3. ASSUME NEW d \in Conns, \A s \in Sessions : ~Holds(sess[s], d) PROVE Clear(wire'[d])
    <2>1. Clear(wire[d])
      BY <1>3, Zenon DEF Tidy
    <2>2. wire'[d].asked = wire[d].asked
      BY <1>1, Zenon
    <2> QED BY <2>1, <2>2, Zenon DEF Clear
  <1>4. /\ \A s \in Sessions : Orderly(wire', sess'[s], s)
        /\ \A d \in Conns : (\A s \in Sessions : ~Holds(sess'[s], d)) => Clear(wire'[d])
    BY <1>2, <1>3, Zenon
  <1> QED BY <1>4, Zenon DEF Tidy, Orderly, Holds, Clear, Work

(* What the servers do asks nothing and takes nothing back.                   *)
LEMMA ServerRepliesTidy ==
    ASSUME IInv, Tidy, NEW c \in Conns, ServerReplies(c)
    PROVE  Tidy'
  <1>1. PICK r \in Replies, t \in {NoSession, wire[c].tx, Head(wire[c].asked)} :
           wire' = [wire EXCEPT ![c].reply = r, ![c].tx = t]
    BY Zenon DEF ServerReplies
  <1> DEFINE x == [wire[c] EXCEPT !.reply = r, !.tx = t]
  <1>2. wire \in [Conns -> WireRec] /\ wire[c] \in WireRec /\ sess' = sess
    BY Zenon DEF ServerReplies, IInv, TypeOK
  <1>3. wire' = [wire EXCEPT ![c] = x]
    BY <1>1, <1>2, Zenon
  <1>4. x.asked = wire[c].asked
    BY <1>2, Zenon DEF WireRec
  <1> HIDE DEF x
  <1> QED BY <1>2, <1>3, <1>4, SameAskedTidy, Zenon

LEMMA ServerHangsUpTidy ==
    ASSUME IInv, Tidy, NEW c \in Conns, ServerHangsUp(c)
    PROVE  Tidy'
  <1> DEFINE x == [IdleWire EXCEPT !.up = FALSE, !.asked = wire[c].asked]
  <1>1. x.asked = wire[c].asked
    BY Zenon DEF IdleWire
  <1>2. wire' = [wire EXCEPT ![c] = x] /\ sess' = sess
    BY Zenon DEF ServerHangsUp
  <1> HIDE DEF x
  <1> QED BY <1>1, <1>2, SameAskedTidy, Zenon

LEMMA SameTidy ==
    ASSUME Tidy, UNCHANGED <<sess, wire>>
    PROVE  Tidy'
  <1>1. sess' = sess /\ wire' = wire
    BY Zenon
  <1>2. /\ \A s \in Sessions : Orderly(wire', sess'[s], s)
        /\ \A c \in Conns : (\A s \in Sessions : ~Holds(sess'[s], c)) => Clear(wire'[c])
    BY <1>1, Zenon DEF Tidy
  <1> QED BY <1>2, Zenon DEF Tidy, Orderly, Holds, Clear, Work

-----------------------------------------------------------------------------
(* Sharing takes connections from backends and gives them none.               *)
LEMMA ReleaseFields ==
    ASSUME NEW p, NEW A \in SessionRec
    PROVE  \E N : /\ N = backend_detach(p, A, Hostgroups).sess
                  /\ N.pkt = A.pkt /\ N \in SessionRec
                  /\ \A h \in Hostgroups : N.mybes[h].mycpe \in {NoConn, A.mybes[h].mycpe}
  <1> DEFINE N == backend_detach(p, A, Hostgroups).sess
             D == Detachable(p, A, Hostgroups)
             left(h) == [A.mybes[h] EXCEPT !.ref = IF h \in Hostgroups THEN NoPool ELSE @,
                                           !.mycpe = IF h \in D THEN NoConn ELSE @]
             C == [h \in Hostgroups |-> left(h)]
  <1>1. N = [A EXCEPT !.mybes = C]
    BY Zenon DEF backend_detach
  <1>2. A.mybes \in Backends
    BY Zenon DEF SessionRec
  <1> HIDE DEF D, N
  <1>3. ASSUME NEW h \in Hostgroups
        PROVE  left(h).mycpe \in {NoConn, A.mybes[h].mycpe}
    <2>1. A.mybes[h] \in Backend
      BY <1>2, Zenon DEF Backends
    <2> DEFINE x == A.mybes[h]
               y == left(h)
    <2>2. y.mycpe = IF h \in D THEN NoConn ELSE x.mycpe
      BY <2>1 DEF Backend
    <2> QED BY <2>2, Zenon
  <1>4. \A h \in Hostgroups : C[h] = left(h)
    BY Zenon
  <1>9. C \in Backends
    BY <1>2, ZenonT(40) DEF Backends, Backend
  <1> HIDE DEF left, C
  <1>5. N.mybes = C /\ N.pkt = A.pkt
    BY <1>1, Zenon DEF SessionRec
  <1>6. N = backend_detach(p, A, Hostgroups).sess
    BY Zenon DEF N
  <1>7. \A h \in Hostgroups : N.mybes[h].mycpe \in {NoConn, A.mybes[h].mycpe}
    BY <1>3, <1>4, <1>5, Zenon
  <1>8. N \in SessionRec
    BY <1>1, <1>9, Zenon DEF SessionRec
  <1> QED BY <1>5, <1>6, <1>7, <1>8, Zenon

LEMMA TailOne == ASSUME NEW t PROVE Tail(<<t>>) = <<>>
  OBVIOUS

(* The answer has been read: nothing is asked any more on any connection the  *)
(* session has, whichever of them it gives back.                              *)
LEMMA ServerPacketTidy ==
    ASSUME IInv, IInv', Tidy, NEW s \in Sessions, ServerPacket(s)
    PROVE  Tidy'
  <1> DEFINE S == sess[s]
             g == S.mybe
             c == S.mybes[g].mycpe
             reply == wire[c].reply
             read == [wire EXCEPT ![c].asked = Tail(@), ![c].reply = "none"]
             released(A) == IF S.command = "QUERY" /\ wire[c].reply # "ERR" /\ ReleaseAll(A)
                            THEN backend_detach(cp, A, Hostgroups)
                            ELSE [cp |-> cp, sess |-> A]
  <1>1. /\ S \in SessionRec /\ g \in Hostgroups /\ c # NoConn /\ wire[c].up /\ reply # "none"
        /\ Handle(s, process_server_pkts(cp, wire, S))
    BY Zenon DEF ServerPacket, PolledConn, IInv, TypeOK, SessionRec
  <1>2. Work(wire[c], S, s, g) /\ \A h \in Hostgroups : S.mybes[h].mycpe # NoConn =>
                                       Work(wire[S.mybes[h].mycpe], S, s, h)
    BY <1>1, Zenon DEF Tidy, Orderly
  <1>3. c \in Conns /\ wire \in [Conns -> WireRec] /\ wire[c] \in WireRec /\ wire[c].asked # <<>>
    BY <1>1, Zenon DEF IInv, TypeOK, WiresSound, WiresFit, Sound, BackendsSound, PoolType, Live
  <1>4. wire[c].asked = <<s>> /\ S.pkt = NoPkt
    BY <1>2, <1>3, Zenon DEF Work
  <1>5. /\ read[c].asked = <<>>
        /\ \A d \in Conns \ {c} : read[d] = wire[d]
    <2> DEFINE a == Tail(wire[c].asked)
               x == [wire[c] EXCEPT !.asked = a, !.reply = "none"]
    <2>1. a = <<>>
      BY <1>4, TailOne, Zenon
    <2> HIDE DEF a
    <2>2. x.asked = a
      BY <1>3, Zenon DEF WireRec
    <2>3. read = [wire EXCEPT ![c] = x]
      BY <1>3, Zenon DEF a
    <2> HIDE DEF x, read
    <2>4. read[c] = x /\ \A d \in Conns : d # c => read[d] = wire[d]
      BY <1>3, <2>3, Zenon
    <2> QED BY <2>1, <2>2, <2>4, Zenon
  <1>6. PICK A \in LearnTransaction(S, reply, wire[c].tx) :
           /\ sess' = [sess EXCEPT ![s] = Answered(released(A).sess)]
           /\ wire' = OnlyLive(read, cp')
    <2> DEFINE X == process_server_pkts(cp, wire, S)
               out(A) == Outcome(released(A).cp, read, Answered(released(A).sess))
    <2>1. \A o \in X : \E A \in LearnTransaction(S, reply, wire[c].tx) : o = out(A)
      BY Zenon DEF process_server_pkts
    <2>2. \A A : /\ out(A).sess = Answered(released(A).sess) /\ out(A).cp = released(A).cp
                 /\ out(A).wire = OnlyLive(read, released(A).cp)
      <3> HIDE DEF released, read
      <3> QED BY OutcomeFields, Zenon
    <2>3. Handle(s, X)
      BY <1>1, Zenon
    <2> HIDE DEF X, out, released, read
    <2>4. PICK o \in X : sess' = [sess EXCEPT ![s] = o.sess] /\ wire' = o.wire /\ cp' = o.cp
      BY <2>3, HandleOne
    <2>5. PICK A \in LearnTransaction(S, reply, wire[c].tx) : o = out(A)
      BY <2>1, <2>4, Zenon
    <2> QED BY <2>2, <2>4, <2>5, Zenon
  <1>7. reply \in {"OK", "ERR", "COUNTS"}
    BY <1>1, <1>3, Zenon DEF WireRec
  <1>8. A \in SessionRec /\ A.pkt = S.pkt /\ \A h \in Hostgroups : A.mybes[h].mycpe = S.mybes[h].mycpe
    <2>1. \A x : \A r \in {"OK", "ERR", "COUNTS"} : A \in LearnTransaction(S, r, x) => Learnt(A, S)
      <3> HIDE DEF S, reply, c, read, released
      <3> QED BY <1>1, LearnSteps, Zenon
    <2> QED BY <1>6, <1>7, <2>1, Zenon DEF Learnt
  <1> DEFINE M == released(A).sess
             N == Answered(M)
             shared == S.command = "QUERY" /\ reply # "ERR" /\ ReleaseAll(A)
  <1>9. /\ M.pkt = A.pkt /\ M \in SessionRec
        /\ \A h \in Hostgroups : M.mybes[h].mycpe \in {NoConn, A.mybes[h].mycpe}
    <2>1. CASE shared
      <3>1. M = backend_detach(cp, A, Hostgroups).sess
        BY <2>1, Zenon
      <3> HIDE DEF M, shared
      <3>2. A \in SessionRec
        BY <1>8, Zenon
      <3>3. PICK Q : /\ Q = backend_detach(cp, A, Hostgroups).sess
                     /\ Q.pkt = A.pkt /\ Q \in SessionRec
                     /\ \A h \in Hostgroups : Q.mybes[h].mycpe \in {NoConn, A.mybes[h].mycpe}
        BY <3>2, ReleaseFields, Zenon
      <3>4. M = Q
        BY <3>1, <3>3, Zenon
      <3> QED BY <3>3, <3>4, Zenon
    <2>2. CASE ~shared
      <3>1. M = A
        BY <2>2, Zenon
      <3> HIDE DEF M
      <3> QED BY <1>8, <3>1, Zenon
    <2> QED BY <2>1, <2>2, Zenon
  <1> HIDE DEF M
  <1>10. N.mybes = M.mybes /\ N.pkt = NoPkt
    <2>1. N = [M EXCEPT !.waiting = FALSE]
      BY Zenon DEF Answered
    <2> QED BY <1>4, <1>8, <1>9, <2>1, Zenon DEF SessionRec
  <1>11. \A h \in Hostgroups : N.mybes[h].mycpe \in {NoConn, S.mybes[h].mycpe}
    <2> HIDE DEF N, S, released, read
    <2> QED BY <1>8, <1>9, <1>10, Zenon
  <1> HIDE DEF N, read, S, g, c, released
  <1>12. \A h \in Hostgroups : S.mybes[h].mycpe # NoConn => S.mybes[h].mycpe \in Conns
    BY Zenon DEF S, IInv, Sound, BackendsSound, PoolType, Live
  <1>13. ASSUME NEW h \in Hostgroups, S.mybes[h].mycpe # NoConn
         PROVE  read[S.mybes[h].mycpe].asked = <<>>
    <2>1. CASE S.mybes[h].mycpe = c
      BY <1>5, <2>1, Zenon
    <2>2. CASE S.mybes[h].mycpe # c
      <3>1. h # g
        BY <2>2, Zenon DEF c
      <3>2. wire[S.mybes[h].mycpe].asked = <<>>
        BY <1>2, <1>13, <3>1, Zenon DEF Work, g
      <3> QED BY <1>5, <1>12, <1>13, <2>2, <3>2, Zenon
    <2> QED BY <2>1, <2>2, Zenon
  <1>14. Orderly(read, N, s)
    BY <1>10, <1>11, <1>13, Zenon DEF Orderly, Work
  <1>15. ASSUME NEW d \in Conns, \A t \in Sessions \ {s} : ~Holds(sess[t], d)
         PROVE  Clear(read[d])
    <2>1. CASE Holds(S, d)
      <3>1. d # NoConn
        BY PoolAssumption, Zenon
      <3> QED BY <1>13, <2>1, <3>1, Zenon DEF Holds, Clear
    <2>2. CASE ~Holds(S, d)
      <3>1. d # c
        BY <1>1, <2>2, Zenon DEF Holds, c
      <3>2. Clear(wire[d])
        BY <1>15, <2>2, Zenon DEF Tidy, S
      <3> QED BY <1>5, <3>1, <3>2, Zenon
    <2> QED BY <2>1, <2>2, Zenon
  <1>16. ASSUME NEW t \in Sessions \ {s} PROVE Orderly(read, sess[t], t)
    <2>1. Orderly(wire, sess[t], t)
      BY Zenon DEF Tidy
    <2>2. ASSUME NEW h \in Hostgroups, sess[t].mybes[h].mycpe # NoConn
          PROVE  read[sess[t].mybes[h].mycpe] = wire[sess[t].mybes[h].mycpe]
      <3>1. sess[t].mybes[h].mycpe \in Conns
        BY <2>2, Zenon DEF IInv, Sound, BackendsSound, PoolType, Live
      <3>2. c \notin Others(s)
        BY <1>1, Zenon DEF IInv, Sound, BackendsSound, c, S
      <3>3. sess[t].mybes[h].mycpe # c
        BY <2>2, <3>2, OthersHold, Zenon
      <3> QED BY <1>5, <3>1, <3>3, Zenon
    <2> QED BY <2>1, <2>2, Zenon DEF Orderly
  <1>17. sess' = [sess EXCEPT ![s] = N] /\ wire' = OnlyLive(read, cp')
    BY <1>6, Zenon DEF N, M
  <1>18. \A d \in Conns : ~Holds(N, d) /\ (\A t \in Sessions \ {s} : ~Holds(sess[t], d))
                             => Clear(read[d]) \/ d \notin Live(cp')
    BY <1>15, Zenon
  <1> QED BY <1>14, <1>16, <1>17, <1>18, HandlerTidy, Zenon

-----------------------------------------------------------------------------
(* The command of session s goes out on the connection of backend h: wires w. *)
Sent(w, s, c) ==
    /\ w[c].asked = Append(wire[c].asked, s)
    /\ \A d \in Conns \ {c} : w[d] = wire[d]

(* The session after it, when it was S before: the backend has a connection,  *)
(* the one it had if it had one.                                              *)
Asking(N, S, h) ==
    /\ N.mybes[h].mycpe \in Conns
    /\ S.mybes[h].mycpe # NoConn => N.mybes[h] = S.mybes[h]
    /\ \A g \in Hostgroups \ {h} : N.mybes[g] = S.mybes[g]
    /\ N.mybe = h /\ N.pkt = S.pkt /\ N.waiting = S.waiting

WithBackend(S, h, be) == [S EXCEPT !.mybes[h] = be]

(* An outcome in which that has happened, on connection c.                    *)
GoneOut(o, S, s, h, c) ==
    /\ Asking(o.sess, S, h)
    /\ \E w : Sent(w, s, c) /\ o.wire = OnlyLive(w, o.cp)
    /\ o.sess.mybes[h].mycpe = c

LEMMA AskFields ==
    ASSUME Begun, NEW q, NEW S \in SessionRec, NEW B, NEW s \in Sessions, NEW pkt, pkt.hg \in Hostgroups,
           NEW be \in Backend, be.mycpe # NoConn, B = WithBackend(S, pkt.hg, be),
           S.mybes[pkt.hg].mycpe # NoConn => be = S.mybes[pkt.hg],
           NEW o, o = Ask(q, wire, B, s, pkt, be)
    PROVE  GoneOut(o, S, s, pkt.hg, be.mycpe)
  <1> DEFINE h == pkt.hg
             c == be.mycpe
             w == [wire EXCEPT ![c].asked = Append(@, s)]
             N == [B EXCEPT !.mybes[h] = be, !.mybe = h]
             A == [S.mybes EXCEPT ![h] = be]
  <1>1. o = Outcome(q, w, N)
    BY Zenon DEF Ask
  <1>2. S.mybes \in Backends /\ A \in Backends /\ A[h] = be
        /\ \A g \in Hostgroups \ {h} : A[g] = S.mybes[g]
    BY Zenon DEF SessionRec, Backends
  <1>3. B \in SessionRec /\ B.mybes = A /\ B.pkt = S.pkt /\ B.waiting = S.waiting
    <2>1. B = [S EXCEPT !.mybes = A]
      BY Zenon DEF SessionRec, WithBackend
    <2> HIDE DEF A
    <2> QED BY <1>2, <2>1, Zenon DEF SessionRec
  <1>4. N.mybes = A /\ N.mybe = h /\ N.pkt = S.pkt /\ N.waiting = S.waiting
    <2>1. [A EXCEPT ![h] = be] = A
      BY <1>2, Zenon DEF Backends
    <2>2. N = [B EXCEPT !.mybes = [A EXCEPT ![h] = be], !.mybe = h]
      BY <1>3, Zenon
    <2> HIDE DEF A, N
    <2> QED BY <1>3, <2>1, <2>2, Zenon DEF SessionRec
  <1>5. c \in Conns
    BY Zenon DEF Backend
  <1>6. Sent(w, s, c)
    <2> DEFINE a == Append(wire[c].asked, s)
               x == [wire[c] EXCEPT !.asked = a]
    <2>1. wire \in [Conns -> WireRec] /\ wire[c] \in WireRec
      BY <1>5, Zenon DEF Begun, TypeOK
    <2>2. w = [wire EXCEPT ![c] = x]
      BY <2>1, Zenon
    <2> HIDE DEF a
    <2>3. x.asked = a
      BY <2>1, Zenon DEF WireRec
    <2> HIDE DEF x, w
    <2>4. w[c] = x /\ \A d \in Conns \ {c} : w[d] = wire[d]
      BY <1>5, <2>1, <2>2, Zenon
    <2> QED BY <2>3, <2>4, Zenon DEF Sent, a
  <1> HIDE DEF w, N, A
  <1>7. o.sess = N /\ o.wire = OnlyLive(w, o.cp)
    <2>1. /\ Outcome(q, w, N).sess = N /\ Outcome(q, w, N).cp = q
          /\ Outcome(q, w, N).wire = OnlyLive(w, q)
      BY OutcomeFields, Zenon
    <2> QED BY <1>1, <2>1, Zenon
  <1>8. Asking(N, S, h)
    BY <1>2, <1>4, <1>5, Zenon DEF Asking
  <1>9. o.sess.mybes[h].mycpe = c
    BY <1>2, <1>4, <1>7, Zenon
  <1> QED BY <1>6, <1>7, <1>8, <1>9, Zenon DEF GoneOut

LEMMA ForwardCases ==
    ASSUME NEW S, NEW O, Ready(S, O), Begun, NEW s \in Sessions,
           NEW pkt, pkt.hg \in Hostgroups, NEW o \in Forward(cp, wire, S, s, pkt)
    PROVE  \/ o.sess = NewSession("none") /\ o.wire = OnlyLive(Orphan(wire, s), o.cp)
           \/ /\ Asking(o.sess, S, pkt.hg)
              /\ \E w : Sent(w, s, o.sess.mybes[pkt.hg].mycpe) /\ o.wire = OnlyLive(w, o.cp)
  <1> DEFINE B(r) == [S EXCEPT !.mybes[pkt.hg] = r.be]
             q(r) == MarkNotReusable(r.cp, r.be, pkt)
  <1>1. PICK r : /\ Serving(r, S, O, pkt.hg)
                 /\ r.be.mycpe = NoConn => o = SessClose(q(r), wire, B(r), s, FALSE)
                 /\ r.be.mycpe # NoConn => o \in ByStatus(q(r), wire, S, s, pkt, r.be)
    BY ForwardServes, Zenon
  <1>2. S \in SessionRec
    BY Zenon DEF Ready
  <1>3. CASE r.be.mycpe = NoConn
    <2>1. o = SessClose(q(r), wire, B(r), s, FALSE)
      BY <1>1, <1>3, Zenon
    <2> HIDE DEF q, B
    <2>2. o.sess = NewSession("none") /\ o.wire = OnlyLive(Orphan(wire, s), o.cp)
      BY <2>1, CloseFields, Zenon
    <2> QED BY <2>2, Zenon
  <1>4. CASE r.be.mycpe # NoConn
    <2>1. ByStatus(q(r), wire, S, s, pkt, r.be) = {Ask(q(r), wire, B(r), s, pkt, r.be)}
      <3>1. status[r.be.mshge] = "ONLINE"
        BY <1>1, Zenon DEF Begun, AllOnline, Serving
      <3> QED BY <3>1, Zenon DEF ByStatus
    <2>2. o = Ask(q(r), wire, B(r), s, pkt, r.be)
      BY <1>1, <1>4, <2>1, Zenon
    <2>3. PICK be \in Backend : be = r.be /\ (S.mybes[pkt.hg].mycpe # NoConn => be = S.mybes[pkt.hg])
      BY <1>1, Zenon DEF Serving
    <2>4. PICK C, p : C = WithBackend(S, pkt.hg, be) /\ o = Ask(p, wire, C, s, pkt, be)
      BY <2>2, <2>3, ZenonT(40) DEF WithBackend
    <2> HIDE DEF q, B
    <2>5. GoneOut(o, S, s, pkt.hg, be.mycpe)
      <3>1. be.mycpe # NoConn
        BY <1>4, <2>3, Zenon
      <3> QED BY <1>2, <2>3, <2>4, <3>1, AskFields, ZenonT(40)
    <2> QED BY <2>5, Zenon DEF GoneOut
  <1> QED BY <1>3, <1>4, Zenon

LEMMA AppendOne == ASSUME NEW t PROVE Append(<<>>, t) = <<t>>
  OBVIOUS

(* A command goes out on a connection that nothing is asked on, the           *)
(* backend's own or one that nobody held.                                     *)
LEMMA AskTidy ==
    ASSUME IInv, IInv', Tidy, NEW s \in Sessions, NEW h \in Hostgroups, NEW S,
           S.mybes = sess[s].mybes, S.pkt = NoPkt, S.waiting,
           \A g \in Hostgroups : S.mybes[g].mycpe # NoConn => wire[S.mybes[g].mycpe].asked = <<>>,
           NEW N, Asking(N, S, h), NEW w, Sent(w, s, N.mybes[h].mycpe),
           sess' = [sess EXCEPT ![s] = N], wire' = OnlyLive(w, cp')
    PROVE  Tidy'
  <1> DEFINE c == N.mybes[h].mycpe
  <1>1. sess'[s] = N /\ \A t \in Sessions \ {s} : sess'[t] = sess[t]
    BY Zenon DEF IInv, TypeOK
  <1>2. c \in Conns /\ c # NoConn /\ wire \in [Conns -> WireRec]
    BY PoolAssumption, Zenon DEF Asking, IInv, TypeOK
  <1>3. \A g \in Hostgroups \ {h} : N.mybes[g] = S.mybes[g] /\ N.mybes[g].mycpe # c
    <2>1. BackendsSound(cp', sess'[s].mybes, Others(s)')
      BY Zenon DEF IInv, Sound
    <2>2. \A g \in Hostgroups : N.mybes[g].mycpe = c => g = h
      BY <1>1, <1>2, <2>1, ZenonT(40) DEF BackendsSound
    <2> QED BY <2>2, Zenon DEF Asking
  <1>4. ASSUME NEW t \in Sessions \ {s} PROVE ~Holds(sess[t], c)
    <2>1. BackendsSound(cp', sess'[s].mybes, Others(s)')
      BY Zenon DEF IInv, Sound
    <2>2. c \notin Others(s)'
      BY <1>1, <1>2, <2>1, Zenon DEF BackendsSound
    <2>3. ASSUME NEW g \in Hostgroups, sess'[t].mybes[g].mycpe = c PROVE c \in Others(s)'
      <3> DEFINE H(u, k) == {sess'[u].mybes[k].mycpe} \ {NoConn}
      <3>1. Others(s)' = UNION {H(u, k) : u \in Sessions \ {s}, k \in Hostgroups}
        BY DEF Others, Held
      <3>2. c \in H(t, g)
        BY <1>2, <2>3, Zenon
      <3> HIDE DEF H
      <3> QED BY <3>1, <3>2
    <2> QED BY <1>1, <2>2, <2>3, Zenon DEF Holds
  <1>5. \A g \in Hostgroups : S.mybes[g].mycpe # NoConn =>
            S.mybes[g].mycpe \in Conns /\ wire[S.mybes[g].mycpe].asked = <<>>
    BY Zenon DEF IInv, Sound, BackendsSound, PoolType, Live
  <1> HIDE DEF c
  <1>6. /\ w[c].asked = Append(wire[c].asked, s)
        /\ \A d \in Conns \ {c} : w[d] = wire[d]
    BY Zenon DEF Sent, c
  <1>7. N.mybe = h /\ N.pkt = NoPkt /\ N.waiting
    BY Zenon DEF Asking
  <1>8. wire[c].asked = <<>>
    <2>1. CASE S.mybes[h].mycpe # NoConn
      <3>1. N.mybes[h] = S.mybes[h] /\ S.mybes[h].mycpe = c
        BY <2>1, Zenon DEF Asking, c
      <3> QED BY <1>5, <2>1, <3>1, Zenon
    <2>2. CASE S.mybes[h].mycpe = NoConn
      <3>1. ~Holds(sess[s], c)
        BY <1>2, <1>3, <2>2, Zenon DEF Holds
      <3>2. Clear(wire[c])
        BY <1>2, <1>4, <3>1, Zenon DEF Tidy
      <3> QED BY <3>2, Zenon DEF Clear
    <2> QED BY <2>1, <2>2, Zenon
  <1>9. w[c].asked = <<s>>
    BY <1>6, <1>8, AppendOne, Zenon
  <1>10. ASSUME NEW g \in Hostgroups, N.mybes[g].mycpe # NoConn
         PROVE  Work(w[N.mybes[g].mycpe], N, s, g)
    <2>1. CASE g = h
      BY <1>7, <1>9, <2>1, Zenon DEF Work, c
    <2>2. CASE g # h
      <3>1. N.mybes[g] = S.mybes[g] /\ N.mybes[g].mycpe # c
        BY <1>3, <2>2, Zenon
      <3>2. /\ w[N.mybes[g].mycpe] = wire[N.mybes[g].mycpe]
            /\ wire[N.mybes[g].mycpe].asked = <<>>
        BY <1>5, <1>6, <1>10, <3>1, Zenon
      <3> QED BY <3>2, Zenon DEF Work
    <2> QED BY <2>1, <2>2, Zenon
  <1>11. Orderly(w, N, s)
    BY <1>7, <1>10, Zenon DEF Orderly
  <1>12. ASSUME NEW t \in Sessions \ {s} PROVE Orderly(w, sess[t], t)
    <2>1. Orderly(wire, sess[t], t)
      BY Zenon DEF Tidy
    <2>2. ASSUME NEW g \in Hostgroups, sess[t].mybes[g].mycpe # NoConn
          PROVE  w[sess[t].mybes[g].mycpe] = wire[sess[t].mybes[g].mycpe]
      <3>1. sess[t].mybes[g].mycpe \in Conns
        BY <2>2, Zenon DEF IInv, Sound, BackendsSound, PoolType, Live
      <3> QED BY <1>4, <1>6, <3>1, Zenon DEF Holds
    <2> QED BY <2>1, <2>2, Zenon DEF Orderly
  <1>13. ASSUME NEW d \in Conns, ~Holds(N, d), \A t \in Sessions \ {s} : ~Holds(sess[t], d)
         PROVE  Clear(w[d])
    <2>1. d # c
      BY <1>13, Zenon DEF Holds, c
    <2>2. ~Holds(sess[s], d)
      <3>1. \A g \in Hostgroups : S.mybes[g].mycpe = d => N.mybes[g] = S.mybes[g]
        BY <1>3, PoolAssumption, ZenonT(40) DEF Asking
      <3> QED BY <1>13, <3>1, Zenon DEF Holds
    <2>3. Clear(wire[d])
      BY <1>13, <2>2, Zenon DEF Tidy
    <2> QED BY <1>6, <2>1, <2>3, Zenon
  <1>14. \A d \in Conns : ~Holds(N, d) /\ (\A t \in Sessions \ {s} : ~Holds(sess[t], d))
                             => Clear(w[d]) \/ d \notin Live(cp')
    BY <1>13, Zenon
  <1> QED BY <1>11, <1>12, <1>14, HandlerTidy, Zenon

(* client_COM_INIT_DB and client_COM_CHANGE_USER keep every backend or none.  *)
LEMMA InitDBFields ==
    ASSUME NEW S \in SessionRec, NEW O, Begun, Sound(cp, S.mybes, O), Progress(cp, O), S.pkt = NoPkt,
           NEW pkt, NEW o \in client_COM_INIT_DB(cp, wire, S, pkt)
    PROVE  /\ o.wire = OnlyLive(wire, o.cp) /\ o.sess.pkt = NoPkt
           /\ o.sess.mybes = S.mybes \/ \A h \in Hostgroups : o.sess.mybes[h].mycpe = NoConn
  <1> DEFINE r == ResetAll(cp, S)
             A == [h \in Hostgroups |-> NewBackend]
             N == Answered([r.sess EXCEPT !.schema = pkt.schema])
             K == Answered(S)
  <1>1. CASE SameSchema(S, pkt)
    <2>1. o = Outcome(cp, wire, K)
      BY <1>1, Zenon DEF client_COM_INIT_DB
    <2>2. K.mybes = S.mybes /\ K.pkt = NoPkt
      BY Zenon DEF Answered, SessionRec
    <2> HIDE DEF K
    <2>3. o.sess = K /\ o.wire = OnlyLive(wire, o.cp)
      BY <2>1, OutcomeFields
    <2> QED BY <2>2, <2>3, Zenon
  <1>2. CASE ~SameSchema(S, pkt)
    <2>1. o = Outcome(r.cp, wire, N)
      BY <1>2, Zenon DEF client_COM_INIT_DB
    <2>2. r.sess = [S EXCEPT !.mybes = A, !.mybe = NoHg]
      BY ResetAllGood, Zenon
    <2>3. \A h \in Hostgroups : A[h].mycpe = NoConn
      BY DEF NewBackend
    <2> HIDE DEF r, A
    <2>4. N.mybes = A /\ N.pkt = NoPkt
      BY <2>2, Zenon DEF Answered, SessionRec
    <2> HIDE DEF N
    <2>5. o.sess = N /\ o.wire = OnlyLive(wire, o.cp)
      BY <2>1, OutcomeFields
    <2> QED BY <2>3, <2>4, <2>5, Zenon
  <1> QED BY <1>1, <1>2, Zenon

LEMMA ChangeUserFields ==
    ASSUME NEW S \in SessionRec, NEW O, Begun, Sound(cp, S.mybes, O), Progress(cp, O), S.pkt = NoPkt,
           NEW o \in client_COM_CHANGE_USER(cp, wire, S)
    PROVE  /\ o.wire = OnlyLive(wire, o.cp) /\ o.sess.pkt = NoPkt
           /\ \A h \in Hostgroups : o.sess.mybes[h].mycpe = NoConn
  <1> DEFINE r == ResetAll(cp, S)
             A == [h \in Hostgroups |-> NewBackend]
             N(n) == Answered([r.sess EXCEPT !.user = n.user, !.schema = n.schema, !.change_user = TRUE])
  <1>1. PICK n \in NamesAfterFree : o = Outcome(r.cp, wire, N(n))
    BY Zenon DEF client_COM_CHANGE_USER
  <1>2. r.sess = [S EXCEPT !.mybes = A, !.mybe = NoHg]
    BY ResetAllGood, Zenon
  <1>3. \A h \in Hostgroups : A[h].mycpe = NoConn
    BY DEF NewBackend
  <1> HIDE DEF r, A
  <1>4. N(n).mybes = A /\ N(n).pkt = NoPkt
    BY <1>2, Zenon DEF Answered, SessionRec
  <1> HIDE DEF N
  <1>5. o.sess = N(n) /\ o.wire = OnlyLive(wire, o.cp)
    BY <1>1, OutcomeFields
  <1> QED BY <1>3, <1>4, <1>5, Zenon

(* A command that is answered without a server: the session keeps every       *)
(* backend, or gives all of them back.                                        *)
LEMMA AnsweredTidy ==
    ASSUME IInv, IInv', Tidy, NEW s \in Sessions, NEW N,
           sess' = [sess EXCEPT ![s] = N], wire' = OnlyLive(wire, cp'), N.pkt = NoPkt,
           \A h \in Hostgroups : LET c == sess[s].mybes[h].mycpe IN c # NoConn => Clear(wire[c]),
           N.mybes = sess[s].mybes \/ \A h \in Hostgroups : N.mybes[h].mycpe = NoConn
    PROVE  Tidy'
  <1>1. Orderly(wire, N, s)
    BY Zenon DEF Orderly, Work, Clear
  <1> QED BY <1>1, QuietTidy, Zenon

LEMMA AuthFields ==
    ASSUME NEW S \in SessionRec, NEW s \in Sessions, S.pkt = NoPkt, NEW pkt,
           NEW o \in AuthSwitchResponse(cp, wire, S, s, pkt)
    PROVE  \/ o.sess = NewSession("none") /\ o.wire = OnlyLive(Orphan(wire, s), o.cp)
           \/ o.sess.mybes = S.mybes /\ o.sess.pkt = NoPkt /\ o.wire = OnlyLive(wire, o.cp)
  <1> DEFINE N == Answered([S EXCEPT !.pass = PasswordOf[S.user], !.change_user = FALSE])
  <1>1. o = Outcome(cp, wire, N) \/ o = SessClose(cp, wire, S, s, FALSE)
    BY Zenon DEF AuthSwitchResponse
  <1>2. N.mybes = S.mybes /\ N.pkt = NoPkt
    BY Zenon DEF Answered, SessionRec
  <1> HIDE DEF N
  <1>3. CASE o = Outcome(cp, wire, N)
    <2>1. o.sess = N /\ o.wire = OnlyLive(wire, o.cp)
      BY <1>3, OutcomeFields
    <2> QED BY <1>2, <2>1, Zenon
  <1>4. CASE o = SessClose(cp, wire, S, s, FALSE)
    <2>1. o.sess = NewSession("none") /\ o.wire = OnlyLive(Orphan(wire, s), o.cp)
      BY <1>4, CloseFields, Zenon
    <2> QED BY <2>1, Zenon
  <1> QED BY <1>1, <1>3, <1>4, Zenon

(* A client's packet finds nothing asked on the session's connections.        *)
LEMMA ClientPacketTidy ==
    ASSUME IInv, IInv', Tidy, NEW s \in Sessions, ClientPacket(s)
    PROVE  Tidy'
  <1> DEFINE T == sess[s]
             pkt == T.pkt
             S == [T EXCEPT !.pkt = NoPkt, !.command = pkt.com]
             X == process_client_pkts(cp, wire, T, s)
             kept(h) == T.mybes[h].mycpe
  <1>1. /\ T \in SessionRec /\ Begun /\ Sound(cp, T.mybes, Others(s)) /\ Progress(cp, Others(s))
        /\ SessionSound(T) /\ Matching(cp, T.mybes, T.user, T.pass, T.schema)
    BY HandlerBegins, Zenon
  <1>2. T.state = "ready" /\ pkt # NoPkt /\ pkt \in Packets /\ Handle(s, X)
    BY <1>1, Zenon DEF ClientPacket, SessionRec
  <1>3. /\ pkt.com \in Commands
        /\ pkt.com \in {"QUERY", "STMT", "OTHER"} => pkt.hg \in Hostgroups
        /\ pkt.com \in {"QUIT", "INIT_DB", "CHANGE_USER", "AUTH", "QUERY", "STMT", "OTHER"}
    BY <1>2, PacketFields, Zenon
  <1>4. /\ S \in SessionRec /\ S.mybes = T.mybes /\ S.user = T.user /\ S.pass = T.pass
        /\ S.schema = T.schema /\ S.state = "ready" /\ S.pkt = NoPkt /\ S.waiting = T.waiting
    BY <1>1, <1>2, <1>3, Zenon DEF SessionRec
  <1>5. \A o \in X : \/ o = SessClose(cp, wire, S, s, FALSE)
                     \/ o \in client_COM_INIT_DB(cp, wire, S, pkt)
                     \/ o \in client_COM_CHANGE_USER(cp, wire, S)
                     \/ o \in AuthSwitchResponse(cp, wire, S, s, pkt)
                     \/ o = Outcome(cp, wire, Answered(S))
                     \/ pkt.com \in {"QUERY", "STMT", "OTHER"} /\ o \in Forward(cp, wire, S, s, pkt)
    BY <1>3, Zenon DEF process_client_pkts
  <1>6. T.waiting /\ \A h \in Hostgroups : kept(h) # NoConn => Work(wire[kept(h)], T, s, h)
    BY <1>2, Zenon DEF Tidy, Orderly
  <1>7. \A h \in Hostgroups : kept(h) # NoConn => Clear(wire[kept(h)])
    BY <1>2, <1>6, Zenon DEF Work, Clear
  <1> HIDE DEF S, pkt, X
  <1>8. PICK o \in X : sess' = [sess EXCEPT ![s] = o.sess] /\ wire' = o.wire /\ cp' = o.cp
    BY <1>2, HandleOne
  <1>9. Sound(cp, S.mybes, Others(s)) /\ Ready(S, Others(s))
    <2>1. SessionSound(S)
      BY <1>1, <1>2, <1>4, Zenon DEF SessionSound
    <2> QED BY <1>1, <1>4, <2>1, Zenon DEF Ready
  <1>10. ASSUME o.sess = NewSession("none"), o.wire = OnlyLive(Orphan(wire, s), o.cp)
         PROVE  Tidy'
    <2>1. sess' = [sess EXCEPT ![s] = NewSession("none")] /\ wire' = OnlyLive(Orphan(wire, s), cp')
      BY <1>8, <1>10, Zenon
    <2> QED BY <1>7, <2>1, CloseTidy, Zenon
  <1>11. ASSUME o.wire = OnlyLive(wire, o.cp), o.sess.pkt = NoPkt,
                o.sess.mybes = S.mybes \/ \A h \in Hostgroups : o.sess.mybes[h].mycpe = NoConn
         PROVE  Tidy'
    <2>1. PICK N : N = o.sess /\ sess' = [sess EXCEPT ![s] = N] /\ wire' = OnlyLive(wire, cp')
      BY <1>8, <1>11, Zenon
    <2> QED BY <1>4, <1>7, <1>11, <2>1, AnsweredTidy, Zenon
  <1>12. CASE o = SessClose(cp, wire, S, s, FALSE)
    <2>1. o.sess = NewSession("none") /\ o.wire = OnlyLive(Orphan(wire, s), o.cp)
      BY <1>12, CloseFields, Zenon
    <2> QED BY <1>10, <2>1, Zenon
  <1>13. CASE o \in client_COM_INIT_DB(cp, wire, S, pkt)
    <2>1. /\ o.wire = OnlyLive(wire, o.cp) /\ o.sess.pkt = NoPkt
          /\ o.sess.mybes = S.mybes \/ \A h \in Hostgroups : o.sess.mybes[h].mycpe = NoConn
      BY <1>1, <1>4, <1>9, <1>13, InitDBFields, ZenonT(40)
    <2> QED BY <1>11, <2>1, Zenon
  <1>14. CASE o \in client_COM_CHANGE_USER(cp, wire, S)
    <2>1. /\ o.wire = OnlyLive(wire, o.cp) /\ o.sess.pkt = NoPkt
          /\ \A h \in Hostgroups : o.sess.mybes[h].mycpe = NoConn
      BY <1>1, <1>4, <1>9, <1>14, ChangeUserFields, ZenonT(40)
    <2> QED BY <1>11, <2>1, Zenon
  <1>15. CASE o \in AuthSwitchResponse(cp, wire, S, s, pkt)
    <2>1. \/ o.sess = NewSession("none") /\ o.wire = OnlyLive(Orphan(wire, s), o.cp)
          \/ o.sess.mybes = S.mybes /\ o.sess.pkt = NoPkt /\ o.wire = OnlyLive(wire, o.cp)
      BY <1>4, <1>15, AuthFields, Zenon
    <2> QED BY <1>10, <1>11, <2>1, Zenon
  <1>16. CASE o = Outcome(cp, wire, Answered(S))
    <2> DEFINE N == Answered(S)
    <2>1. N.mybes = S.mybes /\ N.pkt = NoPkt
      BY <1>4, Zenon DEF Answered, SessionRec
    <2>2. o = Outcome(cp, wire, N)
      BY <1>16, Zenon
    <2> HIDE DEF N
    <2>3. o.sess = N /\ o.wire = OnlyLive(wire, o.cp)
      BY <2>2, OutcomeFields
    <2> QED BY <1>11, <2>1, <2>3, Zenon
  <1>17. CASE pkt.com \in {"QUERY", "STMT", "OTHER"} /\ o \in Forward(cp, wire, S, s, pkt)
    <2>1. pkt.hg \in Hostgroups
      BY <1>3, <1>17, Zenon
    <2>2. \/ o.sess = NewSession("none") /\ o.wire = OnlyLive(Orphan(wire, s), o.cp)
          \/ /\ Asking(o.sess, S, pkt.hg)
             /\ \E w : Sent(w, s, o.sess.mybes[pkt.hg].mycpe) /\ o.wire = OnlyLive(w, o.cp)
      BY <1>1, <1>9, <1>17, <2>1, ForwardCases, ZenonT(40)
    <2>3. ASSUME Asking(o.sess, S, pkt.hg),
                 NEW w, Sent(w, s, o.sess.mybes[pkt.hg].mycpe), o.wire = OnlyLive(w, o.cp)
          PROVE  Tidy'
      <3>1. PICK M : M = o.sess /\ sess' = [sess EXCEPT ![s] = M] /\ wire' = OnlyLive(w, cp')
        BY <1>8, <2>3, Zenon
      <3>2. PICK h \in Hostgroups : h = pkt.hg
        BY <2>1, Zenon
      <3>3. /\ S.mybes = sess[s].mybes /\ S.pkt = NoPkt /\ S.waiting
            /\ \A g \in Hostgroups : S.mybes[g].mycpe # NoConn => wire[S.mybes[g].mycpe].asked = <<>>
        BY <1>4, <1>6, <1>7, Zenon DEF Clear
      <3>4. Asking(M, S, h) /\ Sent(w, s, M.mybes[h].mycpe)
        BY <2>3, <3>1, <3>2, Zenon
      <3> HIDE DEF T, kept
      <3> QED BY <3>1, <3>3, <3>4, AskTidy, Zenon
    <2> QED BY <1>10, <2>2, <2>3, ZenonT(40)
  <1> QED BY <1>5, <1>8, <1>12, <1>13, <1>14, <1>15, <1>16, <1>17, Zenon

-----------------------------------------------------------------------------
LEMMA InitTidy ==
    ASSUME Init
    PROVE  Tidy
  <1>1. ASSUME NEW s \in Sessions PROVE Orderly(wire, sess[s], s)
    <2>1. sess[s] = NewSession("none")
      BY Zenon DEF Init
    <2>2. /\ \A h \in Hostgroups : NewSession("none").mybes[h].mycpe = NoConn
          /\ NewSession("none").pkt = NoPkt
      BY HoldsNone, Zenon
    <2> QED BY <2>1, <2>2, Zenon DEF Orderly
  <1>2. ASSUME NEW c \in Conns PROVE Clear(wire[c])
    BY Zenon DEF Init, Clear, IdleWire
  <1> QED BY <1>1, <1>2, Zenon DEF Tidy

LEMMA StepTidy ==
    ASSUME ClientsWait, IInv, Tidy, [Next]_vars
    PROVE  Tidy'
  <1>1. IInv'
    BY StepKeeps, Zenon
  <1>2. CASE UNCHANGED vars
    BY <1>2, SameTidy, Zenon DEF vars
  <1>3. ASSUME NEW s \in Sessions, Accept(s) PROVE Tidy'
    BY <1>1, <1>3, AcceptTidy, Zenon
  <1>4. ASSUME NEW s \in Sessions, process_authentication_pkt(s) PROVE Tidy'
    BY <1>1, <1>4, AuthenticationTidy, Zenon
  <1>5. ASSUME NEW s \in Sessions, ClientSends(s) PROVE Tidy'
    BY <1>1, <1>5, ClientSendsTidy, Zenon
  <1>6. ASSUME NEW s \in Sessions, ClientGone(s) PROVE Tidy'
    BY <1>1, <1>6, ClientGoneTidy, ZenonT(40)
  <1>7. ASSUME NEW s \in Sessions, ClientPacket(s) PROVE Tidy'
    BY <1>1, <1>7, ClientPacketTidy, Zenon
  <1>8. ASSUME NEW s \in Sessions, ServerPacket(s) PROVE Tidy'
    BY <1>1, <1>8, ServerPacketTidy, Zenon
  <1>9. ASSUME NEW s \in Sessions, NetFailure(s) PROVE Tidy'
    BY <1>1, <1>9, NetFailureTidy, Zenon
  <1>10. ASSUME NEW c \in Conns, ServerReplies(c) PROVE Tidy'
    BY <1>10, ServerRepliesTidy, Zenon
  <1>11. ASSUME NEW c \in Conns, ServerHangsUp(c) PROVE Tidy'
    BY <1>11, ServerHangsUpTidy, Zenon
  <1>12. CASE Clock
    BY <1>12, SameTidy, Zenon DEF Clock
  <1> QED BY <1>2, <1>3, <1>4, <1>5, <1>6, <1>7, <1>8, <1>9, <1>10, <1>11, <1>12, ZenonT(40) DEF Next

(* Clients that wait for their answers leave no command unanswered on a       *)
(* connection that no session has, whichever handler gave it back, and a      *)
(* session that keeps one has at most its own command on it.                  *)
THEOREM TidyInductive == ASSUME ClientsWait PROVE Spec => []Tidy
  <1>1. Init => Tidy
    BY InitTidy, Zenon
  <1>2. IInv /\ Tidy /\ [Next]_vars => Tidy'
    BY StepTidy, Zenon
  <1> QED BY <1>1, <1>2, SessionInductive, PTL DEF Spec

(* session_handler shuts a data stream that breaks and sess_close then closes *)
(* its connection, so a connection that broke before the server answered is   *)
(* never in a pool, for any hostgroups and commands, when clients wait for    *)
(* their answers.                                                             *)
THEOREM BrokenNeverPooled == ASSUME ClientsWait PROVE Spec => []BrokenIsClosed
  <1>1. IInv /\ Tidy => BrokenIsClosed
    <2> SUFFICES ASSUME IInv, Tidy, NEW c \in Pooled(cp) PROVE wire[c].asked = <<>>
      BY Zenon DEF BrokenIsClosed
    <2>1. PICK k \in PoolKeys : c \in cp.pool[k]
      BY Zenon DEF Pooled
    <2>2. ASSUME NEW s \in Sessions PROVE ~Holds(sess[s], c) /\ c \in Conns
      <3>1. Sound(cp, sess[s].mybes, Others(s))
        BY Zenon DEF IInv
      <3>2. c \in Live(cp)
        BY <2>1, <3>1, Zenon DEF Sound, PoolsSound
      <3>3. c \in Conns
        BY <3>1, <3>2, Zenon DEF Sound, PoolType, Live
      <3>4. c # NoConn
        BY <3>3, PoolAssumption, Zenon
      <3>5. BackendsSound(cp, sess[s].mybes, Others(s))
        BY <3>1, Zenon DEF Sound
      <3>6. \A h \in Hostgroups : sess[s].mybes[h].mycpe # c
        BY <2>1, <3>4, <3>5, ZenonT(40) DEF BackendsSound
      <3> QED BY <3>3, <3>6, Zenon DEF Holds
    <2>3. Clear(wire[c])
      BY <2>2, SessionAssumption, Zenon DEF Tidy
    <2> QED BY <2>3, Zenon DEF Clear
  <1> QED BY <1>1, SessionInductive, TidyInductive, PTL

(* No session ever has a connection on which the server owes another client   *)
(* an answer: process_server_pkts gives connections back once the answer is   *)
(* there, INIT_DB, CHANGE_USER and the end of a session when none is awaited, *)
(* on any hostgroup and with any sharing.                                     *)
THEOREM OwnAnswers == ASSUME ClientsWait PROVE Spec => []OwnAnswersOnly
  <1>1. Tidy => OwnAnswersOnly
    <2> SUFFICES ASSUME Tidy, NEW s \in Sessions, NEW h \in Hostgroups, NEW c \in Held(s, h)
                 PROVE  \A i \in DOMAIN wire[c].asked : wire[c].asked[i] = s
      BY Zenon DEF OwnAnswersOnly
    <2>1. Work(wire[c], sess[s], s, h)
      BY Zenon DEF Held, Tidy, Orderly
    <2>2. wire[c].asked \in {<<>>, <<s>>}
      BY <2>1, Zenon DEF Work
    <2> QED BY <2>2
  <1> QED BY <1>1, TidyInductive, PTL
=============================================================================
