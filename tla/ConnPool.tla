------------------------------ MODULE ConnPool ------------------------------
(***************************************************************************)
(* The connection pool of a mysql thread (src/src/mysql_connpool.c): the   *)
(* connections to the MySQL servers the thread has opened, and, for every  *)
(* combination of server, user, password and schema, the ones no session   *)
(* uses.                                                                   *)
(*                                                                         *)
(* free_conns is a set here: which connection is at index 0 depends on the *)
(* history of fast removals, and nothing below tells them apart.  The      *)
(* global pool is left out: nothing is ever detached to it, so looking     *)
(* there after the thread's own pool always comes back with nothing.       *)
(*                                                                         *)
(* An operator named Mut_X is a wrong variant of X, used to show that the  *)
(* properties notice the difference.                                       *)
(***************************************************************************)
EXTENDS Integers, FiniteSets

CONSTANTS Conns,         \* memory for mysql_cp_entry_t's; bounds the open connections
          Servers,       \* host and port of the MySQL servers
          Users,         \* user names
          Passwords,
          PasswordOf,    \* [Users -> Passwords], what servers know a user by
          Schemas,
          PoolEnabled,   \* mysql_connection_pool_enabled
          WaitTimeout,   \* mysql_wait_timeout
          MaxLag,        \* bound: how late the purge thread refreshes gloconnpool.tv
          MaxTime,       \* bound: how long the clock runs
          NoConn, NoPool

ASSUME PoolAssumption ==
    /\ PoolEnabled \in BOOLEAN
    /\ WaitTimeout \in Nat \ {0}
    /\ MaxLag \in Nat \ {0}
    /\ MaxTime \in Nat
    /\ PasswordOf \in [Users -> Passwords]
    /\ NoConn \notin Conns

VARIABLES time,   \* gettimeofday()
          tv,     \* gloconnpool.tv
          cp      \* __thr_myconnpool

PoolKeys == [server : Servers, user : Users, pass : Passwords, schema : Schemas]

ASSUME NoPoolAssumption == NoPool \notin PoolKeys

(* Of a connection, key, reusable and expire are in mysql_cp_entry_t; used,   *)
(* when it was last taken, is not in the code and is for HandedOutYoung.      *)
Live(p) == DOMAIN p.conn
Pooled(p) == UNION {p.pool[k] : k \in PoolKeys}
Keep(f, C) == [c \in DOMAIN f \cap C |-> f[c]]

-----------------------------------------------------------------------------
(* mysql_connpool_get_connection(ref, key): what it may return, and the pools *)
(* it leaves.  Expired connections are closed until a good one is found; if   *)
(* there is none, a connection is opened, which may fail, and does when the   *)
(* password is not the user's.  The new one takes a name that was not in use  *)
(* when the step began, so that it differs from the ones the step has closed. *)

Mut_IsExpired(rec, t) == rec.expire + MaxLag < t
IsExpired(rec, t) == rec.expire <= t

Take(p, k, c, closed) ==
    [conn |-> [d \in Live(p) \ closed |->
                  IF d = c THEN [p.conn[d] EXCEPT !.expire = tv + WaitTimeout, !.used = time]
                  ELSE p.conn[d]],
     pool |-> [j \in PoolKeys |-> IF j = k THEN p.pool[j] \ (closed \cup {c}) ELSE p.pool[j]]]

Drain(p, k) ==
    [conn |-> Keep(p.conn, Live(p) \ p.pool[k]),
     pool |-> [j \in PoolKeys |-> IF j = k THEN {} ELSE p.pool[j]]]

create_new_mysql_connection(p, key, c) ==
    [conn |-> [d \in Live(p) \cup {c} |->
                  IF d = c THEN [key |-> key, reusable |-> TRUE,
                                 expire |-> tv + WaitTimeout, used |-> time]
                  ELSE p.conn[d]],
     pool |-> p.pool]

Accepted(key) == key.pass = PasswordOf[key.user]

GetConnection(p, ref, key) ==
    LET k == IF ref = NoPool THEN key ELSE ref
        expired == {c \in p.pool[k] : IsExpired(p.conn[c], tv)}
        good == p.pool[k] \ expired
        result(q, c) == [cp |-> q, mycpe |-> c, ref |-> IF PoolEnabled THEN k ELSE ref]
        drained == Drain(p, k)
    IN  IF good # {}
        THEN {result(Take(p, k, c, closed), c) : c \in good, closed \in SUBSET expired}
        ELSE {result(create_new_mysql_connection(drained, key, c), c) :
                 c \in {d \in Conns \ (Live(p) \cup Live(cp)) : Accepted(key)}}
             \cup {result(drained, NoConn)}

-----------------------------------------------------------------------------
(* mysql_connpool_detach_connection, for each member of D: a connection, the  *)
(* pool the caller remembers for it, and force_close.                         *)

Kept(rec, force) ==
    PoolEnabled /\ rec.reusable /\ ~force /\ ~IsExpired(rec, time)

PoolFor(rec, ref) == IF ref = NoPool THEN rec.key ELSE ref

Detach(p, D) ==
    LET kept == {d \in D : Kept(p.conn[d.mycpe], d.force)}
        closed == {d.mycpe : d \in D \ kept}
    IN  [conn |-> Keep(p.conn, Live(p) \ closed),
         pool |-> [k \in PoolKeys |-> p.pool[k] \cup
                     {d.mycpe : d \in {e \in kept : PoolFor(p.conn[e.mycpe], e.ref) = k}}]]

-----------------------------------------------------------------------------
(* What the pool does by itself; its callers are in module Session.           *)

poolvars == <<time, tv, cp>>

(* local_mysql_connpool_init *)
PoolInit ==
    /\ time = 0
    /\ tv = 0
    /\ cp = [conn |-> [c \in {} |-> {}], pool |-> [k \in PoolKeys |-> {}]]

Tick ==
    /\ time < MaxTime
    /\ time - tv < MaxLag
    /\ time' = time + 1
    /\ UNCHANGED <<tv, cp>>

(* All that mysql_connpool_purge_thread does. *)
mysql_connpool_purge_thread ==
    /\ PoolEnabled
    /\ tv' = time
    /\ UNCHANGED <<time, cp>>

-----------------------------------------------------------------------------
(* A free connection is open, lies in one pool only, and that pool is the one *)
(* of its own server, user, password and schema; one that was given back not  *)
(* reusable (prepared statements) is never there.  get_connection hands out   *)
(* whatever it finds in the pool it looks at.                                 *)
PooledMatches ==
    \A k \in PoolKeys : \A c \in cp.pool[k] :
        c \in Live(cp) /\ cp.conn[c].key = k /\ cp.conn[c].reusable

(* A connection that comes out of a pool was last taken less than             *)
(* mysql_wait_timeout ago, give or take the lag of the cached clock: the      *)
(* server has not timed it out.                                               *)
HandedOutYoung ==
    [][\A c \in Pooled(cp) : c \in Live(cp)' \ Pooled(cp)' =>
           time < cp.conn[c].used + WaitTimeout + MaxLag]_poolvars
=============================================================================
