----------------------------- MODULE Maintenance -----------------------------
(***************************************************************************)
(* Taking servers out of service while sessions use them: FLUSH HOSTGROUPS *)
(* in the admin thread (src/src/admin.c, admin_sqlite.c), the REMOVE       *)
(* SERVER command it sends to the mysql thread and waits for               *)
(* (force_remove_servers), the mysql thread's passes over its sessions     *)
(* until no backend of a removed server is left or                         *)
(* mysql_maintenance_timeout is over (main.c), and the angel process that  *)
(* restarts the proxy when it dies.  The sessions are those of module      *)
(* Session.                                                                *)
(*                                                                         *)
(* FLUSH HOSTGROUPS frees every MSHGE while sessions point at them.  What  *)
(* such a pointer reads afterwards is the allocator's choice: the old      *)
(* contents, an entry that was allocated in its place, or neither (Wild).  *)
(*                                                                         *)
(* An operator named Mut_X is a wrong variant of X, used to show that the  *)
(* properties notice the difference.                                       *)
(***************************************************************************)
EXTENDS Session, FiniteSetsExt

ASSUME MaintenanceAssumption == IsFiniteSet(Sessions) /\ IsFiniteSet(Hostgroups)

VARIABLES admin,      \* where FLUSH HOSTGROUPS is
          queue,      \* REMOVE SERVER commands in proxyipc.queue[thread]
          pipe,       \* bytes in the thread's IPC pipe
          acks,       \* acknowledgements in proxyipc.queue[mysql_threads]
          removing,   \* removing_hosts
          late        \* maintenance_ends has passed

ipc == <<admin, queue, pipe, acks, removing, late>>
mvars == <<vars, ipc>>

-----------------------------------------------------------------------------
(* sqlite3_flush_servers_db_to_mem: what the tables servers and hostgroups    *)
(* say; servers in no hostgroup keep their status.                            *)

Loaded(rows, st) == [h \in Hostgroups |-> {m \in rows[h] : st[m] = "ONLINE"}]
Unlisted(rows) == Servers \ UNION {rows[h] : h \in Hostgroups}
FromTables ==
    {[status |-> t.status, hostgroup |-> Loaded(t.rows, t.status)] :
        t \in {u \in [status : [Servers -> Statuses], rows : [Hostgroups -> SUBSET Servers]] :
                  \A m \in Unlisted(u.rows) : u.status[m] = status[m]}}

Reallocated(new) == UNION {new[h] : h \in Hostgroups}
AfterFree(b, new) == IF b.mshge = NoServer THEN {NoServer}
                     ELSE {b.mshge, Wild} \cup Reallocated(new)

FlushHostgroups ==
    /\ crashed = "" /\ admin = "idle"
    /\ \E new \in FromTables :
          /\ status' = new.status
          /\ hostgroup' = new.hostgroup
          /\ \E f \in [Sessions -> [Hostgroups -> Servers \cup {NoServer, Wild}]] :
                /\ \A s \in Sessions, h \in Hostgroups :
                      f[s][h] \in AfterFree(sess[s].mybes[h], new.hostgroup)
                /\ sess' = [s \in Sessions |-> [sess[s] EXCEPT !.mybes =
                              [h \in Hostgroups |->
                                 [sess[s].mybes[h] EXCEPT !.mshge = f[s][h]]]]]
    /\ admin' = "flushed"
    /\ UNCHANGED <<time, tv, cp, wire, crashed, queue, pipe, acks, removing, late>>

(* force_remove_servers: push the command, write the byte, wait for the ack.  *)
Mut_PushCommand ==
    /\ crashed = "" /\ admin = "flushed"
    /\ admin' = "pushed" /\ pipe' = pipe + 1
    /\ UNCHANGED <<vars, queue, acks, removing, late>>
PushCommand ==
    /\ crashed = "" /\ admin = "flushed"
    /\ admin' = "pushed" /\ queue' = queue + 1
    /\ UNCHANGED <<vars, pipe, acks, removing, late>>

Mut_WriteByte ==
    /\ crashed = "" /\ admin = "pushed"
    /\ admin' = "waiting"
    /\ UNCHANGED <<vars, queue, pipe, acks, removing, late>>
WriteByte ==
    /\ crashed = "" /\ admin = "pushed"
    /\ admin' = "waiting" /\ pipe' = pipe + 1
    /\ UNCHANGED <<vars, queue, acks, removing, late>>

TakeAck ==
    /\ crashed = "" /\ admin = "waiting"
    /\ acks > 0
    /\ admin' = "idle" /\ acks' = acks - 1
    /\ UNCHANGED <<vars, queue, pipe, removing, late>>

-----------------------------------------------------------------------------
(* remove_all_backends_offline_soft(sess).  unmoved: server_bytes_at_cmd      *)
(* equals the byte counters of the polled backend.  It is set when a command  *)
(* is forwarded and at the end of some answers but not of others, and every   *)
(* packet moves the counters: it may be either at any time.                   *)

Soft(b) == b.mshge \in Servers /\ status[b.mshge] = "OFFLINE_SOFT"

(* The loop dereferences mshge, then, for a backend that is not the polled    *)
(* one, server_mybe and its server_myds.                                      *)
Dereferenced(S, h) == {S.mybes[h].mshge}
Removable(S, unmoved) ==
    {h \in Hostgroups : /\ Soft(S.mybes[h]) /\ ~S.mybes[h].trx
                        /\ h = S.mybe \/ unmoved}
PolledGone(S, unmoved) ==
    \E h \in Hostgroups :
        /\ Soft(S.mybes[h]) /\ ~S.mybes[h].trx /\ h # S.mybe
        /\ S.mybe = NoHg \/ (S.mybe \in Removable(S, unmoved) /\ S.mybe < h)
BadMshge(S) == \E h \in Hostgroups : Dereferenced(S, h) \cap {NoServer, Wild} # {}

Mut_StillSoft(S) == {h \in Hostgroups : Soft(S.mybes[h]) /\ ~S.mybes[h].trx}
StillSoft(S) == {h \in Hostgroups : Soft(S.mybes[h])}

RemoveSoft(p, S, unmoved) ==
    LET r == backend_reset(p, S, Removable(S, unmoved), FALSE)
    IN  [cp |-> r.cp, sess |-> r.sess, cnt |-> Cardinality(StillSoft(r.sess)),
         segv |-> BadMshge(S) \/ PolledGone(S, unmoved) \/ BadMshge(r.sess)]

(* The two loops over thrLD.sessions: all of them, then, when it is late, the *)
(* ones that still have such a backend are closed.  r is RemoveSoft of s.     *)
After(a, s, r, closing) ==
    LET n == IF closing /\ r.cnt > 0
             THEN SessClose(r.cp, a.wire, r.sess, s, TRUE)
             ELSE Outcome(r.cp, a.wire, r.sess)
    IN  [cp |-> n.cp, wire |-> n.wire, sess |-> [a.sess EXCEPT ![s] = n.sess],
         cnt |-> a.cnt + r.cnt, segv |-> a.segv \/ r.segv]

Pass(p, w, all, unmoved, closing) ==
    FoldSet(LAMBDA s, a : After(a, s, RemoveSoft(a.cp, a.sess[s], unmoved[s]), closing),
            [cp |-> p, wire |-> w, sess |-> all, cnt |-> 0, segv |-> FALSE],
            {s \in Sessions : all[s].state # "none"})

Acked(cnt, over) == IF cnt = 0 \/ over THEN 1 ELSE 0

(* One pass of the mysql thread's loop: read the pipe, then remove.           *)
RemovePass(over) ==
    \E unmoved \in [Sessions -> BOOLEAN] :
    \E first \in {Pass(cp, wire, sess, unmoved, FALSE)} :
    \E last \in {IF first.cnt > 0 /\ over
                 THEN Pass(first.cp, first.wire, first.sess, unmoved, TRUE) ELSE first} :
        /\ cp' = last.cp /\ wire' = last.wire /\ sess' = last.sess
        /\ crashed' = IF first.segv \/ last.segv THEN "sigsegv" ELSE ""
        /\ acks' = acks + Acked(first.cnt, over)
        /\ removing' = (Acked(first.cnt, over) = 0)

ReadPipe ==
    /\ crashed = "" /\ pipe > 0
    /\ pipe' = pipe - 1 /\ queue' = queue - 1
    /\ late' = FALSE
    /\ UNCHANGED <<time, tv, status, hostgroup, admin>>
    /\ RemovePass(FALSE)

KeepRemoving ==
    /\ crashed = "" /\ pipe = 0 /\ removing
    /\ UNCHANGED <<time, tv, status, hostgroup, admin, queue, pipe, late>>
    /\ RemovePass(late)

MaintenanceEnds ==
    /\ crashed = "" /\ removing /\ ~late
    /\ late' = TRUE
    /\ UNCHANGED <<vars, admin, queue, pipe, acks, removing>>

-----------------------------------------------------------------------------
InitIpc ==
    /\ admin = "idle" /\ queue = 0 /\ pipe = 0 /\ acks = 0
    /\ removing = FALSE /\ late = FALSE

MInit == Init /\ InitIpc

(* The angel process starts another proxy, which loads the tables again.      *)
Restart ==
    /\ crashed # ""
    /\ crashed' = ""
    /\ tv' = time
    /\ cp' = [conn |-> [c \in {} |-> {}], pool |-> [k \in PoolKeys |-> {}]]
    /\ sess' = [s \in Sessions |-> NewSession("none")]
    /\ wire' = [c \in Conns |-> IdleWire]
    /\ admin' = "idle" /\ queue' = 0 /\ pipe' = 0 /\ acks' = 0
    /\ removing' = FALSE /\ late' = FALSE
    /\ UNCHANGED <<time, status, hostgroup>>

MNext ==
    \/ Next /\ UNCHANGED ipc
    \/ FlushHostgroups \/ PushCommand \/ WriteByte \/ TakeAck
    \/ ReadPipe \/ KeepRemoving \/ MaintenanceEnds
    \/ Restart

(* The admin thread and the mysql thread run, the maintenance time passes,    *)
(* the angel process is there, and, as Fairness of module Session says, the   *)
(* thread's loop comes back to every session and the servers answer.          *)
(* ReadPipe and KeepRemoving are weakly fair as the others are; when they can *)
(* take a step is spelt out for them.                                         *)
PipeReadable == crashed = "" /\ pipe > 0
MustFinish == crashed = "" /\ pipe = 0 /\ removing /\ late

MSpec ==
    /\ MInit /\ [][MNext]_mvars
    /\ WF_mvars(PushCommand) /\ WF_mvars(WriteByte) /\ WF_mvars(TakeAck)
    /\ []<>~PipeReadable \/ []<><<ReadPipe>>_mvars
    /\ []<>~MustFinish \/ []<><<KeepRemoving>>_mvars
    /\ WF_mvars(MaintenanceEnds) /\ WF_mvars(Restart) /\ Fairness

-----------------------------------------------------------------------------
(* One command is under way at a time, and the byte never comes before it: a  *)
(* mysql thread that reads the byte never waits for the command in            *)
(* g_async_queue_pop, and the admin thread takes each thread's ack once.      *)
OneCommandAtATime ==
    /\ pipe <= queue
    /\ crashed = "" => queue + (IF removing THEN 1 ELSE 0) + acks =
                          IF admin \in {"pushed", "waiting"} THEN 1 ELSE 0

(* An acknowledgement means that no backend of the thread points at an MSHGE  *)
(* that reads as one of a server that is OFFLINE_SOFT.  It does not mean that *)
(* no connection to such a server is in use, as admin.c:315 has it: the MSHGE *)
(* a backend points at was freed, and may read as another server's.           *)
AckMeansRemoved ==
    acks > 0 => \A s \in Sessions : StillSoft(sess[s]) = {}

(* FLUSH HOSTGROUPS returns, or the process dies trying.                      *)
FlushReturns == (admin # "idle") ~> (admin = "idle")

(* A client that waits gets its answer or is disconnected, while the          *)
(* administrator moves servers and the proxy dies and comes back, provided    *)
(* that from some time on no hostgroup is left without a server: a command    *)
(* for an empty hostgroup is put back in the queue and waits.                 *)
ServedWhileStocked == <>[](\A h \in Hostgroups : hostgroup[h] # {}) => Served

(* README.rst:374: connections in use when their server is disabled have time *)
(* to finish; the proxy stays up.                                             *)
MaintenanceKeepsRunning == crashed # "sigsegv"
=============================================================================
