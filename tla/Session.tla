------------------------------- MODULE Session -------------------------------
(***************************************************************************)
(* The sessions of one mysql thread (src/src/mysql_session.c,              *)
(* mysql_backend.c, mysql_handler.c): clients send commands, a session     *)
(* gets a connection to a server of the hostgroup the command is for,      *)
(* forwards the command, passes the answer back, and returns the           *)
(* connection to the thread's pool (module ConnPool).                      *)
(*                                                                         *)
(* A session has one backend (mysql_backend_t) per hostgroup; mybe is the  *)
(* one that is being polled (server_mybe).  Commands and answers are whole *)
(* here; ResultSet has the packets.  Which hostgroup a command is for is   *)
(* the query rules' business: a packet carries it.                         *)
(*                                                                         *)
(* Handlers are operators from the state to the set of states they may     *)
(* leave: records with the pools, the wires, the session and the way the   *)
(* process died, if it did.                                                *)
(*                                                                         *)
(* An operator named Mut_X is a wrong variant of X, used to show that the  *)
(* properties notice the difference.                                       *)
(***************************************************************************)
EXTENDS ConnPool, Sequences

CONSTANTS Sessions,          \* room for sessions; bounds the clients at a time
          Hostgroups,
          Destinations,      \* the hostgroups commands are sent to
          Known,             \* the users in the proxy's own table
          ShareConnections,  \* mysql_share_connections
          ClientsWait,       \* clients wait for their answers before they leave
          ClientsTidy,       \* and end their transactions
          Commands,          \* the commands clients use
          CountsFit,         \* bound: OK packets report counts below 128 only
          DefaultSchema,     \* mysql_default_schema
          Wild,              \* a pointer to an MSHGE that was freed and overwritten
          NoSession, Gone, NoServer, NoHg, NoPkt, NoUser, NoPass, NoSchema

ASSUME SessionAssumption ==
    /\ {ShareConnections, ClientsWait, ClientsTidy, CountsFit} \subseteq BOOLEAN
    /\ Destinations \subseteq Hostgroups /\ Known \subseteq Users
    /\ Sessions # {} /\ {NoSession, Gone} \cap Sessions = {} /\ NoSession # Gone
    /\ {NoServer, Wild} \cap Servers = {} /\ NoServer # Wild /\ NoHg \notin Hostgroups
    /\ NoUser \notin Users /\ NoPass \notin Passwords
    /\ NoSchema \notin Schemas /\ DefaultSchema \in Schemas
    /\ Commands \subseteq {"QUIT", "INIT_DB", "CHANGE_USER", "AUTH", "QUERY", "STMT", "OTHER"}

VARIABLES status,      \* mysql_server.status
          hostgroup,   \* glomysrvs.mysql_hostgroups
          sess,        \* thrLD.sessions
          wire,        \* the other end of each connection: the server's session
          crashed      \* "", or how the process died

vars == <<time, tv, cp, status, hostgroup, sess, wire, crashed>>

Statuses == {"OFFLINE_HARD", "OFFLINE_SOFT", "SHUNNED", "ONLINE"}

(* mysql_backend_new; mshge NoServer is a NULL pointer, ref is                *)
(* last_mysql_connpool, trx is server_myds->active_transaction.               *)
NewBackend == [mshge |-> NoServer, mycpe |-> NoConn, ref |-> NoPool,
               myds |-> "none", trx |-> FALSE]

(* mysql_session_new; state "none" is a session that is not there, waiting is *)
(* the client's: it has sent a command and has not got the answer.            *)
NewSession(state) ==
    [state |-> state, user |-> NoUser, pass |-> NoPass, schema |-> NoSchema, mybe |-> NoHg,
     mybes |-> [h \in Hostgroups |-> NewBackend], pkt |-> NoPkt, command |-> "END",
     change_user |-> FALSE, waiting |-> FALSE]

(* What the server at the other end has of the connection: whether it still   *)
(* has it, who opened the transaction that is open, whose commands it has     *)
(* not answered, and the answer on its way.                                   *)
IdleWire == [up |-> TRUE, tx |-> NoSession, asked |-> <<>>, reply |-> "none"]

Packets ==
    {p \in [com : {"QUERY", "STMT", "OTHER"}, hg : Destinations]
       \cup [com : {"INIT_DB"}, schema : Schemas]
       \cup [com : {"AUTH"}, ok : BOOLEAN]
       \cup [com : {"QUIT", "CHANGE_USER"}] : p.com \in Commands}

-----------------------------------------------------------------------------
(* Outcomes of a handler. *)

(* Connections that were closed, and the work of a client that is gone. *)
OnlyLive(w, p) == [c \in Conns |-> IF c \in Live(p) THEN w[c] ELSE IdleWire]
Orphan(w, s) ==
    LET left(x) == IF x = s THEN Gone ELSE x
    IN  [c \in Conns |-> [w[c] EXCEPT !.tx = left(@),
                                      !.asked = [i \in DOMAIN @ |-> left(@[i])]]]

(* The client gets its answer. *)
Answered(S) == [S EXCEPT !.waiting = FALSE]

Outcome(p, w, S) == [cp |-> p, wire |-> OnlyLive(w, p), sess |-> S, crash |-> ""]
Crash(p, w, S, how) == [cp |-> p, wire |-> OnlyLive(w, p), sess |-> S, crash |-> how]

-----------------------------------------------------------------------------
(* Backends of session S, for the hostgroups H. *)

BackendsWithConn(S, H) == {h \in H : S.mybes[h].mycpe # NoConn}

(* last_mysql_connpool is cleared before the connection is given back. *)
Mut_RefAtReset(b) == b.ref
RefAtReset(b) == NoPool

Mut_ForceAtReset(b, fc) == fc
ForceAtReset(b, fc) == fc \/ b.myds = "shut"

backend_reset(p, S, H, fc) ==
    [cp |-> Detach(p, {[mycpe |-> S.mybes[h].mycpe, ref |-> RefAtReset(S.mybes[h]),
                        force |-> ForceAtReset(S.mybes[h], fc)] :
                          h \in BackendsWithConn(S, H)}),
     sess |-> [S EXCEPT !.mybes = [h \in Hostgroups |->
                  IF h \in H THEN NewBackend ELSE S.mybes[h]]]]

Detachable(p, S, H) == {h \in BackendsWithConn(S, H) : p.conn[S.mybes[h].mycpe].reusable}

Mut_backend_detach(p, S, H) ==
    [cp |-> Detach(p, {[mycpe |-> S.mybes[h].mycpe, ref |-> NoPool, force |-> FALSE] :
                          h \in Detachable(p, S, H)}),
     sess |-> S]
backend_detach(p, S, H) ==
    [cp |-> Detach(p, {[mycpe |-> S.mybes[h].mycpe, ref |-> NoPool, force |-> FALSE] :
                          h \in Detachable(p, S, H)}),
     sess |-> [S EXCEPT !.mybes = [h \in Hostgroups |->
                  [S.mybes[h] EXCEPT !.ref = IF h \in H THEN NoPool ELSE @,
                                     !.mycpe = IF h \in Detachable(p, S, H)
                                               THEN NoConn ELSE @]]]]

(* sess_close *)
SessClose(p, w, S, s, fc) ==
    Outcome(backend_reset(p, S, Hostgroups, fc).cp, Orphan(w, s), NewSession("none"))

(* mysql_session_create_backend_for_hostgroup.  The first attempt may empty   *)
(* a pool; the later ones use the same pool, whatever server they pick, so    *)
(* they open connections.  be is the backend it leaves.                       *)
CreateBackend(p, S, h) ==
    LET b == S.mybes[h]
        key(ms) == [server |-> ms, user |-> S.user, pass |-> S.pass, schema |-> S.schema]
        left(g, ms) == [cp |-> g.cp,
                        be |-> [b EXCEPT !.mshge = ms, !.mycpe = g.mycpe, !.ref = g.ref,
                                         !.myds = IF g.mycpe # NoConn /\ @ = "none"
                                                  THEN "active" ELSE @]]
        tries(q, ref, M) == UNION {{left(g, ms) : g \in GetConnection(q, ref, key(ms))} : ms \in M}
        again(r) == IF hostgroup[h] = {}
                    THEN {[r EXCEPT !.be.mshge = NoServer]}
                    ELSE tries(r.cp, r.be.ref, hostgroup[h])
        first == IF b.mshge = NoServer THEN hostgroup[h] ELSE {b.mshge}
    IN  IF first = {}
        THEN {[cp |-> p, be |-> b]}
        ELSE UNION {IF r.be.mycpe # NoConn THEN {r} ELSE again(r) : r \in tries(p, b.ref, first)}

-----------------------------------------------------------------------------
(* process_client_pkts, for the first packet of session s. *)

SameSchema(S, pkt) == pkt.schema = S.schema

Mut_ResetAll(p, S) ==
    LET r == backend_reset(p, S, Hostgroups \cap {S.mybe}, FALSE)
    IN  [r EXCEPT !.sess.mybe = NoHg]
ResetAll(p, S) ==
    LET r == backend_reset(p, S, Hostgroups, FALSE)
    IN  [r EXCEPT !.sess.mybe = NoHg]

Mut_client_COM_INIT_DB(p, w, S, pkt) == {Outcome(p, w, Answered([S EXCEPT !.schema = pkt.schema]))}
client_COM_INIT_DB(p, w, S, pkt) ==
    LET r == ResetAll(p, S)
    IN  {IF SameSchema(S, pkt)
         THEN Outcome(p, w, Answered(S))
         ELSE Outcome(r.cp, w, Answered([r.sess EXCEPT !.schema = pkt.schema]))}

(* The packet is given back to the allocator, which links it into a list by   *)
(* its first 8 bytes, before the names in it are read: they may be any names, *)
(* in the proxy's table or not.  The password stays what it was until the     *)
(* client answers.                                                            *)
NamesAfterFree == [user : Users, schema : Schemas]

client_COM_CHANGE_USER(p, w, S) ==
    LET r == ResetAll(p, S)
    IN  {Outcome(r.cp, w, Answered([r.sess EXCEPT !.user = n.user, !.schema = n.schema,
                                                  !.change_user = TRUE])) : n \in NamesAfterFree}

(* check_auth_switch_response_packet; ok is the scramble of the password the  *)
(* table has for the user.                                                    *)
AuthSwitchResponse(p, w, S, s, pkt) ==
    {IF pkt.com = "AUTH" /\ pkt.ok /\ S.user \in Known
     THEN Outcome(p, w, Answered([S EXCEPT !.pass = PasswordOf[S.user], !.change_user = FALSE]))
     ELSE SessClose(p, w, S, s, FALSE)}

(* The command goes to the server of backend be. *)
Ask(p, w, S, s, pkt, be) ==
    Outcome(p, [w EXCEPT ![be.mycpe].asked = Append(@, s)],
            [S EXCEPT !.mybes[pkt.hg] = be, !.mybe = pkt.hg])

(* The checks on the server's status, once there is a connection.             *)
ByStatus(p, w, S, s, pkt, be) ==
    LET st == status[be.mshge]
        B == [S EXCEPT !.mybes[pkt.hg] = be]
        reset == backend_reset(p, B, {pkt.hg}, FALSE)
        asked(q, b) == IF status[b.mshge] = "ONLINE"
                       THEN Ask(q, w, reset.sess, s, pkt, b)
                       ELSE Crash(q, w, reset.sess, "assert")
    IN  CASE st = "OFFLINE_HARD" -> {SessClose(p, w, B, s, FALSE)}
          [] st = "OFFLINE_SOFT" /\ ~be.trx ->
                {IF r.be.mshge = NoServer \/ r.be.mycpe = NoConn
                 THEN Crash(r.cp, w, reset.sess, "sigsegv")
                 ELSE asked(r.cp, r.be) : r \in CreateBackend(reset.cp, reset.sess, pkt.hg)}
          [] st = "ONLINE" -> {Ask(p, w, B, s, pkt, be)}
          [] OTHER -> {Crash(p, w, B, "assert")}

(* Of the connection found before the status is looked at; the one that       *)
(* replaces it when the server is OFFLINE_SOFT is not marked.                 *)
MarkNotReusable(p, be, pkt) ==
    IF pkt.com = "STMT" /\ be.mycpe # NoConn
    THEN [p EXCEPT !.conn[be.mycpe].reusable = FALSE]
    ELSE p

Forward(p, w, S, s, pkt) ==
    LET b == S.mybes[pkt.hg]
        active == b.mshge # NoServer /\ b.mycpe # NoConn
        served(r) ==
            LET B == [S EXCEPT !.mybes[pkt.hg] = r.be]
                q == MarkNotReusable(r.cp, r.be, pkt)
            IN  IF r.be.mshge = NoServer
                THEN {Outcome(q, w, [B EXCEPT !.pkt = pkt])}     \* queue_back_client_pkt
                ELSE IF r.be.mycpe = NoConn
                THEN {SessClose(q, w, B, s, FALSE)}
                ELSE ByStatus(q, w, S, s, pkt, r.be)
    IN  IF b.mshge = Wild
        THEN {Crash(p, w, S, "sigsegv")}
        ELSE UNION {served(r) : r \in IF active THEN {[cp |-> p, be |-> b]}
                                               ELSE CreateBackend(p, S, pkt.hg)}

(* Whether an answer to the request to authenticate is awaited is looked at   *)
(* for the commands without a case of their own; of OTHER, only               *)
(* COM_STATISTICS has one.                                                    *)
process_client_pkts(p, w, T, s) ==
    LET pkt == T.pkt
        S == [T EXCEPT !.pkt = NoPkt, !.command = pkt.com]
    IN  CASE pkt.com = "QUIT"        -> {SessClose(p, w, S, s, FALSE)}
          [] pkt.com = "INIT_DB"     -> client_COM_INIT_DB(p, w, S, pkt)
          [] pkt.com = "CHANGE_USER" -> client_COM_CHANGE_USER(p, w, S)
          [] pkt.com = "AUTH"        -> AuthSwitchResponse(p, w, S, s, pkt)
          [] pkt.com = "STMT" /\ S.change_user  -> AuthSwitchResponse(p, w, S, s, pkt)
          [] pkt.com = "OTHER" /\ S.change_user -> AuthSwitchResponse(p, w, S, s, pkt)
                                                   \cup Forward(p, w, S, s, pkt)
          [] pkt.com = "QUERY"       -> {Outcome(p, w, Answered(S))}     \* from the query cache
                                        \cup Forward(p, w, S, s, pkt)
          [] OTHER                   -> Forward(p, w, S, s, pkt)

-----------------------------------------------------------------------------
(* process_server_pkts, for the answer on the wire of the polled backend.     *)

Mut_ReleaseAll(S) == ShareConnections
ReleaseAll(S) == ShareConnections /\ ~S.mybes[S.mybe].trx

(* is_transaction_active, of every packet that looks like OK or EOF.  At the  *)
(* end of an answer that is OK the flag is right, but for COUNTS, an OK       *)
(* packet with more affected rows or a greater insert id than status_flags    *)
(* can skip: it looks past the end of the packet (module Lenenc).  ERR leaves *)
(* what the rows before it have left, which is anything: a row with an empty  *)
(* first field looks like OK (module ResultSet).                              *)
LearnTransaction(S, reply, tx) ==
    {[S EXCEPT !.mybes[S.mybe].trx = t] :
        t \in IF reply = "OK" THEN {tx # NoSession} ELSE BOOLEAN}

process_server_pkts(p, w, S) ==
    LET c == S.mybes[S.mybe].mycpe
        read == [w EXCEPT ![c].asked = Tail(@), ![c].reply = "none"]
        released(A) == IF S.command = "QUERY" /\ w[c].reply # "ERR" /\ ReleaseAll(A)
                       THEN backend_detach(p, A, Hostgroups)
                       ELSE [cp |-> p, sess |-> A]
    IN  {Outcome(released(A).cp, read, Answered(released(A).sess)) :
            A \in LearnTransaction(S, w[c].reply, w[c].tx)}

-----------------------------------------------------------------------------
Init ==
    /\ PoolInit
    /\ status = [m \in Servers |-> "ONLINE"]
    /\ hostgroup \in [Hostgroups -> (SUBSET Servers) \ {{}}]
    /\ sess = [s \in Sessions |-> NewSession("none")]
    /\ wire = [c \in Conns |-> IdleWire]
    /\ crashed = ""

(* The thread runs a handler for session s. *)
Handle(s, outcomes) ==
    /\ crashed = ""
    /\ UNCHANGED <<time, tv, status, hostgroup>>
    /\ \E o \in outcomes :
          /\ cp' = o.cp
          /\ wire' = o.wire
          /\ sess' = [sess EXCEPT ![s] = o.sess]
          /\ crashed' = o.crash

Accept(s) ==
    /\ sess[s].state = "none"
    /\ Handle(s, {Outcome(cp, wire, NewSession("auth"))})

SchemaOrDefault(d) == IF d = NoSchema THEN DefaultSchema ELSE d
LoggedIn(S, u, d) == [S EXCEPT !.state = "ready", !.user = u, !.pass = PasswordOf[u],
                               !.schema = SchemaOrDefault(d)]

process_authentication_pkt(s) ==
    /\ sess[s].state = "auth"
    /\ Handle(s, {SessClose(cp, wire, sess[s], s, FALSE)}
                 \cup {Outcome(cp, wire, LoggedIn(sess[s], u, d)) :
                          u \in Known, d \in Schemas \cup {NoSchema}})

ClientPacket(s) ==
    /\ sess[s].state = "ready" /\ sess[s].pkt # NoPkt
    /\ Handle(s, process_client_pkts(cp, wire, sess[s], s))

(* The backend that session s polls and reads from. *)
Mut_PolledConn(S) == IF S.state = "ready" /\ S.mybe # NoHg /\ S.command = "QUERY"
                     THEN S.mybes[S.mybe].mycpe ELSE NoConn
PolledConn(S) == IF S.state = "ready" /\ S.mybe # NoHg THEN S.mybes[S.mybe].mycpe ELSE NoConn

ServerPacket(s) ==
    /\ PolledConn(sess[s]) # NoConn
    /\ wire[PolledConn(sess[s])].up /\ wire[PolledConn(sess[s])].reply # "none"
    /\ Handle(s, process_server_pkts(cp, wire, sess[s]))

(* The connection to the server broke: check_fds_errors or read_from_net      *)
(* shut the data stream, reconnect_server_on_shut_fd gives up, and            *)
(* session_handler closes the session.                                        *)
NetFailure(s) ==
    /\ PolledConn(sess[s]) # NoConn
    /\ ~wire[PolledConn(sess[s])].up
    /\ Handle(s, {SessClose(cp, wire, [sess[s] EXCEPT !.mybes[sess[s].mybe].myds = "shut"],
                            s, FALSE)})

(* The client's end.  After a change of user that the client does not answer  *)
(* correctly the session ends, too.                                           *)
NothingOpen(s) == \A c \in Conns : wire[c].tx # s
Leaves(S, pkt) == \/ pkt.com \in {"QUIT", "INIT_DB", "CHANGE_USER"}
                  \/ S.change_user /\ pkt.com # "QUERY"

ClientGone(s) ==
    /\ sess[s].state # "none"
    /\ ClientsWait => ~sess[s].waiting
    /\ ClientsTidy => NothingOpen(s)
    /\ Handle(s, {SessClose(cp, wire, sess[s], s, FALSE)})

(* AUTH is the answer to the request to authenticate, which CHANGE_USER gets; *)
(* the client may send any command in its place.                              *)
ClientSends(s) ==
    /\ crashed = ""
    /\ sess[s].state = "ready" /\ ~sess[s].waiting
    /\ \E pkt \in Packets :
          /\ pkt.com = "AUTH" => sess[s].change_user
          /\ ClientsTidy /\ Leaves(sess[s], pkt) => NothingOpen(s)
          /\ sess' = [sess EXCEPT ![s].pkt = pkt, ![s].waiting = TRUE]
    /\ UNCHANGED <<time, tv, cp, status, hostgroup, wire, crashed>>

(* The servers' end. *)
Replies == {"OK", "ERR"} \cup (IF CountsFit THEN {} ELSE {"COUNTS"})

ServerReplies(c) ==
    /\ crashed = ""
    /\ wire[c].up /\ wire[c].asked # <<>> /\ wire[c].reply = "none"
    /\ \E r \in Replies, t \in {NoSession, wire[c].tx, Head(wire[c].asked)} :
          /\ t \notin {NoSession, wire[c].tx} => r # "ERR" /\ wire[c].tx = NoSession
          /\ wire' = [wire EXCEPT ![c].reply = r, ![c].tx = t]
    /\ UNCHANGED <<time, tv, cp, status, hostgroup, sess, crashed>>

(* The transaction ends and an answer on its way is lost (one that the proxy  *)
(* reads before it notices the break is one read before the break, here);     *)
(* what was asked stays unanswered.                                           *)
ServerHangsUp(c) ==
    /\ crashed = ""
    /\ c \in Live(cp) /\ wire[c].up
    /\ wire' = [wire EXCEPT ![c] = [IdleWire EXCEPT !.up = FALSE, !.asked = wire[c].asked]]
    /\ UNCHANGED <<time, tv, cp, status, hostgroup, sess, crashed>>

Clock ==
    /\ Tick \/ mysql_connpool_purge_thread
    /\ UNCHANGED <<status, hostgroup, sess, wire, crashed>>

Next ==
    \/ \E s \in Sessions :
          \/ Accept(s) \/ process_authentication_pkt(s)
          \/ ClientSends(s) \/ ClientGone(s)
          \/ ClientPacket(s) \/ ServerPacket(s) \/ NetFailure(s)
    \/ \E c \in Conns : ServerReplies(c) \/ ServerHangsUp(c)
    \/ Clock

(* The thread's loop comes back to every session with something to do, and    *)
(* servers answer.                                                            *)
Fairness ==
    /\ \A s \in Sessions : WF_vars(ClientPacket(s) \/ ServerPacket(s) \/ NetFailure(s))
    /\ \A c \in Conns : WF_vars(ServerReplies(c))

Spec == Init /\ [][Next]_vars /\ Fairness

-----------------------------------------------------------------------------
Held(s, h) == {sess[s].mybes[h].mycpe} \ {NoConn}

(* Every open connection belongs to exactly one backend or lies in exactly    *)
(* one pool: create_backend_for_hostgroup, bereset, bedetach and the pool's   *)
(* own closing never lose a connection nor hand one to two sessions.          *)
OwnedOnce ==
    /\ Live(cp) = Pooled(cp) \cup UNION {Held(s, h) : s \in Sessions, h \in Hostgroups}
    /\ \A s, t \in Sessions, g, h \in Hostgroups :
          /\ Held(s, g) \cap Pooled(cp) = {}
          /\ <<s, g>> # <<t, h>> => Held(s, g) \cap Held(t, h) = {}

(* The connection of a backend is one to the server the backend names, for    *)
(* the user, the password and the schema its session has now: INIT_DB and     *)
(* CHANGE_USER reset every backend, and a remembered pool never outlives what *)
(* it was for.  And the password, which the session has from the table for a  *)
(* client that has proved to know it, is the user's: commands sent between    *)
(* CHANGE_USER and the answer to it run under a name nobody has checked, but  *)
(* only where the password that was checked is the right one.                 *)
BackendMatches ==
    \A s \in Sessions, h \in Hostgroups : \A c \in Held(s, h) :
        /\ cp.conn[c].key = [server |-> sess[s].mybes[h].mshge, user |-> sess[s].user,
                             pass |-> sess[s].pass, schema |-> sess[s].schema]
        /\ Accepted(cp.conn[c].key)

(* Whatever the server still has to answer on the connection of a session it  *)
(* was asked by that session: no client gets another one's answer, on any     *)
(* hostgroup, as long as clients wait for their answers before they leave     *)
(* (ClientsWait): SessClose gives a connection back whatever is under way.    *)
OwnAnswersOnly ==
    \A s \in Sessions, h \in Hostgroups : \A c \in Held(s, h) :
        \A i \in DOMAIN wire[c].asked : wire[c].asked[i] = s

(* README.rst:362: a connection assigned to a client is used by that client   *)
(* only.  A transaction that is open on the connection of a session is that   *)
(* session's own.  This needs clients that end their transactions before they *)
(* leave (ClientsTidy), commands that all go to one hostgroup (Destinations), *)
(* and OK packets without large counts (CountsFit).                           *)
OwnTransactionOnly ==
    \A s \in Sessions, h \in Hostgroups : \A c \in Held(s, h) : wire[c].tx \in {NoSession, s}

(* A client that waits gets its answer, or is disconnected.                   *)
Served == \A s \in Sessions : sess[s].waiting ~> ~sess[s].waiting

(* A connection that broke before the server answered is never in the pool:   *)
(* session_handler shuts the data stream and the reset that ends the session  *)
(* closes the connection.  This needs clients that wait for their answer      *)
(* (ClientsWait): when the client leaves first, the break goes unseen.        *)
BrokenIsClosed ==
    crashed = "" => \A c \in Pooled(cp) : wire[c].up \/ wire[c].asked = <<>>
=============================================================================
