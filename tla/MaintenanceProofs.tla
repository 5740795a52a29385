-------------------------- MODULE MaintenanceProofs --------------------------
(***************************************************************************)
(* OneCommandAtATime and AckMeansRemoved hold in Maintenance for any       *)
(* sessions, servers, hostgroups and tables: the handshake of              *)
(* force_remove_servers between the admin thread and the mysql thread, and *)
(* what its acknowledgement says of the sessions, through crashes and      *)
(* restarts.                                                               *)
(*                                                                         *)
(* The first is about the counters of the handshake alone.  The second     *)
(* follows every handler of module Session, for what it does to the        *)
(* servers of a session's backends, and the fold over the sessions that is *)
(* a pass of the mysql thread, by induction on the number of sessions it   *)
(* has visited.                                                            *)
(***************************************************************************)
EXTENDS Maintenance, FiniteSetTheorems, WellFoundedInduction, TLAPS

Up == crashed = ""
Working == IF removing THEN 1 ELSE 0
Due == IF admin \in {"pushed", "waiting"} THEN 1 ELSE 0

(* While the proxy is up, there is one command under way exactly while the    *)
(* admin thread is in force_remove_servers: in the queue, being worked off,   *)
(* or acknowledged.  The byte and the command come and go together, but for   *)
(* the moment between the push and the write.                                 *)
Flags == removing \in BOOLEAN /\ late \in BOOLEAN
Counts ==
    /\ admin \in {"idle", "flushed", "pushed", "waiting"}
    /\ queue \in Nat /\ pipe \in Nat /\ acks \in Nat /\ Working \in {0, 1}
    /\ pipe <= queue
    /\ Up =>
          /\ queue + Working + acks = Due
          /\ admin = "pushed" => queue = 1 /\ pipe = 0
          /\ admin # "pushed" => pipe = queue
IInv == Flags /\ Counts

-----------------------------------------------------------------------------
(* No step of the sessions brings a dead proxy back.                          *)
LEMMA SessionsStayDead ==
    ASSUME Next, crashed' = ""
    PROVE  crashed = ""
  <1>2. ASSUME NEW s \in Sessions,
               \/ Accept(s) \/ process_authentication_pkt(s) \/ ClientGone(s)
               \/ ClientPacket(s) \/ ServerPacket(s) \/ NetFailure(s)
        PROVE  crashed = ""
    <2>1. CASE Accept(s)
      BY <2>1, Zenon DEF Accept, Handle
    <2>2. CASE process_authentication_pkt(s)
      BY <2>2, Zenon DEF process_authentication_pkt, Handle
    <2>3. CASE ClientGone(s)
      BY <2>3, Zenon DEF ClientGone, Handle
    <2>4. CASE ClientPacket(s)
      BY <2>4, Zenon DEF ClientPacket, Handle
    <2>5. CASE ServerPacket(s)
      BY <2>5, Zenon DEF ServerPacket, Handle
    <2>6. CASE NetFailure(s)
      BY <2>6, Zenon DEF NetFailure, Handle
    <2> QED BY <1>2, <2>1, <2>2, <2>3, <2>4, <2>5, <2>6, Zenon
  <1>3. ASSUME NEW s \in Sessions, ClientSends(s) PROVE crashed = ""
    BY <1>3, Zenon DEF ClientSends
  <1>4. ASSUME NEW c \in Conns, ServerReplies(c) \/ ServerHangsUp(c) PROVE crashed = ""
    BY <1>4, Zenon DEF ServerReplies, ServerHangsUp
  <1>5. CASE Clock
    BY <1>5, Zenon DEF Clock
  <1> QED BY <1>2, <1>3, <1>4, <1>5, Zenon DEF Next

LEMMA WorkingValue == (removing => Working = 1) /\ (~removing => Working = 0)
  BY Zenon DEF Working

LEMMA DueValue ==
    /\ admin \in {"pushed", "waiting"} => Due = 1
    /\ admin \notin {"pushed", "waiting"} => Due = 0
  BY Zenon DEF Due

LEMMA SumIsOne ==
    ASSUME NEW q \in Nat, NEW w \in {0, 1}, NEW k \in Nat, q + w + k = 1, q > 0
    PROVE  q = 1 /\ k = 0
  OBVIOUS

LEMMA OneIsLeft ==
    ASSUME NEW q, NEW w \in {0, 1}, NEW k \in Nat, NEW before,
           q = 0, before = 0, w + k = 1 + before
    PROVE  q + w + k = 1
  OBVIOUS

(* A pass over the sessions ends with an ack or leaves the thread removing.   *)
LEMMA PassAcksOrRemoves ==
    ASSUME NEW over, RemovePass(over), acks \in Nat
    PROVE  /\ removing' \in BOOLEAN /\ acks' \in Nat /\ Working' \in {0, 1}
           /\ Working' + acks' = 1 + acks
  <1>1. PICK cnt : acks' = acks + Acked(cnt, over) /\ removing' = (Acked(cnt, over) = 0)
    BY Zenon DEF RemovePass
  <1>2. Acked(cnt, over) = 0 \/ Acked(cnt, over) = 1
    BY Zenon DEF Acked
  <1>3. removing' \in BOOLEAN
    BY <1>1, Zenon
  <1>4. CASE Acked(cnt, over) = 0
    <2>1. Working' = 1
      BY <1>1, <1>4, Zenon DEF Working
    <2>2. acks' = acks + 0
      BY <1>1, <1>4, Zenon
    <2> QED BY <1>3, <2>1, <2>2
  <1>5. CASE Acked(cnt, over) = 1
    <2>1. Acked(cnt, over) # 0
      BY <1>5
    <2>2. Working' = 0
      BY <1>1, <2>1, Zenon DEF Working
    <2>3. acks' = acks + 1
      BY <1>1, <1>5, Zenon
    <2> QED BY <1>3, <2>2, <2>3
  <1> QED BY <1>2, <1>4, <1>5, Zenon

LEMMA StepKeeps ==
    ASSUME IInv, [MNext]_mvars
    PROVE  IInv'
  <1>1. Counts /\ (removing' = removing => Working' = Working)
    BY DEF IInv, Working
  <1>2. /\ admin \in {"pushed", "waiting"} => Due = 1
        /\ admin \notin {"pushed", "waiting"} => Due = 0
    BY DueValue, Zenon
  <1>3. /\ admin' \in {"pushed", "waiting"} => Due' = 1
        /\ admin' \notin {"pushed", "waiting"} => Due' = 0
    BY Zenon DEF Due
  <1>4. CASE UNCHANGED mvars
    BY <1>4, Zenon DEF IInv, Flags, Counts, Up, Working, Due, mvars, vars, ipc
  <1>5. CASE Next /\ UNCHANGED ipc
    <2>1. Up' => Up
      BY <1>5, SessionsStayDead, Zenon DEF Up
    <2>2. Flags'
      BY <1>5, Zenon DEF IInv, Flags, ipc
    <2>3. Counts'
      BY <1>1, <1>2, <1>3, <1>5, <2>1, Zenon DEF Counts, ipc
    <2> QED BY <2>2, <2>3, Zenon DEF IInv
  <1>6. CASE FlushHostgroups
    <2>1. Up /\ Flags'
      BY <1>6, Zenon DEF IInv, Up, Flags, FlushHostgroups
    <2>2. /\ admin = "idle" /\ admin' = "flushed" /\ removing' = removing
          /\ queue' = queue /\ pipe' = pipe /\ acks' = acks
      BY <1>6, Zenon DEF FlushHostgroups
    <2>3. Counts'
      BY <1>1, <1>2, <1>3, <2>1, <2>2, Zenon DEF Counts
    <2> QED BY <2>1, <2>3, Zenon DEF IInv
  <1>7. CASE PushCommand
    <2>1. Up /\ Flags'
      BY <1>7, Zenon DEF IInv, Up, Flags, PushCommand
    <2>2. /\ admin = "flushed" /\ admin' = "pushed" /\ removing' = removing
          /\ queue' = queue + 1 /\ pipe' = pipe /\ acks' = acks
      BY <1>7, Zenon DEF PushCommand
    <2>3. Counts'
      BY <1>1, <1>2, <1>3, <2>1, <2>2 DEF Counts
    <2> QED BY <2>1, <2>3, Zenon DEF IInv
  <1>8. CASE WriteByte
    <2>1. Up /\ Flags'
      BY <1>8, Zenon DEF IInv, Up, Flags, WriteByte
    <2>2. /\ admin = "pushed" /\ admin' = "waiting" /\ removing' = removing
          /\ queue' = queue /\ pipe' = pipe + 1 /\ acks' = acks
      BY <1>8, Zenon DEF WriteByte
    <2>3. Counts'
      BY <1>1, <1>2, <1>3, <2>1, <2>2 DEF Counts
    <2> QED BY <2>1, <2>3, Zenon DEF IInv
  <1>9. CASE TakeAck
    <2>1. Up /\ Flags'
      BY <1>9, Zenon DEF IInv, Up, Flags, TakeAck
    <2>2. /\ admin = "waiting" /\ admin' = "idle" /\ removing' = removing
          /\ queue' = queue /\ pipe' = pipe /\ acks > 0 /\ acks' = acks - 1
      BY <1>9, Zenon DEF TakeAck
    <2>3. Counts'
      BY <1>1, <1>2, <1>3, <2>1, <2>2 DEF Counts
    <2> QED BY <2>1, <2>3, Zenon DEF IInv
  <1>10. CASE ReadPipe
    <2>1. /\ removing' \in BOOLEAN /\ acks' \in Nat /\ Working' \in {0, 1}
          /\ Working' + acks' = 1 + acks
      <3>1. RemovePass(FALSE)
        BY <1>10, Zenon DEF ReadPipe
      <3> QED BY <1>1, <3>1, PassAcksOrRemoves, Zenon DEF Counts
    <2>2. Up /\ late' = FALSE
      BY <1>10, Zenon DEF ReadPipe, Up
    <2>3. pipe > 0 /\ admin' = admin /\ pipe' = pipe - 1 /\ queue' = queue - 1
      BY <1>10, Zenon DEF ReadPipe
    <2>4. Flags'
      BY <2>1, <2>2, Zenon DEF Flags
    <2>5. Counts'
      <3>1. Up /\ acks' \in Nat /\ Working' \in {0, 1} /\ Working' + acks' = 1 + acks
        BY <2>1, <2>2, Zenon
      <3>2. queue \in Nat /\ pipe \in Nat /\ acks \in Nat /\ Working \in {0, 1}
            /\ pipe = queue /\ queue + Working + acks = Due /\ admin # "pushed"
            /\ admin \in {"idle", "flushed", "pushed", "waiting"}
        BY <1>1, <2>3, <3>1 DEF Counts
      <3>3. admin = "waiting"
        BY <1>2, <2>3, <3>2
      <3>4. queue + Working + acks = 1
        BY <1>2, <3>2, <3>3, Zenon
      <3>5. queue > 0
        BY <2>3, <3>2, Zenon
      <3>6. queue = 1 /\ acks = 0
        BY <3>2, <3>4, <3>5, SumIsOne, Zenon
      <3>7. queue' = 0 /\ pipe' = 0
        BY <2>3, <3>2, <3>6
      <3>8. queue' + Working' + acks' = 1
        BY <3>1, <3>6, <3>7, OneIsLeft, Zenon
      <3>9. admin' = "waiting"
        BY <2>3, <3>3, Zenon
      <3>10. Due' = 1
        BY <1>3, <3>9, Zenon
      <3>11. 0 \in Nat /\ 0 <= 0
        OBVIOUS
      <3> QED BY <3>1, <3>7, <3>8, <3>9, <3>10, <3>11, Zenon DEF Counts
    <2> QED BY <2>4, <2>5, Zenon DEF IInv
  <1>11. CASE KeepRemoving
    <2>1. /\ removing' \in BOOLEAN /\ acks' \in Nat /\ Working' \in {0, 1}
          /\ Working' + acks' = 1 + acks
      <3>1. RemovePass(late)
        BY <1>11, Zenon DEF KeepRemoving
      <3> QED BY <1>1, <3>1, PassAcksOrRemoves, Zenon DEF Counts
    <2>2. Up /\ removing
      BY <1>11, Zenon DEF KeepRemoving, Up
    <2>3. UNCHANGED <<admin, pipe, queue, late>>
      BY <1>11, Zenon DEF KeepRemoving
    <2>4. Working = 1
      BY <2>2, WorkingValue, Zenon
    <2>5. Flags'
      BY <2>1, <2>3, Zenon DEF IInv, Flags
    <2>6. Counts'
      <3>1. Up /\ acks' \in Nat /\ Working' \in {0, 1} /\ Working' + acks' = 1 + acks
        BY <2>1, <2>2, Zenon
      <3>2. admin' = admin /\ pipe' = pipe /\ queue' = queue
        BY <2>3, Zenon
      <3>3. queue \in Nat /\ pipe \in Nat /\ acks \in Nat /\ queue + 1 + acks = Due
            /\ (admin = "pushed" => queue = 1 /\ pipe = 0) /\ (admin # "pushed" => pipe = queue)
            /\ admin \in {"idle", "flushed", "pushed", "waiting"}
        BY <1>1, <2>4, <3>1, Zenon DEF Counts
      <3>4. admin = "waiting"
        BY <1>2, <3>3
      <3>5. queue + 1 + acks = 1
        BY <1>2, <3>3, <3>4, Zenon
      <3>6. queue = 0 /\ acks = 0
        BY <3>3, <3>5
      <3>7. queue' = 0 /\ pipe' = 0 /\ admin' = "waiting"
        BY <3>2, <3>3, <3>4, <3>6, Zenon
      <3>8. queue' + Working' + acks' = 1
        BY <3>1, <3>6, <3>7, OneIsLeft, Zenon
      <3>9. Due' = 1
        BY <1>3, <3>7, Zenon
      <3>10. 0 \in Nat /\ 0 <= 0
        OBVIOUS
      <3> QED BY <3>1, <3>7, <3>8, <3>9, <3>10, Zenon DEF Counts
    <2> QED BY <2>5, <2>6, Zenon DEF IInv
  <1>12. CASE MaintenanceEnds
    <2>1. Up /\ Flags'
      BY <1>12, Zenon DEF IInv, Up, Flags, MaintenanceEnds
    <2>2. UNCHANGED <<admin, queue, pipe, acks, removing>>
      BY <1>12, Zenon DEF MaintenanceEnds
    <2>3. Counts'
      BY <1>1, <1>2, <1>3, <2>1, <2>2, Zenon DEF Counts
    <2> QED BY <2>1, <2>3, Zenon DEF IInv
  <1>13. CASE Restart
    <2>1. Flags' /\ Working' = 0
      BY <1>13, Zenon DEF Restart, Flags, Working
    <2>2. admin' = "idle" /\ queue' = 0 /\ pipe' = 0 /\ acks' = 0
      BY <1>13, Zenon DEF Restart
    <2>3. Counts'
      BY <1>3, <2>1, <2>2 DEF Counts
    <2> QED BY <2>1, <2>3, Zenon DEF IInv
  <1> QED BY <1>4, <1>5, <1>6, <1>7, <1>8, <1>9, <1>10, <1>11, <1>12, <1>13, Zenon DEF MNext

(* IInv holds in every behaviour of the admin thread, the mysql thread and    *)
(* the angel process.                                                         *)
THEOREM MaintenanceInductive == MSpec => []IInv
  <1>1. MInit => IInv
    <2> SUFFICES ASSUME MInit PROVE IInv
      BY Zenon
    <2>1. admin = "idle" /\ queue = 0 /\ pipe = 0 /\ acks = 0 /\ removing = FALSE /\ late = FALSE
      BY Zenon DEF MInit, InitIpc
    <2>2. Flags /\ Working = 0
      BY <2>1, Zenon DEF Flags, Working
    <2>3. Counts
      <3>1. admin = "idle" /\ queue = 0 /\ pipe = 0 /\ acks = 0 /\ Working = 0
        BY <2>1, <2>2, Zenon
      <3> QED BY <3>1, DueValue DEF Counts
    <2> QED BY <2>2, <2>3, Zenon DEF IInv
  <1>2. IInv /\ [MNext]_mvars => IInv'
    BY StepKeeps, Zenon
  <1> QED BY <1>1, <1>2, PTL DEF MSpec

(* force_remove_servers and the mysql thread agree on one command at a time,  *)
(* whatever sessions do in between and wherever the proxy dies: the byte is   *)
(* never ahead of its command, so the thread never blocks in                  *)
(* g_async_queue_pop, and each command is acknowledged once.                  *)
THEOREM CommandsHandledOnce == MSpec => []OneCommandAtATime
  <1>1. IInv => OneCommandAtATime
    BY Zenon DEF IInv, Counts, OneCommandAtATime, Up, Working, Due
  <1> QED BY <1>1, MaintenanceInductive, PTL

-----------------------------------------------------------------------------
(* Of a session only the servers of its backends matter here, whether it is   *)
(* there, and that its packet is one a client sends.                          *)

Formed(S) ==
    /\ {"mybes", "state", "pkt"} \subseteq DOMAIN S
    /\ DOMAIN S.mybes = Hostgroups
    /\ \A h \in Hostgroups : "mshge" \in DOMAIN S.mybes[h]
    /\ S.pkt \in Packets \cup {NoPkt}
Unused(S) == \A h \in Hostgroups : S.mybes[h].mshge = NoServer
Clean(S) == \A h \in Hostgroups : ~Soft(S.mybes[h])

(* A session that is not there has no server. *)
Well(S) == Formed(S) /\ (S.state = "none" => Unused(S))

(* T is S later on: the same session, with no new backend that is to go. *)
Keeps(S, T) == Formed(T) /\ T.state = S.state /\ (Clean(S) => Clean(T))

LEMMA NewIsClean ==
    ASSUME NEW st
    PROVE  Formed(NewSession(st)) /\ Unused(NewSession(st)) /\ Clean(NewSession(st))
  <1> DEFINE N == NewSession(st)
  <1>1. /\ {"mybes", "state", "pkt"} \subseteq DOMAIN N
        /\ N.mybes = [h \in Hostgroups |-> NewBackend] /\ N.pkt = NoPkt
    BY DEF NewSession
  <1>2. "mshge" \in DOMAIN NewBackend /\ NewBackend.mshge = NoServer /\ NoServer \notin Servers
    BY SessionAssumption DEF NewBackend
  <1> HIDE DEF N
  <1>3. DOMAIN N.mybes = Hostgroups /\ \A h \in Hostgroups : N.mybes[h] = NewBackend
    BY <1>1, Zenon
  <1>4. Formed(N) /\ Unused(N) /\ Clean(N)
    BY <1>1, <1>2, <1>3, Zenon DEF Formed, Unused, Clean, Soft
  <1> QED BY <1>4, Zenon DEF N

(* The other fields of a session change. *)
LEMMA SameBackends ==
    ASSUME NEW S, NEW T, Formed(S), {"mybes", "state", "pkt"} \subseteq DOMAIN T,
           T.mybes = S.mybes, T.state = S.state, T.pkt \in Packets \cup {NoPkt}
    PROVE  Keeps(S, T)
  BY Zenon DEF Keeps, Formed, Clean

LEMMA KeepsOn ==
    ASSUME NEW S, NEW T, NEW U, Keeps(S, T), Keeps(T, U)
    PROVE  Keeps(S, U)
  BY Zenon DEF Keeps

LEMMA KeepsItself ==
    ASSUME NEW S, Formed(S)
    PROVE  Keeps(S, S)
  BY Zenon DEF Keeps

LEMMA ResetKeeps ==
    ASSUME NEW p, NEW S, NEW H, NEW fc, Formed(S)
    PROVE  Keeps(S, backend_reset(p, S, H, fc).sess)
  <1> DEFINE T == [S EXCEPT !.mybes = [h \in Hostgroups |->
                                         IF h \in H THEN NewBackend ELSE S.mybes[h]]]
  <1>1. backend_reset(p, S, H, fc).sess = T
    BY DEF backend_reset
  <1>2. {"mybes", "state", "pkt"} \subseteq DOMAIN S
    BY Zenon DEF Formed
  <1>3. /\ {"mybes", "state", "pkt"} \subseteq DOMAIN T /\ T.state = S.state /\ T.pkt = S.pkt
        /\ T.mybes = [h \in Hostgroups |-> IF h \in H THEN NewBackend ELSE S.mybes[h]]
    BY <1>2
  <1> HIDE DEF T
  <1>4. /\ DOMAIN T.mybes = Hostgroups
        /\ \A h \in Hostgroups : T.mybes[h] = NewBackend \/ T.mybes[h] = S.mybes[h]
    BY <1>3, Zenon
  <1>5. "mshge" \in DOMAIN NewBackend /\ ~Soft(NewBackend)
    BY SessionAssumption DEF NewBackend, Soft
  <1>6. Keeps(S, T)
    BY <1>3, <1>4, <1>5, Zenon DEF Keeps, Formed, Clean
  <1> QED BY <1>1, <1>6, Zenon

LEMMA DetachKeeps ==
    ASSUME NEW p, NEW S, NEW H, Formed(S)
    PROVE  Keeps(S, backend_detach(p, S, H).sess)
  <1> DEFINE B(h) == [S.mybes[h] EXCEPT !.ref = IF h \in H THEN NoPool ELSE @,
                                        !.mycpe = IF h \in Detachable(p, S, H)
                                                  THEN NoConn ELSE @]
             T == [S EXCEPT !.mybes = [h \in Hostgroups |-> B(h)]]
  <1>1. backend_detach(p, S, H).sess = T
    BY DEF backend_detach
  <1>2. {"mybes", "state", "pkt"} \subseteq DOMAIN S
    BY Zenon DEF Formed
  <1>3. ASSUME NEW h \in Hostgroups
        PROVE  "mshge" \in DOMAIN B(h) /\ B(h).mshge = S.mybes[h].mshge
    <2>1. "mshge" \in DOMAIN S.mybes[h]
      BY Zenon DEF Formed
    <2> QED BY <2>1, Zenon
  <1> HIDE DEF B
  <1>4. /\ {"mybes", "state", "pkt"} \subseteq DOMAIN T /\ T.state = S.state /\ T.pkt = S.pkt
        /\ T.mybes = [h \in Hostgroups |-> B(h)]
    BY <1>2
  <1> HIDE DEF T
  <1>5. DOMAIN T.mybes = Hostgroups /\ \A h \in Hostgroups : T.mybes[h] = B(h)
    BY <1>4, Zenon
  <1>6. Keeps(S, T)
    BY <1>3, <1>4, <1>5, Zenon DEF Keeps, Formed, Clean, Soft
  <1> QED BY <1>1, <1>6, Zenon

(* A backend takes the place of another. *)
LEMMA PutKeeps ==
    ASSUME NEW S, NEW g, NEW be, Formed(S), "mshge" \in DOMAIN be, Clean(S) => ~Soft(be)
    PROVE  Keeps(S, [S EXCEPT !.mybes[g] = be])
  <1> DEFINE T == [S EXCEPT !.mybes[g] = be]
  <1>1. {"mybes", "state", "pkt"} \subseteq DOMAIN S /\ DOMAIN S.mybes = Hostgroups
    BY Zenon DEF Formed
  <1>2. /\ {"mybes", "state", "pkt"} \subseteq DOMAIN T /\ T.state = S.state /\ T.pkt = S.pkt
        /\ T.mybes = [S.mybes EXCEPT ![g] = be]
    BY <1>1, Zenon
  <1> HIDE DEF T
  <1>3. /\ DOMAIN T.mybes = Hostgroups
        /\ \A h \in Hostgroups : T.mybes[h] = be \/ T.mybes[h] = S.mybes[h]
    BY <1>1, <1>2, Zenon
  <1>4. Keeps(S, T)
    BY <1>2, <1>3, Zenon DEF Keeps, Formed, Clean
  <1> QED BY <1>4, Zenon DEF T

Stocked == \A h \in Hostgroups : \A m \in hostgroup[h] : status[m] # "OFFLINE_SOFT"

(* What mysql_session_create_backend_for_hostgroup leaves: a server of the    *)
(* hostgroup, or the one the backend had.                                     *)
LEMMA CreatedClean ==
    ASSUME NEW p, NEW S, NEW h \in Hostgroups, Formed(S), Stocked
    PROVE  \A r \in CreateBackend(p, S, h) :
              "mshge" \in DOMAIN r.be /\ (Clean(S) => ~Soft(r.be))
  <1> DEFINE b == S.mybes[h]
             key(ms) == [server |-> ms, user |-> S.user, pass |-> S.pass, schema |-> S.schema]
             left(g, ms) == [cp |-> g.cp,
                             be |-> [b EXCEPT !.mshge = ms, !.mycpe = g.mycpe, !.ref = g.ref,
                                              !.myds = IF g.mycpe # NoConn /\ @ = "none"
                                                       THEN "active" ELSE @]]
             tries(q, ref, M) ==
                 UNION {{left(g, ms) : g \in GetConnection(q, ref, key(ms))} : ms \in M}
             again(r) == IF hostgroup[h] = {}
                         THEN {[r EXCEPT !.be.mshge = NoServer]}
                         ELSE tries(r.cp, r.be.ref, hostgroup[h])
             first == IF b.mshge = NoServer THEN hostgroup[h] ELSE {b.mshge}
             Fine(ms) == Clean(S) => ms \notin Servers \/ status[ms] # "OFFLINE_SOFT"
             Good(r) == /\ "be" \in DOMAIN r /\ "mshge" \in DOMAIN r.be
                        /\ Clean(S) => ~Soft(r.be)
  <1>1. "mshge" \in DOMAIN b /\ (Clean(S) => ~Soft(b))
    BY Zenon DEF Formed, Clean
  <1>2. CreateBackend(p, S, h) =
            IF first = {} THEN {[cp |-> p, be |-> b]}
            ELSE UNION {IF r.be.mycpe # NoConn THEN {r} ELSE again(r) : r \in tries(p, b.ref, first)}
    BY Zenon DEF CreateBackend
  <1>3. ASSUME NEW g, NEW ms, Fine(ms)
        PROVE  Good(left(g, ms))
    <2>1. "be" \in DOMAIN left(g, ms)
      BY Zenon
    <2>2. "mshge" \in DOMAIN left(g, ms).be /\ left(g, ms).be.mshge = ms
      <3> HIDE DEF b
      <3> QED BY <1>1, Zenon
    <2> HIDE DEF left
    <2> QED BY <1>3, <2>1, <2>2, Zenon DEF Soft
  <1> HIDE DEF left, key, Good
  <1>4. ASSUME NEW q, NEW ref, NEW M, \A ms \in M : Fine(ms), NEW r \in tries(q, ref, M)
        PROVE  Good(r)
    <2> HIDE DEF Fine
    <2> QED BY <1>3, <1>4, Zenon
  <1>5. \A ms \in hostgroup[h] : Fine(ms)
    BY Zenon DEF Stocked
  <1>6. \A ms \in first : Fine(ms)
    <2>1. Fine(b.mshge)
      BY <1>1, Zenon DEF Soft
    <2> HIDE DEF Fine, b
    <2> QED BY <1>5, <2>1, Zenon
  <1> HIDE DEF Fine, first, tries
  <1>7. ASSUME NEW r, Good(r), NEW x \in again(r)
        PROVE  Good(x)
    <2>1. CASE hostgroup[h] = {}
      <3>1. x = [r EXCEPT !.be.mshge = NoServer]
        BY <1>7, <2>1, Zenon
      <3>2. "be" \in DOMAIN r /\ "mshge" \in DOMAIN r.be
        BY <1>7, Zenon DEF Good
      <3>3. "be" \in DOMAIN x /\ x.be = [r.be EXCEPT !.mshge = NoServer]
        BY <3>1, <3>2, Zenon
      <3>4. "mshge" \in DOMAIN x.be /\ x.be.mshge = NoServer
        BY <3>2, <3>3, Zenon
      <3>5. NoServer \notin Servers
        BY SessionAssumption
      <3> QED BY <3>3, <3>4, <3>5, Zenon DEF Good, Soft
    <2>2. CASE hostgroup[h] # {}
      BY <1>4, <1>5, <1>7, <2>2, Zenon
    <2> QED BY <2>1, <2>2, Zenon
  <1> HIDE DEF again
  <1>8. ASSUME NEW r \in CreateBackend(p, S, h)
        PROVE  Good(r)
    <2>1. CASE first = {}
      <3>1. r = [cp |-> p, be |-> b]
        BY <1>2, <2>1, Zenon
      <3>2. "be" \in DOMAIN r /\ r.be = b
        BY <3>1, Zenon
      <3> HIDE DEF b
      <3> QED BY <1>1, <3>2, Zenon DEF Good
    <2>2. CASE first # {}
      <3>1. PICK x \in tries(p, b.ref, first) : r \in IF x.be.mycpe # NoConn THEN {x} ELSE again(x)
        BY <1>2, <2>2, Zenon
      <3>2. Good(x)
        <4> HIDE DEF b
        <4> QED BY <1>4, <1>6, Zenon
      <3> QED BY <1>7, <3>1, <3>2, Zenon
    <2> QED BY <2>1, <2>2, Zenon
  <1> QED BY <1>8, Zenon DEF Good


-----------------------------------------------------------------------------
(* What a handler makes of a session S: S later on, or no session. *)
Good(S, o) == Keeps(S, o.sess) \/ o.sess = NewSession("none")

LEMMA OutcomeGood ==
    ASSUME NEW p, NEW w, NEW how, NEW S, NEW T, Keeps(S, T)
    PROVE  Good(S, Outcome(p, w, T)) /\ Good(S, Crash(p, w, T, how))
  <1>1. Outcome(p, w, T).sess = T /\ Crash(p, w, T, how).sess = T
    BY Zenon DEF Outcome, Crash
  <1> QED BY <1>1, Zenon DEF Good

LEMMA CloseGood ==
    ASSUME NEW p, NEW w, NEW S, NEW T, NEW s, NEW fc
    PROVE  Good(S, SessClose(p, w, T, s, fc))
  <1>1. SessClose(p, w, T, s, fc).sess = NewSession("none")
    BY Zenon DEF SessClose, Outcome
  <1> QED BY <1>1, Zenon DEF Good

LEMMA GoodOn ==
    ASSUME NEW S, NEW T, NEW o, Keeps(S, T), Good(T, o)
    PROVE  Good(S, o)
  BY KeepsOn, Zenon DEF Good

LEMMA AnsweredKeeps ==
    ASSUME NEW S, NEW T, Keeps(S, T)
    PROVE  Keeps(S, Answered(T))
  <1>1. Formed(T) /\ {"mybes", "state", "pkt"} \subseteq DOMAIN T /\ T.pkt \in Packets \cup {NoPkt}
    BY Zenon DEF Keeps, Formed
  <1>2. /\ {"mybes", "state", "pkt"} \subseteq DOMAIN Answered(T) /\ Answered(T).mybes = T.mybes
        /\ Answered(T).state = T.state /\ Answered(T).pkt = T.pkt
    BY <1>1, Zenon DEF Answered
  <1>3. Keeps(T, Answered(T))
    BY <1>1, <1>2, SameBackends, Zenon
  <1> QED BY <1>3, KeepsOn, Zenon

LEMMA AskGood ==
    ASSUME NEW p, NEW w, NEW S, NEW s, NEW pkt, NEW be,
           Formed(S), "mshge" \in DOMAIN be, Clean(S) => ~Soft(be)
    PROVE  Good(S, Ask(p, w, S, s, pkt, be))
  <1> DEFINE T == [S EXCEPT !.mybes[pkt.hg] = be]
             U == [S EXCEPT !.mybes[pkt.hg] = be, !.mybe = pkt.hg]
  <1>1. Keeps(S, T)
    BY PutKeeps, Zenon
  <1>2. Formed(T)
    BY <1>1, Zenon DEF Keeps
  <1>3. {"mybes", "state", "pkt"} \subseteq DOMAIN S /\ T.pkt \in Packets \cup {NoPkt}
    BY <1>2, Zenon DEF Formed
  <1>4. /\ {"mybes", "state", "pkt"} \subseteq DOMAIN U
        /\ U.mybes = T.mybes /\ U.state = T.state /\ U.pkt = T.pkt
    BY <1>3, Zenon
  <1>5. Ask(p, w, S, s, pkt, be).sess = U
    BY Zenon DEF Ask, Outcome
  <1> HIDE DEF T, U
  <1>6. Keeps(T, U)
    BY <1>2, <1>3, <1>4, SameBackends, Zenon
  <1>7. Keeps(S, U)
    BY <1>1, <1>6, KeepsOn, Zenon
  <1> QED BY <1>5, <1>7, Zenon DEF Good

LEMMA ByStatusGood ==
    ASSUME NEW p, NEW w, NEW S, NEW s, NEW pkt, NEW be, pkt.hg \in Hostgroups, Stocked,
           Formed(S), "mshge" \in DOMAIN be, Clean(S) => ~Soft(be)
    PROVE  \A o \in ByStatus(p, w, S, s, pkt, be) : Good(S, o)
  <1> DEFINE st == status[be.mshge]
             B == [S EXCEPT !.mybes[pkt.hg] = be]
             reset == backend_reset(p, B, {pkt.hg}, FALSE)
             asked(q, b) == IF status[b.mshge] = "ONLINE"
                            THEN Ask(q, w, reset.sess, s, pkt, b)
                            ELSE Crash(q, w, reset.sess, "assert")
             again(r) == IF r.be.mshge = NoServer \/ r.be.mycpe = NoConn
                         THEN Crash(r.cp, w, reset.sess, "sigsegv")
                         ELSE asked(r.cp, r.be)
  <1>1. Keeps(S, B)
    BY PutKeeps, Zenon
  <1>2. ByStatus(p, w, S, s, pkt, be) =
            CASE st = "OFFLINE_HARD" -> {SessClose(p, w, B, s, FALSE)}
              [] st = "OFFLINE_SOFT" /\ ~be.trx ->
                    {again(r) : r \in CreateBackend(reset.cp, reset.sess, pkt.hg)}
              [] st = "ONLINE" -> {Ask(p, w, B, s, pkt, be)}
              [] OTHER -> {Crash(p, w, B, "assert")}
    BY Zenon DEF ByStatus
  <1>3. Formed(B)
    BY <1>1, Zenon DEF Keeps
  <1>4. Keeps(B, reset.sess)
    <2> HIDE DEF B
    <2> QED BY <1>3, ResetKeeps, Zenon
  <1>5. Keeps(S, reset.sess) /\ Formed(reset.sess)
    <2> HIDE DEF B, reset
    <2>1. Keeps(S, reset.sess)
      BY <1>1, <1>4, KeepsOn, Zenon
    <2> QED BY <2>1, Zenon DEF Keeps
  <1>6. st = "ONLINE" => (Clean(B) => ~Soft(be))
    BY Zenon DEF Soft
  <1> HIDE DEF B, reset
  <1>7. ASSUME NEW r \in CreateBackend(reset.cp, reset.sess, pkt.hg)
        PROVE  Good(S, again(r))
    <2>1. "mshge" \in DOMAIN r.be /\ (Clean(reset.sess) => ~Soft(r.be))
      BY <1>5, CreatedClean, Zenon
    <2>2. Good(reset.sess, Ask(r.cp, w, reset.sess, s, pkt, r.be))
      BY <1>5, <2>1, AskGood, Zenon
    <2>3. Good(S, Ask(r.cp, w, reset.sess, s, pkt, r.be))
      BY <1>5, <2>2, GoodOn, Zenon
    <2>4. \A how : Good(S, Crash(r.cp, w, reset.sess, how))
      BY <1>5, OutcomeGood, Zenon
    <2> QED BY <2>3, <2>4, Zenon
  <1>8. st = "ONLINE" => Good(S, Ask(p, w, B, s, pkt, be))
    <2>1. st = "ONLINE" => Good(B, Ask(p, w, B, s, pkt, be))
      BY <1>3, <1>6, AskGood, Zenon
    <2> QED BY <1>1, <2>1, GoodOn, Zenon
  <1>9. Good(S, Crash(p, w, B, "assert")) /\ Good(S, SessClose(p, w, B, s, FALSE))
    BY <1>1, OutcomeGood, CloseGood, Zenon
  <1> HIDE DEF again, st
  <1> QED BY <1>2, <1>7, <1>8, <1>9, Zenon


LEMMA ForwardGood ==
    ASSUME NEW p, NEW w, NEW S, NEW s, NEW pkt \in Packets, pkt.hg \in Hostgroups, Stocked,
           Formed(S)
    PROVE  \A o \in Forward(p, w, S, s, pkt) : Good(S, o)
  <1> DEFINE b == S.mybes[pkt.hg]
             active == b.mshge # NoServer /\ b.mycpe # NoConn
             put(r) == [S EXCEPT !.mybes[pkt.hg] = r.be]
             q(r) == MarkNotReusable(r.cp, r.be, pkt)
             served(r) == IF r.be.mshge = NoServer
                          THEN {Outcome(q(r), w, [put(r) EXCEPT !.pkt = pkt])}
                          ELSE IF r.be.mycpe = NoConn
                          THEN {SessClose(q(r), w, put(r), s, FALSE)}
                          ELSE ByStatus(q(r), w, S, s, pkt, r.be)
             found == IF active THEN {[cp |-> p, be |-> b]} ELSE CreateBackend(p, S, pkt.hg)
  <1>1. Forward(p, w, S, s, pkt) = IF b.mshge = Wild THEN {Crash(p, w, S, "sigsegv")}
                                   ELSE UNION {served(r) : r \in found}
    BY Zenon DEF Forward
  <1>2. ASSUME NEW r \in found
        PROVE  "mshge" \in DOMAIN r.be /\ (Clean(S) => ~Soft(r.be))
    <2>1. CASE active
      <3>1. r = [cp |-> p, be |-> b]
        BY <1>2, <2>1, Zenon
      <3>2. r.be = b
        BY <3>1, Zenon
      <3>3. "mshge" \in DOMAIN b /\ (Clean(S) => ~Soft(b))
        BY Zenon DEF Formed, Clean
      <3> HIDE DEF b
      <3> QED BY <3>2, <3>3, Zenon
    <2>2. CASE ~active
      <3>1. r \in CreateBackend(p, S, pkt.hg)
        BY <1>2, <2>2, Zenon
      <3> QED BY <3>1, CreatedClean, Zenon
    <2> QED BY <2>1, <2>2, Zenon
  <1> HIDE DEF found, q
  <1>3. ASSUME NEW r \in found, NEW o \in served(r)
        PROVE  Good(S, o)
    <2>1. "mshge" \in DOMAIN r.be /\ (Clean(S) => ~Soft(r.be))
      BY <1>2, Zenon
    <2>2. Keeps(S, put(r))
      BY <2>1, PutKeeps, Zenon
    <2> DEFINE back == [put(r) EXCEPT !.pkt = pkt]
    <2> HIDE DEF put
    <2>3. Keeps(S, back)
      <3>1. Formed(put(r)) /\ {"mybes", "state", "pkt"} \subseteq DOMAIN put(r)
        BY <2>2, Zenon DEF Keeps, Formed
      <3>2. /\ {"mybes", "state", "pkt"} \subseteq DOMAIN back
            /\ back.mybes = put(r).mybes /\ back.state = put(r).state /\ back.pkt = pkt
        BY <3>1, Zenon
      <3> HIDE DEF back
      <3>3. back.pkt \in Packets \cup {NoPkt}
        BY <3>2, Zenon
      <3>4. Keeps(put(r), back)
        BY <3>1, <3>2, <3>3, SameBackends, Zenon
      <3> QED BY <2>2, <3>4, KeepsOn, Zenon
    <2>4. Good(S, Outcome(q(r), w, back))
      <3> HIDE DEF back
      <3> QED BY <2>3, OutcomeGood, Zenon
    <2>5. Good(S, SessClose(q(r), w, put(r), s, FALSE))
      BY CloseGood, Zenon
    <2>6. \A x \in ByStatus(q(r), w, S, s, pkt, r.be) : Good(S, x)
      BY <2>1, ByStatusGood, Zenon
    <2> QED BY <1>3, <2>4, <2>5, <2>6, Zenon
  <1>4. Good(S, Crash(p, w, S, "sigsegv"))
    BY KeepsItself, OutcomeGood, Zenon
  <1> HIDE DEF served, b
  <1>5. CASE b.mshge = Wild
    <2>1. Forward(p, w, S, s, pkt) = {Crash(p, w, S, "sigsegv")}
      BY <1>1, <1>5, Zenon
    <2> QED BY <1>4, <2>1, Zenon
  <1>6. CASE b.mshge # Wild
    <2>1. Forward(p, w, S, s, pkt) = UNION {served(r) : r \in found}
      BY <1>1, <1>6, Zenon
    <2> QED BY <1>3, <2>1, Zenon
  <1> QED BY <1>5, <1>6, Zenon

LEMMA ResetAllKeeps ==
    ASSUME NEW p, NEW S, Formed(S)
    PROVE  Keeps(S, ResetAll(p, S).sess)
  <1> DEFINE r == backend_reset(p, S, Hostgroups, FALSE)
             T == [r.sess EXCEPT !.mybe = NoHg]
  <1>1. "sess" \in DOMAIN r
    BY Zenon DEF backend_reset
  <1>2. Keeps(S, r.sess)
    BY ResetKeeps, Zenon
  <1>3. ResetAll(p, S) = [r EXCEPT !.sess.mybe = NoHg]
    BY Zenon DEF ResetAll
  <1> HIDE DEF r
  <1>4. ResetAll(p, S).sess = T
    BY <1>1, <1>3, Zenon
  <1>5. /\ Formed(r.sess) /\ {"mybes", "state", "pkt"} \subseteq DOMAIN r.sess
        /\ r.sess.pkt \in Packets \cup {NoPkt}
    BY <1>2, Zenon DEF Keeps, Formed
  <1>6. /\ {"mybes", "state", "pkt"} \subseteq DOMAIN T
        /\ T.mybes = r.sess.mybes /\ T.state = r.sess.state /\ T.pkt = r.sess.pkt
    BY <1>5, Zenon
  <1> HIDE DEF T
  <1>7. Keeps(r.sess, T)
    BY <1>5, <1>6, SameBackends, Zenon
  <1> QED BY <1>2, <1>4, <1>7, KeepsOn, Zenon

(* A field that is not one of the three changes. *)
LEMMA FieldsKeep ==
    ASSUME NEW S, NEW T, NEW u, NEW d, Keeps(S, T)
    PROVE  /\ Keeps(S, [T EXCEPT !.schema = d])
           /\ Keeps(S, [T EXCEPT !.pass = u, !.change_user = FALSE])
           /\ Keeps(S, [T EXCEPT !.user = u, !.schema = d, !.change_user = TRUE])
  <1>1. Formed(T) /\ {"mybes", "state", "pkt"} \subseteq DOMAIN T /\ T.pkt \in Packets \cup {NoPkt}
    BY Zenon DEF Keeps, Formed
  <1>2. ASSUME NEW U, {"mybes", "state", "pkt"} \subseteq DOMAIN U, U.mybes = T.mybes,
               U.state = T.state, U.pkt = T.pkt
        PROVE  Keeps(S, U)
    <2>1. Keeps(T, U)
      BY <1>1, <1>2, SameBackends, Zenon
    <2> QED BY <2>1, KeepsOn, Zenon
  <1> DEFINE Same(U) == /\ {"mybes", "state", "pkt"} \subseteq DOMAIN U /\ U.mybes = T.mybes
                        /\ U.state = T.state /\ U.pkt = T.pkt
  <1>3. \A U : Same(U) => Keeps(S, U)
    BY <1>2, Zenon
  <1>4. Same([T EXCEPT !.schema = d])
    BY <1>1, Zenon
  <1>5. Same([T EXCEPT !.pass = u, !.change_user = FALSE])
    BY <1>1, Zenon
  <1>6. Same([T EXCEPT !.user = u, !.schema = d, !.change_user = TRUE])
    BY <1>1, Zenon
  <1> HIDE DEF Same
  <1> QED BY <1>3, <1>4, <1>5, <1>6, Zenon


LEMMA InitDbGood ==
    ASSUME NEW p, NEW w, NEW S, NEW pkt, Formed(S)
    PROVE  \A o \in client_COM_INIT_DB(p, w, S, pkt) : Good(S, o)
  <1> DEFINE r == ResetAll(p, S)
             T == [r.sess EXCEPT !.schema = pkt.schema]
  <1>1. Keeps(S, T)
    <2>1. Keeps(S, r.sess)
      BY ResetAllKeeps, Zenon
    <2> HIDE DEF r
    <2> QED BY <2>1, FieldsKeep, Zenon
  <1>2. client_COM_INIT_DB(p, w, S, pkt) =
            {IF SameSchema(S, pkt) THEN Outcome(p, w, Answered(S))
             ELSE Outcome(r.cp, w, Answered(T))}
    BY Zenon DEF client_COM_INIT_DB
  <1> HIDE DEF r, T
  <1>3. Keeps(S, Answered(S)) /\ Keeps(S, Answered(T))
    BY <1>1, KeepsItself, AnsweredKeeps, Zenon
  <1>4. Good(S, Outcome(p, w, Answered(S))) /\ Good(S, Outcome(r.cp, w, Answered(T)))
    BY <1>3, OutcomeGood, Zenon
  <1> QED BY <1>2, <1>4, Zenon

LEMMA ChangeUserGood ==
    ASSUME NEW p, NEW w, NEW S, Formed(S)
    PROVE  \A o \in client_COM_CHANGE_USER(p, w, S) : Good(S, o)
  <1> DEFINE r == ResetAll(p, S)
             T(n) == [r.sess EXCEPT !.user = n.user, !.schema = n.schema, !.change_user = TRUE]
  <1>1. ASSUME NEW n PROVE Keeps(S, T(n))
    <2>1. Keeps(S, r.sess)
      BY ResetAllKeeps, Zenon
    <2> HIDE DEF r
    <2> QED BY <2>1, FieldsKeep, Zenon
  <1>2. client_COM_CHANGE_USER(p, w, S) =
            {Outcome(r.cp, w, Answered(T(n))) : n \in NamesAfterFree}
    BY Zenon DEF client_COM_CHANGE_USER
  <1> HIDE DEF r, T
  <1>3. ASSUME NEW n PROVE Good(S, Outcome(r.cp, w, Answered(T(n))))
    <2>1. Keeps(S, Answered(T(n)))
      BY <1>1, AnsweredKeeps, Zenon
    <2> QED BY <2>1, OutcomeGood, Zenon
  <1> QED BY <1>2, <1>3, Zenon

LEMMA AuthSwitchGood ==
    ASSUME NEW p, NEW w, NEW S, NEW s, NEW pkt, Formed(S)
    PROVE  \A o \in AuthSwitchResponse(p, w, S, s, pkt) : Good(S, o)
  <1> DEFINE T == [S EXCEPT !.pass = PasswordOf[S.user], !.change_user = FALSE]
  <1>1. Keeps(S, S)
    BY KeepsItself, Zenon
  <1>2. Keeps(S, T)
    BY <1>1, FieldsKeep, Zenon
  <1>3. AuthSwitchResponse(p, w, S, s, pkt) =
            {IF pkt.com = "AUTH" /\ pkt.ok /\ S.user \in Known
             THEN Outcome(p, w, Answered(T))
             ELSE SessClose(p, w, S, s, FALSE)}
    BY Zenon DEF AuthSwitchResponse
  <1> HIDE DEF T
  <1>4. Keeps(S, Answered(T))
    BY <1>2, AnsweredKeeps, Zenon
  <1>5. Good(S, Outcome(p, w, Answered(T))) /\ Good(S, SessClose(p, w, S, s, FALSE))
    BY <1>4, OutcomeGood, CloseGood, Zenon
  <1> QED BY <1>3, <1>5, Zenon

(* A command that is not about the session itself names a hostgroup. *)
LEMMA PacketHostgroup ==
    ASSUME NEW pkt \in Packets, pkt.com \notin {"QUIT", "INIT_DB", "CHANGE_USER", "AUTH"}
    PROVE  pkt.hg \in Hostgroups
  <1>1. CASE pkt \in [com : {"QUERY", "STMT", "OTHER"}, hg : Destinations]
    BY <1>1, SessionAssumption, Zenon
  <1>2. CASE pkt \in [com : {"INIT_DB"}, schema : Schemas]
    BY <1>2, Zenon
  <1>3. CASE pkt \in [com : {"AUTH"}, ok : BOOLEAN]
    BY <1>3, Zenon
  <1>4. CASE pkt \in [com : {"QUIT", "CHANGE_USER"}]
    BY <1>4, Zenon
  <1> QED BY <1>1, <1>2, <1>3, <1>4, Zenon DEF Packets

LEMMA ClientPktsGood ==
    ASSUME NEW p, NEW w, NEW T, NEW s, Formed(T), T.pkt # NoPkt, Stocked
    PROVE  \A o \in process_client_pkts(p, w, T, s) : Good(T, o)
  <1> DEFINE pkt == T.pkt
             S == [T EXCEPT !.pkt = NoPkt, !.command = pkt.com]
             from == {Outcome(p, w, Answered(S))}
  <1>1. {"mybes", "state", "pkt"} \subseteq DOMAIN T /\ pkt \in Packets
    BY Zenon DEF Formed
  <1>2. /\ {"mybes", "state", "pkt"} \subseteq DOMAIN S
        /\ S.mybes = T.mybes /\ S.state = T.state /\ S.pkt = NoPkt
    BY <1>1, Zenon
  <1>3. process_client_pkts(p, w, T, s) =
            CASE pkt.com = "QUIT"        -> {SessClose(p, w, S, s, FALSE)}
              [] pkt.com = "INIT_DB"     -> client_COM_INIT_DB(p, w, S, pkt)
              [] pkt.com = "CHANGE_USER" -> client_COM_CHANGE_USER(p, w, S)
              [] pkt.com = "AUTH"        -> AuthSwitchResponse(p, w, S, s, pkt)
              [] pkt.com = "STMT" /\ S.change_user  -> AuthSwitchResponse(p, w, S, s, pkt)
              [] pkt.com = "OTHER" /\ S.change_user -> AuthSwitchResponse(p, w, S, s, pkt)
                                                       \cup Forward(p, w, S, s, pkt)
              [] pkt.com = "QUERY"       -> from \cup Forward(p, w, S, s, pkt)
              [] OTHER                   -> Forward(p, w, S, s, pkt)
    BY Zenon DEF process_client_pkts
  <1> HIDE DEF S
  <1>4. Keeps(T, S)
    <2>1. S.pkt \in Packets \cup {NoPkt}
      BY <1>2, Zenon
    <2> QED BY <1>2, <2>1, SameBackends, Zenon
  <1>5. Formed(S)
    BY <1>4, Zenon DEF Keeps
  <1> SUFFICES \A o \in process_client_pkts(p, w, T, s) : Good(S, o)
    BY <1>4, GoodOn, Zenon
  <1>6. Good(S, SessClose(p, w, S, s, FALSE))
    BY CloseGood, Zenon
  <1>7. \A o \in from : Good(S, o)
    <2>1. Keeps(S, Answered(S))
      BY <1>5, KeepsItself, AnsweredKeeps, Zenon
    <2>2. Good(S, Outcome(p, w, Answered(S)))
      BY <2>1, OutcomeGood, Zenon
    <2> QED BY <2>2, Zenon
  <1>8. \A o \in client_COM_INIT_DB(p, w, S, pkt) : Good(S, o)
    BY <1>5, InitDbGood, Zenon
  <1>9. \A o \in client_COM_CHANGE_USER(p, w, S) : Good(S, o)
    BY <1>5, ChangeUserGood, Zenon
  <1>10. \A o \in AuthSwitchResponse(p, w, S, s, pkt) : Good(S, o)
    BY <1>5, AuthSwitchGood, Zenon
  <1>11. ASSUME pkt.com \notin {"QUIT", "INIT_DB", "CHANGE_USER", "AUTH"}
         PROVE  \A o \in Forward(p, w, S, s, pkt) : Good(S, o)
    <2>1. pkt.hg \in Hostgroups
      BY <1>1, <1>11, PacketHostgroup, Zenon
    <2> QED BY <1>1, <1>5, <2>1, ForwardGood, Zenon
  <1> HIDE DEF from, pkt
  <1>12. CASE pkt.com \in {"QUIT", "INIT_DB", "CHANGE_USER", "AUTH"}
    BY <1>3, <1>6, <1>8, <1>9, <1>10, <1>12, Zenon
  <1>13. CASE pkt.com \notin {"QUIT", "INIT_DB", "CHANGE_USER", "AUTH"}
    <2>1. process_client_pkts(p, w, T, s) \subseteq
             from \cup AuthSwitchResponse(p, w, S, s, pkt) \cup Forward(p, w, S, s, pkt)
      BY <1>3, <1>13, Zenon
    <2> QED BY <1>7, <1>10, <1>11, <1>13, <2>1, Zenon
  <1> QED BY <1>12, <1>13, Zenon


LEMMA LearnKeeps ==
    ASSUME NEW S, NEW reply, NEW tx, Formed(S), NEW A \in LearnTransaction(S, reply, tx)
    PROVE  Keeps(S, A)
  <1>1. A = S \/ \E x \in BOOLEAN : A = [S EXCEPT !.mybes[S.mybe].trx = x]
    BY Zenon DEF LearnTransaction
  <1>2. CASE A = S
    BY <1>2, KeepsItself, Zenon
  <1>3. ASSUME NEW x \in BOOLEAN, A = [S EXCEPT !.mybes[S.mybe].trx = x]
        PROVE  Keeps(S, A)
    <2> DEFINE k == S.mybe
    <2>1. /\ {"mybes", "state", "pkt"} \subseteq DOMAIN S /\ DOMAIN S.mybes = Hostgroups
          /\ \A h \in Hostgroups : "mshge" \in DOMAIN S.mybes[h]
      BY Zenon DEF Formed
    <2>2. /\ {"mybes", "state", "pkt"} \subseteq DOMAIN A /\ A.state = S.state /\ A.pkt = S.pkt
          /\ A.mybes = [S.mybes EXCEPT ![k] = [S.mybes[k] EXCEPT !.trx = x]]
      BY <1>3, <2>1, Zenon
    <2> HIDE DEF k
    <2>3. /\ DOMAIN A.mybes = Hostgroups
          /\ \A h \in Hostgroups : \/ A.mybes[h] = S.mybes[h]
                                   \/ A.mybes[h] = [S.mybes[h] EXCEPT !.trx = x]
      BY <2>1, <2>2, Zenon
    <2>4. \A h \in Hostgroups : /\ "mshge" \in DOMAIN A.mybes[h]
                                /\ A.mybes[h].mshge = S.mybes[h].mshge
      <3>1. ASSUME NEW h \in Hostgroups
            PROVE  /\ "mshge" \in DOMAIN A.mybes[h]
                   /\ A.mybes[h].mshge = S.mybes[h].mshge
        <4>1. CASE A.mybes[h] = S.mybes[h]
          BY <2>1, <4>1, Zenon
        <4>2. CASE A.mybes[h] = [S.mybes[h] EXCEPT !.trx = x]
          BY <2>1, <4>2, Zenon
        <4> QED BY <2>3, <4>1, <4>2, Zenon
      <3> QED BY <3>1, Zenon
    <2>5. S.pkt \in Packets \cup {NoPkt}
      BY Zenon DEF Formed
    <2>6. Formed(A)
      BY <2>2, <2>3, <2>4, <2>5, Zenon DEF Formed
    <2> QED BY <2>2, <2>4, <2>6, Zenon DEF Keeps, Clean, Soft
  <1> QED BY <1>1, <1>2, <1>3, Zenon

LEMMA ServerPktsGood ==
    ASSUME NEW p, NEW w, NEW S, Formed(S)
    PROVE  \A o \in process_server_pkts(p, w, S) : Good(S, o)
  <1> DEFINE c == S.mybes[S.mybe].mycpe
             read == [w EXCEPT ![c].asked = Tail(@), ![c].reply = "none"]
             released(A) == IF S.command = "QUERY" /\ w[c].reply # "ERR" /\ ReleaseAll(A)
                            THEN backend_detach(p, A, Hostgroups)
                            ELSE [cp |-> p, sess |-> A]
  <1>1. process_server_pkts(p, w, S) =
            {Outcome(released(A).cp, read, Answered(released(A).sess)) :
                A \in LearnTransaction(S, w[c].reply, w[c].tx)}
    BY Zenon DEF process_server_pkts
  <1> HIDE DEF c, read
  <1>2. ASSUME NEW A \in LearnTransaction(S, w[c].reply, w[c].tx)
        PROVE  Good(S, Outcome(released(A).cp, read, Answered(released(A).sess)))
    <2>1. Keeps(S, A)
      BY LearnKeeps, Zenon
    <2>2. Formed(A)
      BY <2>1, Zenon DEF Keeps
    <2>3. Keeps(A, backend_detach(p, A, Hostgroups).sess)
      BY <2>2, DetachKeeps, Zenon
    <2>4. Keeps(S, backend_detach(p, A, Hostgroups).sess)
      BY <2>1, <2>3, KeepsOn, Zenon
    <2>5. released(A).sess = A \/ released(A).sess = backend_detach(p, A, Hostgroups).sess
      BY Zenon
    <2> HIDE DEF released
    <2>6. Keeps(S, released(A).sess)
      BY <2>1, <2>4, <2>5, Zenon
    <2>7. Keeps(S, Answered(released(A).sess))
      BY <2>6, AnsweredKeeps, Zenon
    <2> QED BY <2>7, OutcomeGood, Zenon
  <1> HIDE DEF released
  <1> QED BY <1>1, <1>2, Zenon

-----------------------------------------------------------------------------
(* The steps of the sessions. *)

Becomes(S, T) == Well(T) /\ (Clean(S) => Clean(T))

AllWell == DOMAIN sess = Sessions /\ \A s \in Sessions : Well(sess[s])

(* What a step that leaves the servers alone makes of the sessions. *)
Onward ==
    /\ status' = status /\ hostgroup' = hostgroup
    /\ DOMAIN sess' = Sessions
    /\ \A s \in Sessions : Becomes(sess[s], sess'[s])

LEMMA GoodBecomes ==
    ASSUME NEW S, NEW o, S.state # "none", Good(S, o)
    PROVE  Becomes(S, o.sess)
  <1>1. CASE Keeps(S, o.sess)
    BY <1>1, Zenon DEF Keeps, Becomes, Well
  <1>2. CASE o.sess = NewSession("none")
    BY <1>2, NewIsClean, Zenon DEF Becomes, Well
  <1> QED BY <1>1, <1>2, Zenon DEF Good

LEMMA ClosedBecomes ==
    ASSUME NEW S, NEW T, NEW p, NEW w, NEW s, NEW fc
    PROVE  Becomes(S, SessClose(p, w, T, s, fc).sess)
  <1>1. SessClose(p, w, T, s, fc).sess = NewSession("none")
    BY Zenon DEF SessClose, Outcome
  <1> QED BY <1>1, NewIsClean, Zenon DEF Becomes, Well

LEMMA HandleOnward ==
    ASSUME AllWell, NEW s \in Sessions, NEW outcomes, Handle(s, outcomes),
           \A o \in outcomes : Becomes(sess[s], o.sess)
    PROVE  Onward
  <1>1. PICK o \in outcomes : sess' = [sess EXCEPT ![s] = o.sess]
    BY Zenon DEF Handle
  <1>2. status' = status /\ hostgroup' = hostgroup
    BY Zenon DEF Handle
  <1>3. DOMAIN sess' = Sessions /\ sess'[s] = o.sess
        /\ \A t \in Sessions \ {s} : sess'[t] = sess[t]
    BY <1>1, Zenon DEF AllWell
  <1>4. \A t \in Sessions \ {s} : Becomes(sess[t], sess[t])
    BY Zenon DEF AllWell, Becomes
  <1> QED BY <1>2, <1>3, <1>4, Zenon DEF Onward


LEMMA SessionOnward ==
    ASSUME AllWell, Stocked, Next
    PROVE  Onward
  <1>1. ASSUME NEW s \in Sessions, Accept(s)
        PROVE  Onward
    <2> DEFINE o == Outcome(cp, wire, NewSession("auth"))
               O == {o}
    <2>1. Handle(s, O)
      BY <1>1, Zenon DEF Accept
    <2>2. o.sess = NewSession("auth")
      BY Zenon DEF Outcome
    <2>3. NewSession("auth").state = "auth"
      BY Zenon DEF NewSession
    <2> HIDE DEF o
    <2>4. Becomes(sess[s], o.sess)
      BY <2>2, <2>3, NewIsClean, Zenon DEF Becomes, Well
    <2>5. \A x \in O : Becomes(sess[s], x.sess)
      BY <2>4, Zenon
    <2> HIDE DEF O
    <2> QED BY <2>1, <2>5, HandleOnward, Zenon
  <1>2. ASSUME NEW s \in Sessions, process_authentication_pkt(s)
        PROVE  Onward
    <2> DEFINE closed == SessClose(cp, wire, sess[s], s, FALSE)
               in(u, d) == Outcome(cp, wire, LoggedIn(sess[s], u, d))
               O == {closed} \cup {in(u, d) : u \in Known, d \in Schemas \cup {NoSchema}}
    <2>1. Handle(s, O)
      BY <1>2, SMT DEF process_authentication_pkt
    <2>2. Becomes(sess[s], closed.sess)
      BY ClosedBecomes, Zenon
    <2>3. ASSUME NEW u, NEW d
          PROVE  Becomes(sess[s], in(u, d).sess)
      <3> DEFINE T == LoggedIn(sess[s], u, d)
      <3>1. in(u, d).sess = T
        BY Zenon DEF Outcome
      <3>2. Formed(sess[s])
        BY Zenon DEF AllWell, Well
      <3>3. /\ {"mybes", "state", "pkt"} \subseteq DOMAIN T
            /\ T.mybes = sess[s].mybes /\ T.state = "ready" /\ T.pkt = sess[s].pkt
        BY <3>2, Zenon DEF LoggedIn, Formed
      <3> HIDE DEF T
      <3>4. Formed(T) /\ (Clean(sess[s]) => Clean(T))
        BY <3>2, <3>3, Zenon DEF Formed, Clean
      <3>5. Becomes(sess[s], T)
        BY <3>3, <3>4, Zenon DEF Becomes, Well
      <3> HIDE DEF in
      <3> QED BY <3>1, <3>5, Zenon
    <2> HIDE DEF in, closed
    <2>4. \A o \in O : o = closed \/ \E u, d : o = in(u, d)
      BY SMT
    <2> HIDE DEF O
    <2>5. \A o \in O : Becomes(sess[s], o.sess)
      BY <2>2, <2>3, <2>4, Zenon
    <2> QED BY <2>1, <2>5, HandleOnward, Zenon
  <1>3. ASSUME NEW s \in Sessions, ClientSends(s)
        PROVE  Onward
    <2>1. /\ status' = status /\ hostgroup' = hostgroup
          /\ \E k \in Packets : sess' = [sess EXCEPT ![s].pkt = k, ![s].waiting = TRUE]
      BY <1>3, Zenon DEF ClientSends
    <2>2. PICK k \in Packets : sess' = [sess EXCEPT ![s].pkt = k, ![s].waiting = TRUE]
      BY <2>1, Zenon
    <2>3. Formed(sess[s])
      BY Zenon DEF AllWell, Well
    <2> DEFINE T == sess'[s]
    <2>4. /\ DOMAIN sess' = Sessions /\ \A t \in Sessions \ {s} : sess'[t] = sess[t]
          /\ T = [sess[s] EXCEPT !.pkt = k, !.waiting = TRUE]
      BY <2>2, Zenon DEF AllWell
    <2>5. {"mybes", "state", "pkt"} \subseteq DOMAIN sess[s]
      BY <2>3, Zenon DEF Formed
    <2> HIDE DEF T
    <2>6. /\ {"mybes", "state", "pkt"} \subseteq DOMAIN T
          /\ T.mybes = sess[s].mybes /\ T.state = sess[s].state /\ T.pkt = k
      BY <2>4, <2>5, Zenon
    <2>7. Formed(T) /\ (Clean(sess[s]) => Clean(T)) /\ (Unused(sess[s]) => Unused(T))
      BY <2>3, <2>6, Zenon DEF Formed, Clean, Unused
    <2>8. Becomes(sess[s], T)
      BY <2>6, <2>7, Zenon DEF Becomes, Well, AllWell
    <2>9. \A t \in Sessions \ {s} : Becomes(sess[t], sess[t])
      BY Zenon DEF AllWell, Becomes
    <2> QED BY <2>1, <2>4, <2>8, <2>9, Zenon DEF Onward, T
  <1>4. ASSUME NEW s \in Sessions, ClientGone(s)
        PROVE  Onward
    <2> DEFINE o == SessClose(cp, wire, sess[s], s, FALSE)
               O == {o}
    <2>1. Handle(s, O)
      BY <1>4, Zenon DEF ClientGone
    <2>2. Becomes(sess[s], o.sess)
      BY ClosedBecomes, Zenon
    <2> HIDE DEF o
    <2>3. \A x \in O : Becomes(sess[s], x.sess)
      BY <2>2, Zenon
    <2> HIDE DEF O
    <2> QED BY <2>1, <2>3, HandleOnward, Zenon
  <1>5. ASSUME NEW s \in Sessions, ClientPacket(s)
        PROVE  Onward
    <2> DEFINE O == process_client_pkts(cp, wire, sess[s], s)
    <2>1. sess[s].state # "none" /\ sess[s].pkt # NoPkt /\ Handle(s, O)
      BY <1>5, Zenon DEF ClientPacket
    <2>2. Formed(sess[s])
      BY Zenon DEF AllWell, Well
    <2>3. \A o \in O : Good(sess[s], o)
      BY <2>1, <2>2, ClientPktsGood, Zenon
    <2> HIDE DEF O
    <2>4. \A o \in O : Becomes(sess[s], o.sess)
      BY <2>1, <2>3, GoodBecomes, Zenon
    <2> QED BY <2>1, <2>4, HandleOnward, Zenon
  <1>6. ASSUME NEW s \in Sessions, ServerPacket(s)
        PROVE  Onward
    <2> DEFINE O == process_server_pkts(cp, wire, sess[s])
    <2>1. sess[s].state # "none" /\ Handle(s, O)
      BY <1>6, Zenon DEF ServerPacket, PolledConn
    <2>2. Formed(sess[s])
      BY Zenon DEF AllWell, Well
    <2>3. \A o \in O : Good(sess[s], o)
      BY <2>2, ServerPktsGood, Zenon
    <2> HIDE DEF O
    <2>4. \A o \in O : Becomes(sess[s], o.sess)
      BY <2>1, <2>3, GoodBecomes, Zenon
    <2> QED BY <2>1, <2>4, HandleOnward, Zenon
  <1>7. ASSUME NEW s \in Sessions, NetFailure(s)
        PROVE  Onward
    <2> DEFINE o == SessClose(cp, wire, [sess[s] EXCEPT !.mybes[sess[s].mybe].myds = "shut"],
                              s, FALSE)
               O == {o}
    <2>1. Handle(s, O)
      BY <1>7, Zenon DEF NetFailure
    <2>2. Becomes(sess[s], o.sess)
      BY ClosedBecomes, Zenon
    <2> HIDE DEF o
    <2>3. \A x \in O : Becomes(sess[s], x.sess)
      BY <2>2, Zenon
    <2> HIDE DEF O
    <2> QED BY <2>1, <2>3, HandleOnward, Zenon
  <1>8. ASSUME sess' = sess, status' = status, hostgroup' = hostgroup
        PROVE  Onward
    BY <1>8, Zenon DEF Onward, AllWell, Becomes
  <1>9. ASSUME NEW c \in Conns, ServerReplies(c) \/ ServerHangsUp(c)
        PROVE  Onward
    BY <1>8, <1>9, Zenon DEF ServerReplies, ServerHangsUp
  <1>10. CASE Clock
    BY <1>8, <1>10, Zenon DEF Clock
  <1> QED BY <1>1, <1>2, <1>3, <1>4, <1>5, <1>6, <1>7, <1>9, <1>10, Zenon DEF Next


-----------------------------------------------------------------------------
(* A pass over the sessions is a fold.  The function it is defined by exists, *)
(* since a set of sessions is finite, and the first of the sets of sessions   *)
(* for which a fact about it fails would have a smaller one before it.        *)

LEMMA Least ==
    ASSUME NEW T \in SUBSET Nat, T # {}
    PROVE  \E m \in T : \A k \in T : m <= k
  <1> DEFINE R == OpToRel(<, Nat)
  <1>1. IsWellFoundedOn(R, Nat)
    BY NatLessThanWellFounded, Zenon
  <1>2. \A k, m \in T : <<k, m>> \notin R => m <= k
    BY DEF OpToRel
  <1> HIDE DEF R
  <1>3. \E m \in T : \A k \in T : <<k, m>> \notin R
    BY <1>1, WFMin, Zenon
  <1> QED BY <1>2, <1>3, Zenon

Present(all) == {s \in Sessions : all[s].state # "none"}
Pick(T) == CHOOSE x \in T : TRUE
Start(p, w, all) == [cp |-> p, wire |-> w, sess |-> all, cnt |-> 0, segv |-> FALSE]
Visit(s, a, unmoved, closing) == After(a, s, RemoveSoft(a.cp, a.sess[s], unmoved[s]), closing)

LEMMA PickOne ==
    ASSUME NEW T, T # {}
    PROVE  Pick(T) \in T
  BY Zenon DEF Pick

LEMMA SmallerSet ==
    ASSUME NEW X, IsFiniteSet(X), NEW T \in SUBSET X
    PROVE  /\ Cardinality(T) \in Nat
           /\ T = {} <=> Cardinality(T) = 0
           /\ T # {} => /\ T \ {Pick(T)} \in SUBSET X
                        /\ Cardinality(T \ {Pick(T)}) = Cardinality(T) - 1
  <1>1. IsFiniteSet(T)
    BY FS_Subset, Zenon
  <1>2. Cardinality(T) \in Nat
    BY <1>1, FS_CardinalityType, Zenon
  <1>3. T = {} <=> Cardinality(T) = 0
    BY <1>1, FS_EmptySet, Zenon
  <1>4. ASSUME T # {}
        PROVE  Cardinality(T \ {Pick(T)}) = Cardinality(T) - 1
    BY <1>1, <1>4, PickOne, FS_RemoveElement, Zenon
  <1> QED BY <1>2, <1>3, <1>4, Zenon

(* f[T] is what the pass has come to after the sessions of T. *)
FoldsTo(f, p, w, all, unmoved, closing) ==
    \A T \in SUBSET Present(all) :
        f[T] = IF T = {} THEN Start(p, w, all)
               ELSE Visit(Pick(T), f[T \ {Pick(T)}], unmoved, closing)

LEMMA PassUnfolds ==
    ASSUME NEW p, NEW w, NEW all, NEW unmoved, NEW closing
    PROVE  \E f : Pass(p, w, all, unmoved, closing) = f[Present(all)]
                  /\ FoldsTo(f, p, w, all, unmoved, closing)
  <1> DEFINE X == Present(all)
             Body(h, T) == IF T = {} THEN Start(p, w, all)
                           ELSE Visit(Pick(T), h[T \ {Pick(T)}], unmoved, closing)
             Upto(n) == {T \in SUBSET X : Cardinality(T) <= n}
             Fix(n, h) == h = [T \in Upto(n) |-> Body(h, T)]
             iter == CHOOSE g : g = [T \in SUBSET X |-> Body(g, T)]
  <1>1. IsFiniteSet(X)
    <2>1. X \in SUBSET Sessions
      BY Zenon DEF Present
    <2> QED BY <2>1, MaintenanceAssumption, FS_Subset, Zenon
  <1>2. Pass(p, w, all, unmoved, closing) = iter[X]
    BY Zenon DEF Pass, FoldSet, MapThenFoldSet, Present, Pick, Start, Visit
  <1> HIDE DEF X
  <1>3. ASSUME NEW T \in SUBSET X
        PROVE  /\ Cardinality(T) \in Nat
               /\ T = {} <=> Cardinality(T) = 0
               /\ T # {} => /\ T \ {Pick(T)} \in SUBSET X
                            /\ Cardinality(T \ {Pick(T)}) = Cardinality(T) - 1
    BY <1>1, SmallerSet, Zenon
  <1>4. \A n \in Nat : \E h : Fix(n, h)
    <2> DEFINE Bad == {n \in Nat : ~\E h : Fix(n, h)}
    <2>1. SUFFICES ASSUME Bad # {} PROVE FALSE
      BY Zenon
    <2>2. PICK m \in Bad : \A k \in Bad : m <= k
      <3>1. Bad \in SUBSET Nat
        BY Zenon
      <3> HIDE DEF Bad
      <3> QED BY <2>1, <3>1, Least, Zenon
    <2>3. m \in Nat /\ ~\E h : Fix(m, h)
      BY <2>2, Zenon
    <2>4. CASE m = 0
      <3> DEFINE g == [T \in Upto(0) |-> Start(p, w, all)]
      <3>1. \A T \in Upto(0) : T = {}
        <4>1. \A n \in Nat : n <= 0 => n = 0
          BY SMT
        <4> QED BY <1>3, <4>1, Zenon
      <3>2. g = [T \in Upto(0) |-> Body(g, T)]
        BY <3>1, Zenon
      <3>3. Fix(0, g)
        BY <3>2, Zenon
      <3> HIDE DEF Fix, g
      <3> QED BY <2>3, <2>4, <3>3, Zenon
    <2>5. CASE m # 0
      <3>1. m - 1 \in Nat /\ ~(m <= m - 1)
        BY <2>3, <2>5, SMT
      <3>2. PICK h : Fix(m - 1, h)
        <4>1. m - 1 \notin Bad
          BY <2>2, <3>1, Zenon
        <4> HIDE DEF Fix
        <4> QED BY <3>1, <4>1, Zenon
      <3> DEFINE g == [T \in Upto(m) |-> Body(h, T)]
      <3>3. \A T \in Upto(m - 1) : T \in Upto(m)
        <4>1. \A n \in Nat : n <= m - 1 => n <= m
          BY <2>3, SMT
        <4> QED BY <1>3, <4>1, Zenon
      <3>4. \A T \in Upto(m) : T # {} => T \ {Pick(T)} \in Upto(m - 1)
        <4>1. \A n \in Nat : n <= m => n - 1 <= m - 1
          BY <2>3, SMT
        <4>2. ASSUME NEW T \in Upto(m), T # {}
              PROVE  T \ {Pick(T)} \in Upto(m - 1)
          <5>1. /\ Cardinality(T) \in Nat /\ Cardinality(T) <= m /\ T \ {Pick(T)} \in SUBSET X
                /\ Cardinality(T \ {Pick(T)}) = Cardinality(T) - 1
            BY <1>3, <4>2, Zenon
          <5>2. Cardinality(T \ {Pick(T)}) <= m - 1
            BY <4>1, <5>1, Zenon
          <5> QED BY <5>1, <5>2, Zenon
        <4> HIDE DEF Upto
        <4> QED BY <4>2, Zenon
      <3> HIDE DEF Upto
      <3>5. \A T \in Upto(m - 1) : h[T] = Body(h, T)
        <4> HIDE DEF Body
        <4>1. h = [T \in Upto(m - 1) |-> Body(h, T)]
          BY <3>2, Zenon
        <4> QED BY <4>1, Zenon
      <3>6. \A T \in Upto(m - 1) : g[T] = h[T]
        <4> HIDE DEF Body
        <4> QED BY <3>3, <3>5, Zenon
      <3> HIDE DEF g
      <3>7. \A T \in Upto(m) : Body(h, T) = Body(g, T)
        BY <3>4, <3>6, Zenon
      <3>8. g = [T \in Upto(m) |-> Body(g, T)]
        <4> HIDE DEF Body
        <4> QED BY <3>7, Zenon DEF g
      <3>9. Fix(m, g)
        <4> HIDE DEF Body
        <4> QED BY <3>8, Zenon
      <3> HIDE DEF Fix
      <3> QED BY <2>3, <3>9, Zenon
    <2> QED BY <2>4, <2>5, Zenon
  <1>5. \E g : g = [T \in SUBSET X |-> Body(g, T)]
    <2> DEFINE n == Cardinality(X)
    <2>1. n \in Nat
      BY <1>1, FS_CardinalityType, Zenon
    <2>2. ASSUME NEW T \in SUBSET X PROVE Cardinality(T) <= n
      BY <1>1, FS_Subset, Zenon
    <2>3. Upto(n) = SUBSET X
      BY <2>2, Zenon
    <2>4. PICK h : Fix(n, h)
      <3> HIDE DEF Fix, n
      <3> QED BY <1>4, <2>1, Zenon
    <2> HIDE DEF Upto, n, Body
    <2>5. h = [T \in SUBSET X |-> Body(h, T)]
      BY <2>3, <2>4, Zenon
    <2> QED BY <2>5, Zenon
  <1>6. iter = [T \in SUBSET X |-> Body(iter, T)]
    <2> HIDE DEF Body
    <2> QED BY <1>5, Zenon
  <1> HIDE DEF iter
  <1>7. \A T \in SUBSET X : iter[T] = Body(iter, T)
    <2> HIDE DEF Body
    <2> QED BY <1>6, Zenon
  <1>8. FoldsTo(iter, p, w, all, unmoved, closing)
    BY <1>7, Zenon DEF FoldsTo, X
  <1> QED BY <1>2, <1>8, Zenon DEF X


(* The sessions of T have been visited. *)
Swept(T, a, all, closing) ==
    /\ DOMAIN a.sess = Sessions
    /\ \A s \in Sessions : Well(a.sess[s])
    /\ \A s \in Sessions \ T : a.sess[s] = all[s]
    /\ a.cnt \in Nat
    /\ a.cnt = 0 \/ closing => \A s \in T : Clean(a.sess[s])

(* What is left of a session after remove_all_backends_offline_soft, and,     *)
(* when it is late, of a session that it did not clean.                       *)
LEMMA RemoveSoftCounts ==
    ASSUME NEW p, NEW S, NEW u, Formed(S)
    PROVE  /\ Keeps(S, RemoveSoft(p, S, u).sess)
           /\ RemoveSoft(p, S, u).cnt \in Nat
           /\ RemoveSoft(p, S, u).cnt = 0 => Clean(RemoveSoft(p, S, u).sess)
  <1> DEFINE T == backend_reset(p, S, Removable(S, u), FALSE).sess
  <1>1. RemoveSoft(p, S, u).sess = T /\ RemoveSoft(p, S, u).cnt = Cardinality(StillSoft(T))
    BY Zenon DEF RemoveSoft
  <1>2. Keeps(S, T)
    BY ResetKeeps, Zenon
  <1> HIDE DEF T
  <1>3. IsFiniteSet(StillSoft(T))
    <2>1. StillSoft(T) \in SUBSET Hostgroups
      BY Zenon DEF StillSoft
    <2> QED BY <2>1, MaintenanceAssumption, FS_Subset, Zenon
  <1>4. Cardinality(StillSoft(T)) \in Nat
    BY <1>3, FS_CardinalityType, Zenon
  <1>5. Cardinality(StillSoft(T)) = 0 => StillSoft(T) = {}
    BY <1>3, FS_EmptySet, Zenon
  <1>6. StillSoft(T) = {} => Clean(T)
    BY Zenon DEF StillSoft, Clean
  <1> QED BY <1>1, <1>2, <1>4, <1>5, <1>6, Zenon

LEMMA SweepsOne ==
    ASSUME NEW all, NEW closing \in BOOLEAN, NEW unmoved, NEW T \in SUBSET Sessions, NEW a,
           Swept(T, a, all, closing), NEW s \in Sessions, s \notin T, all[s].state # "none"
    PROVE  Swept(T \cup {s}, Visit(s, a, unmoved, closing), all, closing)
  <1> DEFINE r == RemoveSoft(a.cp, a.sess[s], unmoved[s])
             n == IF closing /\ r.cnt > 0 THEN SessClose(r.cp, a.wire, r.sess, s, TRUE)
                  ELSE Outcome(r.cp, a.wire, r.sess)
             v == Visit(s, a, unmoved, closing)
  <1>1. v.sess = [a.sess EXCEPT ![s] = n.sess] /\ v.cnt = a.cnt + r.cnt
    BY Zenon DEF Visit, After
  <1>2. Formed(a.sess[s]) /\ a.sess[s].state # "none"
    BY Zenon DEF Swept, Well
  <1>3. Keeps(a.sess[s], r.sess) /\ r.cnt \in Nat /\ (r.cnt = 0 => Clean(r.sess))
    BY <1>2, RemoveSoftCounts, Zenon
  <1>4. IF closing /\ r.cnt > 0 THEN n.sess = NewSession("none") ELSE n.sess = r.sess
    BY Zenon DEF SessClose, Outcome
  <1> HIDE DEF r, n
  <1>5. Well(r.sess) /\ Well(NewSession("none")) /\ Clean(NewSession("none"))
    BY <1>2, <1>3, NewIsClean, Zenon DEF Keeps, Well
  <1>6. Well(n.sess)
    BY <1>4, <1>5, Zenon
  <1>7. r.cnt = 0 \/ closing => Clean(n.sess)
    <2>1. r.cnt > 0 \/ r.cnt = 0
      BY <1>3, SMT
    <2> QED BY <1>3, <1>4, <1>5, <2>1, Zenon
  <1>8. /\ DOMAIN v.sess = Sessions /\ v.sess[s] = n.sess
        /\ \A t \in Sessions \ {s} : v.sess[t] = a.sess[t]
    BY <1>1, Zenon DEF Swept
  <1>9. a.cnt \in Nat
    BY Zenon DEF Swept
  <1>10. v.cnt \in Nat /\ (v.cnt = 0 => a.cnt = 0 /\ r.cnt = 0)
    <2> DEFINE k == a.cnt
               l == r.cnt
    <2>1. k \in Nat /\ l \in Nat
      BY <1>3, <1>9, Zenon
    <2> HIDE DEF k, l
    <2>2. k + l \in Nat /\ (k + l = 0 => k = 0 /\ l = 0)
      BY <2>1, SMT
    <2> QED BY <1>1, <2>2, Zenon DEF k, l
  <1> HIDE DEF v
  <1>11. \A t \in Sessions : Well(v.sess[t])
    BY <1>6, <1>8, Zenon DEF Swept
  <1>12. \A t \in Sessions \ (T \cup {s}) : v.sess[t] = all[t]
    BY <1>8, Zenon DEF Swept
  <1>13. v.cnt = 0 \/ closing => \A t \in T \cup {s} : Clean(v.sess[t])
    <2>1. v.cnt = 0 \/ closing => Clean(n.sess) /\ \A t \in T : Clean(a.sess[t])
      BY <1>7, <1>10, Zenon DEF Swept
    <2> QED BY <1>8, <2>1, Zenon
  <1> QED BY <1>8, <1>10, <1>11, <1>12, <1>13, Zenon DEF Swept, v


LEMMA PassSweeps ==
    ASSUME NEW p, NEW w, NEW all, NEW unmoved, NEW closing \in BOOLEAN,
           DOMAIN all = Sessions, \A s \in Sessions : Well(all[s])
    PROVE  Swept(Present(all), Pass(p, w, all, unmoved, closing), all, closing)
  <1> DEFINE X == Present(all)
  <1>1. X \in SUBSET Sessions /\ \A s \in X : all[s].state # "none"
    BY Zenon DEF Present
  <1>2. IsFiniteSet(X)
    BY <1>1, MaintenanceAssumption, FS_Subset, Zenon
  <1>0. PICK f : Pass(p, w, all, unmoved, closing) = f[X]
                 /\ FoldsTo(f, p, w, all, unmoved, closing)
    BY PassUnfolds, Zenon
  <1>3. \A T \in SUBSET X :
            f[T] = IF T = {} THEN Start(p, w, all)
                   ELSE Visit(Pick(T), f[T \ {Pick(T)}], unmoved, closing)
    BY <1>0, Zenon DEF FoldsTo
  <1> HIDE DEF X
  <1> DEFINE Done(T) == Swept(T, f[T], all, closing)
             Bad == {n \in Nat : \E T \in SUBSET X : Cardinality(T) = n /\ ~Done(T)}
  <1>4. Bad = {}
    <2>1. SUFFICES ASSUME Bad # {} PROVE FALSE
      BY Zenon
    <2>2. PICK m \in Bad : \A k \in Bad : m <= k
      <3>1. Bad \in SUBSET Nat
        BY Zenon
      <3> HIDE DEF Bad
      <3> QED BY <2>1, <3>1, Least, Zenon
    <2>3. m \in Nat /\ \E T \in SUBSET X : Cardinality(T) = m /\ ~Done(T)
      BY <2>2, Zenon
    <2>4. PICK T \in SUBSET X : Cardinality(T) = m /\ ~Done(T)
      BY <2>3, Zenon
    <2>5. CASE T = {}
      <3> DEFINE a == Start(p, w, all)
      <3>1. f[T] = a
        BY <1>3, <2>5, Zenon
      <3>2. a.sess = all /\ a.cnt = 0
        BY Zenon DEF Start
      <3> HIDE DEF a
      <3>3. a.cnt \in Nat
        BY <3>2, SMT
      <3>4. Swept(T, a, all, closing)
        BY <2>5, <3>2, <3>3, Zenon DEF Swept
      <3> QED BY <2>4, <3>1, <3>4, Zenon
    <2>6. CASE T # {}
      <3> DEFINE s == Pick(T)
                 U == T \ {s}
      <3>1. s \in T /\ U \in SUBSET X /\ Cardinality(U) = m - 1
        BY <1>2, <2>4, <2>6, PickOne, SmallerSet, Zenon
      <3>2. Cardinality(U) \in Nat
        <4> HIDE DEF U
        <4>1. IsFiniteSet(U)
          BY <1>2, <3>1, FS_Subset, Zenon
        <4> QED BY <4>1, FS_CardinalityType, Zenon
      <3>3. ~(m <= m - 1)
        BY <2>3, SMT
      <3>4. f[T] = Visit(s, f[U], unmoved, closing)
        BY <1>3, <2>6, Zenon
      <3>5. s \notin U /\ T = U \cup {s}
        BY <3>1, Zenon
      <3> HIDE DEF s, U
      <3>6. Done(U)
        <4> HIDE DEF Done
        <4> QED BY <2>2, <3>1, <3>2, <3>3, Zenon
      <3>7. s \in Sessions /\ all[s].state # "none" /\ U \in SUBSET Sessions
        BY <1>1, <3>1, Zenon
      <3>8. Swept(U \cup {s}, Visit(s, f[U], unmoved, closing), all, closing)
        BY <3>5, <3>6, <3>7, SweepsOne, Zenon
      <3> QED BY <2>4, <3>4, <3>5, <3>8, Zenon
    <2> QED BY <2>5, <2>6, Zenon
  <1>5. Done(X)
    <2>1. X \in SUBSET X /\ Cardinality(X) \in Nat
      BY <1>2, FS_CardinalityType, Zenon
    <2> HIDE DEF Done
    <2> QED BY <1>4, <2>1, Zenon
  <1> QED BY <1>0, <1>5, Zenon DEF X

Left(a, closing) ==
    /\ DOMAIN a.sess = Sessions /\ \A s \in Sessions : Well(a.sess[s])
    /\ a.cnt \in Nat
    /\ a.cnt = 0 \/ closing => \A s \in Sessions : Clean(a.sess[s])

(* After a pass that found nothing left, or that closed what was left, no     *)
(* session has a backend of a server that is OFFLINE_SOFT.                    *)
LEMMA PassLeaves ==
    ASSUME NEW p, NEW w, NEW all, NEW unmoved, NEW closing \in BOOLEAN, NEW a,
           a = Pass(p, w, all, unmoved, closing),
           DOMAIN all = Sessions, \A s \in Sessions : Well(all[s])
    PROVE  Left(a, closing)
  <1>1. Swept(Present(all), a, all, closing)
    BY PassSweeps, Zenon
  <1>2. ASSUME NEW s \in Sessions, s \notin Present(all)
        PROVE  Clean(a.sess[s])
    <2>1. a.sess[s] = all[s] /\ all[s].state = "none"
      BY <1>1, <1>2, Zenon DEF Swept, Present
    <2>2. Unused(all[s])
      BY <2>1, Zenon DEF Well
    <2>3. NoServer \notin Servers
      BY SessionAssumption
    <2> QED BY <2>1, <2>2, <2>3, Zenon DEF Unused, Clean, Soft
  <1> QED BY <1>1, <1>2, Zenon DEF Swept, Left

LEMMA RemovePassSweeps ==
    ASSUME AllWell, acks = 0, NEW over, RemovePass(over)
    PROVE  /\ DOMAIN sess' = Sessions /\ \A s \in Sessions : Well(sess'[s])
           /\ acks' > 0 => \A s \in Sessions : Clean(sess'[s])
  <1>1. PICK unmoved \in [Sessions -> BOOLEAN] :
        \E first \in {Pass(cp, wire, sess, unmoved, FALSE)} :
        \E last \in {IF first.cnt > 0 /\ over
                     THEN Pass(first.cp, first.wire, first.sess, unmoved, TRUE) ELSE first} :
            sess' = last.sess /\ acks' = acks + Acked(first.cnt, over)
    BY Zenon DEF RemovePass
  <1>2. PICK first : /\ first = Pass(cp, wire, sess, unmoved, FALSE)
                     /\ \E last \in {IF first.cnt > 0 /\ over
                                     THEN Pass(first.cp, first.wire, first.sess, unmoved, TRUE)
                                     ELSE first} :
                          sess' = last.sess /\ acks' = acks + Acked(first.cnt, over)
    BY <1>1, Zenon
  <1>3. PICK last : /\ last = IF first.cnt > 0 /\ over
                              THEN Pass(first.cp, first.wire, first.sess, unmoved, TRUE)
                              ELSE first
                    /\ sess' = last.sess /\ acks' = acks + Acked(first.cnt, over)
    BY <1>2, Zenon
  <1>4. Left(first, FALSE)
    <2>1. DOMAIN sess = Sessions /\ \A s \in Sessions : Well(sess[s])
      BY Zenon DEF AllWell
    <2> QED BY <1>2, <2>1, PassLeaves, Zenon
  <1>5. CASE first.cnt > 0 /\ over
    <2>1. last = Pass(first.cp, first.wire, first.sess, unmoved, TRUE)
      BY <1>3, <1>5, Zenon
    <2>2. Left(last, TRUE)
      <3>1. DOMAIN first.sess = Sessions /\ \A s \in Sessions : Well(first.sess[s])
        BY <1>4, Zenon DEF Left
      <3> QED BY <2>1, <3>1, PassLeaves, Zenon
    <2> QED BY <1>3, <2>2, Zenon DEF Left
  <1>6. CASE ~(first.cnt > 0 /\ over)
    <2>1. last = first
      BY <1>3, <1>6, Zenon
    <2>2. ASSUME acks' > 0 PROVE first.cnt = 0
      <3>1. Acked(first.cnt, over) # 0
        <4>1. acks + 0 = 0 /\ ~(0 > 0)
          BY SMT
        <4> QED BY <1>3, <2>2, <4>1, Zenon
      <3>2. first.cnt = 0 \/ over
        BY <3>1, Zenon DEF Acked
      <3>3. first.cnt \in Nat
        BY <1>4, Zenon DEF Left
      <3>4. first.cnt > 0 \/ first.cnt = 0
        BY <3>3, SMT
      <3> QED BY <1>6, <3>2, <3>4, Zenon
    <2> QED BY <1>3, <1>4, <2>1, <2>2, Zenon DEF Left
  <1> QED BY <1>5, <1>6, Zenon


-----------------------------------------------------------------------------
(* What AckMeansRemoved needs besides: sessions that are not there have no    *)
(* server, and the hostgroups list none that is OFFLINE_SOFT, so that no      *)
(* session gets one between the acknowledgement and the time the admin thread *)
(* takes it.                                                                  *)
AllClean == \A s \in Sessions : Clean(sess[s])
Removal == AllWell /\ Stocked /\ (acks > 0 => AllClean)

LEMMA SameServers ==
    ASSUME status' = status, hostgroup' = hostgroup
    PROVE  /\ Stocked => Stocked'
           /\ (\A s \in Sessions : Clean(sess'[s])) => AllClean'
           /\ DOMAIN sess' = Sessions /\ (\A s \in Sessions : Well(sess'[s])) => AllWell'
  <1>1. Stocked => Stocked'
    BY Zenon DEF Stocked
  <1>2. (\A s \in Sessions : Clean(sess'[s])) => AllClean'
    BY Zenon DEF AllClean, Clean, Soft
  <1>3. DOMAIN sess' = Sessions /\ (\A s \in Sessions : Well(sess'[s])) => AllWell'
    BY Zenon DEF AllWell
  <1> QED BY <1>1, <1>2, <1>3, Zenon

(* sqlite3_flush_servers_db_to_mem *)
LEMMA FlushKeeps ==
    ASSUME AllWell, FlushHostgroups
    PROVE  AllWell' /\ Stocked' /\ acks' = acks
  <1>1. PICK new \in FromTables :
        /\ status' = new.status /\ hostgroup' = new.hostgroup
        /\ \E f \in [Sessions -> [Hostgroups -> Servers \cup {NoServer, Wild}]] :
              /\ \A s \in Sessions, h \in Hostgroups :
                    f[s][h] \in AfterFree(sess[s].mybes[h], new.hostgroup)
              /\ sess' = [s \in Sessions |-> [sess[s] EXCEPT !.mybes =
                            [h \in Hostgroups |-> [sess[s].mybes[h] EXCEPT !.mshge = f[s][h]]]]]
    BY Zenon DEF FlushHostgroups
  <1>2. Stocked'
    <2>1. PICK t : new = [status |-> t.status, hostgroup |-> Loaded(t.rows, t.status)]
      BY Zenon DEF FromTables
    <2>2. new.status = t.status /\ new.hostgroup = Loaded(t.rows, t.status)
      BY <2>1, Zenon
    <2>3. \A h \in Hostgroups : \A m \in hostgroup'[h] : status'[m] = "ONLINE"
      <3>1. status' = t.status /\ hostgroup' = Loaded(t.rows, t.status)
        BY <1>1, <2>2, Zenon
      <3>2. \A h \in Hostgroups : hostgroup'[h] = {m \in t.rows[h] : t.status[m] = "ONLINE"}
        BY <3>1, Zenon DEF Loaded
      <3> QED BY <3>1, <3>2, Zenon
    <2> QED BY <2>3, Zenon DEF Stocked
  <1>3. PICK f : /\ \A s \in Sessions, h \in Hostgroups :
                       f[s][h] \in AfterFree(sess[s].mybes[h], new.hostgroup)
                 /\ sess' = [s \in Sessions |-> [sess[s] EXCEPT !.mybes =
                               [h \in Hostgroups |->
                                  [sess[s].mybes[h] EXCEPT !.mshge = f[s][h]]]]]
    BY <1>1, Zenon
  <1>4. ASSUME NEW s \in Sessions
        PROVE  Well(sess'[s])
    <2> DEFINE S == sess[s]
               T == sess'[s]
    <2>1. T = [S EXCEPT !.mybes = [h \in Hostgroups |-> [S.mybes[h] EXCEPT !.mshge = f[s][h]]]]
      BY <1>3, Zenon
    <2>2. Formed(S) /\ (S.state = "none" => Unused(S))
      BY Zenon DEF AllWell, Well
    <2>3. \A h \in Hostgroups : f[s][h] \in AfterFree(S.mybes[h], new.hostgroup)
      BY <1>3, Zenon
    <2> HIDE DEF S, T
    <2>4. {"mybes", "state", "pkt"} \subseteq DOMAIN S /\ S.pkt \in Packets \cup {NoPkt}
      BY <2>2, Zenon DEF Formed
    <2>5. /\ {"mybes", "state", "pkt"} \subseteq DOMAIN T /\ T.state = S.state /\ T.pkt = S.pkt
          /\ T.mybes = [h \in Hostgroups |-> [S.mybes[h] EXCEPT !.mshge = f[s][h]]]
      BY <2>1, <2>4, Zenon
    <2>6. DOMAIN T.mybes = Hostgroups
          /\ \A h \in Hostgroups : T.mybes[h] = [S.mybes[h] EXCEPT !.mshge = f[s][h]]
      BY <2>5, Zenon
    <2>7. ASSUME NEW h \in Hostgroups
          PROVE  "mshge" \in DOMAIN T.mybes[h] /\ T.mybes[h].mshge = f[s][h]
      <3>1. "mshge" \in DOMAIN S.mybes[h]
        BY <2>2, Zenon DEF Formed
      <3> QED BY <2>6, <3>1, Zenon
    <2>8. Formed(T)
      BY <2>4, <2>5, <2>6, <2>7, Zenon DEF Formed
    <2>9. T.state = "none" => Unused(T)
      BY <2>2, <2>3, <2>5, <2>7, Zenon DEF Unused, AfterFree
    <2> QED BY <2>8, <2>9, Zenon DEF Well, T
  <1>5. DOMAIN sess' = Sessions
    BY <1>3, Zenon
  <1>6. acks' = acks
    BY Zenon DEF FlushHostgroups
  <1> QED BY <1>2, <1>4, <1>5, <1>6, Zenon DEF AllWell

LEMMA NoAckYet ==
    ASSUME IInv, Up, admin \notin {"pushed", "waiting"} \/ pipe > 0 \/ removing
    PROVE  acks = 0
  <1> DEFINE W == Working
             D == Due
  <1>1. /\ queue \in Nat /\ pipe \in Nat /\ acks \in Nat /\ W \in {0, 1} /\ pipe <= queue
        /\ queue + W + acks = D
    BY Zenon DEF IInv, Counts
  <1>2. D \in {0, 1} /\ (admin \notin {"pushed", "waiting"} => D = 0) /\ (removing => W = 1)
    BY WorkingValue, DueValue, Zenon
  <1> HIDE DEF W, D
  <1>3. D = 0 \/ pipe > 0 \/ W = 1
    BY <1>2, Zenon
  <1> QED BY <1>1, <1>2, <1>3, SMT

LEMMA RemovalKept ==
    ASSUME IInv, Removal, [MNext]_mvars
    PROVE  Removal'
  <1>1. AllWell /\ Stocked /\ (acks > 0 => AllClean)
    BY Zenon DEF Removal
  <1>2. ASSUME NEW over, Up, pipe > 0 \/ removing, RemovePass(over),
               status' = status, hostgroup' = hostgroup
        PROVE  Removal'
    <2>1. acks = 0
      BY <1>2, NoAckYet, Zenon
    <2>2. /\ DOMAIN sess' = Sessions /\ \A s \in Sessions : Well(sess'[s])
          /\ acks' > 0 => \A s \in Sessions : Clean(sess'[s])
      BY <1>1, <1>2, <2>1, RemovePassSweeps, Zenon
    <2>3. /\ Stocked'
          /\ (\A s \in Sessions : Clean(sess'[s])) => AllClean'
          /\ DOMAIN sess' = Sessions /\ (\A s \in Sessions : Well(sess'[s])) => AllWell'
      BY <1>1, <1>2, SameServers, Zenon
    <2> QED BY <2>2, <2>3, Zenon DEF Removal
  <1>3. ASSUME UNCHANGED vars, acks' > 0 => acks > 0
        PROVE  Removal'
    <2>1. sess' = sess /\ status' = status /\ hostgroup' = hostgroup
      BY <1>3, Zenon DEF vars
    <2>2. AllWell'
      BY <1>1, <2>1, Zenon DEF AllWell
    <2>3. Stocked'
      BY <1>1, <2>1, Zenon DEF Stocked
    <2>4. AllClean => AllClean'
      BY <2>1, Zenon DEF AllClean, Clean, Soft
    <2> QED BY <1>1, <1>3, <2>2, <2>3, <2>4, Zenon DEF Removal
  <1>4. CASE UNCHANGED mvars
    BY <1>3, <1>4, Zenon DEF mvars, ipc
  <1>5. CASE Next /\ UNCHANGED ipc
    <2>1. Onward
      BY <1>1, <1>5, SessionOnward, Zenon
    <2>2. /\ Stocked'
          /\ (\A s \in Sessions : Clean(sess'[s])) => AllClean'
          /\ DOMAIN sess' = Sessions /\ (\A s \in Sessions : Well(sess'[s])) => AllWell'
      BY <1>1, <2>1, SameServers, Zenon DEF Onward
    <2>3. AllWell' /\ (AllClean => AllClean')
      BY <2>1, <2>2, Zenon DEF Onward, Becomes, AllClean
    <2>4. acks' = acks
      BY <1>5, Zenon DEF ipc
    <2> QED BY <1>1, <2>2, <2>3, <2>4, Zenon DEF Removal
  <1>6. CASE FlushHostgroups
    <2>1. Up /\ admin = "idle"
      BY <1>6, Zenon DEF FlushHostgroups, Up
    <2>2. acks = 0
      BY <2>1, NoAckYet, Zenon
    <2>3. AllWell' /\ Stocked' /\ acks' = acks
      BY <1>1, <1>6, FlushKeeps, Zenon
    <2>4. ~(acks' > 0)
      BY <2>2, <2>3, SMT
    <2> QED BY <2>3, <2>4, Zenon DEF Removal
  <1>7. CASE PushCommand
    BY <1>3, <1>7, Zenon DEF PushCommand
  <1>8. CASE WriteByte
    BY <1>3, <1>8, Zenon DEF WriteByte
  <1>9. CASE TakeAck
    BY <1>3, <1>9, Zenon DEF TakeAck
  <1>10. CASE ReadPipe
    BY <1>2, <1>10, Zenon DEF ReadPipe, Up
  <1>11. CASE KeepRemoving
    BY <1>2, <1>11, Zenon DEF KeepRemoving, Up
  <1>12. CASE MaintenanceEnds
    BY <1>3, <1>12, Zenon DEF MaintenanceEnds
  <1>13. CASE Restart
    <2>1. /\ sess' = [s \in Sessions |-> NewSession("none")] /\ acks' = 0
          /\ status' = status /\ hostgroup' = hostgroup
      BY <1>13, Zenon DEF Restart
    <2>2. AllWell'
      BY <2>1, NewIsClean, Zenon DEF AllWell, Well
    <2>3. Stocked'
      BY <1>1, <2>1, Zenon DEF Stocked
    <2>4. ~(acks' > 0)
      BY <2>1, SMT
    <2> QED BY <2>2, <2>3, <2>4, Zenon DEF Removal
  <1> QED BY <1>4, <1>5, <1>6, <1>7, <1>8, <1>9, <1>10, <1>11, <1>12, <1>13, Zenon DEF MNext

(* When the mysql thread acknowledges REMOVE SERVER, and until the admin      *)
(* thread takes the acknowledgement, no backend of its sessions points at an  *)
(* MSHGE that reads as one of a server that is OFFLINE_SOFT: however many     *)
(* sessions there are, in whatever order the two loops visit them, whether or *)
(* not they find a session's byte counters moved, whatever the clients, the   *)
(* servers and the freed MSHGEs do meanwhile, and wherever the proxy dies.    *)
(* An MSHGE that was freed may read as any server's, so this is not about the *)
(* server the connection goes to.                                             *)
THEOREM AcksAreTrue == MSpec => []AckMeansRemoved
  <1>1. MInit => Removal
    <2> SUFFICES ASSUME MInit PROVE Removal
      BY Zenon
    <2>1. /\ status = [m \in Servers |-> "ONLINE"] /\ acks = 0
          /\ hostgroup \in [Hostgroups -> (SUBSET Servers) \ {{}}]
          /\ sess = [s \in Sessions |-> NewSession("none")]
      BY Zenon DEF MInit, Init, InitIpc
    <2>2. AllWell
      BY <2>1, NewIsClean, Zenon DEF AllWell, Well
    <2>3. Stocked
      <3>1. \A h \in Hostgroups : \A m \in hostgroup[h] : m \in Servers
        BY <2>1, Zenon
      <3>2. \A m \in Servers : status[m] = "ONLINE"
        BY <2>1, Zenon
      <3> QED BY <3>1, <3>2, Zenon DEF Stocked
    <2>4. ~(acks > 0)
      BY <2>1, SMT
    <2> QED BY <2>2, <2>3, <2>4, Zenon DEF Removal
  <1>2. IInv /\ Removal /\ [MNext]_mvars => Removal'
    BY RemovalKept, Zenon
  <1>3. Removal => AckMeansRemoved
    BY Zenon DEF Removal, AllClean, Clean, AckMeansRemoved, StillSoft
  <1> QED BY <1>1, <1>2, <1>3, MaintenanceInductive, PTL DEF MSpec
=============================================================================
