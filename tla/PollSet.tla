------------------------------ MODULE PollSet --------------------------------
(***************************************************************************)
(* The loop of one mysql thread (mysql_thread in src/src/main.c) around    *)
(* poll(): it gathers the descriptors of its sessions in one array, polls  *)
(* them, does the maintenance an administrator asked for, copies the       *)
(* entries of the array back to the sessions while it runs their handlers, *)
(* removes the sessions that were closed and accepts new clients.          *)
(*                                                                         *)
(* An entry of the array is the descriptor it is for, and so are the       *)
(* events that poll() reports in it.  Every descriptor of a session is     *)
(* polled for input, as its input queue has room (DataStream).             *)
(*                                                                         *)
(* An operator named Mut_X is a wrong variant of X, used to show that the  *)
(* properties notice the difference.                                       *)
(***************************************************************************)
EXTENDS Integers, Sequences, Functions

CONSTANTS Sessions,            \* bound: sessions at a time
          Fds,                 \* bound: descriptors
          NoFd,
          Listening,           \* entries for the listening sockets and the pipe
          MIN_FDS_PER_THREAD,
          MAX_FDS_PER_SESSION,
          Spare                \* sessions there is room for beyond the present ones

ASSUME PollSetAssumption ==
    /\ MAX_FDS_PER_SESSION = 2 /\ Listening = 3
    /\ Spare \in Nat /\ Spare >= 2
    /\ MIN_FDS_PER_THREAD \in Nat /\ MIN_FDS_PER_THREAD >= 4
    /\ NoFd \notin Fds

VARIABLES pc,
          sessions,   \* thrLD.sessions
          sess,       \* client_myds->fd, server_myds->fd, fds[], nfds, healthy
          pollfds,    \* fds[] of the thread, after the listening sockets
          i, nfds,    \* the loops' indices
          max_fds,
          forced      \* not in the code: the maintenance timeout has closed a session

vars == <<pc, sessions, sess, pollfds, i, nfds, max_fds, forced>>

Free == [client |-> NoFd, server |-> NoFd, fds |-> <<NoFd, NoFd>>, nfds |-> 1, healthy |-> FALSE]

Init ==
    /\ pc = "prepare"
    /\ sessions = <<>>
    /\ sess = [s \in Sessions |-> Free]
    /\ pollfds = <<>>
    /\ i = 1 /\ nfds = 0
    /\ max_fds = MIN_FDS_PER_THREAD
    /\ forced = FALSE

UnusedFds == Fds \ UNION {{sess[s].client, sess[s].server} : s \in Sessions}

Closed(x) == [x EXCEPT !.client = NoFd, !.server = NoFd, !.healthy = FALSE]

-----------------------------------------------------------------------------
(* The descriptors of all healthy sessions, and poll().                       *)
Mut_Ready(x) ==
    IF x.server # NoFd
    THEN IF x.nfds = 2 THEN x ELSE [x EXCEPT !.nfds = 2, !.fds[2] = x.server]
    ELSE [x EXCEPT !.nfds = 1]
Ready(x) ==
    IF x.server # NoFd
    THEN [x EXCEPT !.nfds = 2, !.fds[2] = x.server]
    ELSE [x EXCEPT !.nfds = 1]

Polled(x) == IF x.healthy THEN SubSeq(x.fds, 1, x.nfds) ELSE <<>>

Gathered(S) ==
    LET upto[n \in 0 .. Len(sessions)] ==
            IF n = 0 THEN <<>> ELSE upto[n - 1] \o Polled(S[sessions[n]])
    IN  upto[Len(sessions)]

Poll ==
    /\ pc = "prepare"
    /\ sess' = [s \in Sessions |-> IF sess[s].healthy THEN Ready(sess[s]) ELSE sess[s]]
    /\ pollfds' = Gathered(sess')
    /\ pc' = "maintain"
    /\ UNCHANGED <<sessions, i, nfds, max_fds, forced>>

(* Removal of servers: sessions give up their connection to one, and when the *)
(* time for it is over the ones that still hold one are closed.               *)
Maintain ==
    /\ pc = "maintain"
    /\ \E gone \in SUBSET {s \in Sessions : sess[s].server # NoFd} :
          \/ /\ sess' = [s \in Sessions |->
                        IF s \in gone THEN [sess[s] EXCEPT !.server = NoFd] ELSE sess[s]]
             /\ UNCHANGED forced
          \/ /\ gone # {}
             /\ sess' = [s \in Sessions |-> IF s \in gone THEN Closed(sess[s]) ELSE sess[s]]
             /\ forced' = TRUE
    /\ pc' = "handle" /\ i' = 1 /\ nfds' = 0
    /\ UNCHANGED <<sessions, pollfds, max_fds>>

(* The entry of the array that a session takes as its j-th.                   *)
Entry(j) == pollfds[nfds + j]

(* check_fds_errors and the handler: the session goes on, with the server it  *)
(* has, without one or with another one, or it is closed.                     *)
Handled(x) ==
    {x, Closed(x), [x EXCEPT !.server = NoFd]}
    \cup {[x EXCEPT !.server = f] : f \in UnusedFds}

Handle ==
    /\ pc = "handle" /\ i <= Len(sessions)
    /\ i' = i + 1
    /\ LET s == sessions[i]
           copied == [sess[s] EXCEPT !.fds = [j \in 1 .. 2 |->
                         IF j <= sess[s].nfds THEN Entry(j) ELSE @[j]]]
       IN  IF sess[s].healthy
           THEN /\ \E x \in Handled(copied) : sess' = [sess EXCEPT ![s] = x]
                /\ nfds' = nfds + sess[s].nfds
           ELSE UNCHANGED <<sess, nfds>>
    /\ UNCHANGED <<pc, sessions, pollfds, max_fds, forced>>

HandledAll ==
    /\ pc = "handle" /\ i > Len(sessions)
    /\ pc' = "sweep" /\ i' = 1
    /\ UNCHANGED <<sessions, sess, pollfds, nfds, max_fds, forced>>

(* Sessions that are not healthy any more are deleted; the last session takes *)
(* the place of the one that is removed.                                      *)
RemoveIndexFast(seq, k) ==
    [n \in 1 .. Len(seq) - 1 |-> IF n = k THEN seq[Len(seq)] ELSE seq[n]]

Sweep ==
    /\ pc = "sweep" /\ i <= Len(sessions)
    /\ IF sess[sessions[i]].healthy
       THEN i' = i + 1 /\ UNCHANGED <<sessions, sess>>
       ELSE /\ sessions' = RemoveIndexFast(sessions, i)
            /\ sess' = [sess EXCEPT ![sessions[i]] = Free]
            /\ i' = i
    /\ UNCHANGED <<pc, pollfds, nfds, max_fds, forced>>

SweptAll ==
    /\ pc = "sweep" /\ i > Len(sessions)
    /\ pc' = "tcp"
    /\ UNCHANGED <<sessions, sess, pollfds, i, nfds, max_fds, forced>>

(* A client on the TCP socket, then one on the Unix socket. *)
Accept ==
    /\ pc \in {"tcp", "unix"}
    /\ pc' = IF pc = "tcp" THEN "unix" ELSE "grow"
    /\ \/ UNCHANGED <<sessions, sess>>
       \/ \E s \in Sessions \ Range(sessions), f \in UnusedFds :
             /\ sess' = [sess EXCEPT ![s] = [Free EXCEPT !.client = f, !.fds = <<f, NoFd>>,
                                                        !.healthy = TRUE]]
             /\ sessions' = Append(sessions, s)
    /\ UNCHANGED <<pollfds, i, nfds, max_fds, forced>>

TooSmall == (Len(sessions) + Spare) * MAX_FDS_PER_SESSION > max_fds

Grow ==
    /\ pc = "grow"
    /\ max_fds' = IF TooSmall THEN max_fds + MIN_FDS_PER_THREAD ELSE max_fds
    /\ pc' = "prepare"
    /\ UNCHANGED <<sessions, sess, pollfds, i, nfds, forced>>

Next == Poll \/ Maintain \/ Handle \/ HandledAll \/ Sweep \/ SweptAll \/ Accept \/ Grow

Spec == Init /\ [][Next]_vars

-----------------------------------------------------------------------------
(* The entries that a session is given before its handler runs are about its  *)
(* own client and its own server, never about another session's or about a    *)
(* server it had before: both loops count the same entries.  That ends        *)
(* when the maintenance timeout closes a session after poll(): its entries    *)
(* stay in the array, and the sessions behind it take their neighbours'.  The *)
(* array always has an entry for every descriptor that is polled: it was made *)
(* larger in time for the clients accepted since.                             *)
OwnEvents ==
    /\ Listening + Len(pollfds) <= max_fds
    /\ ~forced /\ pc = "handle" /\ i <= Len(sessions) /\ sess[sessions[i]].healthy
       => LET x == sess[sessions[i]]
          IN  /\ Entry(1) = x.client
              /\ x.nfds = 2 /\ x.server # NoFd => Entry(2) = x.server
=============================================================================
