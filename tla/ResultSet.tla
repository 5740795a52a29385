------------------------------ MODULE ResultSet ------------------------------
(***************************************************************************)
(* How the answer to one command after another passes through a session,   *)
(* packet by packet (server_COM_QUERY and process_server_pkts in           *)
(* src/src/mysql_session.c): it is recognised, collected, passed on,       *)
(* stored in the query cache, and the connection is released at its end.   *)
(* And how the admin interface makes up its answers                        *)
(* (mysql_pkt_to_sqlite_exec in src/src/admin_sqlite.c).                   *)
(*                                                                         *)
(* A packet is what the server means by it and its number in the answer;   *)
(* every packet counts one towards mysql_max_resultset_size.  The proxy    *)
(* sees only the first byte and the length (mysql_response), and in an OK  *)
(* packet the byte where it takes the status flags to be (module Lenenc).  *)
(*                                                                         *)
(* An operator named Mut_X is a wrong variant of X, used to show that the  *)
(* properties notice the difference.                                       *)
(***************************************************************************)
EXTENDS Lenenc

CONSTANTS Queries,
          MaxCols, MaxRows,     \* bounds: columns and rows of a result
          MaxResultsetSize,     \* mysql_max_resultset_size
          ShareConnections,     \* mysql_share_connections
          Counts,               \* affected rows and insert ids in an OK packet
          Lengths,              \* lengths of strings in the admin's rows
          NoQuery, NoEntry

ASSUME ResultSetAssumption ==
    /\ {MaxCols, MaxRows, MaxResultsetSize} \subseteq Nat \ {0}
    /\ ShareConnections \in BOOLEAN
    /\ NoQuery \notin Queries
    /\ Counts \cup Lengths \subseteq Nat

VARIABLES command,     \* client_command: QUERY, END (too long to look at), ADMIN or none
          query,       \* query_info
          progress,    \* resultset_progress
          size,        \* resultset_size
          resultset,
          to_cache,    \* query_to_cache
          out,         \* packets given to the client for this command
          trx,         \* active_transaction
          held,        \* the session has the connection
          cache,       \* the query cache
          server,      \* what the connection still has to send: the one held, or last held
          received,    \* the packets of the answer that were read
          open         \* the connection has a transaction open

vars == <<command, query, progress, size, resultset, to_cache, out, trx, held,
          cache, server, received, open>>

-----------------------------------------------------------------------------
(* What servers send. *)

Number(kinds) == [i \in DOMAIN kinds |-> [kind |-> kinds[i], n |-> i]]
Repeat(k, n) == [i \in 1 .. n |-> k]

Resultset(c, rows, last) ==
    <<"COUNT">> \o Repeat("COLUMN", c) \o <<"EOF">> \o rows \o <<last>>

RowsOf(m) == [1 .. m -> {"ROW", "EMPTY"}]

(* The two counts of an OK packet; it is WIDE when one of them is 128 or more. *)
CountsOf(kind) ==
    {c \in Counts \X Counts : (kind = "WIDE") = (c[1] > 127 \/ c[2] > 127)}

Oks == {kind \in {"OK", "WIDE"} : CountsOf(kind) # {}}

Results ==
    {<<kind>> : kind \in Oks \cup {"ERR"}} \cup
    {Resultset(c, rows, last) :
        c \in 1 .. MaxCols, rows \in UNION {RowsOf(m) : m \in 0 .. MaxRows}, last \in {"EOF", "ERR"}}

(* One result per command: server_COM_QUERY does not look at                   *)
(* SERVER_MORE_RESULTS_EXISTS and takes the end of the first for the end.     *)
Answers == {Number(r) : r \in Results}

(* A row whose first column is empty begins with a 0 byte, as OK does. *)
mysql_response(p) ==
    CASE p.kind \in {"OK", "WIDE", "EMPTY"} -> "OK"
      [] p.kind \in {"ERR", "EOF"}          -> p.kind
      [] OTHER                              -> "UNKNOWN"

-----------------------------------------------------------------------------
(* resultset_progress after a packet of each type. *)
Mut_AfterOk(at) == "COMPLETED"
AfterOk(at) == IF at = "WAITING" THEN "COMPLETED" ELSE "ROWS"
Mut_AfterErr(at) == IF at = "WAITING" THEN "COMPLETED" ELSE "ROWS"
AfterErr(at) == "COMPLETED"
AfterEof(at) == IF at = "COLUMN_DEFINITIONS" THEN "EOF1" ELSE "COMPLETED"
AfterUnknown(at) ==
    CASE at = "WAITING" -> "COLUMN_COUNT"
      [] at \in {"COLUMN_COUNT", "COLUMN_DEFINITIONS"} -> "COLUMN_DEFINITIONS"
      [] at \in {"EOF1", "ROWS"} -> "ROWS"

NextProgress(r, at) ==
    CASE r = "OK"      -> AfterOk(at)
      [] r = "ERR"     -> AfterErr(at)
      [] r = "EOF"     -> AfterEof(at)
      [] r = "UNKNOWN" -> AfterUnknown(at)

(* is_transaction_active: in a row that looks like an OK packet, anything; in *)
(* an OK packet, the flag if its place is worked out right; in an EOF packet, *)
(* whose layout is fixed, the flag.                                           *)
FlagsOfOk(kind) ==
    UNION {status_flags(myproto_ok_pkt(c[1], c[2], IF open THEN SERVER_STATUS_IN_TRANS ELSE 0)) :
              c \in CountsOf(kind)}

Learn(p) ==
    CASE p.kind = "EMPTY"           -> BOOLEAN
      [] p.kind \in {"OK", "WIDE"} -> {is_transaction_active(f) : f \in FlagsOfOk(p.kind)}
      [] p.kind = "EOF"             -> {open}
      [] OTHER                      -> {trx}

Releases(r, complete) == complete /\ r # "ERR" /\ ~trx' /\ ShareConnections

Fits(n) == n < MaxResultsetSize

(* fdb_set of everything collected; there may be no memory for it.            *)
Stored(collected) == {NoEntry, collected}

Mut_Flushed(collected, p) == Append(out, p)
Flushed(collected, p) == out \o Append(collected, p)

server_COM_QUERY(p) ==
    LET r == mysql_response(p)
        at == NextProgress(r, progress)
        complete == at = "COMPLETED"
        collected == Append(resultset, p)
    IN  /\ progress' = IF complete THEN "WAITING" ELSE at
        /\ size' = size + 1
        /\ held' = (held /\ ~Releases(r, complete))
        /\ to_cache' = (to_cache /\ Fits(size'))
        /\ \/ /\ ~Fits(size')
              /\ resultset' = <<>>
              /\ out' = Flushed(resultset, p)
              /\ UNCHANGED cache
           \/ /\ Fits(size') /\ ~complete
              /\ resultset' = collected
              /\ UNCHANGED <<out, cache>>
           \/ /\ Fits(size') /\ complete
              /\ resultset' = <<>>
              /\ out' = out \o collected
              /\ IF to_cache
                 THEN \E e \in Stored(collected) :
                         cache' = IF e = NoEntry THEN cache ELSE [cache EXCEPT ![query] = e]
                 ELSE UNCHANGED cache

process_server_pkts ==
    /\ held /\ server # <<>>
    /\ server' = Tail(server)
    /\ received' = Append(received, Head(server))
    /\ trx' \in Learn(Head(server))
    /\ IF command = "QUERY"
       THEN server_COM_QUERY(Head(server))
       ELSE /\ out' = Append(out, Head(server))
            /\ UNCHANGED <<progress, size, resultset, to_cache, held, cache>>
    /\ UNCHANGED <<command, query, open>>

-----------------------------------------------------------------------------
(* The client sends a command when it has the answer to the last one.         *)
Answered == (held => server = <<>>) /\ out = received /\ command # "ADMIN"

(* The connection is there, or another one is taken that has sent all it had  *)
(* to (module Session is about the connections that have not); the server     *)
(* works the answer out.                                                      *)
Asked ==
    /\ held' = TRUE
    /\ server' \in Answers
    /\ open' \in IF held /\ server'[Len(server')].kind = "ERR" THEN {FALSE, open} ELSE BOOLEAN
    /\ UNCHANGED trx
    /\ received' = <<>> /\ out' = <<>>

client_COM_QUERY(q) ==
    /\ Answered
    /\ command' = "QUERY" /\ query' = q
    /\ progress' = "WAITING" /\ size' = 0
    /\ \E cached \in BOOLEAN : to_cache' = cached
    /\ Asked
    /\ UNCHANGED <<resultset, cache>>

(* get_result_from_mysql_query_cache found it. *)
QueryCacheHit(q) ==
    /\ Answered
    /\ cache[q] # NoEntry
    /\ command' = "QUERY" /\ query' = q
    /\ progress' = "WAITING" /\ size' = 0 /\ to_cache' = FALSE
    /\ out' = cache[q] /\ received' = cache[q]
    /\ UNCHANGED <<resultset, trx, held, cache, server, open>>

(* Too long a query, or another command: nothing is looked at.                *)
PassThrough ==
    /\ Answered
    /\ command' = "END" /\ query' = NoQuery /\ to_cache' = FALSE
    /\ Asked
    /\ UNCHANGED <<progress, size, resultset, cache>>

Expire ==
    /\ \E q \in Queries : cache[q] # NoEntry /\ cache' = [cache EXCEPT ![q] = NoEntry]
    /\ UNCHANGED <<command, query, progress, size, resultset, to_cache, out, trx, held,
                   server, received, open>>

-----------------------------------------------------------------------------
(* A session on the admin port, which never has a connection to a server, and *)
(* the answer to a SELECT: the column definitions are known last, and put one *)
(* by one at the end of output.pkts, from where                               *)
(* l_ptr_array_remove_index_fast moves them to their place.                   *)
Placeholder == [kind |-> "NULL", n |-> 0]

RemoveIndexFast(pkts, i) ==
    SubSeq([pkts EXCEPT ![i + 1] = pkts[Len(pkts)]], 1, Len(pkts) - 1)

Defined(pkts, cols) ==
    LET filled[col \in 0 .. cols] ==
          IF col = 0 THEN pkts
          ELSE RemoveIndexFast(Append(filled[col - 1], [kind |-> "COLUMN", n |-> col + 1]), col)
    IN  filled[cols]

(* A row that does not fit its memory is torn.                                *)
AdminRow(lengths) ==
    IF \A headers \in {h \in [DOMAIN lengths -> UNION {writeencstrnull(l) : l \in Lengths \cup {Null}}] :
                          \A i \in DOMAIN lengths : h[i] \in writeencstrnull(lengths[i])} :
           RowFits(headers, lengths)
    THEN "ROW" ELSE "TORN"

mysql_pkt_to_sqlite_exec(cols, rows) ==
    LET heads == <<[kind |-> "COUNT", n |-> 1]>> \o Repeat(Placeholder, cols)
                 \o <<[kind |-> "EOF", n |-> 2 + cols]>>
        numbered == [i \in DOMAIN rows |-> [kind |-> AdminRow(rows[i]), n |-> cols + 2 + i]]
    IN  Append(Defined(heads \o numbered, cols),
               [kind |-> "EOF", n |-> 3 + cols + Len(rows)])

AdminQuery ==
    /\ command \in {"none", "ADMIN"}
    /\ \E cols \in 1 .. MaxCols : \E row \in [1 .. cols -> Lengths \cup {Null}], n \in 0 .. MaxRows :
          /\ out' = mysql_pkt_to_sqlite_exec(cols, Repeat(row, n))
          /\ received' = Number(Resultset(cols, Repeat("ROW", n), "EOF"))
    /\ command' = "ADMIN" /\ to_cache' = FALSE
    /\ server' = <<>> /\ open' = FALSE
    /\ UNCHANGED <<query, progress, size, resultset, trx, held, cache>>

(* The session ends, whatever is under way, and another one takes its place.  *)
(* drop_resultset frees what was collected; free_backends gives the           *)
(* connection back as it is, with what it has to send and its transaction.    *)
SessionEnds ==
    /\ command # "none"
    /\ command' = "none" /\ query' = NoQuery /\ progress' = "WAITING" /\ size' = 0
    /\ resultset' = <<>> /\ to_cache' = FALSE /\ out' = <<>> /\ trx' = FALSE /\ held' = FALSE
    /\ received' = <<>>
    /\ UNCHANGED <<cache, server, open>>

Init ==
    /\ command = "none" /\ query = NoQuery /\ progress = "WAITING" /\ size = 0
    /\ resultset = <<>> /\ to_cache = FALSE /\ out = <<>> /\ trx = FALSE /\ held = FALSE
    /\ cache = [q \in Queries |-> NoEntry]
    /\ server = <<>> /\ received = <<>> /\ open = FALSE

Next ==
    \/ \E q \in Queries : client_COM_QUERY(q) \/ QueryCacheHit(q)
    \/ PassThrough \/ process_server_pkts \/ Expire \/ AdminQuery \/ SessionEnds

Spec == Init /\ [][Next]_vars

-----------------------------------------------------------------------------
(* Nothing of an answer is lost, repeated or reordered, and nothing of an     *)
(* earlier one is left in it, whether it was collected, flushed because it    *)
(* went above mysql_max_resultset_size, or passed through.  An answer of the  *)
(* admin interface has every packet in its place, with its number, and every  *)
(* row in memory of its size.                                                 *)
NothingLost == out \o resultset = received

(* When the server is done the client has all of it: nothing stays behind in  *)
(* sess->resultset, where no later event would move it.                       *)
NothingHeldBack == (held => server = <<>>) => out = received

(* What the query cache serves is a whole answer, from its first packet to    *)
(* the one that ended it, and within the limit; an answer that ended with an  *)
(* error is whole too, and is stored.                                         *)
CachedWhole ==
    \A q \in Queries : cache[q] # NoEntry => cache[q] \in Answers /\ Fits(Len(cache[q]))

(* server_COM_QUERY takes a connection from a session that goes on only when  *)
(* the connection has nothing more to send and no transaction open, unless    *)
(* the answer was an OK packet with a count of 128 or more: a row that looks  *)
(* like OK ends nothing, and what it does to active_transaction is undone     *)
(* before it matters, and the flag of an OK packet is found behind two counts *)
(* of one byte, where the sign of char does not matter.                       *)
ReleasedClean ==
    [][held /\ ~held' /\ command' # "none" =>
          server' = <<>> /\ (open' => Head(server).kind = "WIDE")]_vars
=============================================================================
