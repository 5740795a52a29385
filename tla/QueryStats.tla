------------------------------ MODULE QueryStats ------------------------------
(***************************************************************************)
(* Query statistics: every session fills an entry while its query runs     *)
(* (init_query_metadata in src/src/mysql_handler.c) and hands it over when *)
(* the result is there (query_statistics_set in src/src/tokenizer.c), to   *)
(* the table c_hash.  The report thread (src/src/fundadb_hash.c) exchanges *)
(* c_hash with p_hash under the lock, writes one row per entry of p_hash   *)
(* to the statistics database without the lock, and empties it.            *)
(*                                                                         *)
(* mysql_query_statistics is on.  Memory is a set of cells that are used   *)
(* again at once.  Each report has a time of its own, as the thread sleeps *)
(* at least 5 seconds before it reads the clock; the clock never steps     *)
(* back.  Critical sections of the lock are single steps.                  *)
(*                                                                         *)
(* An operator named Mut_X is a wrong variant of X, used to show that the  *)
(* properties notice the difference.                                       *)
(***************************************************************************)
EXTENDS Integers, FiniteSets

CONSTANTS Sessions, Queries, Servers, Cells,
          NoServer,      \* mysql_server_address is NULL: answered from the query cache
          NoCell,        \* NULL
          MaxDone        \* bound: queries that are finished, per key

ASSUME QueryStatsAssumption ==
    /\ NoServer \notin Servers /\ NoCell \notin Cells /\ IsFiniteSet(Cells)
    /\ MaxDone \in Nat

VARIABLES query_stats,     \* of each session
          phase,           \* of each session: idle, queued (packet put back) or asked
          entry,           \* contents of the cells that are allocated
          c_hash, p_hash,
          report,          \* where the report thread is
          keysList,        \* keys of p_hash it has to write
          rows,            \* exec_cnt in the rows of the statistics database, per key
          up,              \* the process lives
          done, lost       \* history: results counted, and counts that died with a process

sessions == <<query_stats, phase>>
reporter == <<report, keysList, rows>>
vars == <<sessions, entry, c_hash, p_hash, reporter, up, done, lost>>

(* __generate_qr_hash_entry__key *)
Keys == [query : Queries, server : Servers \cup {NoServer}]
Key(e) == [query |-> e.query, server |-> e.server]

Allocated(mem) == DOMAIN mem
NoEntries == [k \in Keys |-> NoCell]
Put(mem, c, e) == [d \in Allocated(mem) \cup {c} |-> IF d = c THEN e ELSE mem[d]]

(* cleanup_query_stats *)
Freed(mem, C) == [d \in Allocated(mem) \ C |-> mem[d]]

-----------------------------------------------------------------------------
(* init_query_metadata: what an earlier query of the session left is freed.   *)
Fresh(mem, s) == Freed(mem, {query_stats[s]} \ {NoCell})

(* query_statistics_set, for cell c of session s in memory mem.               *)
Mut_KeptPointer(c) == c
KeptPointer(c) == NoCell

Mut_CountedIn(mem, e) == mem
CountedIn(mem, e) == [mem EXCEPT ![e].exec_cnt = @ + 1]

query_statistics_set(s, mem, c) ==
    LET k == Key(mem[c])
        e == c_hash[k]
    IN  /\ query_stats' = [query_stats EXCEPT ![s] = KeptPointer(c)]
        /\ done[k] < MaxDone
        /\ done' = [done EXCEPT ![k] = @ + 1]
        /\ \/ /\ e = NoCell
              /\ c_hash' = [c_hash EXCEPT ![k] = c]
              /\ entry' = [mem EXCEPT ![c].exec_cnt = 1]
           \/ /\ e # NoCell
              /\ entry' = CountedIn(Freed(mem, {c}), e)
              /\ UNCHANGED c_hash

Uncounted(s, mem, c) ==
    /\ query_stats' = [query_stats EXCEPT ![s] = c]
    /\ entry' = mem
    /\ UNCHANGED <<c_hash, done>>

(* client_COM_QUERY and what process_client_pkts does with the packet: the    *)
(* answer is in the query cache; or the query is sent to a server, which the  *)
(* entry then names; or no server was found and the packet is queued back.    *)
ClientQuery(s, q) ==
    /\ up /\ phase[s] \in {"idle", "queued"}
    /\ phase[s] = "queued" => q = entry[query_stats[s]].query
    /\ \E c \in Cells \ Allocated(Fresh(entry, s)), m \in Servers \cup {NoServer} :
          LET mem == Put(Fresh(entry, s), c, [query |-> q, server |-> m, exec_cnt |-> 0])
          IN  \/ /\ m = NoServer
                 /\ phase' = [phase EXCEPT ![s] = "idle"]
                 /\ query_statistics_set(s, mem, c)
              \/ /\ m = NoServer
                 /\ phase' = [phase EXCEPT ![s] = "queued"]
                 /\ Uncounted(s, mem, c)
              \/ /\ m # NoServer
                 /\ phase' = [phase EXCEPT ![s] = "asked"]
                 /\ Uncounted(s, mem, c)
    /\ UNCHANGED <<p_hash, reporter, up, lost>>

(* server_COM_QUERY, the end of a result.  A command may have several; from   *)
(* the second on there is no entry, and the process reads through NULL.       *)
ServerResult(s, more) ==
    /\ up /\ phase[s] = "asked"
    /\ query_stats[s] # NoCell
    /\ query_statistics_set(s, entry, query_stats[s])
    /\ phase' = [phase EXCEPT ![s] = IF more THEN "asked" ELSE "idle"]
    /\ UNCHANGED <<p_hash, reporter, up, lost>>

SessClose(s) ==
    /\ up
    /\ phase' = [phase EXCEPT ![s] = "idle"]
    /\ entry' = Fresh(entry, s)
    /\ query_stats' = [query_stats EXCEPT ![s] = NoCell]
    /\ UNCHANGED <<c_hash, p_hash, reporter, up, done, lost>>

-----------------------------------------------------------------------------
(* qr_report_thread *)
InTable(h) == {k \in Keys : h[k] # NoCell}

Mut_Exchanged == <<p_hash, c_hash>>
Exchanged == <<c_hash, p_hash>>

Exchange ==
    /\ up /\ report = "sleeping"
    /\ p_hash' = Exchanged[1] /\ c_hash' = Exchanged[2]
    /\ report' = "listing"
    /\ UNCHANGED <<sessions, entry, keysList, rows, up, done, lost>>

GetKeys ==
    /\ up /\ report = "listing"
    /\ keysList' = InTable(p_hash) /\ report' = "writing"
    /\ UNCHANGED <<sessions, entry, c_hash, p_hash, rows, up, done, lost>>

(* __sqlite3_statsdb__flush_query_stats: one transaction per row.             *)
FlushQueryStats(k) ==
    /\ up /\ report = "writing" /\ k \in keysList
    /\ rows' = [rows EXCEPT ![k] = @ + entry[p_hash[k]].exec_cnt]
    /\ keysList' = keysList \ {k}
    /\ UNCHANGED <<sessions, entry, c_hash, p_hash, report, up, done, lost>>

RemoveAll ==
    /\ up /\ report = "writing" /\ keysList = {}
    /\ entry' = Freed(entry, {p_hash[k] : k \in InTable(p_hash)})
    /\ p_hash' = NoEntries
    /\ report' = "sleeping"
    /\ UNCHANGED <<sessions, c_hash, keysList, rows, up, done, lost>>

-----------------------------------------------------------------------------
Unwritten == CASE report = "listing" -> InTable(p_hash)
               [] report = "writing" -> keysList
               [] OTHER              -> {}

Pending(k) == (IF c_hash[k] # NoCell THEN entry[c_hash[k]].exec_cnt ELSE 0)
              + (IF k \in Unwritten THEN entry[p_hash[k]].exec_cnt ELSE 0)

(* The process dies: by a second result, or for any other reason.             *)
Dies ==
    /\ up' = FALSE
    /\ lost' = [k \in Keys |-> lost[k] + Pending(k)]
    /\ query_stats' = [s \in Sessions |-> NoCell]
    /\ phase' = [s \in Sessions |-> "idle"]
    /\ entry' = [c \in {} |-> {}]
    /\ c_hash' = NoEntries /\ p_hash' = NoEntries
    /\ report' = "sleeping" /\ keysList' = {}
    /\ UNCHANGED <<rows, done>>

SecondResult(s) ==
    /\ up /\ phase[s] = "asked" /\ query_stats[s] = NoCell
    /\ Dies

Killed == up /\ Dies

(* The angel process starts another one; the rows are on disk.                *)
Restart ==
    /\ ~up
    /\ up' = TRUE
    /\ UNCHANGED <<sessions, entry, c_hash, p_hash, reporter, done, lost>>

Init ==
    /\ query_stats = [s \in Sessions |-> NoCell]
    /\ phase = [s \in Sessions |-> "idle"]
    /\ entry = [c \in {} |-> {}]
    /\ c_hash = NoEntries /\ p_hash = NoEntries
    /\ report = "sleeping" /\ keysList = {}
    /\ rows = [k \in Keys |-> 0]
    /\ up = TRUE
    /\ done = [k \in Keys |-> 0] /\ lost = [k \in Keys |-> 0]

Report == Exchange \/ GetKeys \/ (\E k \in Keys : FlushQueryStats(k)) \/ RemoveAll

Next ==
    \/ \E s \in Sessions :
          \/ \E q \in Queries : ClientQuery(s, q)
          \/ \E more \in BOOLEAN : ServerResult(s, more)
          \/ SecondResult(s) \/ SessClose(s)
    \/ Report \/ Killed \/ Restart

(* The report thread runs, whatever the sessions do.                          *)
Spec == Init /\ [][Next]_vars /\ WF_vars(Report) /\ WF_vars(Restart)

-----------------------------------------------------------------------------
(* Every result is counted exactly once: in a row of the database, in one of  *)
(* the two tables on its way there, or not at all because the process died    *)
(* before it was written.  The exchange, the pass over p_hash without the     *)
(* lock, the merging of entries of one key and a crash in the middle of a     *)
(* report neither drop nor repeat one.                                        *)
CountedOnce == \A k \in Keys : done[k] = rows[k] + Pending(k) + lost[k]

(* Every entry has one owner, a session or a place in one of the tables, and  *)
(* none is left behind: cleanup_query_stats frees nothing that is still in    *)
(* use, and the key strings in the tables, which belong to the entries, are   *)
(* those of entries that exist.                                               *)
EntriesOwnedOnce ==
    LET held == {s \in Sessions : query_stats[s] # NoCell}
        in(h) == {h[k] : k \in InTable(h)}
    IN  /\ Allocated(entry) = {query_stats[s] : s \in held} \cup in(c_hash) \cup in(p_hash)
        /\ Cardinality(Allocated(entry)) = Cardinality(held) + Cardinality(InTable(c_hash))
                                           + Cardinality(InTable(p_hash))
        /\ \A h \in {c_hash, p_hash} : \A k \in InTable(h) : Key(entry[h[k]]) = k

(* What has been counted reaches the database, or dies with the process.      *)
AllReported ==
    \A k \in Keys : \A n \in 1 .. MaxDone :
        (done[k] >= n) ~> (rows[k] + lost[k] >= n)
=============================================================================
