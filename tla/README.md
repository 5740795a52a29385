# ProxySQL: TLA+ models, checks and proofs

ProxySQL is a MySQL proxy written in C: mysql threads, each with a poll loop and
sessions of its own, forward the commands of clients to servers, keep a pool of
connections, share a query cache, and are administered through SQLite tables.
This directory models its concurrent and stateful parts in TLA+, checks them with
TLC on small instances, and proves with TLAPS, for all sizes, the safety of the query
cache, of sessions and their connections, of the bytes and packets that pass through
them, of the poll loop, of the maintenance handshake, of the query statistics and of
the configuration tables. Paths such as `mysql_session.c:870` are below `src/src/`; `README.rst` is the
repository's.

## 1. Inventory

| Part (source) | State | Operations | What makes it hard | Module |
|---|---|---|---|---|
| Query cache (`fundadb_hash.c`) | partitions with a rwlock, hash table, pointer array, purge index, sizes; per entry expiry and `ref_count` | `fdb_get`, `fdb_set`, `fdb_truncate_all`, `purgeHash_thread` | readers leave the lock before they read; entries are freed by a third thread; sizes are added after the lock | `QueryCache`, `ResultCache` |
| Connection pool (`mysql_connpool.c`) | free connections per server, user, password and schema; a cached clock | get, create, detach, the clock's refresh | stale clock, a remembered pool pointer, connects that fail | `ConnPool` |
| Sessions and backends (`mysql_session.c`, `mysql_backend.c`, `mysql_handler.c`) | user, schema, one backend per hostgroup, the polled backend, the command under way | accept, authenticate, every client command, answers, failures, close | connections change owners while transactions, prepared statements and answers are open on them | `Session` |
| Server maintenance (`admin.c`, `admin_sqlite.c`, `main.c`) | server status, hostgroups, queue, pipe, acknowledgements, timeout | FLUSH HOSTGROUPS, REMOVE SERVER, removal passes, restart by the angel process | admin and mysql threads, memory freed under sessions, timeout, crash and restart | `Maintenance` |
| Data streams (`mysql_data_stream.c`) | input and output queues, packets, partial packets | `read_from_net`, `buffer2array`, `array2buffer`, `write_to_net` | reads and writes split anywhere; queues that do not wrap | `DataStream`, `Relay` |
| Thread loop (`main.c`) | array of descriptors, array of sessions | gather, poll, copy back, handle, sweep, accept, grow | entries are matched by counting; fast removal while walking | `PollSet` |
| Packets of an answer (`mysql_session.c`, `admin_sqlite.c`) | progress of the result, packets kept, size | `server_COM_QUERY`, pass through, cache hit, answers of the admin port | packets that look alike, errors in the middle, size limit, answers built out of order | `ResultSet` |
| Length-encoded integers (`mysql_protocol.c`) | none | encode, decode, skip, count | widths, signed characters | `Lenenc` (operators of `ResultSet`) |
| Query rules and default hostgroups (`mysql_handler.c`, `mysql_session.c`, `admin_sqlite.c`) | rules, default hostgroups with a version, a copy in each session | routing of a command, INIT_DB, CHANGE_USER, loading | reloads between two lookups, rows out of range | `Routing` |
| Configuration tables (`admin.c`, `admin_sqlite.c`, `main.c`) | tables in memory and on disk, an open transaction, users | edits, FLUSH commands, the save, SHUTDOWN, start-up | a process that dies in the middle of the save, three sources merged at start-up | `Config` |
| Query statistics (`tokenizer.c`, `fundadb_hash.c`) | an entry per session, two tables that are exchanged, the database | fill, count, exchange, report | entries change owners; the report thread works without the lock | `QueryStats` |
| Memory allocator (`l_utils.c`) | per-thread stacks of free cells, blocks, counters | allocate, free, compact | whole blocks are recognised in a sorted copy; counters that drift | `Allocator` |
| Configuration file, start-up, network helpers, debugging, handshake packets, monitoring, scripts, the SQLite library | | | sequential start-up code, I/O or fixed layouts | not modelled |

How they interact: the loop of `PollSet` calls the handlers of `Session`, which
take connections from and return them to `ConnPool`. `DataStream` is what moves
bytes for a session, `ResultSet` what it does with the packets of an answer,
`Routing` what chooses the hostgroup. `ResultSet` fills and reads the cache of
`QueryCache`. `Maintenance` composes `Session` and `ConnPool` (it extends them)
with the admin thread. `Config` extends `Routing` with the tables it is loaded
from and the life of the process. The other modules abstract their neighbours: `Session`
treats a command and an answer as whole and takes the hostgroup as given;
`PollSet` treats a handler as any change of a session's server.

## 2. Plan

1. Done: the modules above; the proofs of section 5.
2. Next models: several mysql threads in `Maintenance`, the size classes of
   `Allocator`, the monitoring tables.
3. Next proofs: `CellsOwnedOnce` of `Allocator`, `OwnTransactionOnly` of `Session`.

## 3. Modules

Every specification module names its source in its header. An operator `Mut_X` is
`X` with a mistake of the kind a programmer makes. No specification uses it; put
in place of `X`, it makes TLC report the property it belongs to, which shows that
the property can fail. The `MC` modules add symmetry sets and the values of
constants.

- **QueryCache.** One action per stretch of code between points where another
  thread can interfere. `alloc` is the set of allocated cells; cells are reused,
  so a dangling pointer is visible. `hashKey` is the entry that owns the key string
  the GHashTable refers to. `purge` is the purge thread's position, and `truncating`
  how many locks FLUSH QUERY CACHE has. Each entry counts one unit of memory.
- **ResultCache.** The promise: a get returns nothing or the result stored for its
  key when it was looked up. `QueryCache!ImplementsResultCache` is the refinement.
- **ConnPool.** Operators from a pool to the outcomes of `get_connection` and
  `detach_connection`, and the clock with its cached copy `tv`. A server accepts a
  connection when the password is the user's (`Accepted`). The global pool is
  left out: nothing is ever put in it.
- **Session.** Handlers are operators from a state to the set of states they may
  leave. `wire` is the server's end of each connection: who has a transaction
  open, whose commands wait, whether it has hung up and with what unanswered. A client
  may send any command where the answer to CHANGE_USER is due, as `process_client_pkts`
  looks for that answer only after the commands it knows. `crashed` records
  a failed assertion or a read through a null or stale pointer.
- **Maintenance.** Extends `Session` by the admin thread's FLUSH HOSTGROUPS, the
  queue, the pipe and the acknowledgement, the removal passes and the restart.
  A freed MSHGE reads as its old contents, as an entry allocated in its place, or
  as neither (`Wild`). One mysql thread.
- **DataStream, Relay.** Bytes of the direction from client to server;
  `BytesInOrder` says that the two streams implement the FIFO `Relay`.
- **PollSet.** One round of `mysql_thread` is the actions Poll, Maintain, Handle
  (one per session), Sweep, Accept (TCP, then Unix) and Grow. A session that is not
  healthy is not polled (`Polled`). `forced` is a history
  variable: the maintenance timeout has closed a session.
- **ResultSet.** A packet is what the server means by it and its number; the
  proxy sees only what `mysql_response` tells it, and of an OK packet the byte where
  it takes the flags to be; `WIDE` is an OK packet with a count of 128 or more. A session
  may end at any packet, and its connection goes back with what is still to come on it.
  `AdminQuery` is a command on the admin port: `out` is what
  `mysql_pkt_to_sqlite_exec` builds, `received` what the protocol asks for.
- **Lenenc.** Byte sequences of integers and strings, and the functions that write,
  measure and skip them, for `ResultSet`. Bytes read past the end of a packet are any
  of `Junk`.
- **Routing.** A query text is a model value, a pattern a set of texts. A replacement may
  fail (`BadReplace`); the rule is then passed over.
- **Config.** Extends `Routing`. `main` and `disk` are the tables as the admin
  connection sees them, `saved` whether a transaction is open and what both were when
  it began, so that `Committed` is what a new process finds. Each statement group of
  `sqlite3_config_sync_mem_to_disk` is a step. A user is a password and whether it is
  active; only active ones are loaded. `promised` and `offered` are history:
  what the administrator was told is saved, and what the last command was to save.
- **QueryStats.** An entry is a cell that a session owns until `query_statistics_set`
  gives it to `c_hash` or frees it. The steps of `qr_report_thread` are the exchange,
  the list of keys, one row each, and the clearing. `done` and `lost` are history.
- **Allocator.** One size class. A cell is its address; `compact_mem` is one step of
  the free that sets it off, as a pool belongs to one thread. `null_first` says to which
  end `cmpptr`, which keeps 32 bits, sorts NULL.

## 4. Runs

| Run | Instance | Distinct states | What holds |
|---|---|---|---|
| query_cache_safety | 2 threads, 2 keys, 2 results, 3 cells, 1 partition, clock to 2 | 633,310 | no use after free; a reader's entry stays its own; every entry in one place; `EXPIRE_DROPIT` iff not in the table; exact sizes; only expired results leave; refinement of `ResultCache` |
| query_cache_liveness | 1 thread, 2 partitions, 1 key, 4 cells, chunks of 2 entries | 155,930 | the purge index is in bounds across the passes of a sweep; calls return, FLUSH QUERY CACHE completes, again and again no expired entry is left but those the bounds of the chunks skip |
| session_backends | 1 client that waits for its answers, 2 hostgroups, 2 servers, 2 connections, 2 users of which the proxy knows one, 2 passwords; symmetric in servers and connections | 1,279,124 | each connection has one owner; pools hold matching, reusable connections; backends match the session; a session gets its own answers; a connection that broke before its answer is not pooled |
| session_sharing | 2 tidy clients that query and change schema, 2 hostgroups of which one is used, 2 connections, 2 schemas, clock to 2 | 897,323 | no other client's transaction or answer on a session's connection; connections are young; backends match |
| maintenance | 1 client, 2 hostgroups, 1 server, 2 connections | 251,500 | handshake in step, after an acknowledgement no entry reads as a removed server's, FLUSH HOSTGROUPS returns or the proxy restarts, a command is answered or its client disconnected unless a hostgroup stays empty |
| data_stream | buffers of 5 bytes, 3 packets of 4 or 7 bytes | 66,066 | whole packets, FIFO, delivery (so the input queue always has room) |
| poll_set | 3 sessions, 4 descriptors | 308,410 | own events (before a forced close), room in the array |
| result_set | 1 query, 2 columns, 2 rows, limit 6 packets; counts 0, 1, 127, 128, 251, 70000; lengths 0, 1, 250, 251, 300, 65535 and NULL | 72,880 | nothing lost or held back, only whole answers cached, a release by a session that goes on is clean unless a count is 128 or more; admin answers in order, their rows in memory of their size |
| query_statistics | 2 sessions, 1 query, answered by 1 server or the cache, 4 cells, 2 results per key | 165,774 | every result counted once or lost with its process; entries have one owner; what is counted is reported |
| allocator | 3 blocks of 3 cells, compaction considered every 4 frees, 1 block kept | 58,117 | no cell twice, no block given back in use, losses bounded |
| configuration | 1 session, 2 users, 2 schemas, 2 rule tables, 2 tables of defaults, users active or not, 2 edits | 667,806 | the file is always one whole saved configuration; a new process runs by it; default hostgroup current; reads and writes split |
| maintenance_keeps_running | 1 client, 1 hostgroup, 2 servers | violation | see section 6 |

**Bounds.** Two threads or clients are the fewest that interfere; the third cell
lets one be held by a reader, one be in the table and one be recycled. In
query_cache_liveness an array of 4 entries is swept in two chunks; the one key, set again
and again, fills it with entries that wait to be freed, and the second partition has none
and is there for the locks. Two
hostgroups are needed for "all backends together", two servers for the retry that
picks another server. Buffers one byte larger than a header put packet
ends at, before and after the end of the buffer. The clocks reach 2 so that with a
timeout of 1 entries expire and are used before and after. `MaxTime = 0` in session_backends
and maintenance leaves expiry to session_sharing. Commands in maintenance are of one
kind (`Commands = {"OTHER"}`); the others are in the session runs, INIT_DB in
session_sharing and the rest in session_backends. One query is enough in result_set, as no
property relates two. The tables
administrators make are listed in `MCConfig`, among them rules that are out of range, one
whose replacement fails, a default hostgroup of -1 and users that are not active;
two edits are enough for one that is saved and one that is not. Four cells give each
session one while both statistics tables have one. Three cells to a block put a block
at the start, in the middle and at the end of the sorted free list; three blocks with
one kept allow two to be given back at once. Lengths are those where the width of the
prefix changes, below 65536.
TLC says nothing beyond these sizes, except where section 5 does.

**Assumptions about the environment.** `ClientsWait = TRUE` in all session runs: clients
wait for their answers before they leave. `ClientsTidy = TRUE` in session_sharing and the
maintenance runs: they also finish transactions before they leave, quit or change schema
or user. The code enforces neither; `OwnAnswersOnly` and `BrokenIsClosed` fail without the
first, `OwnTransactionOnly` without the second (section 6).
`CountsFit = TRUE` in the same runs: OK packets report counts below 128;
session_backends does without, and without tidy clients. A client sends one command at a
time. Query statistics are on. The clock is not set back, and the report thread's sleep
gives each report a time of its own (the timestamp is part of the row's key). SQLite
transactions are atomic when the process dies. There is one admin thread, which takes one
command at a time. The blocks of a size class lie between two consecutive multiples of
2 GB, so that `cmpptr`, which keeps the low 32 bits of a difference, orders them and puts
NULL at one end.

**Fairness.** `QueryCache`: a call that has started goes on and the purge thread
never ends (weak fairness); a lock that is free again and again is obtained (strong
fairness of the lock steps: critical sections are a few instructions and the purge
thread sleeps between passes). Nobody must start a get, set or flush. `Session`:
the poll loop comes back to every session with something to do, and servers answer
or hang up. `Maintenance`: the admin thread, the removal passes once late, the
maintenance timeout and the angel process go on, besides what `Session` assumes.
`ServedWhileStocked` also supposes that in the end no hostgroup stays empty, since a
command for an empty one is queued back. `QueryStats`: the report thread, which
waits for nobody but the lock, goes on, and the process is restarted. `DataStream`: the handler goes on;
nothing is asked of the receiver, as a send that would block fails and ends the session.
`CHECK_DEADLOCK FALSE` is used in data_stream only, where the session may end.

## 5. Proofs

Every theorem is about a specification of section 3, for all values of its constants
that satisfy the assumptions named below. None of the properties is inductive; each part
gives the invariant it follows from. There is one lemma per action.

**The query cache** (`QueryCacheProofs`), for every number of threads,
keys, results, cells and partitions: always `TypeOK`, `NoUseAfterFree`,
`ReadersSeeTheirKey`, `IndexedOnce`, `LiveIffHashed`, `PurgeInBounds` and
`SizeAccounting`; the action property `OnlyExpiredLeave`; and the refinement
`ImplementsResultCache`. `NoUseAfterFree` needs to know that the purge thread, which
looks at `ref_count` only, sees every reader. The invariant `IInv` is `TypeOK` and

- `RefCounted`: `ref_count` is the number of readers between lookup and release;
- `HeldIndexed`: a reader's entry is in the array of its key's partition;
- `Unpublished`: the entry a set is about to insert is in no array and nobody else's;
- `ArraysSound`: no entry twice in an array, all allocated, all of that partition;
- `HashSound`, `LiveHashed`: the table leads to live entries of the right key, and
  every live entry is reached from its key;
- `AllocReachable`: an allocated entry is in an array or about to be inserted;
- `PurgeInBounds`, `ScanSound`: the purge index while sets append and it removes.

An entry leaves its array only when it is freed; that needs `ref_count = 0`, hence no
reader, by `RefCounted`. `Frame` covers what an action leaves alone, and the counting of
readers is isolated in `ReaderCounts`, which follows from the finiteness of `Threads`.
For `SizeAccounting` the published entries are the allocated ones that no set is about to
insert; an insertion adds one and a thread that still has to account for it, a removal
takes one away. For the refinement, `Calls` says that a thread outside `fdb_get` asks for
nothing, and the value of an allocated entry never changes. Then the lookup, the
copy and the release of `fdb_get` are `LookUp`, `Fetch` and `Return` of `ResultCache`, the
insertion of `fdb_set` is `Put`, the purge of a live entry and FLUSH QUERY CACHE are
`Evict`, and all other steps stutter. Assumptions: `PartitionAssumption`,
`TimingAssumption`, `MemoryAssumption` (at least one partition, key and result, positive
purge parameters, finitely many threads and cells).

**Sessions, backends and pools** (`SessionProofs`), for any sessions,
connections, servers, hostgroups, users, passwords, schemas, commands and timeouts, whatever
clients do: always `TypeOK`, `OwnedOnce`, `PooledMatches` and `BackendMatches`, and the
action property `HandedOutYoung`. A handler works on one
session, so the lemmas are about the pools `p`, the backends `B` of that session and the
set `O` of connections that others hold:

- `Sound(p, B, O)`: backends, pools and `O` share no connection, and every open
  connection is in one of them; pools hold reusable connections of their key;
- `Matching`: a backend's connection is for its server and the session's user, password
  and schema, and a backend without a connection remembers no pool;
- `SessionSound`: what a session has in each of its states;
- `WiresSound`, `ClockSound`: a server answers what it was asked; the cached clock lags at
  most `MaxLag`, and a connection expires `WaitTimeout` after it was taken.

`IInv` is these for every session, with `O` the connections of the others. Every handler
leaves a `GoodOutcome`, in which they hold again and the connections of `O` are untouched
(`Progress`), and `HandlerKeeps` turns that into the step. `Progress` also says that
whatever left a pool was young, which gives `HandedOutYoung`. Assumptions:
`PoolAssumption`, `NoPoolAssumption`, `SessionAssumption` (the null values are no members
of the sets, there is a session).

**What sessions leave on connections** (`SessionProofs`, second part), for clients that
wait for their answers before they leave (`ClientsWait`), with transactions left open or not,
for any number of clients and hostgroups: always `OwnAnswersOnly` and `BrokenIsClosed`.
Section 6 says why the code needs the condition. The invariant, on top of `IInv`, is `Tidy`:

- a connection that nobody holds has nothing asked on it;
- one that a session holds has at most the command that this session waits for, which is
  on its polled backend;
- a session whose packet waits has a client that waits.

A connection that broke keeps what was asked on it, so both are about what sessions give
back: it has been answered, and `ShutCloses` shows that the one connection that had not
been, whose break ended the session, is closed.

**The maintenance handshake** (`MaintenanceProofs`), for `MSpec` with any sessions,
servers, hostgroups and tables, through crashes and restarts: always `OneCommandAtATime`
and `AckMeansRemoved`. `Counts` says that while the proxy is up the commands queued,
worked off and acknowledged add up to one exactly while the admin thread is in
`force_remove_servers`, and that the pipe has a byte for each queued command but for the
moment between push and write. It follows that no acknowledgement is pending when a
removal pass or a flush begins.

`AckMeansRemoved` must also survive what the sessions do before the admin thread takes
the acknowledgement. `Removal` adds what that needs: a session that is not there has no
server, and no hostgroup lists a server that is OFFLINE_SOFT (`Stocked`), so that
`mysql_session_create_backend_for_hostgroup` cannot bring one back. `SessionOnward` goes
through every handler of `Session` and shows that a session without such a backend stays
without. A removal pass is a fold over the sessions: `PassUnfolds` shows that the
function it is defined by exists, and `PassSweeps`, by induction on the number of
sessions visited, that a pass which counts nothing left, or which closes what it counts,
leaves none. All of this is about what the entries read as, which for freed ones may not be
the server the connection goes to (section 6). Assumptions: `SessionAssumption`, `MaintenanceAssumption` (finitely many
sessions and hostgroups).

**The poll loop** (`PollSetProofs`), for any numbers of sessions and descriptors and
whatever the handlers do to the servers of their sessions: always `OwnEvents`. Nothing in
the array says whose an entry is; the loop counts. The invariant `IInv` is a type invariant
and

- `Layout`: from poll() until the last handler there are offsets into the array, one per
  session, each the one before it plus that session's `nfds`; the entries at the offset of
  a session whose turn is still to come are its own, and the running index is at the
  offset of the session whose turn it is (after a timeout has closed a session: at or
  before it, so that no read is past the end);
- `Healthy`: outside of the handlers and the sweep every session is healthy, which the
  fast removal must not spoil while the array is walked;
- `Room`: two entries per session fit; one accepted client may be ahead of that on the
  way to the Unix socket, two before the array grows.

That the array gathered by the loop has such offsets (`GatheredArranged`) is an induction
over the sessions, by `Least` as below. Assumption: `PollSetAssumption`
(`MIN_FDS_PER_THREAD` at least 4, room for at least two more sessions).

**Query statistics** (`QueryStatsProofs`), for any finite memory and any sessions,
queries and servers: always `TypeOK`, `CountedOnce` and `EntriesOwnedOnce`. `Owned` says
that the entry under a key is of that key, that the two tables and the sessions share no
entry and that none is leaked; `ReportSound` that `p_hash` is empty while the report
thread sleeps and has what it still has to write. `CountedOnce` is needed by itself:
no step moves a count without its entry. Assumption: `QueryStatsAssumption` (finitely
many cells).

**Configuration** (`ConfigProofs`), for any tables, sessions, settings and numbers of
edits: always `SavedWhole`, `RestoredAsSaved` and `DefaultCurrent`. `Stages` gives, for
every stage of a save, what the file would hold if the process died there, with and
without a transaction of the administrator; `Databases` the form of the tables;
`Defaults` that what a session knows of its default hostgroup is of the version it
names. Assumptions: `ConfigAssumption`, `RoutingAssumption`.

**The packets of an answer** (`ResultSetProofs`), for answers of any number of columns and
rows, any queries, counts and size limit, and wherever sessions end: always `CachedWhole` and
the action property `ReleasedClean`; `NothingLost` and `NothingHeldBack` for strings below
65536 bytes (`Short`). `ReleasedClean` excepts answers that are an OK packet with a count of
128 or more; section 6 says why the code needs this and the limit. `NothingLost` relates what was received
to what the client has, but which of the two a packet goes to depends on
`resultset_progress`, which the proxy works out from packets that look alike. The
invariant `IInv` adds

- `OneAnswer`: what was received and what is still to come is an answer that a server
  can give;
- `Reading`: `resultset_progress` is what the number of packets read of that answer makes
  it (`Follows`), and the size is this number; nothing was passed on while it fits;
- `Collected`, `ToCache`: what is collected is the part that was not passed on, and only
  a query that may be cached is marked so.

The admin's answer is built out of order: header, space for the columns, rows, and the
column definitions last. `AdminInPlace` shows that it is the answer the protocol asks for,
and that every row, whose length is computed before it is written, fills its memory. That
takes induction over columns and rows, for which the library's induction theorems cannot
be used (they have an operator as a parameter). The lemma `Least` replaces them:
a set of naturals that is not empty has a least member. Applied to the set of lengths for
which a claim fails, it leaves a least failure to refute. Assumptions:
`ResultSetAssumption`, `LenencAssumption`.

**The bytes of a session** (`DataStreamProofs`), for any packets, any sizes of header and
queues, and whatever `recv()` and `send()` give and take: always `WholePackets`, and the
refinement `BytesInOrder`. Neither is inductive: what `buffer2array` takes for the length
of a packet is right only if it starts reading where a packet starts. The invariant `IInv`
says that the packets sent are those that have left `output.pkts`, those that wait in the
two streams and those to come, such that

- `Wrote`: the bytes on the wire, in the output queue and behind `output.partial` in
  `output.mypkt` are the packets that have left;
- `Reads`: the bytes in `input.mypkt`, in the input queue and in the network are the
  packets to come, and the length of a packet that is begun is that of the first of them.

It also bounds both queues by `net_buffer_size`. One call of `buffer2array` moves a packet
from those to come to those that wait (`Buffer2ArrayCuts`), one call of `array2buffer`
from those that wait to those that left (`Array2BufferFills`), or neither. For the
refinement a send of the sender is `Send`, a write that sends bytes is `Deliver`, the end
of the session is `Break`, and all other steps stutter. That the bytes of a sequence of
packets are those of its parts takes the induction by `Least` again. Assumption:
`DataStreamAssumption` (a header has at least one byte and a queue holds more than one
header; the null packet is no packet).

TLC evaluates every assumption in the runs of these modules.

Only model-checked:

- Every liveness property (`CallsReturn`, `ExpiredIsPurged`, `FlushReturns`,
  `ServedWhileStocked`, `AllDelivered`, `AllReported`): liveness under fairness is beyond
  the prover.
- `ReadWriteSplit`, which rests on `SelectSeq`: it needs an induction of its own, as
  `ResultSet` does, which is not done.
- `OwnTransactionOnly`: an invariant for it would have to follow the transaction flag
  through every answer under the three conditions it is checked with; it is not done.
- The session properties with servers that leave: the theorems of `SessionProofs` are about
  `Session` alone, where no server does.
- `CellsOwnedOnce` of `Allocator`: its compaction sorts the free cells, and what sorting
  returns would need an induction of its own.

## 6. Where code and documents disagree

Shown by a run: **maintenance_keeps_running.** `remove_all_backends_offline_soft`
(`mysql_session.c:870`) reads `mybe->mshge->MSptr` for every hostgroup, although
`mshge` is NULL for a backend that was never used or was just reset. FLUSH HOSTGROUPS
then ends the process; README.rst:374 says active connections have time "to
gracefully shutdown". The angel process restarts it, which is why `FlushReturns` holds.

Met while modelling. The models contain the behaviour; the properties are stated
so as to exclude exactly these cases, and no run is about them:

- `fundadb_hash.c:182`: the purge loop never examines index 0 of an array, nor, in a sweep
  of several passes, the index at which one pass stops and below which the next begins. An
  expired entry there stays (README.rst:407), at a boundary until removals move it.
  `ExpiredIsPurged` excepts these positions (`Boundaries`). That an entry stays at a boundary
  for ever takes three live keys and is beyond the run.
- `mysql_connpool.c:314`: the purge thread only refreshes the clock; unused
  connections are not dropped after `mysql_wait_timeout` (README.rst:366).
- `mysql_session.c:938`: a session that ends returns its connections to the pool whatever
  is open on them. If its client left inside a transaction, the next client works inside it
  (README.rst:362 says never shared); if it left before the answer, the next client gets
  that answer, or a connection that broke meanwhile. It takes a client that leaves
  early, or one that is closed because its second hostgroup cannot be reached. Hence
  `ClientsWait` and `ClientsTidy`.
- `mysql_session.c:133`: sharing releases the backends of all hostgroups when the
  polled one has no transaction, also those that have one. `OwnTransactionOnly` is therefore
  checked with all commands to one hostgroup.
- `mysql_session.c:303`: the transaction flag is read from every packet that looks like OK or
  EOF. A row whose first field is empty looks like OK, so if an error follows it the flag is
  what the row had there (`LearnTransaction`). An error does not release the connection.
- `mysql_session.c:735`: only `default:` looks whether an answer to CHANGE_USER is due. Other
  commands are dispatched under the new user, whom nobody has checked, with the password of
  the one before. The server refuses unless that is the new user's too; `BackendMatches`
  says as much and no more.
- `mysql_session.c:794`: a prepared statement marks the connection the backend has. If the
  server is OFFLINE_SOFT that connection is then given up and the statement prepared on a new
  one (:824-852), which is not marked and may be shared. No property says that prepared
  statements stay private.
- `mysql_session.c:239`: an answer that ends with an error is stored in the cache like any
  other. `CachedWhole` is about whole answers, and such an answer is whole.
- `mysql_session.c:856`: a command for a server that went OFFLINE_SOFT inside a
  transaction, or SHUNNED, reaches `assert(0)` ("we should never reach here", :855).
- `admin_sqlite.c:416`: MSHGE entries are freed while sessions point at them, so an
  acknowledgement may miss a session on the removed server (comment `admin.c:315`), which
  goes on using it. `AckMeansRemoved` is about what the sessions' entries read as.
- `main.c:234`: a session closed by the maintenance timeout between poll() and the
  copying back shifts the entries of those behind it (comments :229, :233).
  `OwnEvents` holds until then.
- `mysql_session.c:229`: an answer of several results is taken for complete after the
  first. With statistics on, the second reaches `query_statistics_set` without an entry
  (`tokenizer.c:367`) and the process reads through NULL; `QueryStats!SecondResult`.
- `mysql_protocol.c:523`: a signed character makes the width of counts from 128 on
  wrong, so the transaction flag is read from the wrong place. `ReleasedClean` excepts OK
  packets with such counts.
- `mysql_protocol.c:583`: for a string of 65536 bytes and more the prefix of the length is
  written and the length itself is not; `Lengths` are shorter.
- `mysql_session.c:9`: the default hostgroup is stored but 0 is returned (comment
  `mysql_handler.c:191`).
- `mysql_session.c:1134`: `add_defHG` sets the user name twice and the schema never (:1158).
- `admin_sqlite.c:393`: default hostgroups are not checked against
  `mysql_hostgroups` (assertion `mysql_session.c:671`). No property says that
  a default destination is in range.
- `mysql_session.c:509`: CHANGE_USER frees its packet before it reads the names in it;
  the models take any names.
- `mysql_session.c:801`: a command for a hostgroup without a server is queued back and
  waits as long as the hostgroup is empty; `ServedWhileStocked` excludes it.
- `admin_sqlite.c:111`: with a transaction of an administrator open on the same
  connection, the BEGIN of the save fails and its assertion ends the process; even
  SHUTDOWN then saves nothing (README.rst:262 and :266). `SavedWhole` is about what was
  answered with OK.
- `admin_sqlite.c:113`: the save copies every table as it is, with edits that no FLUSH
  has loaded; FLUSH USERS also saves an unfinished edit of the rules.
- `main.c:506`: users of the configuration file come back at each start although they
  were deleted and the deletion saved. `RestoredAsSaved` is about users that are there,
  active or not.
- `l_utils.c:284`: compaction rebuilds the free list from the first `free_cnt` places of the
  copy after lowering `free_cnt` by the blocks given back, which are in their middle: up to
  that many free cells are lost until the thread ends, as `LossBounded` allows. As
  `free_cnt` is not lowered by allocations, compaction is set off more often than the
  99 % it compares with suggest.
- `admin_sqlite.c:845`: the dump of the default hostgroups binds the schema to the place
  of the user name; the dump is not modelled.
- `debug.c:61`: a thread that logs waits while 9000 messages are queued; once the logger has
  seen `shutdown` and ended, nobody takes them, and `main` waits for that thread
  (`main.c:589`). Debugging is not modelled.

## 7. Not modelled

- Text processing: query digests, regular expressions, recognition of admin commands.
- The handshake and its packets, how passwords are hashed, packets of 16 MB and more, LOAD DATA LOCAL
  INFILE.
- Start-up (the configuration file, daemon, creation of threads and sockets), logging,
  the dumps of runtime tables, the monitoring tables, the scripts.
- Which size class of the allocator a request falls into, and the growth of pointer
  arrays.
- More than one mysql thread in `Maintenance`; the query cache and the statistics, which
  threads share, have several.
- Allocator blocks on both sides of a multiple of 2 GB, where `cmpptr` is not an order.
- Clients that stop reading (client sockets block), packet numbers beyond 255, and data
  races on plain counters.
- The SQLite library. It is a vendored copy in `src/sqlite3/` of about 154,000 lines, next
  to some 8,300 lines of the proxy's own code and headers, of which the definitions
  here stand for about two fifths. What the proxy relies on is that a transaction is
  atomic, and that is assumed.

`PROJECT.json` lists every part with its reason, and the lines each definition stands for.
