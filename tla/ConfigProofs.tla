----------------------------- MODULE ConfigProofs -----------------------------
(***************************************************************************)
(* The configuration survives: SavedWhole, RestoredAsSaved and             *)
(* DefaultCurrent hold in Config for any tables an administrator may       *)
(* write, any number of sessions, edits and loads, and any settings.       *)
(***************************************************************************)
EXTENDS Config, TLAPS

(* The three tables of a database, each a table.                              *)
IsDatabase(T) ==
    /\ T = [query_rules |-> T.query_rules, default_hostgroups |-> T.default_hostgroups,
            users |-> T.users]
    /\ IsTable(T.query_rules) /\ IsTable(T.default_hostgroups) /\ IsTable(T.users)

Databases ==
    /\ up \in BOOLEAN /\ shutdown \in BOOLEAN /\ saved.open \in BOOLEAN
    /\ IsDatabase(main) /\ IsDatabase(disk)
    /\ saved.open => IsDatabase(saved.main) /\ IsDatabase(saved.disk)

(* How far a save is, and what the file would hold if the process died now.   *)
(* Between commands that is what was promised; a transaction of the           *)
(* administrator has not touched the file; the save's own transaction keeps   *)
(* the promised tables until it commits, and what it commits was offered.     *)
Stages ==
    /\ ~up => at = "idle" /\ ~saved.open /\ disk \in {promised, offered}
    /\ at \in {"idle", "begin", "delete", "insert", "commit", "answer"}
    /\ at \in {"idle", "begin", "answer"} /\ saved.open => saved.disk = disk
    /\ up /\ at = "idle" => Committed = promised /\ Committed = offered
    /\ at = "begin" => Committed = promised /\ offered = main
    /\ at \in {"delete", "insert", "commit"} =>
          saved.open /\ saved.disk = promised /\ offered = main
    /\ at = "insert" => disk = NoTables
    /\ at = "commit" => disk = main
    /\ at = "answer" => Committed = offered

(* What a session knows of default hostgroups d: it is of this version or an  *)
(* older one, so that a load makes it outdated; if of this one, it is right.  *)
IsSession(S) ==
    /\ S = [username |-> S.username, schema |-> S.schema, default_hostgroup |-> S.default_hostgroup,
            default_hostgroup_version |-> S.default_hostgroup_version]
    /\ S.default_hostgroup_version \in Int
Knows(S, d) ==
    /\ IsSession(S)
    /\ S.default_hostgroup_version <= d.version
    /\ \/ S.default_hostgroup = -1
       \/ S.default_hostgroup_version # d.version
       \/ S.default_hostgroup = find_defHG(d.entries, S.username, S.schema)
Defaults ==
    /\ defHG.version \in Nat
    /\ session = [s \in Sessions |-> session[s]]
    /\ \A s \in Sessions : Knows(session[s], defHG)

IInv == Databases /\ Stages /\ Defaults

-----------------------------------------------------------------------------
(* Tables and databases: merged, emptied, saved and read back.                *)
LEMMA OverIsTable == \A a, b : IsTable(Over(a, b))
  BY DEF IsTable, Over

LEMMA EmptyIsTable == IsTable(<<>>) /\ DOMAIN <<>> = {}
  BY DEF IsTable

LEMMA OverEmpty ==
    ASSUME NEW a, IsTable(a)
    PROVE  Over(a, <<>>) = a /\ Over(<<>>, a) = a
  BY DEF IsTable, Over

LEMMA DefaultRulesIsTable == IsTable(DefaultRules)
  <1>1. \A x, y, z : <<x, y, z>> = [k \in DOMAIN <<x, y, z>> |-> <<x, y, z>>[k]]
    OBVIOUS
  <1>2. \E x, y, z : DefaultRules = <<x, y, z>>
    BY Zenon DEF DefaultRules
  <1> QED BY <1>1, <1>2, Zenon DEF IsTable

LEMMA NoTablesIsDatabase == IsDatabase(NoTables)
  BY EmptyIsTable DEF NoTables, IsDatabase

LEMMA ThreeFields ==
    \A f : DOMAIN f = {"query_rules", "default_hostgroups", "users"} /\ f = [t \in DOMAIN f |-> f[t]] =>
      f = [query_rules |-> f.query_rules, default_hostgroups |-> f.default_hostgroups, users |-> f.users]
  OBVIOUS

(* The save: what is inserted into the emptied tables is all of main.         *)
LEMMA SavesAll ==
    ASSUME NEW T, IsDatabase(T)
    PROVE  OrReplace(NoTables, T) = T /\ OrIgnore(NoTables, T) = T
  <1>1. DOMAIN NoTables = {"query_rules", "default_hostgroups", "users"}
        /\ NoTables.query_rules = <<>> /\ NoTables.default_hostgroups = <<>> /\ NoTables.users = <<>>
    BY DEF NoTables
  <1>2. \A t \in DOMAIN NoTables : NoTables[t] = <<>> /\ IsTable(T[t])
    BY <1>1, Zenon DEF IsDatabase
  <1>3. \A t \in DOMAIN NoTables : Over(T[t], NoTables[t]) = T[t] /\ Over(NoTables[t], T[t]) = T[t]
    BY <1>2, OverEmpty, Zenon
  <1>4. T = [t \in DOMAIN NoTables |-> T[t]]
    BY <1>1 DEF IsDatabase
  <1> QED BY <1>3, <1>4, Zenon DEF OrReplace, OrIgnore

(* Start-up: main is a database with the saved rules (or the default ones),   *)
(* the saved default hostgroups, and the saved users besides the file's.      *)
LEMMA StartsAsSaved ==
    ASSUME NEW d, IsDatabase(d)
    PROVE  LET m == MainAtStart(d)
           IN  /\ IsDatabase(m)
               /\ m.query_rules = WithDefaults(d.query_rules)
               /\ m.default_hostgroups = d.default_hostgroups
               /\ \A u \in DOMAIN d.users : u \in DOMAIN m.users /\ m.users[u] = d.users[u]
  <1> DEFINE m == MainAtStart(d)
  <1>1. m = [d EXCEPT !.users = FileMerged(d.users), !.query_rules = WithDefaults(d.query_rules)]
    <2>1. OrIgnore(NoTables, d) = d
      BY SavesAll, Zenon
    <2> QED BY <2>1, Zenon DEF MainAtStart
  <1>2. IsTable(FileMerged(d.users)) /\ IsTable(WithDefaults(d.query_rules))
    BY OverIsTable, DefaultRulesIsTable, Zenon DEF IsDatabase, FileMerged, WithDefaults
  <1>3. \A u \in DOMAIN d.users : u \in DOMAIN FileMerged(d.users) /\ FileMerged(d.users)[u] = d.users[u]
    BY Zenon DEF FileMerged, Over
  <1> HIDE DEF m
  <1>4. IsDatabase(m) /\ m.query_rules = WithDefaults(d.query_rules) /\ m.users = FileMerged(d.users)
        /\ m.default_hostgroups = d.default_hostgroups
    BY <1>1, <1>2, Zenon DEF IsDatabase
  <1> QED BY <1>3, <1>4, Zenon DEF m

(* Edits and the default rules replace one table.                             *)
LEMMA EditIsDatabase ==
    ASSUME NEW T, IsDatabase(T), NEW t, IsTable(t)
    PROVE  /\ IsDatabase([T EXCEPT !.query_rules = t])
           /\ IsDatabase([T EXCEPT !.default_hostgroups = t])
           /\ IsDatabase([T EXCEPT !.users = t])
  BY DEF IsDatabase

-----------------------------------------------------------------------------
(* A session that knows its default hostgroup still does after a command.     *)
LEMMA SessionChanged ==
    ASSUME Defaults, NEW s \in Sessions, NEW N, Knows(N, defHG),
           session' = [session EXCEPT ![s] = N], defHG' = defHG
    PROVE  Defaults'
  <1>1. session'[s] = N /\ \A r \in Sessions : r # s => session'[r] = session[r]
    BY Zenon DEF Defaults
  <1>2. session' = [r \in Sessions |-> session'[r]]
    BY Zenon DEF Defaults
  <1>3. \A r \in Sessions : Knows(session'[r], defHG')
    BY <1>1, Zenon DEF Defaults
  <1> QED BY <1>2, <1>3, Zenon DEF Defaults

LEMMA SessionsSame ==
    ASSUME Defaults, UNCHANGED <<session, defHG>>
    PROVE  Defaults'
  BY Zenon DEF Defaults

LEMMA DefaultKeeps ==
    ASSUME Defaults, NEW s \in Sessions, NEW command, Default(s, command), defHG' = defHG
    PROVE  Defaults'
  <1> DEFINE N == ByDefault(session[s]).S
  <1>1. session' = [session EXCEPT ![s] = N]
    BY Zenon DEF Default
  <1>2. Knows(session[s], defHG) /\ defHG.version \in Int /\ defHG.version <= defHG.version
    BY DEF Defaults
  <1>3. CASE N = session[s]
    BY <1>1, <1>2, <1>3, SessionChanged, Zenon
  <1>4. CASE N = default_hostgroup_func(session[s])
    <2>1. IsSession(N) /\ N.default_hostgroup_version = defHG.version
          /\ N.default_hostgroup = find_defHG(defHG.entries, session[s].username, session[s].schema)
          /\ N.username = session[s].username /\ N.schema = session[s].schema
      <3> HIDE DEF N
      <3>1. N = [session[s] EXCEPT !.default_hostgroup_version = defHG.version,
                   !.default_hostgroup = find_defHG(defHG.entries, session[s].username, session[s].schema)]
        BY <1>4, Zenon DEF default_hostgroup_func
      <3>2. IsSession(session[s])
        BY <1>2, Zenon DEF Knows
      <3> QED BY <1>2, <3>1, <3>2, Zenon DEF IsSession
    <2> HIDE DEF N
    <2>2. Knows(N, defHG)
      BY <1>2, <2>1, Zenon DEF Knows
    <2> QED BY <1>1, <2>2, SessionChanged, Zenon
  <1>5. N = session[s] \/ N = default_hostgroup_func(session[s])
    <2>1. \A x, d : [S |-> x, destination |-> d].S = x
      OBVIOUS
    <2> QED BY <2>1, Zenon DEF ByDefault
  <1> QED BY <1>3, <1>4, <1>5, Zenon

LEMMA CommandKeeps ==
    ASSUME Defaults, NEW s \in Sessions, Command(s)
    PROVE  Defaults'
  <1>1. CASE Query(s)
    BY <1>1, SessionsSame, Zenon DEF Query
  <1>2. CASE QueryDefault(s)
    BY <1>2, DefaultKeeps, Zenon DEF QueryDefault
  <1>3. CASE OtherCommand(s)
    BY <1>3, DefaultKeeps, Zenon DEF OtherCommand
  <1>4. CASE InitDB(s)
    <2>1. PICK schema \in Schemas :
            session' = [session EXCEPT ![s].schema = schema,
                          ![s].default_hostgroup = IF schema = session[s].schema THEN @ ELSE -1]
      BY <1>4, Zenon DEF InitDB
    <2> DEFINE a == IF schema = session[s].schema THEN session[s].default_hostgroup ELSE -1
               N == [session[s] EXCEPT !.schema = schema, !.default_hostgroup = a]
    <2>2. session' = [session EXCEPT ![s] = N]
      BY <2>1, Zenon DEF Defaults
    <2>3. Knows(session[s], defHG) /\ (a = -1 \/ (a = session[s].default_hostgroup /\ schema = session[s].schema))
      BY Zenon DEF Defaults
    <2> HIDE DEF a
    <2>4. /\ IsSession(N) /\ N.default_hostgroup_version = session[s].default_hostgroup_version
          /\ N.username = session[s].username /\ N.schema = schema /\ N.default_hostgroup = a
      <3>1. N = [session[s] EXCEPT !.schema = schema, !.default_hostgroup = a]
        BY Zenon
      <3>2. IsSession(session[s])
        BY <2>3, Zenon DEF Knows
      <3> HIDE DEF N
      <3> QED BY <3>1, <3>2, Zenon DEF IsSession
    <2> HIDE DEF N
    <2>5. Knows(N, defHG)
      BY <2>3, <2>4, Zenon DEF Knows
    <2> QED BY <1>4, <2>2, <2>5, SessionChanged, Zenon DEF InitDB
  <1>5. CASE ChangeUser(s)
    <2>1. PICK user \in Users, schema \in Schemas :
            session' = [session EXCEPT ![s] = [session[s] EXCEPT !.username = user, !.schema = schema,
                                                  !.default_hostgroup = -1]]
      BY <1>5, Zenon DEF ChangeUser
    <2> DEFINE N == [session[s] EXCEPT !.username = user, !.schema = schema, !.default_hostgroup = -1]
    <2>2. Knows(session[s], defHG)
      BY Zenon DEF Defaults
    <2>3. /\ IsSession(N) /\ N.default_hostgroup_version = session[s].default_hostgroup_version
          /\ N.default_hostgroup = -1
      <3>1. N = [session[s] EXCEPT !.username = user, !.schema = schema, !.default_hostgroup = -1]
        BY Zenon
      <3>2. IsSession(session[s])
        BY <2>2, Zenon DEF Knows
      <3> HIDE DEF N
      <3> QED BY <3>1, <3>2, Zenon DEF IsSession
    <2>4. session' = [session EXCEPT ![s] = N]
      BY <2>1, Zenon
    <2> HIDE DEF N
    <2>5. Knows(N, defHG)
      BY <2>2, <2>3, Zenon DEF Knows
    <2> QED BY <1>5, <2>4, <2>5, SessionChanged, Zenon DEF ChangeUser
  <1> QED BY <1>1, <1>2, <1>3, <1>4, <1>5, Zenon DEF Command

(* A load makes every session look its default hostgroup up again.            *)
LEMMA LoadKeeps ==
    ASSUME Defaults, NEW table, LoadDefaultHostgroups(table, defHG.version + 1), session' = session
    PROVE  Defaults'
  <1>1. PICK entries : defHG' = [version |-> defHG.version + 1, entries |-> entries]
    BY Zenon DEF LoadDefaultHostgroups
  <1>2. defHG'.version = defHG.version + 1 /\ defHG'.version \in Nat
    BY <1>1 DEF Defaults
  <1>3. ASSUME NEW s \in Sessions PROVE Knows(session'[s], defHG')
    <2>1. Knows(session[s], defHG) /\ defHG.version \in Nat
      BY Zenon DEF Defaults
    <2>2. IsSession(session[s]) /\ session[s].default_hostgroup_version \in Int
          /\ session[s].default_hostgroup_version <= defHG.version
      BY <2>1, Zenon DEF Knows, IsSession
    <2>3. session[s].default_hostgroup_version <= defHG'.version
          /\ session[s].default_hostgroup_version # defHG'.version
      BY <1>2, <2>1, <2>2
    <2> QED BY <2>2, <2>3, Zenon DEF Knows
  <1> QED BY <1>2, <1>3, Zenon DEF Defaults
-----------------------------------------------------------------------------
(* The databases.  Whatever stage a save is at, the file has one              *)
(* configuration in full.                                                     *)
LEMMA TransactionFields ==
    /\ \A m, d : Transaction(m, d).open = TRUE /\ Transaction(m, d).main = m /\ Transaction(m, d).disk = d
    /\ NoTransaction.open = FALSE
  BY DEF Transaction, NoTransaction

LEMMA CommittedWhole ==
    ASSUME Databases, Stages
    PROVE  IsDatabase(Committed) /\ Committed \in {promised, offered}
  BY Zenon DEF Databases, Stages, Committed

LEMMA SavesSame ==
    ASSUME Databases, Stages, UNCHANGED <<up, tables>>
    PROVE  Databases' /\ Stages'
  BY Zenon DEF Databases, Stages, Committed, tables

(* The process ends: the file stays as committed.                             *)
LEMMA EndsKeeps ==
    ASSUME Databases, Stages, Ends, Committed \in {promised', offered'}
    PROVE  Databases' /\ Stages' /\ Defaults'
  <1>1. Databases' /\ Stages'
    BY CommittedWhole, NoTablesIsDatabase, TransactionFields, Zenon DEF Ends, Databases, Stages
  <1>2. Defaults'
    <2>1. defHG'.version = 0 /\ 0 \in Nat /\ session' = [s \in Sessions |-> NoSession]
      BY DEF Ends
    <2>2. Knows(NoSession, defHG')
      BY <2>1 DEF Knows, IsSession, NoSession
    <2> QED BY <2>1, <2>2, Zenon DEF Defaults
  <1> QED BY <1>1, <1>2, Zenon

LEMMA DiesKeeps ==
    ASSUME Databases, Stages, Dies
    PROVE  Databases' /\ Stages' /\ Defaults'
  BY CommittedWhole, EndsKeeps, Zenon DEF Dies

LEMMA StartKeeps ==
    ASSUME IInv, Start
    PROVE  IInv'
  <1>1. IsDatabase(disk) /\ disk \in {promised, offered} /\ ~saved.open /\ at = "idle"
    BY Zenon DEF IInv, Databases, Stages, Start
  <1>2. main' = MainAtStart(disk) /\ LoadDefaultHostgroups(main'.default_hostgroups, 1)
        /\ UNCHANGED <<disk, saved, at, shutdown>> /\ up' = TRUE /\ promised' = disk /\ offered' = disk
        /\ session' \in NewSessions
    BY Zenon DEF Start
  <1>3. IsDatabase(main')
    BY <1>1, <1>2, StartsAsSaved, Zenon
  <1>4. Databases'
    BY <1>1, <1>2, <1>3, Zenon DEF IInv, Databases
  <1>5. Stages'
    BY <1>1, <1>2, Zenon DEF Stages, Committed
  <1>6. Defaults'
    <2>1. PICK entries : defHG' = [version |-> 1, entries |-> entries]
      BY <1>2, Zenon DEF LoadDefaultHostgroups
    <2>2. defHG'.version = 1 /\ 1 \in Nat
      BY <2>1
    <2>3. session' = [s \in Sessions |-> session'[s]]
      BY <1>2, Zenon DEF NewSessions
    <2>4. ASSUME NEW s \in Sessions PROVE Knows(session'[s], defHG')
      <3>1. session'[s] \in [username : Users, schema : Schemas,
                             default_hostgroup : {-1}, default_hostgroup_version : {-1}]
        BY <1>2, Zenon DEF NewSessions
      <3>2. IsSession(session'[s]) /\ session'[s].default_hostgroup = -1
            /\ session'[s].default_hostgroup_version <= 1
        BY <3>1 DEF IsSession
      <3> QED BY <2>2, <3>2, Zenon DEF Knows
    <2> QED BY <2>2, <2>3, <2>4, Zenon DEF Defaults
  <1> QED BY <1>4, <1>5, <1>6, Zenon DEF IInv

(* Statements of an administrator.                                            *)
LEMMA EditKeeps ==
    ASSUME IInv, Edit
    PROVE  IInv'
  <1>1. IsDatabase(main) /\ UNCHANGED <<disk, saved, at, shutdown, up, promised, offered, session, defHG>>
        /\ at = "idle"
    BY Zenon DEF IInv, Databases, Edit, Ready, routing
  <1>2. IsDatabase(main')
    <2>1. \/ \E x \in RuleTables : main' = [main EXCEPT !.query_rules = x]
          \/ \E x \in HostgroupTables : main' = [main EXCEPT !.default_hostgroups = x]
          \/ \E x \in UserTables : main' = [main EXCEPT !.users = x]
      BY Zenon DEF Edit
    <2>2. PICK x : IsTable(x) /\ \/ main' = [main EXCEPT !.query_rules = x]
                                 \/ main' = [main EXCEPT !.default_hostgroups = x]
                                 \/ main' = [main EXCEPT !.users = x]
      BY <2>1, ConfigAssumption, Zenon
    <2>3. /\ IsDatabase([main EXCEPT !.query_rules = x]) /\ IsDatabase([main EXCEPT !.users = x])
          /\ IsDatabase([main EXCEPT !.default_hostgroups = x])
      BY <1>1, <2>2, EditIsDatabase, Zenon
    <2> QED BY <2>2, <2>3, Zenon
  <1>3. Databases'
    BY <1>1, <1>2, Zenon DEF IInv, Databases
  <1>4. Stages'
    BY <1>1, Zenon DEF IInv, Stages, Committed
  <1> QED BY <1>1, <1>3, <1>4, SessionsSame, Zenon DEF IInv

LEMMA TransactionKeeps ==
    ASSUME IInv, Begin \/ Commit \/ Rollback
    PROVE  IInv'
  <1>1. UNCHANGED <<at, shutdown, up, promised, offered, session, defHG>> /\ at = "idle" /\ up
        /\ Databases /\ Stages
    BY Zenon DEF IInv, Begin, Commit, Rollback, Ready, routing
  <1>2. CASE Begin
    <2>1. saved' = Transaction(main, disk) /\ UNCHANGED <<main, disk>> /\ ~saved.open
      BY <1>2, Zenon DEF Begin
    <2>2. saved'.open = TRUE /\ saved'.main = main /\ saved'.disk = disk
      BY <2>1, TransactionFields, Zenon
    <2>3. Databases'
      BY <1>1, <2>1, <2>2, Zenon DEF Databases
    <2>4. Stages'
      BY <1>1, <2>1, <2>2, Zenon DEF Stages, Committed
    <2> QED BY <1>1, <2>3, <2>4, SessionsSame, Zenon DEF IInv
  <1>3. CASE Commit \/ Rollback
    <2>1. saved' = NoTransaction /\ disk' = disk /\ saved.open /\ main' \in {main, saved.main}
      BY <1>1, <1>3, Zenon DEF Commit, Rollback, Stages
    <2>2. Databases'
      BY <1>1, <2>1, TransactionFields, Zenon DEF Databases
    <2>3. Stages'
      BY <1>1, <2>1, TransactionFields, Zenon DEF Stages, Committed
    <2> QED BY <1>1, <2>2, <2>3, SessionsSame, Zenon DEF IInv
  <1> QED BY <1>2, <1>3, Zenon
(* Commands: what is to be saved is offered, and the file does not change yet. *)
LEMMA SyncKeeps ==
    ASSUME Databases, Stages, Ready, NEW on, ThenSync(on), IsDatabase(main'), shutdown' \in BOOLEAN
    PROVE  Databases' /\ Stages'
  <1>1. /\ UNCHANGED <<up, disk, saved, promised>> /\ up /\ at = "idle"
        /\ \/ at' = "begin" /\ offered' = main'
           \/ at' = "answer" /\ offered' = offered
    BY Zenon DEF ThenSync, Ready
  <1>2. Databases'
    BY <1>1, Zenon DEF Databases
  <1>3. Stages'
    BY <1>1, Zenon DEF Stages, Committed
  <1> QED BY <1>2, <1>3, Zenon

LEMMA FlushKeeps ==
    ASSUME IInv, FlushUsers \/ FlushQueryRules \/ FlushDefaultHostgroups \/ ConfigSync \/ Shutdown
    PROVE  IInv'
  <1>1. Databases /\ Stages /\ Defaults /\ IsDatabase(main) /\ shutdown \in BOOLEAN
    BY Zenon DEF IInv, Databases
  <1>2. CASE FlushUsers
    <2>1. Databases' /\ Stages'
      BY <1>1, <1>2, SyncKeeps, Zenon DEF FlushUsers
    <2> QED BY <1>1, <1>2, <2>1, SessionsSame, Zenon DEF IInv, FlushUsers, ThenSync
  <1>3. CASE FlushQueryRules
    <2>1. IsTable(WithDefaults(main.query_rules))
      BY <1>1, DefaultRulesIsTable, Zenon DEF IsDatabase, WithDefaults
    <2>2. IsDatabase(main')
      BY <1>1, <1>3, <2>1, EditIsDatabase, Zenon DEF FlushQueryRules
    <2>3. Databases' /\ Stages'
      BY <1>1, <1>3, <2>2, SyncKeeps, Zenon DEF FlushQueryRules
    <2> QED BY <1>1, <1>3, <2>3, SessionsSame, Zenon DEF IInv, FlushQueryRules, ThenSync
  <1>4. CASE FlushDefaultHostgroups
    <2>1. Databases' /\ Stages'
      BY <1>1, <1>4, SyncKeeps, Zenon DEF FlushDefaultHostgroups
    <2>2. Defaults'
      BY <1>1, <1>4, LoadKeeps, Zenon DEF FlushDefaultHostgroups, ThenSync
    <2> QED BY <2>1, <2>2, Zenon DEF IInv
  <1>5. CASE ConfigSync
    <2>1. Databases' /\ Stages'
      BY <1>1, <1>5, SyncKeeps, Zenon DEF ConfigSync
    <2> QED BY <1>1, <1>5, <2>1, SessionsSame, Zenon DEF IInv, ConfigSync, ThenSync
  <1>6. CASE Shutdown
    <2>1. Databases' /\ Stages'
      BY <1>1, <1>6, SyncKeeps, Zenon DEF Shutdown
    <2> QED BY <1>1, <1>6, <2>1, SessionsSame, Zenon DEF IInv, Shutdown, ThenSync
  <1> QED BY <1>2, <1>3, <1>4, <1>5, <1>6, Zenon

(* The statements of the save, and its answer.                                *)
LEMMA SaveKeeps ==
    ASSUME IInv, SyncBegin \/ SyncDelete \/ SyncInsert \/ SyncCommit \/ Answer
    PROVE  IInv'
  <1>1. Databases /\ Stages /\ Defaults
    BY Zenon DEF IInv
  <1>2. CASE SyncBegin
    <2>1. CASE Dies
      BY <1>1, <2>1, DiesKeeps, Zenon DEF IInv
    <2>2. CASE ~saved.open /\ SyncBegins(Transaction(main, disk), disk)
      <3>1. /\ saved'.open = TRUE /\ saved'.main = main /\ saved'.disk = disk /\ at' = "delete"
            /\ UNCHANGED <<up, main, disk, shutdown, promised, offered, session, defHG>>
        BY <2>2, TransactionFields, Zenon DEF SyncBegins, routing
      <3>2. Databases'
        BY <1>1, <3>1, Zenon DEF Databases
      <3>3. Stages'
        BY <1>1, <1>2, <2>2, <3>1, Zenon DEF SyncBegin, Stages, Committed
      <3> QED BY <1>1, <3>1, <3>2, <3>3, SessionsSame, Zenon DEF IInv
    <2> QED BY <1>2, <2>1, <2>2, Zenon DEF SyncBegin
  <1>3. CASE SyncDelete
    <2>1. /\ at = "delete" /\ at' = "insert" /\ disk' = NoTables
          /\ UNCHANGED <<up, main, saved, shutdown, promised, offered, session, defHG>>
      BY <1>3, Zenon DEF SyncDelete, SyncStep, routing
    <2>2. Databases' /\ Stages'
      BY <1>1, <2>1, NoTablesIsDatabase, Zenon DEF Databases, Stages
    <2> QED BY <1>1, <2>1, <2>2, SessionsSame, Zenon DEF IInv
  <1>4. CASE SyncInsert
    <2>1. /\ at = "insert" /\ at' = "commit" /\ disk' = OrReplace(disk, main)
          /\ UNCHANGED <<up, main, saved, shutdown, promised, offered, session, defHG>>
      BY <1>4, Zenon DEF SyncInsert, SyncStep, routing
    <2>2. disk' = main /\ IsDatabase(main)
      BY <1>1, <2>1, SavesAll, Zenon DEF Databases, Stages
    <2>3. Databases' /\ Stages'
      BY <1>1, <2>1, <2>2, Zenon DEF Databases, Stages
    <2> QED BY <1>1, <2>1, <2>3, SessionsSame, Zenon DEF IInv
  <1>5. CASE SyncCommit
    <2>1. /\ at = "commit" /\ at' = "answer" /\ saved' = NoTransaction
          /\ UNCHANGED <<up, main, disk, shutdown, promised, offered, session, defHG>>
      BY <1>5, Zenon DEF SyncCommit, SyncStep, routing
    <2>2. saved'.open = FALSE
      BY <2>1, TransactionFields, Zenon
    <2>3. Databases'
      BY <1>1, <2>1, <2>2, Zenon DEF Databases
    <2>4. Stages'
      BY <1>1, <2>1, <2>2, Zenon DEF Stages, Committed
    <2> QED BY <1>1, <2>1, <2>3, <2>4, SessionsSame, Zenon DEF IInv
  <1>6. CASE Answer
    <2>1. at = "answer" /\ promised' = offered /\ offered' = offered /\ Committed = offered
      BY <1>1, <1>6, Zenon DEF Answer, Stages
    <2>2. CASE Ends
      BY <1>1, <2>1, <2>2, EndsKeeps, Zenon DEF IInv
    <2>3. CASE at' = "idle" /\ UNCHANGED <<routing, up, usernames, main, disk, saved, shutdown>>
      <3>1. Databases' /\ Stages'
        BY <1>1, <2>1, <2>3, Zenon DEF Databases, Stages, Committed
      <3> QED BY <1>1, <2>3, <3>1, SessionsSame, Zenon DEF IInv, routing
    <2> QED BY <1>6, <2>2, <2>3, Zenon DEF Answer
  <1> QED BY <1>2, <1>3, <1>4, <1>5, <1>6, Zenon
-----------------------------------------------------------------------------
LEMMA InitHolds == Init => IInv
  <1> SUFFICES ASSUME Init PROVE IInv
    BY Zenon
  <1>1. Databases /\ Stages
    BY NoTablesIsDatabase, TransactionFields, Zenon DEF Init, Databases, Stages
  <1>2. defHG.version = 0 /\ 0 \in Nat /\ session = [s \in Sessions |-> NoSession]
    BY DEF Init
  <1>3. Knows(NoSession, defHG)
    BY <1>2 DEF Knows, IsSession, NoSession
  <1>4. Defaults
    BY <1>2, <1>3, Zenon DEF Defaults
  <1> QED BY <1>1, <1>4, Zenon DEF IInv

LEMMA StepKeeps ==
    ASSUME IInv, [Next]_vars
    PROVE  IInv'
  <1>1. CASE UNCHANGED vars
    <2>1. UNCHANGED <<up, tables, session, defHG>>
      BY <1>1, Zenon DEF vars, routing
    <2> QED BY <2>1, SavesSame, SessionsSame, Zenon DEF IInv
  <1>2. CASE \E s \in Sessions : Client(s)
    <2>1. PICK s \in Sessions : Command(s) /\ UNCHANGED <<up, tables>>
      BY <1>2, Zenon DEF Client
    <2> QED BY <2>1, SavesSame, CommandKeeps, Zenon DEF IInv
  <1>3. CASE Dies
    BY <1>3, DiesKeeps, Zenon DEF IInv
  <1> QED BY <1>1, <1>2, <1>3, EditKeeps, TransactionKeeps, FlushKeeps, SaveKeeps, StartKeeps, Zenon
          DEF Next

(* IInv holds in every behaviour: through edits, transactions, saves, deaths  *)
(* at any statement and restarts.                                             *)
THEOREM ConfigInductive == Spec => []IInv
  <1>1. IInv /\ [Next]_vars => IInv'
    BY StepKeeps, Zenon
  <1> QED BY <1>1, InitHolds, PTL DEF Spec

(* Wherever sqlite3_config_sync_mem_to_disk is when the process dies, the     *)
(* file holds what was last promised or what was being saved, in full.        *)
THEOREM FileSavedWhole == Spec => []SavedWhole
  <1>1. IInv => SavedWhole
    BY CommittedWhole, Zenon DEF IInv, Stages, SavedWhole
  <1> QED BY <1>1, ConfigInductive, PTL

(* A process that starts runs by the saved rules, default hostgroups and      *)
(* active users, whatever the configuration file says of the users saved.     *)
THEOREM StartRestores == Spec => RestoredAsSaved
  <1> DEFINE Restored ==
        ~up /\ up' =>
          \E c \in {promised, offered} :
              /\ rules' = Loaded(WithDefaults(c.query_rules))
              /\ defHG'.entries \in Added(c.default_hostgroups)
              /\ \A u \in DOMAIN c.users :
                     IF c.users[u].active
                     THEN u \in DOMAIN usernames' /\ usernames'[u] = c.users[u].password
                     ELSE u \notin DOMAIN usernames'
  <1>1. IInv /\ [Next]_vars => [Restored]_vars
    <2> SUFFICES ASSUME IInv, Next, ~up, up' PROVE Restored
      BY Zenon
    <2>1. Start
      BY Zenon DEF Next, Client, Edit, Begin, Commit, Rollback, Ready, FlushUsers, FlushQueryRules,
         FlushDefaultHostgroups, ConfigSync, Shutdown, SyncBegin, SyncBegins, SyncDelete, SyncInsert,
         SyncCommit, SyncStep, Answer, Dies, Ends
    <2>2. IsDatabase(disk) /\ disk \in {promised, offered}
      BY Zenon DEF IInv, Databases, Stages
    <2>3. PICK m : /\ m = MainAtStart(disk) /\ rules' = Loaded(m.query_rules)
                   /\ LoadDefaultHostgroups(m.default_hostgroups, 1) /\ usernames' = LoadedUsers(m.users)
      BY <2>1, Zenon DEF Start, LoadQueryRules
    <2>4. /\ m.query_rules = WithDefaults(disk.query_rules)
          /\ m.default_hostgroups = disk.default_hostgroups
          /\ \A u \in DOMAIN disk.users : u \in DOMAIN m.users /\ m.users[u] = disk.users[u]
      BY <2>2, <2>3, StartsAsSaved, Zenon
    <2>5. defHG'.entries \in Added(disk.default_hostgroups)
      <3>1. PICK entries \in Added(disk.default_hostgroups) : defHG' = [version |-> 1, entries |-> entries]
        BY <2>3, <2>4, Zenon DEF LoadDefaultHostgroups
      <3>2. \A x, y : [version |-> x, entries |-> y].entries = y
        OBVIOUS
      <3> QED BY <3>1, <3>2, Zenon
    <2>6. ASSUME NEW u \in DOMAIN disk.users
          PROVE  IF disk.users[u].active
                 THEN u \in DOMAIN usernames' /\ usernames'[u] = disk.users[u].password
                 ELSE u \notin DOMAIN usernames'
      <3>1. u \in DOMAIN m.users /\ m.users[u] = disk.users[u]
        BY <2>4, Zenon
      <3>2. /\ DOMAIN usernames' = {v \in DOMAIN m.users : m.users[v].active}
            /\ \A v \in DOMAIN usernames' : usernames'[v] = m.users[v].password
        BY <2>3, Zenon DEF LoadedUsers
      <3> QED BY <3>1, <3>2, Zenon
    <2> QED BY <2>2, <2>3, <2>4, <2>5, <2>6, Zenon
  <1> QED BY <1>1, ConfigInductive, PTL DEF Spec, RestoredAsSaved

(* A default hostgroup a session may still use is the one of its present user *)
(* and schema in the table loaded last, for any number of loads.              *)
THEOREM DefaultsCurrent == Spec => []DefaultCurrent
  <1>1. IInv => DefaultCurrent
    BY Zenon DEF IInv, Defaults, Knows, DefaultCurrent, Outdated
  <1> QED BY <1>1, ConfigInductive, PTL
=============================================================================
