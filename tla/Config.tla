-------------------------------- MODULE Config --------------------------------
(***************************************************************************)
(* The configuration and its three places: the tables of the admin         *)
(* database (main, in memory), their copies in the file it is kept in      *)
(* (disk), and what the proxy runs by (module Routing, and the users).     *)
(* FLUSH loads a table into use, and saves all of them; SHUTDOWN and the   *)
(* command to save do the latter only; a process that starts reads the     *)
(* file, adds the users of the configuration file and loads everything     *)
(* (src/src/admin.c, admin_sqlite.c, main.c).  Administrators edit the     *)
(* tables and open transactions meanwhile, sessions go on, and the process *)
(* may die at any step.                                                    *)
(*                                                                         *)
(* A table is a function from the place of a row, or its key, to the row.  *)
(* Tables servers and hostgroups are saved and loaded as these are; what   *)
(* loading them does is in module Maintenance.                             *)
(*                                                                         *)
(* An operator named Mut_X is a wrong variant of X, used to show that the  *)
(* properties notice the difference.                                       *)
(***************************************************************************)
EXTENDS Routing

CONSTANTS admin_sync_disk_on_flush, admin_sync_disk_on_shutdown, merge_configfile_db,
          FileUsers,      \* the users of the configuration file, with passwords
          RuleTables, HostgroupTables, UserTables,  \* bounds: what editing makes of a table
          MaxEdits,       \* bound: edits
          MaxVersion      \* bound: loads of default_hostgroups by a process

IsTable(t) == t = [k \in DOMAIN t |-> t[k]]

ASSUME ConfigAssumption ==
    /\ {admin_sync_disk_on_flush, admin_sync_disk_on_shutdown, merge_configfile_db}
          \subseteq BOOLEAN
    /\ MaxEdits \in Nat /\ MaxVersion \in Nat
    /\ \A t \in RuleTables : IsTable(t)
    /\ \A t \in HostgroupTables : IsTable(t)
    /\ \A t \in UserTables : IsTable(t)

VARIABLES up,         \* the process runs
          usernames,  \* glovars.usernames, with passwords
          main, disk, \* the tables, as statements of sqlite3admindb see them
          saved,      \* its transaction: whether open, and both when it began
          at,         \* where sqlite3_config_sync_mem_to_disk is
          shutdown,   \* glovars.shutdown
          edits,
          promised,   \* what the administrator knows to be saved
          offered     \* what was last to be saved

tables == <<usernames, main, disk, saved, at, shutdown, edits, promised, offered>>
vars == <<routing, up, tables>>

-----------------------------------------------------------------------------
NoTables == [query_rules |-> <<>>, default_hostgroups |-> <<>>, users |-> <<>>]

NoTransaction == [open |-> FALSE, main |-> NoTables, disk |-> NoTables]
Transaction(m, d) == [open |-> TRUE, main |-> m, disk |-> d]

(* The rows of table a, and of b those with keys that a does not have.        *)
Over(a, b) ==
    [k \in DOMAIN a \cup DOMAIN b |-> IF k \in DOMAIN a THEN a[k] ELSE b[k]]

(* INSERT OR REPLACE and INSERT OR IGNORE INTO a SELECT * FROM b, all tables. *)
OrReplace(a, b) == [t \in DOMAIN a |-> Over(b[t], a[t])]
OrIgnore(a, b) == [t \in DOMAIN a |-> Over(a[t], b[t])]

(* The file as a process that starts finds it.                                *)
Committed == IF saved.open THEN saved.disk ELSE disk

-----------------------------------------------------------------------------
(* The end of a process: main and all it runs by are gone.                    *)
Ends ==
    /\ up' = FALSE
    /\ rules' = <<>> /\ defHG' = [version |-> 0, entries |-> <<>>]
    /\ session' = [s \in Sessions |-> NoSession]
    /\ last' = [s \in Sessions |-> NoCommand]
    /\ usernames' = <<>> /\ main' = NoTables
    /\ disk' = Committed /\ saved' = NoTransaction
    /\ at' = "idle" /\ shutdown' = FALSE

Dies == up /\ Ends /\ UNCHANGED <<edits, promised, offered>>

(* sqlite3_flush_users_db_to_mem: the active users of the table.              *)
LoadedUsers(users) ==
    [u \in {v \in DOMAIN users : users[v].active} |-> users[u].password]

(* Start-up: admin_init_sqlite3, the users of the configuration file, the     *)
(* default rules for an empty table, and every table loaded.                  *)
FileTable == [u \in DOMAIN FileUsers |-> [password |-> FileUsers[u], active |-> TRUE]]

Mut_FileMerged(users) == IF merge_configfile_db THEN Over(FileTable, users) ELSE users
FileMerged(users) == IF merge_configfile_db THEN Over(users, FileTable) ELSE users

MainAtStart(d) ==
    LET read == OrIgnore(NoTables, d)
    IN  [read EXCEPT !.users = FileMerged(@), !.query_rules = WithDefaults(@)]

Start ==
    /\ ~up /\ up' = TRUE
    /\ \E m \in {MainAtStart(disk)} :
          /\ main' = m
          /\ LoadQueryRules(m.query_rules) /\ LoadDefaultHostgroups(m.default_hostgroups, 1)
          /\ usernames' = LoadedUsers(m.users)
    /\ session' \in NewSessions
    /\ promised' = disk /\ offered' = disk
    /\ UNCHANGED <<last, disk, saved, at, shutdown, edits>>

-----------------------------------------------------------------------------
(* The admin thread takes a command when the one before it is done.           *)
Ready == up /\ at = "idle"

Edit ==
    /\ Ready /\ edits < MaxEdits
    /\ edits' = edits + 1
    /\ \/ \E t \in RuleTables : main' = [main EXCEPT !.query_rules = t]
       \/ \E t \in HostgroupTables : main' = [main EXCEPT !.default_hostgroups = t]
       \/ \E t \in UserTables : main' = [main EXCEPT !.users = t]
    /\ UNCHANGED <<routing, up, usernames, disk, saved, at, shutdown, promised, offered>>

(* BEGIN, COMMIT and ROLLBACK as statements of an administrator.              *)
Begin ==
    /\ Ready /\ edits < MaxEdits /\ ~saved.open
    /\ saved' = Transaction(main, disk)
    /\ UNCHANGED <<routing, up, usernames, main, disk, at, shutdown, edits, promised, offered>>

Commit ==
    /\ Ready /\ saved.open
    /\ saved' = NoTransaction
    /\ UNCHANGED <<routing, up, usernames, main, disk, at, shutdown, edits, promised, offered>>

Rollback ==
    /\ Ready /\ saved.open
    /\ main' = saved.main /\ disk' = saved.disk /\ saved' = NoTransaction
    /\ UNCHANGED <<routing, up, usernames, at, shutdown, edits, promised, offered>>

(* admin_COM_QUERY: what it does itself, then all of main goes to the disk;   *)
(* the client gets its OK when that is done.                                  *)
ThenSync(on) ==
    /\ at' = IF on THEN "begin" ELSE "answer"
    /\ offered' = IF on THEN main' ELSE offered
    /\ UNCHANGED <<up, session, last, disk, saved, edits, promised>>

FlushUsers ==
    /\ Ready
    /\ usernames' = LoadedUsers(main.users)
    /\ UNCHANGED <<rules, defHG, main, shutdown>>
    /\ ThenSync(admin_sync_disk_on_flush)

FlushQueryRules ==
    /\ Ready
    /\ main' = [main EXCEPT !.query_rules = WithDefaults(@)]
    /\ LoadQueryRules(main'.query_rules)
    /\ UNCHANGED <<defHG, usernames, shutdown>>
    /\ ThenSync(admin_sync_disk_on_flush)

FlushDefaultHostgroups ==
    /\ Ready /\ defHG.version < MaxVersion
    /\ LoadDefaultHostgroups(main.default_hostgroups, defHG.version + 1)
    /\ UNCHANGED <<rules, usernames, main, shutdown>>
    /\ ThenSync(admin_sync_disk_on_flush)

(* The command to save.  FLUSH DEBUG, and FLUSH HOSTGROUPS of module          *)
(* Maintenance, end by saving like this.                                      *)
ConfigSync ==
    /\ Ready
    /\ UNCHANGED <<rules, defHG, usernames, main, shutdown>>
    /\ ThenSync(TRUE)

Shutdown ==
    /\ Ready /\ shutdown' = TRUE
    /\ UNCHANGED <<rules, defHG, usernames, main>>
    /\ ThenSync(admin_sync_disk_on_shutdown)

(* sqlite3_config_sync_mem_to_disk.  BEGIN fails inside a transaction, and    *)
(* sqlite3_exec_exit_on_failure asserts that no statement fails.              *)
SyncBegins(s, d) ==
    /\ saved' = s /\ disk' = d /\ at' = "delete"
    /\ UNCHANGED <<routing, up, usernames, main, shutdown, edits, promised, offered>>

Mut_SyncBegin ==
    /\ at = "begin"
    /\ IF saved.open THEN Dies ELSE SyncBegins(saved, disk)
SyncBegin ==
    /\ at = "begin"
    /\ IF saved.open THEN Dies ELSE SyncBegins(Transaction(main, disk), disk)

SyncStep(from, to) ==
    /\ at = from /\ at' = to
    /\ UNCHANGED <<routing, up, usernames, main, shutdown, edits, promised, offered>>

SyncDelete == SyncStep("delete", "insert") /\ disk' = NoTables /\ UNCHANGED saved
SyncInsert == SyncStep("insert", "commit") /\ disk' = OrReplace(disk, main) /\ UNCHANGED saved
SyncCommit == SyncStep("commit", "answer") /\ saved' = NoTransaction /\ UNCHANGED disk

Answer ==
    /\ at = "answer"
    /\ promised' = offered
    /\ UNCHANGED <<edits, offered>>
    /\ IF shutdown THEN Ends
       ELSE /\ at' = "idle"
            /\ UNCHANGED <<routing, up, usernames, main, disk, saved, shutdown>>

-----------------------------------------------------------------------------
Init ==
    /\ up = FALSE
    /\ rules = <<>> /\ defHG = [version |-> 0, entries |-> <<>>]
    /\ session = [s \in Sessions |-> NoSession]
    /\ last = [s \in Sessions |-> NoCommand]
    /\ usernames = <<>> /\ main = NoTables /\ disk = NoTables /\ saved = NoTransaction
    /\ at = "idle" /\ shutdown = FALSE /\ edits = 0
    /\ promised = NoTables /\ offered = NoTables

Client(s) == up /\ Command(s) /\ UNCHANGED <<up, tables>>

Next ==
    \/ \E s \in Sessions : Client(s)
    \/ Edit \/ Begin \/ Commit \/ Rollback
    \/ FlushUsers \/ FlushQueryRules \/ FlushDefaultHostgroups \/ ConfigSync \/ Shutdown
    \/ SyncBegin \/ SyncDelete \/ SyncInsert \/ SyncCommit \/ Answer
    \/ Dies \/ Start

Spec == Init /\ [][Next]_vars

-----------------------------------------------------------------------------
(* Whenever the process dies, the file holds one configuration in full: the   *)
(* one the administrator was last told is saved, or the one a command that    *)
(* was not answered was saving (sqlite3_config_sync_mem_to_disk empties every *)
(* table of the file before it fills them again).                             *)
SavedWhole ==
    /\ Committed \in {promised, offered}
    /\ up /\ at = "idle" => Committed = promised

(* A process that starts runs by what was saved before it: the rules, the     *)
(* default hostgroups, and every user saved as active with its password, none *)
(* saved as not active, whatever the configuration file says of them.         *)
RestoredAsSaved ==
    [][~up /\ up' =>
          \E c \in {promised, offered} :
              /\ rules' = Loaded(WithDefaults(c.query_rules))
              /\ defHG'.entries \in Added(c.default_hostgroups)
              /\ \A u \in DOMAIN c.users :
                     IF c.users[u].active
                     THEN u \in DOMAIN usernames' /\ usernames'[u] = c.users[u].password
                     ELSE u \notin DOMAIN usernames']_vars
===============================================================================
