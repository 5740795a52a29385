------------------------------- MODULE Routing -------------------------------
(***************************************************************************)
(* Where a client's command is sent: the query rules                       *)
(* (process_query_rules in src/src/mysql_handler.c), the default           *)
(* hostgroups of users and schemas (src/src/mysql_session.c), which a      *)
(* session keeps with the version they had, and the loading of both from   *)
(* the administrator's tables (src/src/admin_sqlite.c) while sessions go   *)
(* on.  When they are loaded, and what the tables hold then, is module     *)
(* Config's.                                                               *)
(*                                                                         *)
(* The text of a query is a model value, a pattern the set of texts that   *)
(* match it.  Commands answered from the query cache are not routed and    *)
(* are left out.                                                           *)
(*                                                                         *)
(* An operator named Mut_X is a wrong variant of X, used to show that the  *)
(* properties notice the difference.                                       *)
(***************************************************************************)
EXTENDS Integers, Sequences

CONSTANTS Sessions, Users, Schemas,
          NoName,                 \* NULL for a user, a schema or a text
          BadReplace,             \* a replace_pattern that g_regex_replace rejects
          Selects, ForUpdates, Others,   \* texts: SELECT, SELECT ... FOR UPDATE, the rest
          mysql_hostgroups,
          default_timeout,        \* mysql_query_cache_default_timeout
          query_cache_enabled

Texts == Selects \cup ForUpdates \cup Others

ASSUME RoutingAssumption ==
    /\ mysql_hostgroups \in Nat /\ mysql_hostgroups >= 2
    /\ default_timeout \in Nat /\ query_cache_enabled \in BOOLEAN
    /\ NoName \notin Users \cup Schemas

VARIABLES rules,      \* gloQR.query_rules
          defHG,      \* gloDefHG: version, default_hostgroups
          session,    \* what a session keeps for routing
          last        \* its last command, and where it was sent

routing == <<rules, defHG, session, last>>

-----------------------------------------------------------------------------
(* Loading the rules: values out of range are replaced, rules that are not    *)
(* active or are for a hostgroup that does not exist are left out, and an     *)
(* empty table is given the default rules first.                              *)
AnyRule == [active |-> TRUE, username |-> NoName, schemaname |-> NoName, flagIN |-> 0,
            match |-> Texts, negate |-> FALSE, flagOUT |-> 0, replace |-> NoName,
            destination |-> 0, cache_ttl |-> 0]

DefaultRules ==
    << [AnyRule EXCEPT !.match = Selects \cup ForUpdates, !.negate = TRUE, !.cache_ttl = -1],
       [AnyRule EXCEPT !.match = ForUpdates, !.cache_ttl = -1],
       [AnyRule EXCEPT !.destination = 1, !.cache_ttl = default_timeout] >>

NotBelow(low, n) == IF n < low THEN low ELSE n

Sanitized(r) ==
    [r EXCEPT !.flagIN = NotBelow(0, @), !.flagOUT = NotBelow(0, @),
              !.destination = NotBelow(0, @), !.cache_ttl = NotBelow(-1, @)]

Kept(r) == r.active /\ r.destination < mysql_hostgroups

Loaded(table) ==
    SelectSeq([i \in DOMAIN table |-> Sanitized(table[i])], Kept)

(* process_query_rules, the pass over the rules: the flag, the text, and what *)
(* the rules that match set; a rule with a cache_ttl is the last one.         *)
Matches(r, m, S) ==
    /\ r.flagIN = m.flagIN
    /\ r.username \in {NoName, S.username}
    /\ r.schemaname \in {NoName, S.schema}
    /\ (m.text \in r.match) # r.negate

ApplyRule(r, m) ==
    IF r.replace = BadReplace THEN m ELSE
    [m EXCEPT !.text = IF r.replace # NoName THEN r.replace ELSE @,
              !.flagIN = IF r.flagOUT # 0 THEN r.flagOUT ELSE @,
              !.cache_ttl = IF r.cache_ttl # 0 THEN r.cache_ttl ELSE @,
              !.destination = IF r.destination >= 0 THEN r.destination ELSE @]

Mut_Goes(m) == TRUE
Goes(m) == m.cache_ttl = 0

RulePass(S, text) ==
    LET after[i \in 0..Len(rules)] ==
            IF i = 0
            THEN [flagIN |-> 0, text |-> text, cache_ttl |-> 0, destination |-> -1]
            ELSE LET m == after[i - 1]
                 IN  IF Goes(m) /\ Matches(rules[i], m, S) THEN ApplyRule(rules[i], m) ELSE m
    IN  after[Len(rules)]

(* The time to live after the pass. *)
FinalTtl(ttl) ==
    LET chosen == IF ttl = 0 THEN default_timeout ELSE ttl
    IN  IF chosen = -1 \/ ~query_cache_enabled THEN 0 ELSE chosen

-----------------------------------------------------------------------------
(* Loading the default hostgroups.  add_defHG stores the schema's name as the *)
(* user's and leaves the schema's name what the memory held.                  *)
Added(table) ==
    {[i \in DOMAIN table |-> [username |-> table[i].schemaname, schemaname |-> garbage[i],
                              hostgroup_id |-> table[i].hostgroup_id]] :
        garbage \in [DOMAIN table -> Schemas \cup {NoName}]}

Naming(entries, user, schema) ==
    {i \in DOMAIN entries : entries[i].username = user /\ entries[i].schemaname = schema}

find_defHG(entries, user, schema) ==
    LET perfect == Naming(entries, user, schema)
        anyUser == Naming(entries, NoName, schema)
        anySchema == Naming(entries, user, NoName)
        best == IF perfect # {} THEN perfect ELSE IF anyUser # {} THEN anyUser ELSE anySchema
    IN  IF best = {} THEN 0
        ELSE entries[CHOOSE i \in best : \A j \in best : i <= j].hostgroup_id

(* The destination when no rule set one: default_hostgroup_func returns 0,    *)
(* whatever hostgroup it finds.                                               *)
Outdated(S) == S.default_hostgroup = -1 \/ S.default_hostgroup_version # defHG.version

default_hostgroup_func(S) ==
    [S EXCEPT !.default_hostgroup_version = defHG.version,
              !.default_hostgroup = find_defHG(defHG.entries, S.username, S.schema)]

ByDefault(S) ==
    IF Outdated(S) THEN [S |-> default_hostgroup_func(S), destination |-> 0]
    ELSE [S |-> S, destination |-> S.default_hostgroup]

-----------------------------------------------------------------------------
NoCommand == [text |-> NoName, cache_ttl |-> 0, destination |-> 0, default |-> FALSE]

(* Sessions before they are used, and where there is no process.             *)
NewSessions == [Sessions -> [username : Users, schema : Schemas,
                             default_hostgroup : {-1}, default_hostgroup_version : {-1}]]
NoSession == [username |-> NoName, schema |-> NoName,
              default_hostgroup |-> -1, default_hostgroup_version |-> -1]

(* client_COM_QUERY: the rules are read under a lock, and the default         *)
(* hostgroup is taken when that has been given up.                            *)
Query(s) ==
    /\ last[s].destination # -1
    /\ \E text \in Texts :
          LET m == RulePass(session[s], text)
          IN  last' = [last EXCEPT ![s] =
                  [text |-> text, cache_ttl |-> FinalTtl(m.cache_ttl),
                   destination |-> m.destination, default |-> FALSE]]
    /\ UNCHANGED <<rules, defHG, session>>

Default(s, command) ==
    LET d == ByDefault(session[s])
    IN  /\ session' = [session EXCEPT ![s] = d.S]
        /\ last' = [last EXCEPT ![s] = [command EXCEPT !.destination = d.destination,
                                                       !.default = TRUE]]

QueryDefault(s) ==
    /\ last[s].destination = -1
    /\ Default(s, last[s])
    /\ UNCHANGED <<rules, defHG>>

(* COM_STATISTICS, a query that is too large, or a command without code of    *)
(* its own; answers to a change of user are not sent on and are left out.     *)
OtherCommand(s) ==
    /\ last[s].destination # -1
    /\ Default(s, NoCommand)
    /\ UNCHANGED <<rules, defHG>>

Mut_InitDB(s) ==
    /\ last[s].destination # -1
    /\ \E schema \in Schemas : session' = [session EXCEPT ![s].schema = schema]
    /\ last' = [last EXCEPT ![s] = NoCommand]
    /\ UNCHANGED <<rules, defHG>>
InitDB(s) ==
    /\ last[s].destination # -1
    /\ \E schema \in Schemas :
          session' = [session EXCEPT ![s].schema = schema,
                        ![s].default_hostgroup = IF schema = session[s].schema THEN @ ELSE -1]
    /\ last' = [last EXCEPT ![s] = NoCommand]
    /\ UNCHANGED <<rules, defHG>>

(* client_COM_CHANGE_USER reads the names after it has freed the packet: they  *)
(* may be any.                                                                *)
ChangeUser(s) ==
    /\ last[s].destination # -1
    /\ \E user \in Users, schema \in Schemas :
          session' = [session EXCEPT ![s] = [@ EXCEPT !.username = user, !.schema = schema,
                                                !.default_hostgroup = -1]]
    /\ last' = [last EXCEPT ![s] = NoCommand]
    /\ UNCHANGED <<rules, defHG>>

Command(s) == Query(s) \/ QueryDefault(s) \/ OtherCommand(s)
              \/ InitDB(s) \/ ChangeUser(s)

(* Loading the two tables, each under its write lock.                         *)
WithDefaults(table) == IF table = <<>> THEN DefaultRules ELSE table

LoadQueryRules(table) == rules' = Loaded(table)

LoadDefaultHostgroups(table, version) ==
    \E entries \in Added(table) : defHG' = [version |-> version, entries |-> entries]

-----------------------------------------------------------------------------
(* A default hostgroup that a session may still use is the one its present    *)
(* user and schema have in the table that is loaded now: changes of schema,   *)
(* of user and of the table all make the session look it up again.            *)
DefaultCurrent ==
    \A s \in Sessions :
        ~Outdated(session[s]) => session[s].default_hostgroup
                                 = find_defHG(defHG.entries, session[s].username, session[s].schema)

(* Under the default rules SELECT goes to hostgroup 1 and is cached, all else *)
(* goes to hostgroup 0 and is not: the read/write split README.rst describes. *)
ReadWriteSplit ==
    [][\A s \in Sessions :
          last'[s] # last[s] /\ last'[s].text # NoName /\ ~last'[s].default
          /\ rules = Loaded(DefaultRules) =>
          IF last'[s].text \in Selects
          THEN last'[s].destination = 1
               /\ last'[s].cache_ttl = (IF query_cache_enabled THEN default_timeout ELSE 0)
          ELSE last'[s].destination = 0 /\ last'[s].cache_ttl = 0]_routing
=============================================================================
