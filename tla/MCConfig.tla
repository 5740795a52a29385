------------------------------- MODULE MCConfig -------------------------------
EXTENDS Config, TLC

CONSTANTS a, b, c, old, new, select, forupdate, update

Tables ==
    { <<>>,
      << [AnyRule EXCEPT !.match = {update}, !.replace = BadReplace, !.flagOUT = 8],
         [AnyRule EXCEPT !.match = {update}, !.replace = select, !.flagOUT = 7],
         [AnyRule EXCEPT !.flagIN = 7, !.destination = -3],
         [AnyRule EXCEPT !.flagIN = 7, !.destination = mysql_hostgroups],
         [AnyRule EXCEPT !.username = a, !.match = {forupdate}, !.flagOUT = -1, !.cache_ttl = -5],
         [AnyRule EXCEPT !.active = FALSE, !.destination = 1],
         [AnyRule EXCEPT !.schemaname = b, !.match = {select}, !.destination = 1, !.cache_ttl = 9] >> }

Row(user, schema, id) == [username |-> user, schemaname |-> schema, hostgroup_id |-> id]

Defaults == { <<>>, << Row(a, b, 1) >>, << Row(a, c, -1) >> }

InFile == a :> old
Account(active) == [password |-> new, active |-> active]
Accounts == { (a :> Account(TRUE)) @@ (b :> Account(FALSE)), a :> Account(FALSE) }
=============================================================================
