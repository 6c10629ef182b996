------------------------------ MODULE MCAccess ------------------------------
(***************************************************************************)
(* Small instances of ConversionAccess: every legal single policy under    *)
(* every option combination, and pairs of policies on one table.           *)
(***************************************************************************)
EXTENDS ConversionAccess, TLC

CONSTANTS anonymous, user, server, robot, items, users

MCCaller == {anonymous, user, server, robot}
MCRoleOf == anonymous :> "anon" @@ user :> "authenticated"
              @@ server :> "service_role" @@ robot :> "reporting"
MCHasUser == [c \in MCCaller |-> c = user]

MCTable   == {items, users}
MCName    == {<<"p">>, <<"q">>, <<"p", "_select">>}

expr(truth, calls, blocked) ==
  [truth |-> truth, calls |-> calls, wrapped |-> FALSE, blocked |-> blocked,
   reads |-> {}, spells |-> {}]

everyone == expr(MCCaller, {}, FALSE)
mine     == expr({user}, {"user_id"}, FALSE)
guests   == expr({anonymous, server}, {"role"}, FALSE)
foreign  == expr({user}, {"email"}, TRUE)
MCExpr   == {everyone, mine, guests, foreign}

policy(n, t, perm, cmd, roles, u, c) ==
  [name |-> n, table |-> t, permissive |-> perm, cmd |-> cmd, roles |-> roles,
   using |-> u, check |-> c]

Drafts(n, t, cmds, perms, roleSets, us, cs) ==
  {p \in {policy(n, t, perm, cmd, roles, u, c) :
            perm \in perms, cmd \in cmds, roles \in roleSets, u \in us, c \in cs}
     : Creatable(p)}

catalog(ps, on_, forced_) == [policies |-> ps, enabled |-> on_, forced |-> forced_]

\* One policy of any shape, on a table with any row-security flags.
AnyRoles == SUBSET {"anon", "authenticated", "service_role", "authenticator",
                    "reporting"}
              \cup {{"public"}, {"public", "anon"}, {"public", "reporting"}}
Singles ==
  {catalog({p}, {items}, {}) :
     p \in Drafts(<<"p">>, items, PolicyCmd, BOOLEAN, AnyRoles,
                  {mine, guests, Absent}, {mine, foreign, Absent})}
  \cup
  {catalog({p}, f[1], f[2]) :
     p \in Drafts(<<"p">>, items, {"ALL", "UPDATE"}, BOOLEAN,
                  {{}, {"authenticated"}, {"service_role"}},
                  {everyone}, {foreign, Absent}),
     f \in {<<{items}, {items}>>, <<{}, {items}>>, <<{}, {}>>}}
  \cup
  {catalog({p}, {users}, {}) :
     p \in Drafts(<<"p">>, users, {"ALL"}, BOOLEAN, {{}, {"anon"}}, {mine}, {Absent})}

\* Two policies on one table.
Pairs ==
  {catalog({p, q}, {items}, {}) :
     p \in Drafts(<<"p">>, items, {"ALL", "SELECT", "INSERT"}, BOOLEAN,
                  {{}, {"authenticated"}, {"anon"}, {"service_role"}},
                  {mine, Absent}, {foreign, Absent}),
     q \in Drafts(<<"q">>, items, {"ALL", "UPDATE"}, BOOLEAN,
                  {{}, {"authenticated"}, {"anon", "reporting"}},
                  {everyone, Absent}, {mine, Absent})
             \cup Drafts(<<"p", "_select">>, items, {"SELECT", "ALL"}, BOOLEAN,
                         {{}, {"service_role"}}, {guests}, {Absent})}

SinglesAndPairs == Singles \cup Pairs

AnyOptions ==
  {o \in Options : o.ownAppRole => splitOnCapyDB(o) /\ ~o.noSplitAll}

FewOptions == {o \in Options : ~o.noSplitAll /\ ~o.noServiceEscape /\ ~o.ownAppRole}

\* sort.Slice on (table key, name).
MCPrecedes(p, q) ==
  \/ p.table = items /\ q.table = users
  \/ p.table = q.table /\ p.name = <<"p">> /\ q.name # <<"p">>
  \/ p.table = q.table /\ p.name = <<"p", "_select">> /\ q.name = <<"q">>

=============================================================================
