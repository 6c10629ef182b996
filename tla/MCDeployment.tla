---------------------------- MODULE MCDeployment ----------------------------
(***************************************************************************)
(* Deployments of small catalogs: a policy that is split, one that is not, *)
(* a restrictive one, one for a role of the project's own, and catalogs    *)
(* that follow each other.                                                 *)
(***************************************************************************)
EXTENDS Deployment, TLC

CONSTANTS anonymous, user, server, items, notes

MCCaller  == {anonymous, user, server}
MCRoleOf  == anonymous :> "anon" @@ user :> "authenticated" @@ server :> "service_role"
MCHasUser == [c \in MCCaller |-> c = user]
MCTable   == {items, notes}
MCName    == {<<"p">>, <<"q">>}

expr(truth, calls) ==
  [truth |-> truth, calls |-> calls, wrapped |-> FALSE, blocked |-> FALSE,
   reads |-> {}, spells |-> {}]

everyone == expr(MCCaller, {})
mine     == expr({user}, {"user_id"})
MCExpr   == {everyone, mine}

policy(n, t, perm, cmd, roles, u) ==
  [name |-> n, table |-> t, permissive |-> perm, cmd |-> cmd, roles |-> roles,
   using |-> u, check |-> Absent]

own      == policy(<<"p">>, items, TRUE, "ALL", {"authenticated"}, mine)
shared   == policy(<<"p">>, items, TRUE, "SELECT", {}, everyone)
limit    == policy(<<"q">>, items, FALSE, "SELECT", {}, mine)
reports  == policy(<<"q">>, notes, TRUE, "SELECT", {"anon", "authenticator"}, everyone)
other    == policy(<<"p">>, notes, TRUE, "UPDATE", {"reporting"}, mine)

catalog(ps, on_, forced_) == [policies |-> ps, enabled |-> on_, forced |-> forced_]

MCCatalogs ==
  {catalog({own}, {items}, {}),
   catalog({shared}, {items}, {items}),
   catalog({shared, limit}, {}, {items}),
   catalog({shared, reports, other}, {items}, {})}

MCOptions ==
  {o \in Options : /\ ~o.noSplitAll
                   /\ o.ownAppRole => splitOnCapyDB(o) /\ o.mode = "compat"
                   /\ o.noServiceEscape => o.roleModel = "single" /\ o.mode = "vanilla"
                   /\ o.target = "capydb" => o.roleModel = "split"
                   /\ o.mode = "compat" => o.roleModel = "split"}

\* sort.Slice on (table key, name).
MCPrecedes(p, q) ==
  \/ p.table = items /\ q.table = notes
  \/ p.table = q.table /\ p.name = <<"p">> /\ q.name = <<"q">>

=============================================================================
