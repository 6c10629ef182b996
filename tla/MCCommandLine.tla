----------------------------- MODULE MCCommandLine ---------------------------
(***************************************************************************)
(* A database of two tables that migrations move between small policy sets *)
(* while it is read, and two runs into one directory.                      *)
(***************************************************************************)
EXTENDS CommandLine, TLC

CONSTANTS anonymous, user, server, items, notes

MCCaller  == {anonymous, user, server}
MCRoleOf  == anonymous :> "anon" @@ user :> "authenticated" @@ server :> "service_role"
MCHasUser == [c \in MCCaller |-> c = user]
MCTable   == {items, notes}
MCName    == {<<"p">>, <<"q">>}
MCLower   == [r \in SourceRole |-> IF r = "Reporting" THEN "reporting" ELSE r]

expr(truth, calls, blocked_) ==
  [truth |-> truth, calls |-> calls, wrapped |-> FALSE, blocked |-> blocked_,
   reads |-> {}, spells |-> {}]

everyone == expr(MCCaller, {}, FALSE)
mine     == expr({user}, {"user_id"}, FALSE)
foreign  == expr({user}, {}, TRUE)
MCExpr   == {everyone, mine, foreign}

policy(n, t, perm, cmd, roles, u, c) ==
  [name |-> n, table |-> t, permissive |-> perm, cmd |-> cmd, roles |-> roles,
   using |-> u, check |-> c]

own     == policy(<<"p">>, items, TRUE, "ALL", {"authenticated"}, mine, mine)
shared  == policy(<<"p">>, items, TRUE, "SELECT", {"public"}, everyone, Absent)
limit   == policy(<<"q">>, items, FALSE, "ALL", {}, mine, Absent)
guests  == policy(<<"p">>, notes, TRUE, "SELECT", {"anon"}, everyone, Absent)
theirs  == policy(<<"q">>, notes, TRUE, "UPDATE", {"Reporting"}, everyone, foreign)

catalog(ps, on_, forced_) == [policies |-> ps, enabled |-> on_, forced |-> forced_]

MCCatalogs ==
  {catalog({own}, {items, notes}, {}),
   catalog({shared, limit}, {items}, {}),
   catalog({shared, guests, theirs}, {notes}, {}),
   catalog({guests}, {items}, {})}

MCOptions ==
  {o \in Options : /\ o.mode = "vanilla" /\ ~o.noSplitAll /\ ~o.ownAppRole
                   /\ ~o.noServiceEscape
                   /\ o.target = "capydb" => o.roleModel = "split"}

\* sort.Slice on (table key, name).
MCPrecedes(p, q) ==
  \/ p.table = items /\ q.table = notes
  \/ p.table = q.table /\ p.name = <<"p">> /\ q.name = <<"q">>

=============================================================================
