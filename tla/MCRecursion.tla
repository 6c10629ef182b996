---------------------------- MODULE MCRecursion ----------------------------
(***************************************************************************)
(* Two or three policies on two tables that scan each other.               *)
(***************************************************************************)
EXTENDS ConversionRecursion, TLC

CONSTANTS anonymous, user, messages, rooms

MCCaller  == {anonymous, user}
MCRoleOf  == anonymous :> "anon" @@ user :> "authenticated"
MCHasUser == [c \in MCCaller |-> c = user]
MCTable   == {messages, rooms}
MCName    == {<<"p">>, <<"q">>}

expr(calls, wrapped, reads, spells) ==
  [truth |-> {user}, calls |-> calls, wrapped |-> wrapped, blocked |-> FALSE,
   reads |-> reads, spells |-> spells]

own      == expr({"user_id"}, FALSE, {}, {})
ownSub   == expr({"user_id"}, TRUE, {}, {})
listed(t)   == expr({"user_id"}, FALSE, {t}, {t})
plain(t)    == expr({}, FALSE, {t}, {t})
lookalike(t) == expr({"user_id"}, FALSE, {}, {t})   \* a column named like t
MCExpr == {own, ownSub} \cup UNION {{listed(t), plain(t), lookalike(t)} : t \in MCTable}

policy(n, t, cmd, roles, e) ==
  [name |-> n, table |-> t, permissive |-> TRUE, cmd |-> cmd, roles |-> roles,
   using |-> IF cmd = "INSERT" THEN Absent ELSE e,
   check |-> IF cmd = "INSERT" THEN e ELSE Absent]

On(n, t, es) == {policy(n, t, cmd, roles, e) :
   cmd \in {"SELECT", "INSERT", "ALL"}, roles \in {{}, {"authenticated"}}, e \in es}

Over(es) ==
  {[policies |-> {p, q, r}, enabled |-> MCTable, forced |-> {}] :
     p \in On(<<"p">>, messages, es), q \in On(<<"q">>, messages, {own, listed(messages)}),
     r \in On(<<"p">>, rooms, es)}

MCCatalogs == Over(MCExpr)

MCOptions ==
  {o \in Options : o.target = "postgres" /\ ~o.noSplitAll /\ ~o.noServiceEscape
                     /\ ~o.ownAppRole}

MCPrecedes(p, q) ==
  \/ p.table = messages /\ q.table = rooms
  \/ p.table = q.table /\ p.name = <<"p">> /\ q.name = <<"q">>

=============================================================================
