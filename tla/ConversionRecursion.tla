------------------------- MODULE ConversionRecursion -------------------------
(***************************************************************************)
(* The initplan wrap of vanilla mode against PostgreSQL's static recursion *)
(* check: `(select app.user_id())' is a sublink, and a table whose         *)
(* policies hold one cannot be reached again from its own policies.  The   *)
(* converter gives the wrap up on the tables whose policies name           *)
(* themselves (selfRefTables, expressionReferencesTable).                  *)
(***************************************************************************)
EXTENDS ConversionAccess

armedInSource(e) == e.wrapped \/ e.reads # {}
scansInSource(e) == e.reads

armedInTarget(e) == e.initplan \/ (e.body # Absent /\ armedInSource(e.body))
scansInTarget(e) == IF e.body = Absent THEN {} ELSE e.body.reads

webRoles == {AppRole, "owner"} \cup bundle.granted

SourceRecurses(t, cmd) ==
  Recurses([x \in Table |-> IF x \in cat.enabled THEN sourceOn(cat, x) ELSE {}],
           cmd, t, {"anon", "authenticated"},
           {e \in Expr : armedInSource(e)}, [e \in Expr |-> scansInSource(e)])

TargetRecurses(t, cmd) ==
  LET clauses == ClausesOf(UNION {policiesOn(target, x) : x \in Table})
  IN  Recurses([x \in Table |-> policiesOn(target, x)], cmd, t, webRoles,
               {e \in clauses : armedInTarget(e)}, [e \in clauses |-> scansInTarget(e)])

\* Table y is scanned by some policy of table x.
scansTable(x, y) ==
  \E p \in on(x), e \in Expr :
    e \in {p.using, p.check} /\ y \in e.reads

\* Every table its policies lead back to spells itself in one of them.
selfContained ==
  \A t \in Table :
    (\A C \in SUBSET Table :
       (\A x \in C \cup {t}, y \in Table : scansTable(x, y) => y \in C) => t \in C)
    => \E p \in on(t) : t \in spelledIn(p.using) \cup spelledIn(p.check)

\* On tables that had row security, no statement that PostgreSQL accepted for
\* the web callers' policies taken together is rejected for infinite recursion
\* once the policies are converted, as long as loops of policies are
\* spelled-out self references (CHANGELOG 1.12.0: the wrap is given up where
\* it is unsafe).
NoNewRecursion ==
  converted /\ cat.enabled = Table /\ selfContained =>
    \A t \in Table, cmd \in Cmds : TargetRecurses(t, cmd) => SourceRecurses(t, cmd)

=============================================================================
