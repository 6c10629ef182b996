---------------------------- MODULE RowSecurity ----------------------------
(***************************************************************************)
(* Row-level security as PostgreSQL evaluates it, seen from capyrls: the   *)
(* platform that the source policies run on (Supabase) and the platform    *)
(* the bundle is applied to both decide with these operators.  PostgreSQL  *)
(* is not part of the repository; everything here is external.             *)
(*                                                                         *)
(* A policy is any record with the fields table, cmd, permissive, targets, *)
(* using and check.  `targets' is the TO list, {} for PUBLIC.  An          *)
(* expression is opaque: whoever asks passes the set of those that hold    *)
(* for one caller on one row.                                              *)
(***************************************************************************)

CONSTANT Absent     \* an expression clause that was not written

Cmds  == {"SELECT", "INSERT", "UPDATE", "DELETE"}
Sides == {"using", "check"}

\* The sides PostgreSQL consults for a command: rows read, rows written.
SidesOf(cmd) == CASE cmd = "INSERT" -> {"check"}
                  [] cmd = "UPDATE" -> Sides
                  [] OTHER          -> {"using"}

\* A policy takes part in a command when its FOR and its TO clause match.
AppliesTo(p, cmd, roles) ==
  /\ p.cmd \in {cmd, "ALL"}
  /\ p.targets = {} \/ p.targets \cap roles # {}

\* The qualifier a policy contributes: WITH CHECK falls back to USING.
Qual(p, side) ==
  IF side = "check" /\ p.check # Absent THEN p.check ELSE p.using

\* The policies with something to say; one without a qualifier says nothing.
Voices(policies, cmd, side, roles) ==
  {p \in policies : AppliesTo(p, cmd, roles) /\ Qual(p, side) # Absent}

\* Some permissive policy admits the row and no restrictive one rejects it.
Admits(policies, cmd, side, roles, holding) ==
  LET voices == Voices(policies, cmd, side, roles)
  IN  /\ \E p \in voices : p.permissive /\ Qual(p, side) \in holding
      /\ \A p \in voices : ~p.permissive => Qual(p, side) \in holding

\* The expressions of a set of policies.
ClausesOf(policies) ==
  ({p.using : p \in policies} \cup {p.check : p \in policies}) \ {Absent}

-----------------------------------------------------------------------------
\* The rewriter's static recursion check (fireRIRrules).  A query expands the
\* policies of each table it names; when one of them holds a sublink the table
\* stays on a stack while the tables the sublinks scan are expanded as SELECT,
\* and meeting a stacked table again, sublinks and all, is an error.

Quals(policies, cmd, roles) ==
  UNION {{Qual(p, side) : p \in Voices(policies, cmd, side, roles)} :
           side \in SidesOf(cmd)}

\* on[t] holds the policies of table t; an expression in `armed' has a sublink,
\* and its sublinks read the tables scans[q].
Recurses(on, cmd, t, roles, armed, scans) ==
  LET stacked(x) == Quals(on[x], "SELECT", roles) \cap armed # {}
      next(x)  == UNION {scans[q] : q \in Quals(on[x], "SELECT", roles)}
      first    == UNION {scans[q] : q \in Quals(on[t], cmd, roles)}
      reach(S) == {x \in DOMAIN on : \A C \in SUBSET DOMAIN on :
                     S \subseteq C /\ (\A y \in C : next(y) \subseteq C)
                       => x \in C}
  IN  \E x \in reach(first) : stacked(x) /\ (x = t \/ x \in reach(next(x)))

-----------------------------------------------------------------------------
\* CREATE POLICY refuses a WITH CHECK on SELECT and DELETE, a USING on INSERT.
Creatable(p) ==
  /\ p.cmd = "INSERT" => p.using = Absent
  /\ p.cmd \in {"SELECT", "DELETE"} => p.check = Absent

=============================================================================
