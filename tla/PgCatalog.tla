----------------------------- MODULE PgCatalog -----------------------------
(***************************************************************************)
(* The part of PostgreSQL's own catalog that row security depends on, and  *)
(* what the DDL of a migration history does to it.  PostgreSQL is not part *)
(* of the repository: this is the specification the catalog capyrls builds *)
(* from the text of the history (Catalog) is measured against.             *)
(*                                                                         *)
(* A statement PostgreSQL rejects is not enabled: a history that was       *)
(* applied to the source project contains none.                            *)
(***************************************************************************)
CONSTANTS
  TableKey,     \* schema-qualified table names
  PolicyName,
  Clause,       \* the alterable clauses of a policy: TO, USING, WITH CHECK
  Value,        \* what a clause may say
  Column,
  Type,         \* leading type names
  Default,      \* column defaults; NoDefault among them
  NoDefault,
  None          \* an object that does not exist

Definition == [Clause -> Value]
Flags      == [enabled : BOOLEAN, forced : BOOLEAN]
Typed      == [type : Type, default : Default]

VARIABLES
  tables,       \* row-security flags of each table
  policies,     \* definition of each (table, name)
  columns       \* type and default of each (table, column)

TypeOK ==
  /\ tables   \in [TableKey -> Flags \cup {None}]
  /\ policies \in [TableKey \X PolicyName -> Definition \cup {None}]
  /\ columns  \in [TableKey \X Column -> Typed \cup {None}]

Init ==
  /\ tables   = [t \in TableKey |-> None]
  /\ policies = [x \in TableKey \X PolicyName |-> None]
  /\ columns  = [x \in TableKey \X Column |-> None]

exists(t)       == tables[t] # None
hasPolicy(t, n) == policies[<<t, n>>] # None
hasColumn(t, c) == columns[<<t, c>>] # None

-----------------------------------------------------------------------------

CreateTable(t, c, typed) ==
  /\ ~exists(t)
  /\ tables'  = [tables EXCEPT ![t] = [enabled |-> FALSE, forced |-> FALSE]]
  /\ columns' = [columns EXCEPT ![<<t, c>>] = typed]
  /\ UNCHANGED policies

\* Policies and columns go with their table.
DropTable(t) ==
  /\ exists(t)
  /\ tables'   = [tables EXCEPT ![t] = None]
  /\ policies' = [x \in DOMAIN policies |-> IF x[1] = t THEN None ELSE policies[x]]
  /\ columns'  = [x \in DOMAIN columns |-> IF x[1] = t THEN None ELSE columns[x]]

RenameTable(t, u) ==
  LET from(x) == IF x[1] = u THEN <<t, x[2]>> ELSE x
      moved(f) == [x \in DOMAIN f |-> IF x[1] = t THEN None ELSE f[from(x)]]
  IN  /\ exists(t) /\ ~exists(u)
      /\ tables'   = [tables EXCEPT ![t] = None, ![u] = tables[t]]
      /\ policies' = moved(policies)
      /\ columns'  = moved(columns)

SetRowSecurity(t, flag, on) ==
  /\ exists(t)
  /\ tables' = [tables EXCEPT ![t][flag] = on]
  /\ UNCHANGED <<policies, columns>>

CreatePolicy(t, n, d) ==
  /\ exists(t) /\ ~hasPolicy(t, n)
  /\ policies' = [policies EXCEPT ![<<t, n>>] = d]
  /\ UNCHANGED <<tables, columns>>

\* changes maps the clauses the statement names to what they now say.
AlterPolicy(t, n, changes) ==
  /\ hasPolicy(t, n)
  /\ policies' = [policies EXCEPT ![<<t, n>>] =
       [k \in Clause |-> IF k \in DOMAIN changes THEN changes[k] ELSE @[k]]]
  /\ UNCHANGED <<tables, columns>>

RenamePolicy(t, n, m) ==
  /\ hasPolicy(t, n) /\ ~hasPolicy(t, m)
  /\ policies' = [policies EXCEPT ![<<t, n>>] = None, ![<<t, m>>] = policies[<<t, n>>]]
  /\ UNCHANGED <<tables, columns>>

\* DROP POLICY of a missing policy passes only with IF EXISTS.
DropPolicy(t, n, ifExists) ==
  /\ ifExists \/ hasPolicy(t, n)
  /\ policies' = [policies EXCEPT ![<<t, n>>] = None]
  /\ UNCHANGED <<tables, columns>>

AddColumn(t, c, typed) ==
  /\ exists(t) /\ ~hasColumn(t, c)
  /\ columns' = [columns EXCEPT ![<<t, c>>] = typed]
  /\ UNCHANGED <<tables, policies>>

DropColumn(t, c) ==
  /\ hasColumn(t, c)
  /\ columns' = [columns EXCEPT ![<<t, c>>] = None]
  /\ UNCHANGED <<tables, policies>>

RenameColumn(t, c, d) ==
  /\ hasColumn(t, c) /\ ~hasColumn(t, d)
  /\ columns' = [columns EXCEPT ![<<t, c>>] = None, ![<<t, d>>] = columns[<<t, c>>]]
  /\ UNCHANGED <<tables, policies>>

SetColumnType(t, c, type) ==
  /\ hasColumn(t, c)
  /\ columns' = [columns EXCEPT ![<<t, c>>].type = type]
  /\ UNCHANGED <<tables, policies>>

\* SET DEFAULT, and DROP DEFAULT as a default of NoDefault.
SetDefault(t, c, default) ==
  /\ hasColumn(t, c)
  /\ columns' = [columns EXCEPT ![<<t, c>>].default = default]
  /\ UNCHANGED <<tables, policies>>

vars == <<tables, policies, columns>>

Next ==
  \E t \in TableKey :
    \/ \E c \in Column, typed \in Typed : CreateTable(t, c, typed) \/ AddColumn(t, c, typed)
    \/ DropTable(t)
    \/ \E u \in TableKey : RenameTable(t, u)
    \/ \E flag \in {"enabled", "forced"}, on \in BOOLEAN : SetRowSecurity(t, flag, on)
    \/ \E n \in PolicyName :
         \/ \E d \in Definition : CreatePolicy(t, n, d)
         \/ \E S \in SUBSET Clause : \E changes \in [S -> Value] : AlterPolicy(t, n, changes)
         \/ \E m \in PolicyName : RenamePolicy(t, n, m)
         \/ \E ifExists \in BOOLEAN : DropPolicy(t, n, ifExists)
    \/ \E c \in Column :
         \/ DropColumn(t, c)
         \/ \E d \in Column : RenameColumn(t, c, d)
         \/ \E type \in Type : SetColumnType(t, c, type)
         \/ \E default \in Default : SetDefault(t, c, default)

Spec == Init /\ [][Next]_vars

=============================================================================
