------------------------------ MODULE LiveLoad ------------------------------
(***************************************************************************)
(* convert --db: the catalog is read from a running database by six        *)
(* queries (live/live.go) outside any transaction, so migrations may       *)
(* commit between them; then it is converted like any other.               *)
(*                                                                         *)
(* Queries three to six (defaults, routines, uuid columns, definers) read  *)
(* what no policy depends on: here they only take time and may fail.       *)
(***************************************************************************)
EXTENDS ConversionAccess

CONSTANTS
  lower,          \* strings.ToLower on role names
  MaxMigrations   \* bound on migrations during the load

\* No role of the project's own is called like one of Supabase's but for case,
\* and PostgreSQL keeps no other role in a TO list that says PUBLIC.
ASSUME LiveAssumption ==
  /\ lower \in [SourceRole -> SourceRole]
  /\ \A r \in SourceRole : IF r \in CustomRole THEN lower[r] \in CustomRole
                                               ELSE lower[r] = r
  /\ \A d \in Catalogs : \A p \in d.policies :
       "public" \in p.roles => p.roles = {"public"}
  /\ MaxMigrations \in Nat

VARIABLES
  source,      \* the database being read
  seen,        \* the states it has been in since the load began
  query,       \* the query that is next
  migrations

liveVars == <<source, seen, query, migrations>>

-----------------------------------------------------------------------------
\* live.go.

Queries == 6

\* Mutated form: ALL falls among the unknown commands.
parseCmdNoAll(cmd) == IF cmd \in Cmds THEN cmd ELSE "SELECT"

parseCmd(cmd) == IF cmd \in Cmds THEN cmd ELSE "ALL"

\* pg_policies names the role 0 "public".
parseRoles(roles) == {lower[r] : r \in roles \ {"public"}}

parsePolicy(p) == [p EXCEPT !.cmd = parseCmd(p.cmd), !.roles = parseRoles(p.roles)]

\* Mutated form: restrictive policies are read by a query of their own.
answeredInParts(k, q, d) ==
  CASE q = 1 -> [k EXCEPT !.enabled = d.enabled, !.forced = d.forced]
    [] q = 2 -> [k EXCEPT !.policies = {parsePolicy(p) : p \in {x \in d.policies : x.permissive}}]
    [] q = 3 -> [k EXCEPT !.policies =
                   @ \cup {parsePolicy(p) : p \in {x \in d.policies : ~x.permissive}}]
    [] OTHER -> k

\* Catalog k after the answer of d to query q.
answered(k, q, d) ==
  CASE q = 1 -> [k EXCEPT !.enabled = d.enabled, !.forced = d.forced]
    [] q = 2 -> [k EXCEPT !.policies = {parsePolicy(p) : p \in d.policies}]
    [] OTHER -> k

NewCatalog == [policies |-> {}, enabled |-> {}, forced |-> {}]

LiveInit ==
  /\ source \in Catalogs
  /\ seen = {source}
  /\ query = 1
  /\ migrations = 0
  /\ pc = "loading"
  /\ cat = NewCatalog
  /\ opts \in OptionSets
  /\ outcome = [p \in {} |-> "pending"]
  /\ emitted = {} /\ stubs = {} /\ rlsTables = {} /\ compatRoles = {}
  /\ used = {} /\ warnings = {} /\ bundle = noBundle

converting == <<opts, emitted, stubs, compatRoles, used, warnings, bundle>>

\* The last answer hands the catalog to ConvertCatalog.
Answer ==
  /\ pc = "loading"
  /\ cat' = answered(cat, query, source)
  /\ query' = query + 1
  /\ IF query = Queries
     THEN /\ pc' = "check"
          /\ outcome' = [p \in cat'.policies |-> "pending"]
          /\ rlsTables' = cat'.enabled \ ManagedTable
     ELSE UNCHANGED <<pc, outcome, rlsTables>>
  /\ UNCHANGED <<converting, source, seen, migrations>>

\* Mutated forms: the error is dropped and the next query tried; no deadline.
GiveUpSwallowed ==
  /\ pc = "loading" /\ query < Queries
  /\ query' = query + 1
  /\ UNCHANGED <<vars, source, seen, migrations>>
GiveUpNever == FALSE /\ UNCHANGED <<vars, liveVars>>

\* A query fails, or the minute for connecting and all six queries is over:
\* there is no catalog to convert.
GiveUp ==
  /\ pc = "loading"
  /\ pc' = "failed"
  /\ cat' = NewCatalog
  /\ UNCHANGED <<converting, outcome, rlsTables, liveVars>>

Migrate ==
  /\ pc = "loading" /\ migrations < MaxMigrations
  /\ source' \in Catalogs \ {source}
  /\ seen' = seen \cup {source'}
  /\ migrations' = migrations + 1
  /\ UNCHANGED <<vars, query>>

LiveNext ==
  \/ Answer
  \/ GiveUp
  \/ Migrate
  \/ Next /\ UNCHANGED liveVars

-----------------------------------------------------------------------------
\* Properties.

\* Types: whatever moment each answer is from, the catalog is one a database
\* could hold.
LiveTypeOK ==
  /\ cat \in CatalogType
  /\ \A p \in cat.policies : Creatable(p)
  /\ \A p, q \in cat.policies : p.name = q.name /\ p.table = q.table => p = q
  /\ query \in 1..Queries + 1

\* A torn load never opens a table: what the converted policies let a web
\* caller do was permitted at some moment of the load.
NoTornWidening ==
  converted /\ ~keepsRoles(opts) =>
    \A t \in Table :
      narrowing(t) \/ (t \notin cat.enabled /\ on(t) = {}) =>
        \A c \in Caller, cmd \in Cmds : Web(c) =>
          \A side \in SidesOf(cmd) :
            TargetAdmits(c, t, cmd, side) =>
              \E d \in seen : Permits(d, c, t, cmd, side)

\* A table no migration touched during the load is converted as it stands,
\* unless Supabase manages it.
UntouchedTablesExact ==
  converted /\ ~keepsRoles(opts) =>
    \A t \in Table \ ManagedTable :
      /\ mechanical(t) \/ \E d \in seen : t \in d.enabled /\ sourceOn(d, t) = {}
      /\ \A d \in seen : /\ sourceOn(d, t) = sourceOn(source, t)
                         /\ t \in d.enabled <=> t \in source.enabled
      => \A c \in Caller, cmd \in Cmds : Web(c) =>
           \A side \in SidesOf(cmd) :
             TargetAdmits(c, t, cmd, side) <=> Permits(source, c, t, cmd, side)

=============================================================================
