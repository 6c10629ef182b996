----------------------------- MODULE Conversion -----------------------------
(***************************************************************************)
(* ConvertCatalog (capyrls.go): one pass over the policies of a catalog,   *)
(* in (table, name) order, that skips, blocks or renders each of them, and *)
(* the assembly of the bundle once the last one is done.                   *)
(*                                                                         *)
(* A source expression is a member of Expr: the callers it is true for on  *)
(* the row at hand, the auth helpers it calls, the tables its subqueries   *)
(* scan and the table names spelled in its text.  A rendered expression    *)
(* keeps that body and adds what the converter wraps around it: the role   *)
(* predicate, the service escape and the initplan sublinks.                *)
(***************************************************************************)
EXTENDS Integers, Sequences, FiniteSets, RowSecurity

CONSTANTS
  Table,            \* table keys
  ManagedTable,     \* those in a schema Supabase owns
  Name,             \* policy names: sequences of characters or suffixes
  MaxIdent,         \* length PostgreSQL truncates identifiers to
  CustomRole,       \* roles of the project's own
  InternalRole,     \* supabaseInternalRoles
  Caller,           \* whoever runs statements
  Expr,             \* source expressions
  Catalogs,         \* catalogs to convert
  OptionSets,       \* option combinations to convert them under
  Precedes(_, _)    \* the (table key, name) order of sort.Slice

PseudoRole == {"anon", "authenticated", "service_role"}
SourceRole == PseudoRole \cup {"public"} \cup InternalRole \cup CustomRole
AppRole    == "app_user"
Helper     == {"user_id", "role", "email", "claims"}

PolicyCmd == Cmds \cup {"ALL"}
Suffix    == {"_select", "_insert", "_update", "_delete"}
Spelling  == UNION {{n[i] : i \in 1..Len(n)} : n \in Name}
Symbol    == Spelling \cup Suffix

Policy == [name : Name, table : Table, permissive : BOOLEAN, cmd : PolicyCmd,
           roles : SUBSET SourceRole,
           using : Expr \cup {Absent}, check : Expr \cup {Absent}]

Options == [mode : {"vanilla", "compat"}, roleModel : {"split", "single"},
            target : {"postgres", "capydb"}, noSplitAll : BOOLEAN,
            noServiceEscape : BOOLEAN, ownAppRole : BOOLEAN]

ExprType == [truth : SUBSET Caller, calls : SUBSET Helper, wrapped : BOOLEAN,
             blocked : BOOLEAN, reads : SUBSET Table, spells : SUBSET Table]

\* A catalog holds at most one policy per (name, table): model.go upsertPolicy.
CatalogType == [policies : SUBSET Policy, enabled : SUBSET Table,
                forced : SUBSET Table]

ASSUME NameAssumption == Name \subseteq Seq(Symbol) /\ MaxIdent \in Nat \ {0}
ASSUME TableAssumption == ManagedTable \subseteq Table
ASSUME RoleAssumption ==
  /\ (CustomRole \cup InternalRole) \cap
       (PseudoRole \cup {"public", "owner", "app_user", "app_service"}) = {}
  /\ CustomRole \cap InternalRole = {}
ASSUME ExprAssumption == Expr \subseteq ExprType /\ Absent \notin Expr
ASSUME OptionsAssumption == OptionSets \subseteq Options
ASSUME CatalogAssumption ==
  /\ Catalogs \subseteq CatalogType
  /\ \A c \in Catalogs : \A p, q \in c.policies :
       p.name = q.name /\ p.table = q.table => p = q
ASSUME SourcePoliciesAssumption ==
  \A c \in Catalogs : \A p \in c.policies : Creatable(p)

VARIABLES
  pc,          \* "check", "loop", "done" or "refused"
  cat,         \* the catalog
  opts,        \* the options
  outcome,     \* what the report says of each policy
  emitted,     \* policies in the bundle, as they stand once it is applied
  stubs,       \* commented-out re-grants
  rlsTables,   \* tables the bundle enables row security on
  compatRoles, \* Supabase roles the bundle creates for real
  used,        \* accessors the rewriter and the predicates needed
  warnings,    \* subjects the report warns about
  bundle       \* what the assembled files do besides the policies

vars == <<pc, cat, opts, outcome, emitted, stubs, rlsTables, compatRoles,
          used, warnings, bundle>>

-----------------------------------------------------------------------------
\* Options.

splitOnCapyDB(o) == o.target = "capydb" /\ o.roleModel = "split"

emitsServiceEscape(o) == o.roleModel = "single" /\ ~o.noServiceEscape

\* The escape is <prefix>.is_service() or auth.role() = 'service_role'.
serviceEscapePredicate(o) == IF o.mode = "compat" THEN "role" ELSE "is_service"

\* Compat and split on plain PostgreSQL: TO lists stay as they are.
keepsRoles(o) == /\ o.mode = "compat" /\ o.roleModel = "split"
                 /\ ~splitOnCapyDB(o)

-----------------------------------------------------------------------------
\* analyzeRoles.

hasPublic(p) == p.roles = {} \/ "public" \in p.roles
dropped(p)   == p.roles \cap InternalRole
custom(p)    == p.roles \cap CustomRole
mixed(p)     == /\ custom(p) # {}
                /\ hasPublic(p) \/ p.roles \cap {"anon", "authenticated"} # {}

\* The reason a policy is skipped for, "" when it is not.
skip(p, o) ==
  CASE p.roles # {} /\ p.roles \subseteq InternalRole -> "internal"
    [] ~keepsRoles(o) /\ p.roles \ InternalRole = {"service_role"} ->
         IF o.roleModel = "single" /\ ~emitsServiceEscape(o)
         THEN "service_denied" ELSE "service_bypass"
    [] OTHER -> ""

\* Which half of the web callers the TO list names, "" for neither or both.
scope(p) ==
  LET named == p.roles \cap {"anon", "authenticated"}
  IN  CASE ~hasPublic(p) /\ named = {"authenticated"} -> "authenticated"
        [] ~hasPublic(p) /\ named = {"anon"}          -> "anon"
        [] OTHER                                      -> ""

\* Mutated form: the split model's runtime role is taken to be enough.
condRoleEnough(p, o) ==
  IF keepsRoles(o) \/ o.roleModel = "split" THEN "" ELSE scope(p)

\* The predicate that stands in for it; custom roles drop the distinction.
cond(p, o) == IF keepsRoles(o) \/ custom(p) # {} THEN "" ELSE scope(p)

targets(p, o) ==
  IF keepsRoles(o)
  THEN IF hasPublic(p) THEN {} ELSE p.roles \ InternalRole
  ELSE custom(p) \cup
       (IF o.roleModel = "split" /\ (custom(p) = {} \/ mixed(p))
        THEN {AppRole} ELSE {})

\* Mutated form: whatever the TO list names is created.
needsRolesUnfiltered(p, o) ==
  IF keepsRoles(o) /\ ~hasPublic(p) THEN p.roles ELSE {}

needsRoles(p, o) ==
  IF keepsRoles(o) /\ ~hasPublic(p) THEN p.roles \cap PseudoRole ELSE {}

roleWarnings(p, o) ==
  {w \in {<<"internal", p>>, <<"mixed", p>>} :
     \/ w[1] = "internal" /\ dropped(p) # {}
     \/ w[1] = "mixed" /\ ~keepsRoles(o) /\ mixed(p)}

-----------------------------------------------------------------------------
\* Expressions.

spelledIn(e) == IF e = Absent THEN {} ELSE e.spells

\* Mutated form: WITH CHECK is not looked at.
selfRefTablesUsingOnly(c) ==
  {t \in Table \ ManagedTable :
     \E p \in c.policies : p.table = t /\ t \in spelledIn(p.using)}

\* Tables with a policy whose text names its own table, managed ones aside.
selfRefTables(c) ==
  {t \in Table \ ManagedTable : \E p \in c.policies :
     p.table = t /\ t \in spelledIn(p.using) \cup spelledIn(p.check)}

\* An accessor call becomes a sublink unless the policy set cannot bear one.
wraps(o, selfRef) == o.mode = "vanilla" /\ ~selfRef

rewriteExpr(e, o, selfRef) ==
  IF e = Absent THEN Absent
  ELSE [body |-> e, cond |-> "", escape |-> FALSE,
        initplan |-> wraps(o, selfRef) /\ e.calls # {} /\ ~e.wrapped]

combineCond(c, e, o, selfRef) ==
  CASE c = ""     -> e
    [] c # "" /\ e = Absent ->
         [body |-> Absent, cond |-> c, escape |-> FALSE,
          initplan |-> wraps(o, selfRef)]
    [] OTHER ->
         [e EXCEPT !.cond = c, !.initplan = @ \/ wraps(o, selfRef)]

\* Mutated form: the permissive escape policy is taken to be enough.
orEscapeDropped(p, o, e) == e

\* Restrictive policies carry the escape: a permissive one cannot lift them.
orEscape(p, o, e) ==
  IF e # Absent /\ ~p.permissive /\ emitsServiceEscape(o)
  THEN [e EXCEPT !.escape = TRUE] ELSE e

blockers(e) == e # Absent /\ e.blocked

callsOf(e) == IF e = Absent THEN {} ELSE e.calls

-----------------------------------------------------------------------------
\* Rendering.

using(p, o, selfRef) ==
  LET e == rewriteExpr(p.using, o, selfRef)
  IN  orEscape(p, o, IF p.cmd # "INSERT"
                     THEN combineCond(cond(p, o), e, o, selfRef) ELSE e)

check(p, o, selfRef) ==
  LET e == rewriteExpr(p.check, o, selfRef)
  IN  orEscape(p, o, IF p.cmd = "INSERT" \/ e # Absent
                     THEN combineCond(cond(p, o), e, o, selfRef) ELSE e)

base(p, o, selfRef) ==
  [name |-> p.name, table |-> p.table, permissive |-> p.permissive,
   cmd |-> p.cmd, targets |-> targets(p, o),
   using |-> using(p, o, selfRef), check |-> check(p, o, selfRef)]

suffixName(name, suffix) ==
  IF Len(name) + 1 <= MaxIdent THEN Append(name, suffix)
  ELSE Append(SubSeq(name, 1, MaxIdent - 1), suffix)

mk(b, suffix, cmd, u, c) ==
  [name |-> suffixName(b.name, suffix), table |-> b.table,
   permissive |-> b.permissive, cmd |-> cmd, targets |-> b.targets,
   using |-> u, check |-> c]

\* Mutated forms: INSERT forgets that WITH CHECK defaults to USING; DELETE
\* keeps a WITH CHECK.
splitAllNoFallback(b) ==
  {mk(b, "_select", "SELECT", b.using, Absent),
   mk(b, "_insert", "INSERT", Absent, b.check),
   mk(b, "_update", "UPDATE", b.using, b.check),
   mk(b, "_delete", "DELETE", b.using, Absent)}
splitAllKeepsCheck(b) ==
  {mk(b, "_select", "SELECT", b.using, Absent),
   mk(b, "_insert", "INSERT", Absent, Qual(b, "check")),
   mk(b, "_update", "UPDATE", b.using, b.check),
   mk(b, "_delete", "DELETE", b.using, b.check)}

\* FOR ALL becomes one policy per command; INSERT inherits USING if need be.
splitAll(b) ==
  {mk(b, "_select", "SELECT", b.using, Absent),
   mk(b, "_insert", "INSERT", Absent, Qual(b, "check")),
   mk(b, "_update", "UPDATE", b.using, b.check),
   mk(b, "_delete", "DELETE", b.using, Absent)}

rendered(p, o, selfRef) ==
  LET b == base(p, o, selfRef)
  IN  IF p.cmd = "ALL" /\ ~o.noSplitAll /\ o.mode = "vanilla"
      THEN splitAll(b) ELSE {b}

\* Mutated form: each policy starts the file over.
renderPolicySQLStartsOver(sofar, new) == new

\* Each CREATE POLICY follows a DROP POLICY IF EXISTS of the same name.
renderPolicySQL(sofar, new) ==
  {e \in sofar : \A n \in new : <<e.table, e.name>> # <<n.table, n.name>>}
    \cup new

\* The commented-out policy that would give a skipped service path back.
renderSystemStub(p, o) ==
  [name |-> Append(p.name, "_system"), table |-> p.table, cmd |-> p.cmd,
   using |-> "gate", check |-> IF p.cmd \in {"ALL", "INSERT", "UPDATE"}
                              THEN "gate" ELSE Absent,
   calls |-> IF o.mode = "compat" THEN "claims" ELSE "role"]

-----------------------------------------------------------------------------
\* Files 01 and 02.

\* emitPrelude: the accessors the context schema defines.
preludeAccessors(o, u) ==
  IF o.mode = "compat" THEN Helper
  ELSE {"user_id"} \cup (u \cap {"email", "claims"})
       \cup (IF "role" \in u \/ emitsServiceEscape(o) THEN {"role"} ELSE {})
       \cup (IF emitsServiceEscape(o) THEN {"is_service"} ELSE {})

\* Mutated form: the escape's own setting is left out of the contract.
GUCContractNoEscape(o, u) ==
  IF o.mode = "compat" THEN {"request.jwt.claims"}
  ELSE {"user_id"} \cup (u \cap {"role", "email", "claims"})

\* buildGUCContract: the settings the application is told to set.
GUCContract(o, u) ==
  IF o.mode = "compat" THEN {"request.jwt.claims"}
  ELSE {"user_id"} \cup (u \cap {"email", "claims"})
       \cup (IF "role" \in u \/ emitsServiceEscape(o) THEN {"role"} ELSE {})

\* emitRolesSplit, emitRolesCapyDB, emitSingleRole: the roles created, and
\* what the runtime role becomes a member of.
createdRoles(o, compat) ==
  CASE splitOnCapyDB(o)        -> {}
    [] o.roleModel = "single"  -> compat
    [] OTHER                   -> {AppRole, "app_service"} \cup compat

\* Mutated form: signed-in roles only.
grantedRolesNoAnon(o, compat) ==
  IF splitOnCapyDB(o) THEN {} ELSE compat \cap {"authenticated"}

grantedRoles(o, compat) ==
  IF splitOnCapyDB(o) THEN {} ELSE compat \cap {"anon", "authenticated"}

noBundle == [accessors |-> {}, gucs |-> {}, roles |-> {}, granted |-> {},
             enable |-> {}, force |-> {}, escape |-> {}]

-----------------------------------------------------------------------------

Init ==
  /\ pc = "check"
  /\ cat \in Catalogs
  /\ opts \in OptionSets
  /\ outcome = [p \in cat.policies |-> "pending"]
  /\ emitted = {}
  /\ stubs = {}
  /\ rlsTables = cat.enabled \ ManagedTable
  /\ compatRoles = {}
  /\ used = {}
  /\ warnings = {}
  /\ bundle = noBundle

\* A CapyDB split bundle can use no runtime role but the platform's.
Refuse ==
  /\ pc = "check"
  /\ splitOnCapyDB(opts) /\ opts.ownAppRole
  /\ pc' = "refused"
  /\ UNCHANGED <<cat, opts, outcome, emitted, stubs, rlsTables, compatRoles,
                 used, warnings, bundle>>

Accept ==
  /\ pc = "check"
  /\ ~(splitOnCapyDB(opts) /\ opts.ownAppRole)
  /\ pc' = "loop"
  /\ UNCHANGED <<cat, opts, outcome, emitted, stubs, rlsTables, compatRoles,
                 used, warnings, bundle>>

pending == {p \in cat.policies : outcome[p] = "pending"}

\* The loop has reached policy p.
At(p) ==
  /\ pc = "loop"
  /\ p \in pending
  /\ \A q \in pending \ {p} : Precedes(p, q)

selfRef(p) == p.table \in selfRefTables(cat)

SkipManaged(p) ==
  /\ At(p)
  /\ p.table \in ManagedTable
  /\ outcome' = [outcome EXCEPT ![p] = "skipped"]
  /\ UNCHANGED <<pc, cat, opts, emitted, stubs, rlsTables, compatRoles, used,
                 warnings, bundle>>

\* What analyzeRoles leaves behind, whether or not the policy is skipped.
AnalyzeRoles(p) ==
  /\ compatRoles' = compatRoles \cup needsRoles(p, opts)
  /\ warnings' = warnings \cup roleWarnings(p, opts)

SkipForRoles(p) ==
  /\ At(p)
  /\ p.table \notin ManagedTable
  /\ skip(p, opts) # ""
  /\ AnalyzeRoles(p)
  /\ stubs' = IF skip(p, opts) = "service_denied"
              THEN stubs \cup {renderSystemStub(p, opts)} ELSE stubs
  /\ outcome' = [outcome EXCEPT ![p] = "skipped"]
  /\ UNCHANGED <<pc, cat, opts, emitted, rlsTables, used, bundle>>

\* The accessors p needs; compat mode keeps auth.* calls and counts roles only.
needs(p) ==
  IF opts.mode = "vanilla"
  THEN callsOf(p.using) \cup callsOf(p.check)
         \cup (IF scope(p) # "" THEN {"user_id"} ELSE {})
  ELSE IF ~keepsRoles(opts) /\ scope(p) # "" THEN {"role"} ELSE {}

Block(p) ==
  /\ At(p)
  /\ p.table \notin ManagedTable
  /\ skip(p, opts) = ""
  /\ blockers(p.using) \/ blockers(p.check)
  /\ AnalyzeRoles(p)
  /\ used' = used \cup needs(p)
  /\ outcome' = [outcome EXCEPT ![p] = "blocked"]
  /\ UNCHANGED <<pc, cat, opts, emitted, stubs, rlsTables, bundle>>

\* Mutated form: only the tables the history enabled are enabled.
withTableOfHistory(p) == rlsTables

\* A table is enabled once a policy of its own is in the bundle.
withTable(p) == rlsTables \cup {p.table}

Convert(p) ==
  /\ At(p)
  /\ p.table \notin ManagedTable
  /\ skip(p, opts) = ""
  /\ ~(blockers(p.using) \/ blockers(p.check))
  /\ compatRoles' = compatRoles \cup needsRoles(p, opts)
  /\ warnings' = warnings \cup roleWarnings(p, opts)
       \cup (IF p.table \in rlsTables THEN {} ELSE {<<"enabled", p.table>>})
  /\ used' = used \cup needs(p)
  /\ emitted' = renderPolicySQL(emitted, rendered(p, opts, selfRef(p)))
  /\ rlsTables' = withTable(p)
  /\ outcome' = [outcome EXCEPT ![p] = "converted"]
  /\ UNCHANGED <<pc, cat, opts, stubs, bundle>>

\* Tables the source FORCEs itself.
forcedInSource == (cat.forced \cap cat.enabled) \ ManagedTable

\* What the files written after the loop do.
assembled ==
  [accessors |-> preludeAccessors(opts, used),
   gucs      |-> GUCContract(opts, used),
   roles     |-> createdRoles(opts, compatRoles),
   granted   |-> grantedRoles(opts, compatRoles),
   enable    |-> rlsTables,
   force     |-> IF opts.roleModel = "single" THEN rlsTables ELSE {},
   escape    |-> IF emitsServiceEscape(opts) THEN rlsTables ELSE {}]

Assemble ==
  /\ pc = "loop"
  /\ pending = {}
  /\ bundle' = assembled
  /\ warnings' = warnings \cup
       (IF splitOnCapyDB(opts)
        THEN {<<"forced", t>> : t \in forcedInSource} ELSE {})
  /\ pc' = "done"
  /\ UNCHANGED <<cat, opts, outcome, emitted, stubs, rlsTables, compatRoles,
                 used>>

Next ==
  \/ Refuse
  \/ Accept
  \/ \E p \in cat.policies :
       SkipManaged(p) \/ SkipForRoles(p) \/ Block(p) \/ Convert(p)
  \/ Assemble

Spec == Init /\ [][Next]_vars

-----------------------------------------------------------------------------

RenderedExpr ==
  [body : Expr \cup {Absent}, cond : {"", "anon", "authenticated"},
   escape : BOOLEAN, initplan : BOOLEAN]

ASSUME AbsentAssumption ==
  Absent \notin [body : Expr \cup {Absent},
                 cond : {"", "anon", "authenticated", "never"},
                 escape : BOOLEAN, initplan : BOOLEAN]

RenderedPolicy ==
  [name : Seq(Symbol), table : Table \ ManagedTable, permissive : BOOLEAN,
   cmd : PolicyCmd, targets : SUBSET (SourceRole \cup {AppRole}),
   using : RenderedExpr \cup {Absent}, check : RenderedExpr \cup {Absent}]

\* Types.  Only policies of tables capyrls converts are rendered, and a table
\* row security is enabled on by the bundle is one of those tables.
TypeOK ==
  /\ pc \in {"check", "loop", "done", "refused"}
  /\ cat \in CatalogType
  /\ opts \in Options
  /\ outcome \in [cat.policies -> {"pending", "skipped", "blocked", "converted"}]
  /\ emitted \subseteq RenderedPolicy
  /\ rlsTables \in SUBSET (Table \ ManagedTable)
  /\ compatRoles \in SUBSET PseudoRole
  /\ used \in SUBSET Helper
  /\ bundle.enable \subseteq rlsTables
  /\ bundle.force \cup bundle.escape \subseteq bundle.enable

=============================================================================
