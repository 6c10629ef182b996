-------------------------- MODULE ConversionAccess --------------------------
(***************************************************************************)
(* What a conversion does to access: who could reach a row under the       *)
(* source policies on Supabase, who can once the bundle is applied, and    *)
(* the properties that relate the two.                                     *)
(*                                                                         *)
(* A caller is known by the role Supabase runs it as and by whether its    *)
(* token carries a subject.  The application is assumed to keep the        *)
(* contract of the report: it sets the user id (or the claims) for exactly *)
(* the callers that had one, and the service context for service_role.     *)
(***************************************************************************)
EXTENDS Conversion

CONSTANTS
  roleOf,     \* the role Supabase runs a caller as
  hasUser     \* whether the caller's token has a subject

ASSUME CallerAssumption ==
  /\ roleOf \in [Caller -> PseudoRole \cup CustomRole]
  /\ hasUser \in [Caller -> BOOLEAN]
  /\ \A c \in Caller : /\ roleOf[c] = "authenticated" => hasUser[c]
                       /\ roleOf[c] = "anon" => ~hasUser[c]

Web(c)     == roleOf[c] \in {"anon", "authenticated"}
Service(c) == roleOf[c] = "service_role"

-----------------------------------------------------------------------------
\* Before: Supabase.  service_role has BYPASSRLS.

asWritten(p) ==
  [table |-> p.table, cmd |-> p.cmd, permissive |-> p.permissive,
   targets |-> IF hasPublic(p) THEN {} ELSE p.roles,
   using |-> p.using, check |-> p.check]

sourceOn(k, t) == {asWritten(p) : p \in {q \in k.policies : q.table = t}}

\* Whether catalog k, put in force on Supabase, lets c through.
Permits(k, c, t, cmd, side) ==
  \/ Service(c)
  \/ t \notin k.enabled
  \/ Admits(sourceOn(k, t), cmd, side, {roleOf[c]},
            {e \in Expr : c \in e.truth})

SourceAdmits(c, t, cmd, side) == Permits(cat, c, t, cmd, side)

-----------------------------------------------------------------------------
\* After: a database with the bundle applied.

\* The permissive FOR ALL policy emitSingleRole puts on every table.
serviceEscapeOn(t) ==
  LET gate == [body |-> Absent, cond |-> "never", escape |-> TRUE,
               initplan |-> FALSE]
  IN  [name |-> <<"capyrls_service_escape">>, table |-> t,
       permissive |-> TRUE, cmd |-> "ALL", targets |-> {},
       using |-> gate, check |-> gate]

escapePolicies == {serviceEscapeOn(t) : t \in bundle.escape}

\* FORCE written in the source comes along with the table, and takes effect
\* once row security is enabled.
forcedInTarget == bundle.force \cup (cat.forced \ ManagedTable)

\* What the bundle makes of a database that holds the source's tables.
target ==
  [policies |-> emitted \cup escapePolicies, enabled |-> bundle.enable,
   forced |-> forcedInTarget, roles |-> bundle.roles,
   granted |-> bundle.granted]

\* The database role a caller's session runs as, with its memberships.
sessionRoles(d, c) ==
  CASE Web(c) /\ opts.roleModel = "split"     -> {AppRole} \cup d.granted
    [] Service(c) /\ opts.roleModel = "split" ->
         IF splitOnCapyDB(opts) THEN {"owner"}
         ELSE {"app_service"} \cup (d.roles \cap {"service_role"})
    [] roleOf[c] \in CustomRole               -> {roleOf[c]}
    [] OTHER                                  -> {"owner"}

bypasses(d, c, t) == \/ "app_service" \in sessionRoles(d, c)
                     \/ "owner" \in sessionRoles(d, c) /\ t \notin d.forced

condHolds(k, c) ==
  CASE k = ""              -> TRUE
    [] k = "authenticated" -> IF opts.mode = "compat"
                              THEN roleOf[c] = "authenticated" ELSE hasUser[c]
    [] k = "anon"          -> IF opts.mode = "compat"
                              THEN roleOf[c] = "anon" ELSE ~hasUser[c]
    [] OTHER               -> FALSE

renderedHolds(e, c) ==
  \/ e.escape /\ Service(c)
  \/ condHolds(e.cond, c) /\ (e.body = Absent \/ c \in e.body.truth)

policiesOn(d, t) == {e \in d.policies : e.table = t}

\* Whether database d lets c through.
DbAdmits(d, c, t, cmd, side) ==
  LET there == policiesOn(d, t)
  IN  \/ bypasses(d, c, t)
      \/ t \notin d.enabled
      \/ Admits(there, cmd, side, sessionRoles(d, c),
                {e \in ClausesOf(there) : renderedHolds(e, c)})

TargetAdmits(c, t, cmd, side) == DbAdmits(target, c, t, cmd, side)

-----------------------------------------------------------------------------
\* When a table's policies port mechanically.

on(t) == {p \in cat.policies : p.table = t}

\* A role predicate is ANDed into a clause that was not written.
fillsAbsent(p) ==
  /\ cond(p, opts) # ""
  /\ IF p.cmd = "INSERT" THEN p.check = Absent ELSE p.using = Absent

\* A restrictive policy written for half of the web callers.
scopedRestrictive(p) == ~p.permissive /\ cond(p, opts) # ""

\* Two policies of one table render to one name.
clashOn(t) ==
  \E p, q \in on(t) :
    /\ p # q
    /\ outcome[p] = "converted" /\ outcome[q] = "converted"
    /\ \E m \in rendered(p, opts, selfRef(p)), n \in rendered(q, opts, selfRef(q)) :
         m.name = n.name

convertible(t) == t \in cat.enabled \ ManagedTable /\ ~clashOn(t)

mechanical(t) ==
  /\ convertible(t)
  /\ \A p \in on(t) : /\ outcome[p] # "blocked" /\ ~mixed(p)
                      /\ ~fillsAbsent(p) /\ ~scopedRestrictive(p)

narrowing(t) ==
  /\ convertible(t)
  /\ \A p \in on(t) :
       /\ ~p.permissive => outcome[p] # "blocked" /\ ~mixed(p)
       /\ p.permissive /\ outcome[p] = "converted" => ~mixed(p) /\ ~fillsAbsent(p)

converted == pc = "done"

-----------------------------------------------------------------------------
\* Properties.

\* Web callers keep exactly the access they had, command by command and side
\* by side, on a table whose policies all port mechanically (README: policies
\* are converted, what cannot port mechanically is surfaced).
WebAccessPreserved ==
  converted /\ ~keepsRoles(opts) =>
    \A t \in Table : mechanical(t) =>
      \A c \in Caller, cmd \in Cmds : Web(c) =>
        \A side \in SidesOf(cmd) :
          TargetAdmits(c, t, cmd, side) <=> SourceAdmits(c, t, cmd, side)

\* Whatever was skipped, blocked or scoped, no web caller gains a row the
\* source policies denied: analyzeRoles, combineCond and splitAll only narrow.
NoWidening ==
  converted /\ ~keepsRoles(opts) =>
    \A t \in Table : narrowing(t) =>
      \A c \in Caller, cmd \in Cmds : Web(c) =>
        \A side \in SidesOf(cmd) :
          TargetAdmits(c, t, cmd, side) => SourceAdmits(c, t, cmd, side)

\* Under compat and split on plain PostgreSQL the runtime role is a member of
\* anon and authenticated (README, compat mode): callers may gain, none loses.
CompatKeepsAccess ==
  converted /\ keepsRoles(opts) =>
    \A t \in Table :
      /\ convertible(t)
      /\ \A p \in on(t) :
           /\ outcome[p] # "blocked"
           /\ ~p.permissive => scope(p) = ""
      => \A c \in Caller, cmd \in Cmds : Web(c) =>
           \A side \in SidesOf(cmd) :
             SourceAdmits(c, t, cmd, side) => TargetAdmits(c, t, cmd, side)

hasServicePath(t) ==
  IF opts.roleModel = "single" THEN ~opts.noServiceEscape
  ELSE opts.target = "capydb" => t \notin cat.forced

\* Where a configuration has a service path, the service caller passes every
\* command on every table the bundle protects, restrictive policies, absent
\* clauses and per-command splits included, as BYPASSRLS did.
ServicePathSurvives ==
  converted =>
    \A t \in bundle.enable, c \in Caller, cmd \in Cmds :
      Service(c) /\ hasServicePath(t) =>
        \A side \in SidesOf(cmd) : TargetAdmits(c, t, cmd, side)

\* PostgreSQL accepts every policy of the bundle: its clauses fit its command
\* and every role of its TO list exists when file 03 runs.
BundleApplies ==
  converted =>
    \A e \in emitted :
      /\ Creatable(e)
      /\ e.targets \subseteq CustomRole \cup bundle.roles \cup
           (IF splitOnCapyDB(opts) THEN {AppRole} ELSE {})

\* The accessors a rendered expression calls.
callsIn(e) ==
  IF e = Absent THEN {}
  ELSE callsOf(e.body)
       \cup (IF e.cond # "" THEN {IF opts.mode = "compat" THEN "role"
                                  ELSE "user_id"} ELSE {})
       \cup (IF e.escape THEN {serviceEscapePredicate(opts)} ELSE {})

setting(a) == CASE opts.mode = "compat" -> "request.jwt.claims"
                [] opts.mode # "compat" /\ a = "is_service" -> "role"
                [] OTHER                -> a

\* Every accessor the policies call is defined by the prelude, and the setting
\* it reads is in the contract the report hands the application.
ContextComplete ==
  converted =>
    LET called == (UNION {callsIn(e.using) \cup callsIn(e.check) : e \in emitted})
          \cup (IF bundle.escape # {} THEN {serviceEscapePredicate(opts)}
                ELSE {})
    IN  /\ called \subseteq bundle.accessors
        /\ {setting(a) : a \in called} \subseteq bundle.gucs

\* The policies of a service path, the service_role of their own aside.
serviceOnly(p) == /\ p.roles \ InternalRole = {"service_role"}
                  /\ p.table \notin ManagedTable

\* A policy in the bundle is in force: its table has row security enabled and,
\* when the application connects as the owner, FORCEd.
inForce(e) == /\ e.table \in bundle.enable
              /\ opts.roleModel = "single" => e.table \in bundle.force

\* The report is truthful: what it calls converted is in the bundle, and in
\* force even if no statement of the source enabled its table, unless a later
\* rendering took its name; the bundle holds nothing else, and a policy for
\* service_role alone is offered for re-grant exactly when the bundle
\* leaves that caller no path.
ReportMatchesBundle ==
  converted =>
    LET kept == {p \in cat.policies : outcome[p] = "converted"}
        all  == UNION {rendered(p, opts, selfRef(p)) : p \in kept}
    IN  /\ emitted \subseteq all /\ \A e \in emitted : inForce(e)
        /\ \A e \in all : \E f \in emitted : f.table = e.table /\ f.name = e.name
        /\ \A p \in cat.policies : outcome[p] # "pending"
        /\ {<<s.table, s.name>> : s \in stubs} =
             IF opts.roleModel = "single" /\ ~emitsServiceEscape(opts)
             THEN {<<p.table, Append(p.name, "_system")>> :
                     p \in {q \in cat.policies : serviceOnly(q)}}
             ELSE {}

-----------------------------------------------------------------------------
\* Claims of the documentation that the code does not meet.

\* emit.go: "The split is semantics-preserving"; README: nothing is silently
\* dropped.  Every converted policy survives in the bundle.
NothingOverwritten == converted => \A t \in Table : ~clashOn(t)

\* README: nothing is silently mistranslated.  A policy the report calls
\* converted, alone on its table, admits no web caller that it did not admit.
ConvertedNeverWidens ==
  converted /\ ~keepsRoles(opts) =>
    \A p \in cat.policies :
      on(p.table) = {p} /\ p.permissive /\ outcome[p] = "converted"
        /\ ~mixed(p) /\ p.table \in cat.enabled =>
        \A c \in Caller, cmd \in Cmds : Web(c) =>
          \A side \in SidesOf(cmd) : TargetAdmits(c, p.table, cmd, side)
                                       => SourceAdmits(c, p.table, cmd, side)

\* README: nothing is silently mistranslated.  A converted restrictive policy
\* leaves alone the callers its TO list left alone.
RestrictiveScopeKept ==
  converted /\ ~keepsRoles(opts) =>
    \A t \in Table :
      /\ convertible(t)
      /\ \A p \in on(t) : outcome[p] = "converted" /\ ~mixed(p)
                            /\ ~(p.permissive /\ fillsAbsent(p))
      => \A c \in Caller, cmd \in Cmds : Web(c) =>
           \A side \in SidesOf(cmd) :
             SourceAdmits(c, t, cmd, side) => TargetAdmits(c, t, cmd, side)

=============================================================================
