----------------------------- MODULE Deployment -----------------------------
(***************************************************************************)
(* Applying a bundle to a database that holds the source's tables: file by *)
(* file, statement by statement, with interruptions and retries, and again *)
(* from a later conversion, over what earlier bundles left there.          *)
(*                                                                         *)
(* Who applies the files decides what commits together: one simple query   *)
(* per file is one transaction (apply_live_test.go), a client that splits  *)
(* the file commits statement by statement.  Either stops at an error.     *)
(*                                                                         *)
(* Statements of one kind stand next to each other in a file; the order    *)
(* among them is left open, which covers the order they are written in.    *)
(***************************************************************************)
EXTENDS ConversionAccess

CONSTANTS
  Grains,        \* what commits together: "statement", "file"
  MaxFailures,   \* bound on interruptions
  MaxDeploys     \* bound on deployments, the first included

\* The escape's name is the converter's own.
ASSUME DeploymentAssumption ==
  /\ Grains \subseteq {"statement", "file"}
  /\ MaxFailures \in Nat /\ MaxDeploys \in Nat \ {0}
  /\ <<"capyrls_service_escape">> \notin Name

VARIABLES
  db,        \* the database, as committed
  work,      \* the database as the deploying session sees it
  before,    \* the database as this deployment found it
  at,        \* stage of the program; 0 between attempts
  left,      \* statements of the stage still to run
  hand,      \* policy dropped and not created again yet
  grain, failures, deploys

deployVars == <<db, work, before, at, left, hand, grain, failures, deploys>>

-----------------------------------------------------------------------------
\* The bundle as a program: stages <<file, kind>>, in order.

\* Mutated form: restrictive policies follow in a file of their own.
programRestrictiveLast ==
  <<<<1, "accessor">>>>
  \o (CASE opts.roleModel = "single" -> <<<<2, "force">>, <<2, "escape">>>>
        [] splitOnCapyDB(opts)       -> <<<<2, "check">>, <<2, "grant">>>>
        [] OTHER -> <<<<2, "role">>, <<2, "grant">>, <<2, "compat">>, <<2, "member">>>>)
  \o <<<<3, "enable">>, <<3, "permissive">>, <<4, "restrictive">>>>

\* Files 01, 02 and 03.
program ==
  <<<<1, "accessor">>>>
  \o (CASE opts.roleModel = "single" -> <<<<2, "force">>, <<2, "escape">>>>
        [] splitOnCapyDB(opts)       -> <<<<2, "check">>, <<2, "grant">>>>
        [] OTHER -> <<<<2, "role">>, <<2, "grant">>, <<2, "compat">>, <<2, "member">>>>)
  \o <<<<3, "enable">>, <<3, "policy">>>>

fileAt(i) == IF i \in 1..Len(program) THEN program[i][1] ELSE 0
kind      == program[at][2]

runtimeRoles == bundle.roles \cap {AppRole, "app_service"}

\* The statements of a stage, each named by what it is about.
statements(k) ==
  CASE k = "accessor"    -> bundle.accessors
    [] k = "force"       -> bundle.force
    [] k = "escape"      -> escapePolicies
    [] k = "check"       -> {AppRole}
    [] k = "role"        -> runtimeRoles
    [] k = "grant"       -> {AppRole}
    [] k = "compat"      -> bundle.roles \ runtimeRoles
    [] k = "member"      -> bundle.granted
    [] k = "enable"      -> bundle.enable
    [] k = "policy"      -> emitted
    [] k = "permissive"  -> {e \in emitted : e.permissive}
    [] k = "restrictive" -> {e \in emitted : ~e.permissive}

aboutPolicies == kind \in {"escape", "policy", "permissive", "restrictive"}

\* Mutated form: file 02 starts every table afresh.
executedAfresh(d, k, x) ==
  CASE k = "accessor" -> [d EXCEPT !.accessors = @ \cup {x}]
    [] k = "force"    -> [d EXCEPT !.forced = @ \cup {x},
                            !.policies = {e \in @ : e.table # x}]
    [] k \in {"role", "compat"} -> [d EXCEPT !.roles = @ \cup {x}]
    [] k = "grant"    -> [d EXCEPT !.reachable = @ \cup {x}]
    [] k = "member"   -> [d EXCEPT !.granted = @ \cup {x}]
    [] k = "enable"   -> [d EXCEPT !.enabled = @ \cup {x}]
    [] OTHER          -> d

\* What the statement about x does; a role is created if it is missing.
executed(d, k, x) ==
  CASE k = "accessor" -> [d EXCEPT !.accessors = @ \cup {x}]
    [] k = "force"    -> [d EXCEPT !.forced = @ \cup {x}]
    [] k \in {"role", "compat"} -> [d EXCEPT !.roles = @ \cup {x}]
    [] k = "grant"    -> [d EXCEPT !.reachable = @ \cup {x}]
    [] k = "member"   -> [d EXCEPT !.granted = @ \cup {x}]
    [] k = "enable"   -> [d EXCEPT !.enabled = @ \cup {x}]
    [] OTHER          -> d

sameName(e, f) == e.table = f.table /\ e.name = f.name

\* Mutated form: CREATE POLICY without the DROP before it.
droppedNothing(d, x) == d

\* DROP POLICY IF EXISTS.  Mutated form: on whatever table.
withoutNameAnywhere(d, x) == [d EXCEPT !.policies = {e \in @ : e.name # x.name}]

withoutNamesake(d, x) == [d EXCEPT !.policies = {e \in @ : ~sameName(e, x)}]

\* The accessors a rendered policy calls.
callsOfPolicy(e) == callsIn(e.using) \cup callsIn(e.check)

\* PostgreSQL runs the statement: the roles it names exist, a policy's name is
\* free and the functions it calls are there.
accepted(d, k, x) ==
  CASE k \in {"check", "grant"} -> x \in d.roles
    [] aboutPolicies -> /\ x.targets \subseteq d.roles
                        /\ callsOfPolicy(x) \subseteq d.accessors
                        /\ \A e \in d.policies : ~sameName(e, x)
    [] OTHER -> TRUE

-----------------------------------------------------------------------------

\* Tables without policies, and which of the project's own roles exist.
fresh(roles, enabled, forced) ==
  [policies |-> {}, accessors |-> {}, roles |-> roles, granted |-> {},
   reachable |-> {}, enabled |-> enabled, forced |-> forced]

DeployInit ==
  /\ Init
  /\ db \in UNION {{fresh(R, cat.enabled, cat.forced), fresh(R, {}, {})} :
                     R \in {{}, CustomRole}}
  /\ work = db /\ before = db
  /\ at = 0 /\ left = {} /\ hand = {}
  /\ grain \in Grains
  /\ failures = 0 /\ deploys = 1

ConversionStep == Next /\ UNCHANGED deployVars

applied == pc = "done" /\ at = Len(program) + 1

Begin ==
  /\ pc = "done" /\ at = 0
  /\ at' = 1
  /\ left' = statements(program[1][2])
  /\ UNCHANGED <<vars, db, work, before, hand, grain, failures, deploys>>

running == at \in 1..Len(program)

Execute(x) ==
  /\ running /\ ~aboutPolicies
  /\ x \in left
  /\ accepted(work, kind, x)
  /\ work' = executed(work, kind, x)
  /\ db' = IF grain = "statement" THEN work' ELSE db
  /\ left' = left \ {x}
  /\ UNCHANGED <<vars, before, at, hand, grain, failures, deploys>>

Drop(x) ==
  /\ running /\ aboutPolicies
  /\ x \in left /\ hand = {}
  /\ work' = withoutNamesake(work, x)
  /\ db' = IF grain = "statement" THEN work' ELSE db
  /\ left' = left \ {x}
  /\ hand' = {x}
  /\ UNCHANGED <<vars, before, at, grain, failures, deploys>>

Create(x) ==
  /\ running
  /\ x \in hand
  /\ accepted(work, kind, x)
  /\ work' = [work EXCEPT !.policies = @ \cup {x}]
  /\ db' = IF grain = "statement" THEN work' ELSE db
  /\ hand' = {}
  /\ UNCHANGED <<vars, before, at, left, grain, failures, deploys>>

\* The stage is over; so is the file, when the next stage is in another.
NextStage ==
  /\ running
  /\ left = {} /\ hand = {}
  /\ at' = at + 1
  /\ left' = IF at' <= Len(program) THEN statements(program[at'][2]) ELSE {}
  /\ db' = IF fileAt(at') # fileAt(at) THEN work ELSE db
  /\ UNCHANGED <<vars, work, before, hand, grain, failures, deploys>>

\* Whatever has not been committed is rolled back.
Stop ==
  /\ at' = 0 /\ left' = {} /\ hand' = {}
  /\ work' = db
  /\ UNCHANGED <<vars, db, before, grain, deploys>>

\* The roles file raises, or PostgreSQL refuses a policy.
Fail ==
  /\ running
  /\ \/ \E x \in hand : ~accepted(work, kind, x)
     \/ ~aboutPolicies /\ \E x \in left : ~accepted(work, kind, x)
  /\ Stop
  /\ UNCHANGED failures

\* The connection is lost, or the operator gives up for now.
Interrupt ==
  /\ running /\ failures < MaxFailures
  /\ failures' = failures + 1
  /\ Stop

\* The roles the bundle leaves to others: the runtime role of CapyDB, which
\* the platform enables, and the project's own.
awaited == CustomRole \cup (IF splitOnCapyDB(opts) THEN {AppRole} ELSE {})

ProvideRole(r) ==
  /\ r \in awaited \ db.roles
  /\ db' = [db EXCEPT !.roles = @ \cup {r}]
  /\ work' = [work EXCEPT !.roles = @ \cup {r}]
  /\ UNCHANGED <<vars, before, at, left, hand, grain, failures, deploys>>

\* A second deployment: of the same bundle, or of a later conversion.
Reapply ==
  /\ applied /\ deploys < MaxDeploys
  /\ deploys' = deploys + 1
  /\ before' = db
  /\ at' = 0
  /\ UNCHANGED <<vars, db, work, left, hand, grain, failures>>

Reconvert ==
  /\ applied /\ deploys < MaxDeploys
  /\ deploys' = deploys + 1
  /\ before' = db
  /\ at' = 0
  /\ pc' = "check"
  /\ cat' \in Catalogs
  /\ outcome' = [p \in cat'.policies |-> "pending"]
  /\ rlsTables' = cat'.enabled \ ManagedTable
  /\ emitted' = {} /\ stubs' = {} /\ compatRoles' = {} /\ used' = {}
  /\ warnings' = {} /\ bundle' = noBundle
  /\ UNCHANGED <<opts, db, work, left, hand, grain, failures>>

Statement == \/ \E x \in left : Execute(x) \/ Drop(x)
             \/ \E x \in hand : Create(x)
             \/ NextStage
             \/ Fail

DeployNext ==
  \/ ConversionStep
  \/ Begin
  \/ Statement
  \/ Interrupt
  \/ \E r \in awaited : ProvideRole(r)
  \/ Reapply
  \/ Reconvert

allVars == <<vars, deployVars>>

\* Whoever deploys goes on, tries again after a failure and sees to the roles
\* a file asks for; interruptions and later deployments just happen.
DeploySpec ==
  /\ DeployInit /\ [][DeployNext]_allVars
  /\ WF_allVars(ConversionStep)
  /\ WF_allVars(Begin)
  /\ WF_allVars(Statement)
  /\ WF_allVars(\E r \in awaited : ProvideRole(r))

-----------------------------------------------------------------------------
\* Properties.

\* Types.  Only the session of a deployment sees more than was committed, and
\* the bundle creates no role but the runtime roles and Supabase's three.
DeployTypeOK ==
  /\ db.roles \subseteq CustomRole \cup PseudoRole \cup {AppRole, "app_service"}
  /\ db.enabled \cup db.forced \subseteq Table
  /\ at \in 0..Len(program) + 1
  /\ Cardinality(hand) <= 1
  /\ failures \in 0..MaxFailures /\ deploys \in 1..MaxDeploys
  /\ grain = "statement" => work = db
  /\ ~running => left = {} /\ hand = {} /\ work = db
  /\ \A e, f \in db.policies : sameName(e, f) => e = f

\* A web caller reaches rows through a role that was granted the tables.
Reaches(d, c, t, cmd, side) ==
  /\ opts.roleModel = "split" => AppRole \in d.reachable
  /\ DbAdmits(d, c, t, cmd, side)

\* Every policy a deployment found on t goes by a name of the bundle.
covered(t) ==
  \A e \in policiesOn(before, t) : \E f \in target.policies : sameName(e, f)

\* The table was restored FORCEd exactly if the bundle counts on it.
flagsAgree(t) == t \in db.forced <=> t \in target.forced

\* Once a deployment is through, after any number of failed attempts and over
\* any earlier bundle whose names it covers, the database lets through exactly
\* whom the converted policies let through (README: the bundle is applied in
\* order; emit.go: "apply this bundle again").
AppliedAsConverted ==
  applied =>
    \A t \in bundle.enable : covered(t) /\ flagsAgree(t) =>
      \A c \in Caller, cmd \in Cmds : Web(c) \/ Service(c) =>
        \A side \in SidesOf(cmd) :
          DbAdmits(db, c, t, cmd, side) <=> TargetAdmits(c, t, cmd, side)

\* At no moment of a deployment does a web caller reach a row of a protected
\* table that it reached neither before nor is meant to reach after.  Where
\* statements commit one by one this needs a table without restrictive
\* policies: between DROP and CREATE one of them is missing.
NoExposure ==
  pc = "done" =>
    \A t \in before.enabled :
      LET restricts == \E e \in policiesOn(before, t) \cup policiesOn(target, t) :
                         ~e.permissive
      IN  ~restricts \/ (grain = "file" /\ covered(t)) =>
            \A c \in Caller, cmd \in Cmds : Web(c) =>
              \A side \in SidesOf(cmd) :
                Reaches(db, c, t, cmd, side) =>
                  Reaches(before, c, t, cmd, side) \/ TargetAdmits(c, t, cmd, side)

\* apply_live_test.go: "Re-applying is safe (a second deploy of the same
\* bundle)".  Applied over itself file by file, a bundle changes nobody's
\* access at any moment, the service path's included, wherever it fails.
ReapplySafe ==
  pc = "done" /\ grain = "file" /\ target.policies \subseteq before.policies =>
    \A t \in bundle.enable \cap before.enabled : t \in before.forced <=> t \in db.forced =>
      \A c \in Caller, cmd \in Cmds : Web(c) \/ Service(c) =>
        \A side \in SidesOf(cmd) :
          DbAdmits(db, c, t, cmd, side) <=> DbAdmits(before, c, t, cmd, side)

\* Every deployment goes through in the end, or is refused.
EventuallyApplied == <>[](applied \/ pc = "refused")

=============================================================================
