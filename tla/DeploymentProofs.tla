-------------------------- MODULE DeploymentProofs --------------------------
(***************************************************************************)
(* Deployments of any bundles, over any number of earlier ones, with any   *)
(* number of failures: what the database lets through while one is under   *)
(* way and once it is.                                                     *)
(*                                                                         *)
(* The invariant follows the program through its stages: what the stages   *)
(* so far have done holds in the session's database, and a policy is one   *)
(* the deployment found or one of the bundle.                              *)
(***************************************************************************)
EXTENDS AccessProofs, Deployment, FiniteSetTheorems

EscapeName == <<"capyrls_service_escape">>

\* What a database holds, in the types of the bundle.
Database ==
  [policies : SUBSET (RenderedPolicy \cup {serviceEscapeOn(t) : t \in Table}),
   accessors : SUBSET (Helper \cup {"is_service"}),
   roles : SUBSET (CustomRole \cup PseudoRole \cup {AppRole, "app_service"}),
   granted : SUBSET WebRoles, reachable : SUBSET {AppRole},
   enabled : SUBSET Table, forced : SUBSET Table]

\* The escape's name belongs to the escape.
Named(d) == \A e \in d.policies : e.name = EscapeName => e = serviceEscapeOn(e.table)

Unique(policies) == \A e, f \in policies : sameName(e, f) => e = f

\* A policy for a Supabase role or for the runtime role is only there once the
\* runtime role is a member of the one and has been granted the tables.
Backed(d) ==
  /\ \A e \in d.policies : e.targets \cap WebRoles \subseteq d.granted
  /\ opts.roleModel = "split" /\ d.policies # {} => AppRole \in d.reachable

Sound(d) == d \in Database /\ Named(d) /\ Unique(d.policies) /\ Backed(d)

\* All but the policies only ever grows.
Grows(d, e) ==
  /\ d.accessors \subseteq e.accessors /\ d.roles \subseteq e.roles
  /\ d.granted \subseteq e.granted /\ d.reachable \subseteq e.reachable
  /\ d.enabled \subseteq e.enabled /\ d.forced \subseteq e.forced

-----------------------------------------------------------------------------
\* The inductive invariant.

\* The session's position in the program.
Placed ==
  /\ at \in 0..Len(program) + 1
  /\ failures \in 0..MaxFailures /\ deploys \in 1..MaxDeploys
  /\ grain \in Grains
  /\ pc # "done" => at = 0
  /\ left \subseteq (IF running THEN statements(kind) ELSE {})
  /\ hand # {} => running /\ aboutPolicies
                  /\ \E x \in statements(kind) \ left : hand = {x}
  /\ ~running => work = db
  /\ grain = "statement" => work = db

\* The deployment so far only adds, but for the policies it replaces.
Added ==
  /\ Grows(before, db) /\ Grows(db, work)
  /\ IF pc = "done"
     THEN db.policies \cup work.policies \subseteq before.policies \cup target.policies
     ELSE db.policies = before.policies

\* Statement x of kind k has had its effect.
Effect(d, k, x) ==
  CASE k = "accessor" -> x \in d.accessors
    [] k = "force"    -> x \in d.forced
    [] k \in {"role", "compat"} -> x \in d.roles
    [] k = "grant"    -> x \in d.reachable
    [] k = "member"   -> x \in d.granted
    [] k = "enable"   -> x \in d.enabled
    [] k \in {"escape", "policy"} -> x \in d.policies
    [] OTHER          -> TRUE

\* The stages passed have had their effect, and so has what is not left of the
\* stage at hand.
Progress ==
  \A i \in 1..Len(program) : \A x \in statements(program[i][2]) :
    i < at \/ (i = at /\ x \notin left \cup hand) =>
      Effect(work, program[i][2], x)

\* But for the escape, d has the policies this deployment found.
AsFound(d) ==
  \A e \in d.policies \cup before.policies :
    e.name # EscapeName => (e \in d.policies <=> e \in before.policies)

\* File by file, the policies change all at once, with the last file.
ByFile ==
  grain = "file" =>
    /\ at <= Len(program) => AsFound(db)
    /\ at < Len(program) => AsFound(work)

\* A bundle over itself replaces each policy by its equal.
Again ==
  grain = "file" /\ pc = "done" /\ target.policies \subseteq before.policies =>
    db.policies = before.policies /\ work.policies = before.policies \ hand

DInv ==
  /\ Inv /\ Unique(emitted)
  /\ Sound(db) /\ Sound(work) /\ Sound(before)
  /\ Placed /\ Added /\ Progress /\ ByFile /\ Again

-----------------------------------------------------------------------------
\* The program.

Kind == {"accessor", "force", "escape", "check", "role", "grant", "compat",
         "member", "enable", "policy"}

\* Its last two stages are the policies' file; what the policies need is
\* granted before.
ProgramShape(s) ==
  LET n == Len(s)
  IN  /\ n \in Nat /\ n >= 5 /\ DOMAIN s = 1..n
      /\ \A i \in 1..n : s[i][2] \in Kind
      /\ \A i, j \in 1..n : s[i][2] = s[j][2] => i = j
      /\ \A i \in 1..n : s[i][2] = "policy" <=> i = n
      /\ \A i \in 1..n : s[i][2] = "escape" => i < n - 1
      /\ s[n - 1][2] = "enable"
      /\ \A i \in 1..n : s[i][1] = 3 <=> i >= n - 1
      /\ \A i \in 1..n : s[i][1] # 0
      /\ opts.roleModel = "split" => \E i \in 1..n - 2 : s[i][2] = "grant"
      /\ keepsRoles(opts) => \E i \in 1..n - 2 : s[i][2] = "member"
      /\ opts.roleModel = "single" => \E i \in 1..n - 2 : s[i][2] = "escape"

\* A sequence written in parts.
LEMMA InParts ==
  ASSUME NEW S, NEW u \in Seq(S), NEW v \in Seq(S), NEW w \in Seq(S), NEW s \in Seq(S),
         Len(s) = Len(u) + Len(v) + Len(w),
         \A i \in 1..Len(u) : s[i] = u[i],
         \A i \in 1..Len(v) : s[Len(u) + i] = v[i],
         \A i \in 1..Len(w) : s[Len(u) + Len(v) + i] = w[i]
  PROVE  u \o v \o w = s
<1> DEFINE r == u \o v
<1>1. /\ r \in Seq(S) /\ Len(r) = Len(u) + Len(v)
      /\ \A i \in 1..Len(r) : r[i] = IF i <= Len(u) THEN u[i] ELSE v[i - Len(u)]
  BY ConcatProperties
<1>2. Len(u) \in Nat /\ Len(v) \in Nat /\ Len(w) \in Nat
  OBVIOUS
<1>3. \A i \in 1..Len(r) : r[i] = s[i]
  <2> SUFFICES ASSUME NEW i \in 1..Len(r) PROVE r[i] = s[i]
    OBVIOUS
  <2>1. CASE i <= Len(u)
    BY <1>1, <1>2, <2>1
  <2>2. CASE i > Len(u)
    <3>1. i - Len(u) \in 1..Len(v) /\ Len(u) + (i - Len(u)) = i
      BY <1>1, <1>2, <2>2
    <3> QED BY <1>1, <1>2, <2>2, <3>1
  <2> QED BY <1>1, <1>2, <2>1, <2>2
<1> HIDE DEF r
<1>4. /\ r \o w \in Seq(S) /\ Len(r \o w) = Len(r) + Len(w)
      /\ \A i \in 1..Len(r) + Len(w) :
           (r \o w)[i] = IF i <= Len(r) THEN r[i] ELSE w[i - Len(r)]
  BY <1>1, ConcatProperties
<1>5. \A i \in 1..Len(s) : (r \o w)[i] = s[i]
  <2> SUFFICES ASSUME NEW i \in 1..Len(s) PROVE (r \o w)[i] = s[i]
    OBVIOUS
  <2>1. CASE i <= Len(r)
    BY <1>1, <1>2, <1>3, <1>4, <2>1
  <2>2. CASE i > Len(r)
    <3>1. PICK j \in 1..Len(w) : i = Len(u) + Len(v) + j
      <4>1. i - Len(r) \in 1..Len(w) /\ Len(u) + Len(v) + (i - Len(r)) = i
        BY <1>1, <1>2, <2>2
      <4> QED BY <4>1
    <3>2. s[i] = w[j]
      BY <3>1
    <3>3. (r \o w)[i] = w[i - Len(r)] /\ i - Len(r) = j
      BY <1>1, <1>2, <1>4, <2>2, <3>1
    <3> QED BY <3>2, <3>3
  <2> QED BY <1>1, <1>2, <2>1, <2>2
<1> QED BY <1>1, <1>4, <1>5, SeqEqual DEF r

LEMMA FiveParts ==
  ASSUME NEW a, NEW b, NEW c, NEW d, NEW e
  PROVE  <<a>> \o <<b, c>> \o <<d, e>> = <<a, b, c, d, e>>
<1> DEFINE S == {a, b, c, d, e}
           u == <<a>>
           v == <<b, c>>
           w == <<d, e>>
           s == <<a, b, c, d, e>>
<1>1. u \in Seq(S) /\ v \in Seq(S) /\ w \in Seq(S) /\ s \in Seq(S)
  OBVIOUS
<1>2. Len(u) = 1 /\ Len(v) = 2 /\ Len(w) = 2 /\ Len(s) = 5
  OBVIOUS
<1>3. /\ \A i \in 1..1 : s[i] = u[i]
      /\ \A i \in 1..2 : s[1 + i] = v[i]
      /\ \A i \in 1..2 : s[1 + 2 + i] = w[i]
  OBVIOUS
<1> HIDE DEF S, u, v, w, s
<1>4. /\ Len(s) = Len(u) + Len(v) + Len(w)
      /\ \A i \in 1..Len(u) : s[i] = u[i]
      /\ \A i \in 1..Len(v) : s[Len(u) + i] = v[i]
      /\ \A i \in 1..Len(w) : s[Len(u) + Len(v) + i] = w[i]
  BY <1>2, <1>3
<1>5. u \o v \o w = s
  BY <1>1, <1>4, InParts
<1> QED BY <1>5 DEF u, v, w, s

LEMMA SevenParts ==
  ASSUME NEW a, NEW b, NEW c, NEW d, NEW e, NEW f, NEW g
  PROVE  <<a>> \o <<b, c, d, e>> \o <<f, g>> = <<a, b, c, d, e, f, g>>
<1> DEFINE S == {a, b, c, d, e, f, g}
           u == <<a>>
           v == <<b, c, d, e>>
           w == <<f, g>>
           s == <<a, b, c, d, e, f, g>>
<1>1. u \in Seq(S) /\ v \in Seq(S) /\ w \in Seq(S) /\ s \in Seq(S)
  OBVIOUS
<1>2. Len(u) = 1 /\ Len(v) = 4 /\ Len(w) = 2 /\ Len(s) = 7
  OBVIOUS
<1>3. /\ \A i \in 1..1 : s[i] = u[i]
      /\ \A i \in 1..4 : s[1 + i] = v[i]
      /\ \A i \in 1..2 : s[1 + 4 + i] = w[i]
  OBVIOUS
<1> HIDE DEF S, u, v, w, s
<1>4. /\ Len(s) = Len(u) + Len(v) + Len(w)
      /\ \A i \in 1..Len(u) : s[i] = u[i]
      /\ \A i \in 1..Len(v) : s[Len(u) + i] = v[i]
      /\ \A i \in 1..Len(w) : s[Len(u) + Len(v) + i] = w[i]
  BY <1>2, <1>3
<1>5. u \o v \o w = s
  BY <1>1, <1>4, InParts
<1> QED BY <1>5 DEF u, v, w, s

LEMMA Program == ASSUME Inv PROVE ProgramShape(program)
<1>1. opts.roleModel \in {"split", "single"}
  BY OptionsAssumption DEF Inv, Typing, Options
<1>2. CASE opts.roleModel = "single"
  <2> DEFINE s == <<<<1, "accessor">>, <<2, "force">>, <<2, "escape">>,
                    <<3, "enable">>, <<3, "policy">>>>
  <2>1. program = s
    BY <1>2, FiveParts DEF program, splitOnCapyDB
  <2>2. Len(s) = 5 /\ DOMAIN s = 1..5
    OBVIOUS
  <2>3. ProgramShape(s)
    BY <1>2, <2>2 DEF ProgramShape, Kind, keepsRoles
  <2> QED BY <2>1, <2>3
<1>3. CASE splitOnCapyDB(opts)
  <2> DEFINE s == <<<<1, "accessor">>, <<2, "check">>, <<2, "grant">>,
                    <<3, "enable">>, <<3, "policy">>>>
  <2>1. opts.roleModel = "split" /\ ~keepsRoles(opts)
    BY <1>3 DEF splitOnCapyDB, keepsRoles
  <2>2. program = s
    BY <1>3, <2>1, FiveParts DEF program
  <2>3. Len(s) = 5 /\ DOMAIN s = 1..5
    OBVIOUS
  <2>4. ProgramShape(s)
    BY <2>1, <2>3 DEF ProgramShape, Kind
  <2> QED BY <2>2, <2>4
<1>4. CASE opts.roleModel = "split" /\ ~splitOnCapyDB(opts)
  <2> DEFINE s == <<<<1, "accessor">>, <<2, "role">>, <<2, "grant">>,
                    <<2, "compat">>, <<2, "member">>,
                    <<3, "enable">>, <<3, "policy">>>>
  <2>1. program = s
    BY <1>4, SevenParts DEF program
  <2>2. Len(s) = 7 /\ DOMAIN s = 1..7
    OBVIOUS
  <2>3. ProgramShape(s)
    BY <1>4, <2>2 DEF ProgramShape, Kind
  <2> QED BY <2>1, <2>3
<1> QED BY <1>1, <1>2, <1>3, <1>4

LEMMA ProgramLength == ASSUME Inv PROVE Len(program) \in Nat /\ Len(program) >= 5
BY Program DEF ProgramShape

-----------------------------------------------------------------------------
\* The bundle.

LEMMA SuffixedName ==
  ASSUME NEW name \in Seq(Symbol), NEW s \in Suffix
  PROVE  suffixName(name, s) # EscapeName
<1>1. s \in Symbol /\ s # "capyrls_service_escape"
  BY DEF Symbol, Suffix
<1>2. ASSUME NEW x \in Seq(Symbol) PROVE Append(x, s) # EscapeName
  <2>1. /\ Len(Append(x, s)) = Len(x) + 1
        /\ Append(x, s)[Len(x) + 1] = s
    BY <1>1, AppendProperties
  <2>2. Len(EscapeName) = 1 /\ EscapeName[1] = "capyrls_service_escape"
    BY DEF EscapeName
  <2>3. Len(x) \in Nat
    OBVIOUS
  <2> QED BY <1>1, <2>1, <2>2, <2>3
<1>3. CASE Len(name) + 1 <= MaxIdent
  BY <1>2, <1>3 DEF suffixName
<1>4. CASE ~(Len(name) + 1 <= MaxIdent)
  <2>1. MaxIdent - 1 \in 0..Len(name)
    BY <1>4, NameAssumption
  <2>2. SubSeq(name, 1, MaxIdent - 1) \in Seq(Symbol)
    BY <2>1, SubSeqProperties
  <2> QED BY <1>2, <1>4, <2>2 DEF suffixName
<1> QED BY <1>3, <1>4

\* No policy of the source is rendered under the escape's name.
LEMMA EmittedNames ==
  ASSUME Inv, NEW e \in emitted
  PROVE  e.name # EscapeName
<1>1. PICK p \in Kept : p \in Policy /\ e \in Own(p)
  BY Origin
<1> DEFINE b == base(p, opts, selfRef(p))
<1>2. b.name = p.name /\ p.name \in Name /\ p.name \in Seq(Symbol)
  BY <1>1, NameAssumption DEF base, Policy
<1>3. e = b \/ e \in splitAll(b)
  BY <1>1 DEF Own, rendered, b
<1> HIDE DEF b
<1>4. \A x \in splitAll(b) : \E s \in Suffix : x.name = suffixName(b.name, s)
  BY DEF splitAll, mk, Suffix
<1>5. p.name # EscapeName
  BY <1>2, DeploymentAssumption DEF EscapeName
<1> QED BY <1>2, <1>3, <1>4, <1>5, SuffixedName

\* The policies of a bundle have each a name of their own: the later takes the
\* place of the earlier.
LEMMA UniqueStep == Inv /\ Unique(emitted) /\ [Next]_vars => Unique(emitted)'
<1> SUFFICES ASSUME Inv, Unique(emitted), [Next]_vars PROVE Unique(emitted')
  BY DEF Unique, sameName
<1>1. CASE emitted' = emitted
  BY <1>1
<1>2. ASSUME NEW p \in cat.policies, Convert(p) PROVE Unique(emitted')
  <2>1. emitted' = {e \in emitted : \A n \in Own(p) : <<e.table, e.name>> # <<n.table, n.name>>}
                     \cup Own(p)
    BY <1>2 DEF Convert, renderPolicySQL, Own
  <2>2. p \in Policy
    BY DEF Inv, Typing, WellFormed, CatalogType
  <2>3. \A m, n \in Own(p) : m.name = n.name => m = n
    BY <2>2, OwnNames
  <2> QED BY <2>1, <2>3 DEF Unique, sameName
<1>3. (\A p \in cat.policies : ~Convert(p)) => emitted' = emitted
  BY DEF Next, Refuse, Accept, SkipManaged, SkipForRoles, Block, Assemble, vars
<1> QED BY <1>1, <1>2, <1>3

LEMMA EscapeFields ==
  ASSUME NEW t
  PROVE  LET g == serviceEscapeOn(t)
         IN  g.name = EscapeName /\ g.table = t /\ g.permissive = TRUE /\ g.targets = {}
<1> DEFINE gate == [body |-> Absent, cond |-> "never", escape |-> TRUE, initplan |-> FALSE]
<1>1. serviceEscapeOn(t) =
        [name |-> EscapeName, table |-> t, permissive |-> TRUE, cmd |-> "ALL",
         targets |-> {}, using |-> gate, check |-> gate]
  BY DEF serviceEscapeOn, EscapeName
<1> HIDE DEF gate
<1>2. ASSUME NEW n, NEW x, NEW y
      PROVE  LET r == [name |-> n, table |-> x, permissive |-> TRUE, cmd |-> "ALL",
                       targets |-> {}, using |-> y, check |-> y]
             IN  r.name = n /\ r.table = x /\ r.permissive = TRUE /\ r.targets = {}
  OBVIOUS
<1> QED BY <1>1, <1>2

\* The types of what the statements are about.
LEMMA BundleTypes ==
  ASSUME Inv, pc = "done"
  PROVE  /\ bundle.accessors \subseteq Helper \cup {"is_service"}
         /\ bundle.roles \subseteq CustomRole \cup PseudoRole \cup {AppRole, "app_service"}
         /\ bundle.granted \subseteq WebRoles
         /\ bundle.force \subseteq Table /\ bundle.enable \subseteq Table
         /\ bundle.escape \subseteq Table
         /\ bundle.escape # {} => opts.roleModel = "single"
<1>1. bundle = assembled /\ rlsTables \subseteq Table
      /\ compatRoles \subseteq PseudoRole /\ used \subseteq Helper
  BY DEF Inv, Finished, Typing
<1>2. /\ bundle.accessors = preludeAccessors(opts, used)
      /\ bundle.roles = createdRoles(opts, compatRoles)
      /\ bundle.granted = grantedRoles(opts, compatRoles)
      /\ bundle.force = IF opts.roleModel = "single" THEN rlsTables ELSE {}
      /\ bundle.enable = rlsTables
      /\ bundle.escape = IF emitsServiceEscape(opts) THEN rlsTables ELSE {}
  BY <1>1 DEF assembled
<1>3. preludeAccessors(opts, used) \subseteq Helper \cup {"is_service"}
  BY <1>1 DEF preludeAccessors, Helper
<1>4. createdRoles(opts, compatRoles) \subseteq PseudoRole \cup {AppRole, "app_service"}
  BY <1>1 DEF createdRoles
<1>5. grantedRoles(opts, compatRoles) \subseteq WebRoles
  BY DEF grantedRoles, WebRoles
<1> QED BY <1>1, <1>2, <1>3, <1>4, <1>5 DEF emitsServiceEscape

\* What the bundle is to leave behind is sound.
LEMMA TargetSound ==
  ASSUME Inv, Unique(emitted), pc = "done"
  PROVE  /\ target.policies = emitted \cup escapePolicies
         /\ target.policies \subseteq RenderedPolicy \cup {serviceEscapeOn(t) : t \in Table}
         /\ Named(target) /\ Unique(target.policies)
         /\ \A e \in target.policies : e.targets \cap WebRoles \subseteq bundle.granted
         /\ \A e \in target.policies : e.targets \cap WebRoles # {} => keepsRoles(opts)
         /\ escapePolicies # {} => opts.roleModel = "single"
<1>1. target.policies = emitted \cup escapePolicies
  BY DEF target
<1>2. escapePolicies \subseteq {serviceEscapeOn(t) : t \in Table}
  BY BundleTypes DEF escapePolicies
<1>3. emitted \subseteq RenderedPolicy
  BY Types DEF TypeOK
<1>4. \A e \in escapePolicies : /\ e = serviceEscapeOn(e.table) /\ e.name = EscapeName
                                /\ e.targets = {}
  <2> SUFFICES ASSUME NEW e \in escapePolicies
               PROVE  /\ e = serviceEscapeOn(e.table) /\ e.name = EscapeName
                      /\ e.targets = {}
    OBVIOUS
  <2>1. PICK t \in Table : e = serviceEscapeOn(t)
    BY <1>2
  <2> QED BY <2>1, EscapeFields
<1>5. Named(target)
  BY <1>1, <1>4, EmittedNames DEF Named
<1>6. Unique(target.policies)
  BY <1>1, <1>4, EmittedNames DEF Unique, sameName
<1>7. ASSUME NEW e \in emitted
      PROVE  /\ e.targets \cap WebRoles \subseteq bundle.granted
             /\ e.targets \cap WebRoles # {} => keepsRoles(opts)
  <2>1. PICK p \in Kept : /\ p \in Policy /\ RenderedFrom(e, p)
                          /\ needsRoles(p, opts) \subseteq compatRoles
    BY Origin
  <2>2. e.targets = targets(p, opts)
    BY <2>1 DEF RenderedFrom
  <2>3. CASE keepsRoles(opts)
    <3>1. bundle.granted = compatRoles \cap WebRoles
      BY <2>3 DEF Inv, Finished, assembled, grantedRoles, keepsRoles, WebRoles
    <3>2. targets(p, opts) \cap WebRoles \subseteq needsRoles(p, opts)
      BY <2>3 DEF targets, needsRoles, WebRoles, PseudoRole
    <3> QED BY <2>1, <2>2, <2>3, <3>1, <3>2
  <2>4. CASE ~keepsRoles(opts)
    <3>1. targets(p, opts) \subseteq CustomRole \cup {AppRole}
      BY <2>4 DEF targets, custom
    <3>2. (CustomRole \cup {AppRole}) \cap WebRoles = {}
      BY RoleAssumption DEF AppRole, WebRoles, PseudoRole
    <3> QED BY <2>2, <3>1, <3>2
  <2> QED BY <2>3, <2>4
<1>8. escapePolicies # {} => opts.roleModel = "single"
  BY BundleTypes DEF escapePolicies
<1> QED BY <1>1, <1>2, <1>3, <1>4, <1>5, <1>6, <1>7, <1>8

-----------------------------------------------------------------------------
\* One statement.

\* While a bundle is applied it stays what it is.
LEMMA SameBundle ==
  ASSUME UNCHANGED vars
  PROVE  /\ program' = program /\ target' = target
         /\ \A k : statements(k)' = statements(k)
<1>1. /\ opts' = opts /\ bundle' = bundle /\ emitted' = emitted /\ cat' = cat
  BY DEF vars
<1>2. escapePolicies' = escapePolicies /\ forcedInTarget' = forcedInTarget
  BY <1>1 DEF escapePolicies, forcedInTarget
<1>3. runtimeRoles' = runtimeRoles
  BY <1>1 DEF runtimeRoles
<1> QED BY <1>1, <1>2, <1>3 DEF program, target, statements

\* And what has been shown of it stays true.
LEMMA SameInv ==
  ASSUME Inv, Unique(emitted), UNCHANGED vars
  PROVE  Inv' /\ Unique(emitted)'
BY StepInv, UniqueStep

\* The stage at hand: about policies, or not.
LEMMA Stage ==
  ASSUME Inv, pc = "done", running
  PROVE  /\ at \in 1..Len(program) /\ kind \in Kind
         /\ aboutPolicies <=> kind \in {"escape", "policy"}
         /\ kind = "escape" => statements(kind) = escapePolicies
         /\ kind = "policy" => statements(kind) = emitted
         /\ aboutPolicies => statements(kind) \subseteq target.policies
<1>1. at \in 1..Len(program) /\ kind \in Kind
  BY Program DEF ProgramShape, running, kind
<1>2. aboutPolicies <=> kind \in {"escape", "policy"}
  BY <1>1 DEF aboutPolicies, Kind
<1>3. kind = "escape" => statements(kind) = escapePolicies
  BY DEF statements
<1>4. kind = "policy" => statements(kind) = emitted
  BY DEF statements
<1> QED BY <1>1, <1>2, <1>3, <1>4 DEF target

LEMMA EffectLasts ==
  ASSUME NEW d, NEW e, Grows(d, e), NEW k, NEW x, Effect(d, k, x),
         k \in {"escape", "policy"} => x \in e.policies
  PROVE  Effect(e, k, x)
BY DEF Effect, Grows

LEMMA GrowsTransitive ==
  ASSUME NEW d, NEW e, NEW f, Grows(d, e), Grows(e, f) PROVE Grows(d, f)
BY DEF Grows

LEMMA GrowsReflexive == ASSUME NEW d PROVE Grows(d, d)
BY DEF Grows

LEMMA SoundGrows ==
  ASSUME NEW d, Sound(d), NEW e \in Database, e.policies = d.policies, Grows(d, e)
  PROVE  Sound(e)
BY DEF Sound, Named, Backed, Grows

\* A statement that is not about a policy has its effect and only adds.
LEMMA ExecutedGrows ==
  ASSUME Inv, pc = "done", NEW d \in Database, NEW k \in Kind \ {"escape", "policy"},
         NEW x \in statements(k)
  PROVE  LET e == executed(d, k, x)
         IN  /\ e \in Database /\ e.policies = d.policies
             /\ Grows(d, e) /\ Effect(e, k, x)
<1> USE BundleTypes DEF Grows, Effect, Database
<1>1. CASE k = "accessor"
  BY <1>1 DEF executed, statements
<1>2. CASE k = "force"
  BY <1>2 DEF executed, statements
<1>3. CASE k = "role"
  BY <1>3 DEF executed, statements, runtimeRoles
<1>4. CASE k = "compat"
  BY <1>4 DEF executed, statements
<1>5. CASE k = "grant"
  BY <1>5 DEF executed, statements
<1>6. CASE k = "member"
  BY <1>6 DEF executed, statements
<1>7. CASE k = "enable"
  BY <1>7 DEF executed, statements
<1>8. CASE k = "check"
  BY <1>8 DEF executed
<1> QED BY <1>1, <1>2, <1>3, <1>4, <1>5, <1>6, <1>7, <1>8 DEF Kind

\* DROP POLICY.
LEMMA DropSound ==
  ASSUME NEW d, Sound(d), NEW x
  PROVE  LET e == withoutNamesake(d, x)
         IN  /\ Sound(e) /\ Grows(d, e) /\ Grows(e, d)
             /\ e.policies = {f \in d.policies : ~sameName(f, x)}
<1> DEFINE e == withoutNamesake(d, x)
<1>1. d \in Database
  BY DEF Sound
<1>2. /\ e \in Database /\ e.policies = {f \in d.policies : ~sameName(f, x)}
      /\ e.accessors = d.accessors /\ e.roles = d.roles /\ e.granted = d.granted
      /\ e.reachable = d.reachable /\ e.enabled = d.enabled /\ e.forced = d.forced
  BY <1>1 DEF withoutNamesake, Database
<1> HIDE DEF e
<1>3. Sound(e) /\ Grows(d, e) /\ Grows(e, d)
  BY <1>2 DEF Sound, Named, Unique, Backed, Grows
<1> QED BY <1>2, <1>3 DEF e

\* CREATE POLICY, once the roles it is for are there.
LEMMA CreateSound ==
  ASSUME NEW d, Sound(d), Inv, Unique(emitted), pc = "done", NEW x \in target.policies,
         x.targets \cap WebRoles \subseteq d.granted,
         opts.roleModel = "split" => AppRole \in d.reachable,
         \A f \in d.policies : ~sameName(f, x)
  PROVE  LET e == [d EXCEPT !.policies = @ \cup {x}]
         IN  /\ Sound(e) /\ Grows(d, e) /\ Grows(e, d)
             /\ e.policies = d.policies \cup {x}
<1> DEFINE e == [d EXCEPT !.policies = @ \cup {x}]
<1>1. d \in Database
  BY DEF Sound
<1>2. x \in RenderedPolicy \cup {serviceEscapeOn(t) : t \in Table}
  BY TargetSound
<1>3. /\ e \in Database /\ e.policies = d.policies \cup {x}
      /\ e.accessors = d.accessors /\ e.roles = d.roles /\ e.granted = d.granted
      /\ e.reachable = d.reachable /\ e.enabled = d.enabled /\ e.forced = d.forced
  BY <1>1, <1>2 DEF Database
<1> HIDE DEF e
<1>4. Named(e)
  BY <1>3, TargetSound DEF Sound, Named
<1>5. Unique(e.policies)
  BY <1>3 DEF Sound, Unique, sameName
<1>6. Backed(e)
  BY <1>3, TargetSound DEF Sound, Backed
<1> QED BY <1>3, <1>4, <1>5, <1>6 DEF e, Sound, Grows

-----------------------------------------------------------------------------
\* The steps.

LEMMA InitDInv == DeployInit => DInv
<1> SUFFICES ASSUME DeployInit PROVE DInv
  OBVIOUS
<1>1. Inv /\ emitted = {} /\ pc = "check"
  BY InitInv DEF DeployInit, Init
<1>2. /\ work = db /\ before = db /\ at = 0 /\ left = {} /\ hand = {}
      /\ grain \in Grains /\ failures = 0 /\ deploys = 1
  BY DEF DeployInit
<1>3. cat.enabled \subseteq Table /\ cat.forced \subseteq Table
  BY <1>1 DEF Inv, Typing, WellFormed, CatalogType
<1>4. PICK R \in {{}, CustomRole}, E \in SUBSET Table, F \in SUBSET Table :
        db = fresh(R, E, F)
  BY <1>3 DEF DeployInit
<1>5. db \in Database /\ db.policies = {}
  BY <1>4 DEF fresh, Database
<1>6. Sound(db) /\ Sound(work) /\ Sound(before)
  BY <1>2, <1>5 DEF Sound, Named, Unique, Backed
<1>7. Len(program) \in Nat
  BY <1>1, Program DEF ProgramShape
<1>8. Placed
  BY <1>1, <1>2, <1>7, DeploymentAssumption DEF Placed, running
<1>9. Added
  BY <1>1, <1>2, GrowsReflexive DEF Added
<1>10. Progress
  BY <1>2, <1>7 DEF Progress
<1>11. ByFile /\ Again
  BY <1>1, <1>2 DEF ByFile, AsFound, Again
<1>12. Unique(emitted)
  BY <1>1 DEF Unique
<1> QED BY <1>1, <1>6, <1>8, <1>9, <1>10, <1>11, <1>12 DEF DInv

LEMMA ConversionDInv == DInv /\ ConversionStep => DInv'
<1> SUFFICES ASSUME DInv, ConversionStep PROVE DInv'
  OBVIOUS
<1>1. Next /\ UNCHANGED <<db, work, before, at, left, hand, grain, failures, deploys>>
  BY DEF ConversionStep, deployVars
<1>2. pc # "done" /\ opts' = opts
  BY <1>1 DEF Next, Refuse, Accept, SkipManaged, SkipForRoles, Block, Convert, Assemble, At
<1>3. Inv' /\ Unique(emitted)'
  BY <1>1, StepInv, UniqueStep DEF DInv
<1>4. Len(program)' \in Nat
  <2>1. ProgramShape(program)'
    BY <1>3, Program, PTL
  <2> QED BY <2>1 DEF ProgramShape
<1>5. /\ at = 0 /\ left = {} /\ hand = {} /\ work = db
      /\ db.policies = before.policies
  BY <1>2 DEF DInv, Placed, Added, running
<1>6. Sound(db)' /\ Sound(work)' /\ Sound(before)'
  BY <1>1, <1>2 DEF DInv, Sound, Named, Unique, Backed
<1>7. Placed'
  BY <1>1, <1>4, <1>5 DEF DInv, Placed, running
<1>8. Added'
  BY <1>1, <1>5 DEF DInv, Added, Grows
<1>9. Progress'
  BY <1>1, <1>4, <1>5 DEF Progress
<1>10. ByFile' /\ Again'
  BY <1>1, <1>5 DEF ByFile, AsFound, Again
<1> QED BY <1>3, <1>6, <1>7, <1>8, <1>9, <1>10 DEF DInv

LEMMA BeginDInv == DInv /\ Begin => DInv'
<1> SUFFICES ASSUME DInv, Begin PROVE DInv'
  OBVIOUS
<1>1. /\ pc = "done" /\ at = 0 /\ at' = 1 /\ left' = statements(program[1][2])
      /\ UNCHANGED vars
      /\ UNCHANGED <<db, work, before, hand, grain, failures, deploys>>
  BY DEF Begin
<1>2. /\ program' = program /\ target' = target
      /\ \A k : statements(k)' = statements(k)
  BY <1>1, SameBundle
<1>3. Inv' /\ Unique(emitted)'
  BY <1>1, SameInv DEF DInv
<1>4. /\ Len(program) \in Nat /\ Len(program) >= 5
  BY Program DEF DInv, ProgramShape
<1>5. opts' = opts /\ pc' = "done"
  BY <1>1 DEF vars
<1>6. hand = {} /\ work = db
  BY <1>1 DEF DInv, Placed, running
<1>7. Sound(db)' /\ Sound(work)' /\ Sound(before)'
  BY <1>1, <1>5 DEF DInv, Sound, Named, Unique, Backed
<1>8. Placed'
  <2>1. running' /\ kind' = program[1][2]
    BY <1>1, <1>2, <1>4 DEF running, kind
  <2>2. left' = statements(kind)'
    BY <1>1, <1>2, <2>1
  <2> QED BY <1>1, <1>2, <1>4, <1>5, <1>6, <2>1, <2>2 DEF DInv, Placed
<1>9. Added'
  BY <1>1, <1>2, <1>5 DEF DInv, Added, Grows
<1>10. Progress'
  BY <1>1, <1>2, <1>4 DEF Progress
<1>11. ByFile' /\ Again'
  BY <1>1, <1>2, <1>4, <1>5, <1>6 DEF DInv, ByFile, AsFound, Again
<1> QED BY <1>3, <1>7, <1>8, <1>9, <1>10, <1>11 DEF DInv

\* How a running deployment stands.
LEMMA Running ==
  ASSUME DInv, running
  PROVE  /\ pc = "done" /\ at \in 1..Len(program) /\ kind = program[at][2]
         /\ ProgramShape(program) /\ target.enabled = bundle.enable
         /\ ~aboutPolicies => hand = {}
         /\ left \subseteq statements(kind)
<1>1. ProgramShape(program)
  BY Program DEF DInv
<1>2. at \in 1..Len(program)
  BY DEF running
<1> QED BY <1>1, <1>2 DEF DInv, Placed, running, kind, target

\* Statements leave the session's place in the program.
LEMMA SamePlace ==
  ASSUME DInv, running, UNCHANGED vars, at' = at
  PROVE  /\ running' /\ kind' = kind /\ aboutPolicies' = aboutPolicies
         /\ statements(kind)' = statements(kind) /\ pc' = "done" /\ opts' = opts
<1>1. program' = program /\ \A k : statements(k)' = statements(k)
  BY SameBundle
<1>2. kind' = kind
  BY <1>1 DEF kind
<1>3. pc' = "done" /\ opts' = opts
  BY Running DEF vars
<1> QED BY <1>1, <1>2, <1>3 DEF running, aboutPolicies

LEMMA ExecuteDInv == ASSUME DInv, NEW x \in left, Execute(x) PROVE DInv'
<1> DEFINE W == executed(work, kind, x)
<1>1. /\ running /\ ~aboutPolicies /\ work' = W
      /\ db' = IF grain = "statement" THEN work' ELSE db
      /\ left' = left \ {x} /\ UNCHANGED vars
      /\ UNCHANGED <<before, at, hand, grain, failures, deploys>>
  BY DEF Execute
<1>2. /\ pc = "done" /\ at \in 1..Len(program) /\ kind = program[at][2]
      /\ ProgramShape(program) /\ hand = {} /\ x \in statements(kind)
      /\ kind \in Kind \ {"escape", "policy"}
  BY <1>1, Running, Stage DEF DInv
<1>3. work \in Database
  BY DEF DInv, Sound
<1>4. W \in Database /\ W.policies = work.policies /\ Grows(work, W) /\ Effect(W, kind, x)
  BY <1>2, <1>3, ExecutedGrows DEF DInv
<1> HIDE DEF W
<1>5. Sound(W)
  BY <1>4, SoundGrows DEF DInv
<1>6. /\ program' = program /\ target' = target
      /\ \A k : statements(k)' = statements(k)
      /\ running' /\ kind' = kind /\ aboutPolicies' = aboutPolicies
      /\ statements(kind)' = statements(kind) /\ pc' = "done" /\ opts' = opts
  BY <1>1, SameBundle, SamePlace
<1>7. Inv' /\ Unique(emitted)'
  BY <1>1, SameInv DEF DInv
<1>8. Sound(db)' /\ Sound(work)' /\ Sound(before)'
  BY <1>1, <1>5, <1>6 DEF DInv, Sound, Named, Unique, Backed
<1>9. Placed'
  BY <1>1, <1>2, <1>6 DEF DInv, Placed
<1>10. Added'
  <2>1. Grows(before, db') /\ Grows(db', work')
    BY <1>1, <1>4, GrowsTransitive, GrowsReflexive DEF DInv, Added
  <2>2. db'.policies \cup work'.policies \subseteq before.policies \cup target.policies
    BY <1>1, <1>2, <1>4 DEF DInv, Added
  <2> QED BY <1>1, <1>6, <2>1, <2>2 DEF Added, Grows
<1>11. Progress'
  <2> SUFFICES ASSUME NEW i \in 1..Len(program), NEW y \in statements(program[i][2]),
                      i < at \/ (i = at /\ y \notin left')
               PROVE  Effect(W, program[i][2], y)
    BY <1>1, <1>2, <1>6 DEF Progress, Effect
  <2>1. CASE i = at /\ y = x
    BY <1>2, <1>4, <2>1
  <2>2. CASE ~(i = at /\ y = x)
    <3>1. Effect(work, program[i][2], y)
      BY <1>1, <1>2, <2>2 DEF DInv, Progress
    <3>2. program[i][2] \in {"escape", "policy"} => y \in W.policies
      BY <1>4, <3>1 DEF Effect
    <3> QED BY <1>4, <3>1, <3>2, EffectLasts
  <2> QED BY <2>1, <2>2
<1>12. ByFile' /\ Again'
  BY <1>1, <1>2, <1>4, <1>6 DEF DInv, ByFile, AsFound, Again
<1> QED BY <1>7, <1>8, <1>9, <1>10, <1>11, <1>12 DEF DInv

LEMMA DropDInv == ASSUME DInv, NEW x \in left, Drop(x) PROVE DInv'
<1> DEFINE W == withoutNamesake(work, x)
<1>1. /\ running /\ aboutPolicies /\ hand = {} /\ work' = W
      /\ db' = IF grain = "statement" THEN work' ELSE db
      /\ left' = left \ {x} /\ hand' = {x} /\ UNCHANGED vars
      /\ UNCHANGED <<before, at, grain, failures, deploys>>
  BY DEF Drop
<1>2. /\ pc = "done" /\ at \in 1..Len(program) /\ kind = program[at][2]
      /\ ProgramShape(program) /\ x \in statements(kind)
      /\ kind \in {"escape", "policy"} /\ x \in target.policies
  BY <1>1, Running, Stage DEF DInv
<1>3. /\ Sound(W) /\ Grows(work, W) /\ Grows(W, work)
      /\ W.policies = {f \in work.policies : ~sameName(f, x)}
  BY DropSound DEF DInv
<1> HIDE DEF W
<1>4. Len(program) \in Nat /\ at \in Int
  <2>1. Len(program) \in Nat
    BY ProgramLength DEF DInv
  <2> QED BY <1>2, <2>1
<1>5. /\ target.policies = emitted \cup escapePolicies
      /\ Named(target) /\ Unique(target.policies)
      /\ \A e \in emitted : e.name # EscapeName
      /\ \A e \in escapePolicies : e.name = EscapeName
  <2>1. ASSUME NEW e \in escapePolicies PROVE e.name = EscapeName
    <3>1. PICK t \in bundle.escape : e = serviceEscapeOn(t)
      BY DEF escapePolicies
    <3> QED BY <3>1, EscapeFields
  <2> QED BY <1>2, <2>1, TargetSound, EmittedNames DEF DInv
<1>6. /\ statements("escape") = escapePolicies /\ statements("policy") = emitted
  BY DEF statements
<1>7. /\ program' = program /\ target' = target
      /\ \A k : statements(k)' = statements(k)
      /\ running' /\ kind' = kind /\ aboutPolicies' = aboutPolicies
      /\ statements(kind)' = statements(kind) /\ pc' = "done" /\ opts' = opts
  BY <1>1, SameBundle, SamePlace
<1>8. Inv' /\ Unique(emitted)'
  BY <1>1, SameInv DEF DInv
<1>9. Sound(db)' /\ Sound(work)' /\ Sound(before)'
  BY <1>1, <1>3, <1>7 DEF DInv, Sound, Named, Unique, Backed
<1>10. Placed'
  BY <1>1, <1>2, <1>7 DEF DInv, Placed
<1>11. Added'
  <2>1. Grows(before, db') /\ Grows(db', work')
    BY <1>1, <1>3, GrowsTransitive, GrowsReflexive DEF DInv, Added
  <2>2. db'.policies \cup work'.policies \subseteq before.policies \cup target.policies
    BY <1>1, <1>2, <1>3 DEF DInv, Added
  <2> QED BY <1>1, <1>7, <2>1, <2>2 DEF Added, Grows
<1>12. Progress'
  <2> SUFFICES ASSUME NEW i \in 1..Len(program), NEW y \in statements(program[i][2]),
                      i < at \/ (i = at /\ y \notin left' \cup {x})
               PROVE  Effect(W, program[i][2], y)
    BY <1>1, <1>2, <1>7 DEF Progress, Effect
  <2>1. Effect(work, program[i][2], y)
    BY <1>1, <1>2 DEF DInv, Progress
  <2>2. ASSUME program[i][2] \in {"escape", "policy"} PROVE y \in W.policies
    <3>1. y \in work.policies /\ y \in target.policies
      BY <1>5, <1>6, <2>1, <2>2 DEF Effect
    <3>2. y # x
      <4>1. CASE i = at
        BY <1>1, <4>1
      <4>2. CASE i < at
        <5>1. i # Len(program) /\ i # at
          BY <1>2, <1>4, <4>2
        <5>2. program[i][2] = "escape"
          BY <1>2, <2>2, <5>1 DEF ProgramShape
        <5>3. kind # "escape"
          BY <1>2, <5>1, <5>2 DEF ProgramShape
        <5> QED BY <1>2, <1>5, <1>6, <5>2, <5>3
      <4> QED BY <4>1, <4>2
    <3> QED BY <1>2, <1>3, <1>5, <3>1, <3>2 DEF Unique
  <2> QED BY <1>3, <2>1, <2>2, EffectLasts
<1>13. ByFile'
  <2>1. ASSUME at < Len(program) PROVE x.name = EscapeName
    <3>1. at # Len(program)
      BY <1>4, <2>1
    <3>2. kind = "escape"
      BY <1>2, <3>1 DEF ProgramShape
    <3> QED BY <1>2, <1>5, <1>6, <3>2
  <2> QED BY <1>1, <1>3, <1>7, <2>1 DEF DInv, ByFile, AsFound, sameName
<1>14. Again'
  <2>1. Unique(before.policies)
    BY DEF DInv, Sound
  <2>2. ASSUME target.policies \subseteq before.policies, work.policies = before.policies
        PROVE  W.policies = before.policies \ {x}
    BY <1>2, <1>3, <2>1, <2>2 DEF Unique, sameName
  <2> QED BY <1>1, <1>2, <1>7, <2>2 DEF DInv, Again
<1> QED BY <1>8, <1>9, <1>10, <1>11, <1>12, <1>13, <1>14 DEF DInv

LEMMA EscapeElements ==
  ASSUME NEW x \in escapePolicies PROVE x.name = EscapeName /\ x.targets = {}
<1>1. PICK t \in bundle.escape : x = serviceEscapeOn(t)
  BY DEF escapePolicies
<1> QED BY <1>1, EscapeFields

\* When a policy's turn comes, what it needs of the roles has been granted.
LEMMA Granted ==
  ASSUME DInv, running, aboutPolicies, NEW x \in statements(kind)
  PROVE  /\ x.targets \cap WebRoles \subseteq work.granted
         /\ opts.roleModel = "split" => AppRole \in work.reachable
<1>1. /\ pc = "done" /\ at \in 1..Len(program) /\ kind = program[at][2]
      /\ ProgramShape(program) /\ x \in target.policies
      /\ kind = "escape" => x \in escapePolicies
      /\ kind \in {"escape", "policy"}
  BY Running, Stage DEF DInv
<1>2. Len(program) \in Nat
  BY ProgramLength DEF DInv
<1>3. kind = "policy" => at = Len(program)
  BY <1>1, <1>2 DEF ProgramShape
<1>4. ASSUME kind = "policy", NEW j \in 1..Len(program) - 2,
             NEW y \in statements(program[j][2])
      PROVE  Effect(work, program[j][2], y)
  <2>1. j \in 1..Len(program) /\ j < at
    BY <1>1, <1>2, <1>3, <1>4
  <2> QED BY <2>1 DEF DInv, Progress
<1>5. statements("member") = bundle.granted /\ statements("grant") = {AppRole}
  BY DEF statements
<1>6. x.targets \cap WebRoles \subseteq work.granted
  <2>1. CASE x.targets \cap WebRoles = {}
    BY <2>1
  <2>2. CASE x.targets \cap WebRoles # {}
    <3>1. keepsRoles(opts) /\ x.targets \cap WebRoles \subseteq bundle.granted
      BY <1>1, <2>2, TargetSound DEF DInv
    <3>2. kind = "policy"
      <4>1. x \in escapePolicies => x.targets = {}
        BY EscapeElements
      <4> QED BY <1>1, <2>2, <4>1
    <3>3. PICK j \in 1..Len(program) - 2 : program[j][2] = "member"
      BY <1>1, <3>1 DEF ProgramShape
    <3>4. \A y \in bundle.granted : Effect(work, "member", y)
      BY <1>4, <1>5, <3>2, <3>3
    <3>5. \A y : Effect(work, "member", y) => y \in work.granted
      BY DEF Effect
    <3> QED BY <3>1, <3>4, <3>5
  <2> QED BY <2>1, <2>2
<1>7. ASSUME opts.roleModel = "split" PROVE AppRole \in work.reachable
  <2>1. kind = "policy"
    BY <1>1, <1>7, TargetSound DEF DInv
  <2>2. PICK j \in 1..Len(program) - 2 : program[j][2] = "grant"
    BY <1>1, <1>7 DEF ProgramShape
  <2>3. Effect(work, "grant", AppRole)
    BY <1>4, <1>5, <2>1, <2>2
  <2> QED BY <2>3 DEF Effect
<1> QED BY <1>6, <1>7

LEMMA CreateDInv == ASSUME DInv, NEW x \in hand, Create(x) PROVE DInv'
<1> DEFINE W == [work EXCEPT !.policies = @ \cup {x}]
<1>1. /\ running /\ work' = W
      /\ db' = IF grain = "statement" THEN work' ELSE db
      /\ hand' = {} /\ UNCHANGED vars
      /\ UNCHANGED <<before, at, left, grain, failures, deploys>>
      /\ accepted(work, kind, x)
  BY DEF Create
<1>2. aboutPolicies /\ hand = {x} /\ x \in statements(kind) \ left
  BY DEF DInv, Placed
<1>3. /\ pc = "done" /\ at \in 1..Len(program) /\ kind = program[at][2]
      /\ ProgramShape(program) /\ kind \in {"escape", "policy"}
      /\ x \in target.policies
      /\ kind = "escape" => x \in escapePolicies
  BY <1>1, <1>2, Running, Stage DEF DInv
<1>4. \A f \in work.policies : ~sameName(f, x)
  BY <1>1, <1>2, <1>3 DEF accepted
<1>5. /\ Sound(W) /\ Grows(work, W) /\ Grows(W, work)
      /\ W.policies = work.policies \cup {x}
  <2>1. /\ x.targets \cap WebRoles \subseteq work.granted
        /\ opts.roleModel = "split" => AppRole \in work.reachable
    BY <1>1, <1>2, Granted
  <2>2. Sound(work) /\ Inv /\ Unique(emitted)
    BY DEF DInv
  <2> QED BY <1>3, <1>4, <2>1, <2>2, CreateSound
<1> HIDE DEF W
<1>6. Len(program) \in Nat /\ at \in Int
  <2>1. Len(program) \in Nat
    BY ProgramLength DEF DInv
  <2> QED BY <1>3, <2>1
<1>7. /\ program' = program /\ target' = target
      /\ \A k : statements(k)' = statements(k)
      /\ running' /\ kind' = kind /\ aboutPolicies' = aboutPolicies
      /\ statements(kind)' = statements(kind) /\ pc' = "done" /\ opts' = opts
  BY <1>1, SameBundle, SamePlace
<1>8. Inv' /\ Unique(emitted)'
  BY <1>1, SameInv DEF DInv
<1>9. Sound(db)' /\ Sound(work)' /\ Sound(before)'
  BY <1>1, <1>5, <1>7 DEF DInv, Sound, Named, Unique, Backed
<1>10. Placed'
  BY <1>1, <1>3, <1>7 DEF DInv, Placed
<1>11. Added'
  <2>1. Grows(before, db') /\ Grows(db', work')
    BY <1>1, <1>5, GrowsTransitive, GrowsReflexive DEF DInv, Added
  <2>2. db'.policies \cup work'.policies \subseteq before.policies \cup target.policies
    <3>1. db.policies \cup work.policies \subseteq before.policies \cup target.policies
      BY <1>3 DEF DInv, Added
    <3> QED BY <1>1, <1>3, <1>5, <3>1
  <2> QED BY <1>1, <1>7, <2>1, <2>2 DEF Added, Grows
<1>12. Progress'
  <2> SUFFICES ASSUME NEW i \in 1..Len(program), NEW y \in statements(program[i][2]),
                      i < at \/ (i = at /\ y \notin left)
               PROVE  Effect(W, program[i][2], y)
    BY <1>1, <1>3, <1>7 DEF Progress, Effect
  <2>1. CASE i = at /\ y = x
    BY <1>3, <1>5, <2>1 DEF Effect
  <2>2. CASE ~(i = at /\ y = x)
    <3>1. Effect(work, program[i][2], y)
      BY <1>2, <2>2 DEF DInv, Progress
    <3>2. program[i][2] \in {"escape", "policy"} => y \in W.policies
      BY <1>5, <3>1 DEF Effect
    <3> QED BY <1>5, <3>1, <3>2, EffectLasts
  <2> QED BY <2>1, <2>2
<1>13. ByFile'
  <2>1. ASSUME at < Len(program) PROVE x.name = EscapeName
    <3>1. at # Len(program)
      BY <1>6, <2>1
    <3>2. kind = "escape"
      BY <1>3, <3>1 DEF ProgramShape
    <3> QED BY <1>3, <3>2, EscapeElements
  <2> QED BY <1>1, <1>5, <1>7, <2>1 DEF DInv, ByFile, AsFound
<1>14. Again'
  <2>1. ASSUME grain = "file", target.policies \subseteq before.policies
        PROVE  db.policies = before.policies /\ W.policies = before.policies
    <3>1. /\ db.policies = before.policies
          /\ work.policies = before.policies \ {x}
      BY <1>2, <1>3, <2>1 DEF DInv, Again
    <3> QED BY <1>3, <1>5, <2>1, <3>1
  <2> QED BY <1>1, <1>7, <2>1 DEF Again
<1> QED BY <1>8, <1>9, <1>10, <1>11, <1>12, <1>13, <1>14 DEF DInv

LEMMA NextStageDInv == DInv /\ NextStage => DInv'
<1> SUFFICES ASSUME DInv, NextStage PROVE DInv'
  OBVIOUS
<1>1. /\ running /\ left = {} /\ hand = {} /\ at' = at + 1
      /\ left' = IF at' <= Len(program) THEN statements(program[at'][2]) ELSE {}
      /\ db' = IF fileAt(at') # fileAt(at) THEN work ELSE db
      /\ UNCHANGED vars /\ UNCHANGED <<work, before, hand, grain, failures, deploys>>
  BY DEF NextStage
<1>2. /\ pc = "done" /\ at \in 1..Len(program) /\ ProgramShape(program)
  BY <1>1, Running
<1>3. Len(program) \in Nat
  BY ProgramLength DEF DInv
<1>4. /\ program' = program /\ target' = target
      /\ \A k : statements(k)' = statements(k)
  BY <1>1, SameBundle
<1>5. pc' = "done" /\ opts' = opts
  BY <1>1, <1>2 DEF vars
<1>6. Inv' /\ Unique(emitted)'
  BY <1>1, SameInv DEF DInv
<1>7. Sound(db)' /\ Sound(work)' /\ Sound(before)'
  BY <1>1, <1>5 DEF DInv, Sound, Named, Unique, Backed
\* The last file is committed with its last stage.
<1>8. at = Len(program) => db' = work
  <2> SUFFICES ASSUME at = Len(program) PROVE fileAt(at') # fileAt(at)
    BY <1>1
  <2>1. at' \notin 1..Len(program)
    BY <1>1, <1>3
  <2>2. fileAt(at) # 0
    BY <1>2 DEF fileAt, ProgramShape
  <2> QED BY <2>1, <2>2 DEF fileAt
<1>9. Placed'
  <2>1. at' \in 0..Len(program) + 1
    BY <1>1, <1>2, <1>3
  <2>2. CASE at = Len(program)
    <3>1. at' = Len(program) + 1 /\ ~running' /\ left' = {} /\ work' = db'
      BY <1>1, <1>3, <1>4, <1>8, <2>2 DEF running
    <3> QED BY <1>1, <1>4, <1>5, <2>1, <3>1 DEF DInv, Placed
  <2>3. CASE at # Len(program)
    <3>1. at' \in 1..Len(program)
      BY <1>1, <1>2, <1>3, <2>3
    <3>2. running' /\ kind' = program[at'][2]
      BY <1>4, <3>1 DEF running, kind
    <3>3. left' = statements(kind)'
      BY <1>1, <1>3, <1>4, <3>1, <3>2
    <3>4. grain = "statement" => work' = db'
      BY <1>1 DEF DInv, Placed
    <3> QED BY <1>1, <1>4, <1>5, <2>1, <3>2, <3>3, <3>4 DEF DInv, Placed
  <2> QED BY <2>2, <2>3
<1>10. Added'
  <2>1. Grows(before, db') /\ Grows(db', work')
    BY <1>1, GrowsTransitive, GrowsReflexive DEF DInv, Added
  <2>2. db'.policies \cup work'.policies \subseteq before.policies \cup target.policies
    BY <1>1, <1>2 DEF DInv, Added
  <2> QED BY <1>1, <1>4, <1>5, <2>1, <2>2 DEF Added, Grows
<1>11. Progress'
  <2> SUFFICES ASSUME NEW i \in 1..Len(program), NEW y \in statements(program[i][2]),
                      i < at + 1 \/ (i = at + 1 /\ y \notin left')
               PROVE  Effect(work, program[i][2], y)
    BY <1>1, <1>4 DEF Progress, Effect
  <2>1. i <= at
    BY <1>1, <1>2, <1>3
  <2> QED BY <1>1, <1>2, <1>3, <2>1 DEF DInv, Progress
<1>12. ByFile'
  <2>1. at' <= Len(program) => at < Len(program)
    BY <1>1, <1>2, <1>3
  <2>2. at' < Len(program) => at < Len(program)
    BY <1>1, <1>2, <1>3
  <2>3. grain = "file" /\ at < Len(program) => AsFound(db) /\ AsFound(work)
    BY <1>2, <1>3 DEF DInv, ByFile
  <2> QED BY <1>1, <1>4, <2>1, <2>2, <2>3 DEF ByFile, AsFound
<1>13. Again'
  BY <1>1, <1>2, <1>4, <1>5 DEF DInv, Again
<1> QED BY <1>6, <1>7, <1>9, <1>10, <1>11, <1>12, <1>13 DEF DInv

LEMMA StopDInv ==
  ASSUME DInv, running, Stop, failures' \in 0..MaxFailures PROVE DInv'
<1>1. /\ at' = 0 /\ left' = {} /\ hand' = {} /\ work' = db
      /\ UNCHANGED vars /\ UNCHANGED <<db, before, grain, deploys>>
  BY DEF Stop
<1>2. pc = "done" /\ at \in 1..Len(program)
  BY Running
<1>3. Len(program) \in Nat
  BY ProgramLength DEF DInv
<1>4. program' = program /\ target' = target
  BY <1>1, SameBundle
<1>5. pc' = "done" /\ opts' = opts
  BY <1>1, <1>2 DEF vars
<1>6. Inv' /\ Unique(emitted)'
  BY <1>1, SameInv DEF DInv
<1>7. Sound(db)' /\ Sound(work)' /\ Sound(before)'
  BY <1>1, <1>5 DEF DInv, Sound, Named, Unique, Backed
<1>8. Placed'
  BY <1>1, <1>3, <1>4, <1>5 DEF DInv, Placed, running
<1>9. Added'
  BY <1>1, <1>2, <1>4, <1>5, GrowsReflexive DEF DInv, Added, Grows
<1>10. Progress'
  BY <1>1, <1>3, <1>4 DEF Progress
<1>11. ByFile'
  BY <1>1, <1>2, <1>3 DEF DInv, ByFile, AsFound
<1>12. Again'
  BY <1>1, <1>2, <1>4 DEF DInv, Again
<1> QED BY <1>6, <1>7, <1>8, <1>9, <1>10, <1>11, <1>12 DEF DInv

LEMMA ProvideRoleDInv ==
  ASSUME DInv, NEW r \in awaited, ProvideRole(r) PROVE DInv'
<1> DEFINE D == [db EXCEPT !.roles = @ \cup {r}]
           W == [work EXCEPT !.roles = @ \cup {r}]
<1>1. /\ db' = D /\ work' = W /\ UNCHANGED vars
      /\ UNCHANGED <<before, at, left, hand, grain, failures, deploys>>
  BY DEF ProvideRole
<1>2. r \in CustomRole \cup {AppRole}
  BY DEF awaited
<1>3. db \in Database /\ work \in Database
  BY DEF DInv, Sound
<1>4. /\ D \in Database /\ D.policies = db.policies /\ Grows(db, D)
      /\ W \in Database /\ W.policies = work.policies /\ Grows(work, W)
      /\ (Grows(db, work) => Grows(D, W)) /\ (work = db => W = D)
  BY <1>2, <1>3 DEF Database, Grows
<1> HIDE DEF D, W
<1>5. Sound(D) /\ Sound(W)
  BY <1>4, SoundGrows DEF DInv
<1>6. /\ program' = program /\ target' = target
      /\ \A k : statements(k)' = statements(k)
  BY <1>1, SameBundle
<1>7. pc' = pc /\ opts' = opts
  BY <1>1 DEF vars
<1>8. running' = running /\ kind' = kind /\ aboutPolicies' = aboutPolicies
  BY <1>1, <1>6 DEF running, kind, aboutPolicies
<1>9. Inv' /\ Unique(emitted)'
  BY <1>1, SameInv DEF DInv
<1>10. Sound(db)' /\ Sound(work)' /\ Sound(before)'
  BY <1>1, <1>5, <1>7 DEF DInv, Sound, Named, Unique, Backed
<1>11. Placed'
  BY <1>1, <1>4, <1>6, <1>7, <1>8 DEF DInv, Placed
<1>12. Added'
  <2>1. Grows(before, db') /\ Grows(db', work')
    BY <1>1, <1>4, GrowsTransitive DEF DInv, Added
  <2> QED BY <1>1, <1>4, <1>6, <1>7, <2>1 DEF DInv, Added, Grows
<1>13. Progress'
  <2> SUFFICES ASSUME NEW i \in 1..Len(program), NEW y \in statements(program[i][2]),
                      i < at \/ (i = at /\ y \notin left \cup hand)
               PROVE  Effect(W, program[i][2], y)
    BY <1>1, <1>6 DEF Progress, Effect
  <2>1. Effect(work, program[i][2], y)
    BY DEF DInv, Progress
  <2>2. program[i][2] \in {"escape", "policy"} => y \in W.policies
    BY <1>4, <2>1 DEF Effect
  <2> QED BY <1>4, <2>1, <2>2, EffectLasts
<1>14. ByFile' /\ Again'
  BY <1>1, <1>4, <1>6, <1>7 DEF DInv, ByFile, AsFound, Again
<1> QED BY <1>9, <1>10, <1>11, <1>12, <1>13, <1>14 DEF DInv

LEMMA ReapplyDInv == DInv /\ Reapply => DInv'
<1> SUFFICES ASSUME DInv, Reapply PROVE DInv'
  OBVIOUS
<1>1. /\ pc = "done" /\ at = Len(program) + 1
      /\ deploys < MaxDeploys /\ deploys' = deploys + 1 /\ before' = db /\ at' = 0
      /\ UNCHANGED vars /\ UNCHANGED <<db, work, left, hand, grain, failures>>
  BY DEF Reapply, applied
<1>2. Len(program) \in Nat
  BY ProgramLength DEF DInv
<1>3. left = {} /\ hand = {} /\ work = db /\ deploys \in 1..MaxDeploys
  BY <1>1, <1>2 DEF DInv, Placed, running
<1>4. program' = program /\ target' = target
  BY <1>1, SameBundle
<1>5. pc' = "done" /\ opts' = opts
  BY <1>1 DEF vars
<1>6. Inv' /\ Unique(emitted)'
  BY <1>1, SameInv DEF DInv
<1>7. Sound(db)' /\ Sound(work)' /\ Sound(before)'
  BY <1>1, <1>5 DEF DInv, Sound, Named, Unique, Backed
<1>8. Placed'
  BY <1>1, <1>2, <1>3, <1>4, <1>5, DeploymentAssumption DEF DInv, Placed, running
<1>9. Added'
  BY <1>1, <1>3, <1>4, <1>5, GrowsReflexive DEF Added, Grows
<1>10. Progress'
  BY <1>1, <1>2, <1>4 DEF Progress
<1>11. ByFile' /\ Again'
  BY <1>1, <1>3 DEF ByFile, AsFound, Again
<1> QED BY <1>6, <1>7, <1>8, <1>9, <1>10, <1>11 DEF DInv

LEMMA ReconvertDInv == DInv /\ Reconvert => DInv'
<1> SUFFICES ASSUME DInv, Reconvert PROVE DInv'
  OBVIOUS
<1>1. /\ pc = "done" /\ at = Len(program) + 1
      /\ deploys < MaxDeploys /\ deploys' = deploys + 1 /\ before' = db /\ at' = 0
      /\ pc' = "check" /\ cat' \in Catalogs /\ opts' = opts
      /\ outcome' = [p \in cat'.policies |-> "pending"]
      /\ rlsTables' = cat'.enabled \ ManagedTable
      /\ emitted' = {} /\ stubs' = {} /\ compatRoles' = {} /\ used' = {}
      /\ bundle' = noBundle
      /\ UNCHANGED <<db, work, left, hand, grain, failures>>
  BY DEF Reconvert, applied
<1>2. Len(program) \in Nat
  BY ProgramLength DEF DInv
<1>3. left = {} /\ hand = {} /\ work = db /\ deploys \in 1..MaxDeploys
  BY <1>1, <1>2 DEF DInv, Placed, running
<1>4. Fresh'
  <2>1. WellFormed(cat')
    BY <1>1, CatalogAssumption, SourcePoliciesAssumption DEF WellFormed
  <2> QED BY <1>1, <2>1 DEF DInv, Inv, Typing, Fresh, WellFormed
<1>5. Inv'
  BY <1>4, FreshInv, PTL
<1>6. Len(program)' \in Nat
  <2>1. ProgramShape(program)'
    BY <1>5, Program, PTL
  <2> QED BY <2>1 DEF ProgramShape
<1>7. Unique(emitted)'
  BY <1>1 DEF Unique
<1>8. Sound(db)' /\ Sound(work)' /\ Sound(before)'
  BY <1>1 DEF DInv, Sound, Named, Unique, Backed
<1>9. Placed'
  BY <1>1, <1>3, <1>6, DeploymentAssumption DEF DInv, Placed, running
<1>10. Added'
  BY <1>1, <1>3, GrowsReflexive DEF Added, Grows
<1>11. Progress'
  BY <1>1, <1>6 DEF Progress
<1>12. ByFile' /\ Again'
  BY <1>1, <1>3 DEF ByFile, AsFound, Again
<1> QED BY <1>5, <1>7, <1>8, <1>9, <1>10, <1>11, <1>12 DEF DInv

LEMMA UnchangedDInv == DInv /\ UNCHANGED allVars => DInv'
<1> SUFFICES ASSUME DInv, UNCHANGED allVars PROVE DInv'
  OBVIOUS
<1>1. /\ UNCHANGED vars
      /\ UNCHANGED <<db, work, before, at, left, hand, grain, failures, deploys>>
  BY DEF allVars, deployVars
<1>2. /\ program' = program /\ target' = target
      /\ \A k : statements(k)' = statements(k)
  BY <1>1, SameBundle
<1>3. pc' = pc /\ opts' = opts
  BY <1>1 DEF vars
<1>4. running' = running /\ kind' = kind /\ aboutPolicies' = aboutPolicies
  BY <1>1, <1>2 DEF running, kind, aboutPolicies
<1>5. Inv' /\ Unique(emitted)'
  BY <1>1, SameInv DEF DInv
<1>6. Sound(db)' /\ Sound(work)' /\ Sound(before)'
  BY <1>1, <1>3 DEF DInv, Sound, Named, Unique, Backed
<1>7. Placed'
  BY <1>1, <1>2, <1>3, <1>4 DEF DInv, Placed
<1>8. Added'
  BY <1>1, <1>2, <1>3 DEF DInv, Added, Grows
<1>9. Progress'
  BY <1>1, <1>2 DEF DInv, Progress, Effect
<1>10. ByFile' /\ Again'
  BY <1>1, <1>2, <1>3 DEF DInv, ByFile, AsFound, Again
<1> QED BY <1>5, <1>6, <1>7, <1>8, <1>9, <1>10 DEF DInv

LEMMA StepDInv == DInv /\ [DeployNext]_allVars => DInv'
<1> SUFFICES ASSUME DInv, [DeployNext]_allVars PROVE DInv'
  OBVIOUS
<1>1. CASE ConversionStep
  BY <1>1, ConversionDInv
<1>2. CASE Begin
  BY <1>2, BeginDInv
<1>3. ASSUME NEW x \in left, Execute(x) PROVE DInv'
  BY <1>3, ExecuteDInv
<1>4. ASSUME NEW x \in left, Drop(x) PROVE DInv'
  BY <1>4, DropDInv
<1>5. ASSUME NEW x \in hand, Create(x) PROVE DInv'
  BY <1>5, CreateDInv
<1>6. CASE NextStage
  BY <1>6, NextStageDInv
<1>7. CASE Fail
  <2>1. running /\ Stop /\ failures' \in 0..MaxFailures
    BY <1>7 DEF Fail, DInv, Placed
  <2> QED BY <2>1, StopDInv
<1>8. CASE Interrupt
  <2>1. running /\ Stop /\ failures' \in 0..MaxFailures
    BY <1>8, DeploymentAssumption DEF Interrupt, DInv, Placed
  <2> QED BY <2>1, StopDInv
<1>9. ASSUME NEW r \in awaited, ProvideRole(r) PROVE DInv'
  BY <1>9, ProvideRoleDInv
<1>10. CASE Reapply
  BY <1>10, ReapplyDInv
<1>11. CASE Reconvert
  BY <1>11, ReconvertDInv
<1>12. CASE UNCHANGED allVars
  BY <1>12, UnchangedDInv
<1> QED BY <1>1, <1>2, <1>3, <1>4, <1>5, <1>6, <1>7, <1>8, <1>9, <1>10, <1>11, <1>12
     DEF DeployNext, Statement

LEMMA DInvariance == DeploySpec => []DInv
BY InitDInv, StepDInv, PTL DEF DeploySpec

-----------------------------------------------------------------------------
\* What a database lets through.

\* The runtime role's service twin bypasses row security.
ByService(c) == Service(c) /\ opts.roleModel = "split" /\ ~splitOnCapyDB(opts)

\* The roles a caller of the application can act by, memberships granted.
EveryRole(c) == IF Web(c) /\ opts.roleModel = "split"
                THEN {AppRole} \cup WebRoles ELSE {"owner"}

Passes(d, c, t, cmd, side) ==
  Admits(policiesOn(d, t), cmd, side, EveryRole(c),
         {e \in ClausesOf(policiesOn(d, t)) : renderedHolds(e, c)})

\* A member of a role the policies are for is all a session lacks of every
\* role: what it may do depends on the policies and the flags of the table.
LEMMA AdmitsBy ==
  ASSUME Inv, NEW d, d.granted \subseteq WebRoles,
         \A e \in d.policies : e.targets \cap WebRoles \subseteq d.granted,
         NEW c \in Caller, Web(c) \/ Service(c), NEW t, NEW cmd, NEW side
  PROVE  DbAdmits(d, c, t, cmd, side) <=>
           \/ ByService(c)
           \/ "owner" \in EveryRole(c) /\ t \notin d.forced
           \/ t \notin d.enabled
           \/ Passes(d, c, t, cmd, side)
<1> DEFINE there == policiesOn(d, t)
           session == sessionRoles(d, c)
<1>1. roleOf[c] \notin CustomRole /\ (Web(c) => ~Service(c))
  BY RoleAssumption DEF Web, Service, PseudoRole
<1>2. CASE ByService(c)
  <2>1. "app_service" \in session
    BY <1>1, <1>2 DEF ByService, sessionRoles
  <2> QED BY <1>2, <2>1 DEF DbAdmits, bypasses
<1>3. CASE ~ByService(c)
  <2>1. session = IF Web(c) /\ opts.roleModel = "split"
                  THEN {AppRole} \cup d.granted ELSE {"owner"}
    BY <1>1, <1>3 DEF ByService, sessionRoles
  <2>2. "app_service" \notin session /\ ("owner" \in session <=> "owner" \in EveryRole(c))
    BY <2>1 DEF EveryRole, AppRole, WebRoles
  <2>3. ASSUME NEW e \in there
        PROVE  AppliesTo(e, cmd, session) <=> AppliesTo(e, cmd, EveryRole(c))
    <3>1. e.targets \cap WebRoles \subseteq d.granted
      BY <2>3 DEF policiesOn
    <3>2. e.targets \cap session = {} <=> e.targets \cap EveryRole(c) = {}
      BY <2>1, <3>1 DEF EveryRole
    <3> QED BY <3>2 DEF AppliesTo
  <2>4. Voices(there, cmd, side, session) = Voices(there, cmd, side, EveryRole(c))
    BY <2>3 DEF Voices
  <2>5. \A holding : Admits(there, cmd, side, session, holding)
                       <=> Admits(there, cmd, side, EveryRole(c), holding)
    BY <2>4 DEF Admits
  <2> QED BY <1>3, <2>2, <2>5 DEF DbAdmits, bypasses, Passes
<1> QED BY <1>2, <1>3

\* The databases of a deployment, and the one it is to make, are of that form.
LEMMA AdmitsBySound ==
  ASSUME Inv, NEW d, Sound(d),
         NEW c \in Caller, Web(c) \/ Service(c), NEW t, NEW cmd, NEW side
  PROVE  DbAdmits(d, c, t, cmd, side) <=>
           \/ ByService(c)
           \/ "owner" \in EveryRole(c) /\ t \notin d.forced
           \/ t \notin d.enabled
           \/ Passes(d, c, t, cmd, side)
<1>1. /\ d.granted \subseteq WebRoles
      /\ \A e \in d.policies : e.targets \cap WebRoles \subseteq d.granted
  BY DEF Sound, Database, Backed
<1> QED BY <1>1, AdmitsBy

LEMMA AdmitsByTarget ==
  ASSUME Inv, Unique(emitted), pc = "done",
         NEW c \in Caller, Web(c) \/ Service(c), NEW t, NEW cmd, NEW side
  PROVE  TargetAdmits(c, t, cmd, side) <=>
           \/ ByService(c)
           \/ "owner" \in EveryRole(c) /\ t \notin target.forced
           \/ t \notin bundle.enable
           \/ Passes(target, c, t, cmd, side)
<1>1. /\ target.granted = bundle.granted /\ target.enabled = bundle.enable
      /\ target.granted \subseteq WebRoles
      /\ \A e \in target.policies : e.targets \cap WebRoles \subseteq target.granted
  BY BundleTypes, TargetSound DEF target
<1> QED BY <1>1, AdmitsBy DEF TargetAdmits

\* Once a deployment is through, the statements of the bundle are in effect.
LEMMA AllDone ==
  ASSUME DInv, applied
  PROVE  /\ target.policies \subseteq db.policies /\ bundle.enable \subseteq db.enabled
         /\ \A t : covered(t) => policiesOn(db, t) = policiesOn(target, t)
<1>1. Len(program) \in Nat /\ Len(program) >= 5
  BY ProgramLength DEF DInv
<1>2. /\ pc = "done" /\ at = Len(program) + 1 /\ ProgramShape(program)
      /\ Len(program) \in Nat
  BY <1>1, Program DEF applied, DInv
<1>3. work = db
  BY <1>2 DEF DInv, Placed, running
<1>4. ASSUME NEW i \in 1..Len(program), NEW x \in statements(program[i][2])
      PROVE  Effect(db, program[i][2], x)
  BY <1>2, <1>3, <1>4 DEF DInv, Progress
<1>5. emitted \subseteq db.policies
  <2>1. Len(program) \in 1..Len(program)
    BY <1>1
  <2>2. program[Len(program)][2] = "policy"
    BY <1>2, <2>1 DEF ProgramShape
  <2>3. statements("policy") = emitted
    BY DEF statements
  <2> QED BY <1>4, <2>1, <2>2, <2>3 DEF Effect
<1>6. escapePolicies \subseteq db.policies
  <2> SUFFICES ASSUME NEW x \in escapePolicies PROVE x \in db.policies
    OBVIOUS
  <2>1. opts.roleModel = "single"
    BY <1>2, TargetSound DEF DInv
  <2>2. PICK i \in 1..Len(program) - 2 : program[i][2] = "escape"
    BY <1>2, <2>1 DEF ProgramShape
  <2>3. i \in 1..Len(program) /\ statements("escape") = escapePolicies
    BY <1>2 DEF statements
  <2> QED BY <1>4, <2>2, <2>3 DEF Effect
<1>7. bundle.enable \subseteq db.enabled
  <2>1. Len(program) - 1 \in 1..Len(program)
    BY <1>1
  <2>2. program[Len(program) - 1][2] = "enable"
    BY <1>2, <2>1 DEF ProgramShape
  <2>3. statements("enable") = bundle.enable
    BY DEF statements
  <2> QED BY <1>4, <2>1, <2>2, <2>3 DEF Effect
<1>8. target.policies \subseteq db.policies
  BY <1>5, <1>6 DEF target
<1>9. ASSUME NEW t, covered(t) PROVE policiesOn(db, t) = policiesOn(target, t)
  <2>1. policiesOn(target, t) \subseteq policiesOn(db, t)
    BY <1>8 DEF policiesOn
  <2>2. ASSUME NEW e \in policiesOn(db, t) PROVE e \in target.policies
    <3>1. e \in db.policies /\ e.table = t
      BY <2>2 DEF policiesOn
    <3>2. CASE e \in before.policies
      <4>1. PICK f \in target.policies : sameName(e, f)
        BY <1>9, <3>1, <3>2 DEF covered, policiesOn
      <4>2. Unique(db.policies)
        BY DEF DInv, Sound
      <4> QED BY <1>8, <3>1, <4>1, <4>2 DEF Unique
    <3> QED BY <1>2, <3>1, <3>2 DEF DInv, Added
  <2> QED BY <2>1, <2>2 DEF policiesOn
<1> QED BY <1>7, <1>8, <1>9

-----------------------------------------------------------------------------
\* The theorems.

\* Types and positions of a deployment, whatever is deployed.
THEOREM DeployTypeOKTheorem == DeploySpec => []DeployTypeOK
<1>1. DInv => DeployTypeOK
  <2> SUFFICES ASSUME DInv PROVE DeployTypeOK
    OBVIOUS
  <2>1. /\ db.roles \subseteq CustomRole \cup PseudoRole \cup {AppRole, "app_service"}
        /\ db.enabled \cup db.forced \subseteq Table
        /\ Unique(db.policies)
    BY DEF DInv, Sound, Database
  <2>2. Cardinality(hand) <= 1
    <3>1. CASE hand = {}
      BY <3>1, FS_EmptySet
    <3>2. CASE hand # {}
      <4>1. PICK x : hand = {x}
        BY <3>2 DEF DInv, Placed
      <4> QED BY <4>1, FS_Singleton
    <3> QED BY <3>1, <3>2
  <2>3. ~running => left = {} /\ hand = {} /\ work = db
    BY DEF DInv, Placed
  <2> QED BY <2>1, <2>2, <2>3 DEF DInv, Placed, DeployTypeOK, Unique
<1> QED BY <1>1, DInvariance, PTL

\* After any number of failed attempts and over any earlier bundle whose names
\* it covers, the bundle means what the conversion said.
THEOREM AppliedAsConvertedTheorem == DeploySpec => []AppliedAsConverted
<1>1. DInv => AppliedAsConverted
  <2> SUFFICES ASSUME DInv, applied, NEW t \in bundle.enable, covered(t), flagsAgree(t),
                      NEW c \in Caller, NEW cmd \in Cmds, Web(c) \/ Service(c),
                      NEW side \in SidesOf(cmd)
               PROVE  DbAdmits(db, c, t, cmd, side) <=> TargetAdmits(c, t, cmd, side)
    BY DEF AppliedAsConverted
  <2>1. pc = "done" /\ Inv /\ Unique(emitted) /\ Sound(db)
    BY DEF applied, DInv
  <2>2. t \in db.enabled /\ policiesOn(db, t) = policiesOn(target, t)
    BY AllDone
  <2>3. t \in db.forced <=> t \in target.forced
    BY DEF flagsAgree
  <2>4. Passes(db, c, t, cmd, side) <=> Passes(target, c, t, cmd, side)
    BY <2>2 DEF Passes
  <2> QED BY <2>1, <2>2, <2>3, <2>4, AdmitsBySound, AdmitsByTarget
<1> QED BY <1>1, DInvariance, PTL

\* A bundle over itself, file by file, changes nobody's access at any moment.
THEOREM ReapplySafeTheorem == DeploySpec => []ReapplySafe
<1>1. DInv => ReapplySafe
  <2> SUFFICES ASSUME DInv, pc = "done", grain = "file",
                      target.policies \subseteq before.policies,
                      NEW t \in bundle.enable \cap before.enabled,
                      t \in before.forced <=> t \in db.forced,
                      NEW c \in Caller, NEW cmd \in Cmds, Web(c) \/ Service(c),
                      NEW side \in SidesOf(cmd)
               PROVE  DbAdmits(db, c, t, cmd, side) <=> DbAdmits(before, c, t, cmd, side)
    BY DEF ReapplySafe
  <2>1. Inv /\ Sound(db) /\ Sound(before)
    BY DEF DInv
  <2>2. db.policies = before.policies /\ t \in db.enabled
    BY DEF DInv, Again, Added, Grows
  <2>3. Passes(db, c, t, cmd, side) <=> Passes(before, c, t, cmd, side)
    BY <2>2 DEF Passes, policiesOn
  <2> QED BY <2>1, <2>2, <2>3, AdmitsBySound
<1> QED BY <1>1, DInvariance, PTL

\* A policy that speaks says one of the set's clauses.
LEMMA SaysClause ==
  ASSUME NEW policies, NEW e \in policies, NEW side, Qual(e, side) # Absent
  PROVE  Qual(e, side) \in ClausesOf(policies)
BY DEF Qual, ClausesOf

\* A web caller that passes a table, in the words of its policies.
LEMMA PassesBy ==
  ASSUME NEW d, NEW c, NEW t, NEW cmd, NEW side
  PROVE  LET Speaks(e) == /\ AppliesTo(e, cmd, EveryRole(c)) /\ Qual(e, side) # Absent
             Holds(e)  == renderedHolds(Qual(e, side), c)
         IN  Passes(d, c, t, cmd, side) <=>
               /\ \E e \in policiesOn(d, t) : e.permissive /\ Speaks(e) /\ Holds(e)
               /\ \A e \in policiesOn(d, t) : ~e.permissive /\ Speaks(e) => Holds(e)
<1> DEFINE there == policiesOn(d, t)
<1>1. \A e \in there : Qual(e, side) # Absent => Qual(e, side) \in ClausesOf(there)
  BY SaysClause
<1> HIDE DEF there
<1> QED BY <1>1 DEF Passes, Admits, Voices, there

\* Where the statements of a file commit together a covered table changes its
\* policies at once, and one without restrictive policies is at no moment open
\* to a web caller that neither reached it before nor is to reach it after.
THEOREM NoExposureTheorem == DeploySpec => []NoExposure
<1>1. DInv => NoExposure
  <2> SUFFICES
        ASSUME DInv, pc = "done", NEW t \in before.enabled,
               \/ \A e \in policiesOn(before, t) \cup policiesOn(target, t) : e.permissive
               \/ grain = "file" /\ covered(t),
               NEW c \in Caller, NEW cmd \in Cmds, Web(c), NEW side \in SidesOf(cmd),
               Reaches(db, c, t, cmd, side)
        PROVE  Reaches(before, c, t, cmd, side) \/ TargetAdmits(c, t, cmd, side)
    BY DEF NoExposure
  <2> DEFINE Speaks(e) == AppliesTo(e, cmd, EveryRole(c)) /\ Qual(e, side) # Absent
             Holds(e)  == renderedHolds(Qual(e, side), c)
             Open(e)   == e.permissive /\ Speaks(e) /\ Holds(e)
  <2>1. Inv /\ Unique(emitted) /\ Sound(db) /\ Sound(before) /\ Grows(before, db)
        /\ db.policies \subseteq before.policies \cup target.policies
    BY DEF DInv, Added
  <2>2. t \in db.enabled /\ ~ByService(c) /\ DbAdmits(db, c, t, cmd, side)
    BY <2>1 DEF Grows, ByService, Web, Service, Reaches
  <2>3. CASE "owner" \in EveryRole(c) /\ t \notin db.forced
    <3>1. t \notin before.forced /\ opts.roleModel # "split"
      BY <2>1, <2>3 DEF Grows, EveryRole, AppRole, WebRoles
    <3>2. DbAdmits(before, c, t, cmd, side)
      BY <2>1, <2>3, <3>1, AdmitsBySound
    <3> QED BY <3>1, <3>2 DEF Reaches
  <2>4. CASE Passes(db, c, t, cmd, side)
    <3>1. PICK e \in policiesOn(db, t) : Open(e)
      BY <2>4, PassesBy
    <3>2. ASSUME NEW f \in policiesOn(before, t), Open(f),
                 \A g \in policiesOn(before, t) : ~g.permissive /\ Speaks(g) => Holds(g)
          PROVE  Reaches(before, c, t, cmd, side)
      <4>1. DbAdmits(before, c, t, cmd, side)
        BY <2>1, <3>2, AdmitsBySound, PassesBy
      <4>2. opts.roleModel = "split" => AppRole \in before.reachable
        BY <2>1, <3>2 DEF Sound, Backed, policiesOn
      <4> QED BY <4>1, <4>2 DEF Reaches
    <3>3. CASE \A f \in policiesOn(before, t) \cup policiesOn(target, t) : f.permissive
      <4>1. CASE e \in before.policies
        BY <3>1, <3>2, <3>3, <4>1 DEF policiesOn
      <4>2. CASE e \in target.policies
        <5>1. e \in policiesOn(target, t)
          BY <3>1, <4>2 DEF policiesOn
        <5>2. Passes(target, c, t, cmd, side)
          BY <3>1, <3>3, <5>1, PassesBy
        <5> QED BY <2>1, <5>2, AdmitsByTarget
      <4> QED BY <2>1, <3>1, <4>1, <4>2 DEF policiesOn
    <3>4. CASE grain = "file" /\ covered(t) /\ applied
      <4>1. policiesOn(db, t) = policiesOn(target, t)
        BY <3>4, AllDone
      <4>2. Passes(target, c, t, cmd, side)
        BY <2>4, <4>1 DEF Passes
      <4> QED BY <2>1, <4>2, AdmitsByTarget
    <3>5. CASE grain = "file" /\ ~applied
      <4>1. AsFound(db)
        <5>1. Len(program) \in Nat /\ at \in 0..Len(program) + 1
          BY <2>1, ProgramLength DEF DInv, Placed
        <5>2. at <= Len(program)
          BY <3>5, <5>1 DEF applied
        <5> QED BY <3>5, <5>2 DEF DInv, ByFile
      <4>2. ASSUME NEW g, g.name = EscapeName,
                   g \in db.policies \/ g \in before.policies
            PROVE  g.permissive /\ ~Holds(g)
        <5>1. g = serviceEscapeOn(g.table)
          BY <2>1, <4>2 DEF Sound, Named
        <5> QED BY <5>1, GateSilent
      <4>3. e \in before.policies
        BY <3>1, <4>1, <4>2 DEF AsFound, policiesOn
      <4>4. ASSUME NEW g \in policiesOn(before, t), ~g.permissive, Speaks(g)
            PROVE  Holds(g)
        <5>1. g \in policiesOn(db, t)
          BY <4>1, <4>2, <4>4 DEF AsFound, policiesOn
        <5> QED BY <2>4, <4>4, <5>1, PassesBy
      <4> QED BY <3>1, <3>2, <4>3, <4>4 DEF policiesOn
    <3> QED BY <3>3, <3>4, <3>5
  <2> QED BY <2>1, <2>2, <2>3, <2>4, AdmitsBySound
<1> QED BY <1>1, DInvariance, PTL

=============================================================================
