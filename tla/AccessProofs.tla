---------------------------- MODULE AccessProofs ----------------------------
(***************************************************************************)
(* What a conversion does to the access of web callers, for every catalog, *)
(* every set of options and every expression: it widens nobody's unless a  *)
(* policy mixes roles or lacks a clause, and it keeps everybody's on the   *)
(* tables that port mechanically.                                          *)
(*                                                                         *)
(* The argument goes policy by policy: the policy rendered for a command   *)
(* has the qualifier of its source with at most the role predicate in      *)
(* front of it, and reaches the callers the source names.  Nor does the    *)
(* converter add a recursion, for any number of tables and policies.       *)
(***************************************************************************)
EXTENDS ConversionProofs, ConversionRecursion

-----------------------------------------------------------------------------
\* The qualifiers of a rendered policy.

\* Clause x says what expression e says, under the role predicate of p.
Says(x, e, p) ==
  /\ x # Absent /\ x \in RenderedExpr
  /\ x.body = e /\ x.cond = cond(p, opts)

\* A clause that is written is not the one that is not.
LEMMA RealClause == Absent \notin RenderedExpr
<1>1. RenderedExpr \subseteq [body : Expr \cup {Absent},
                             cond : {"", "anon", "authenticated", "never"},
                             escape : BOOLEAN, initplan : BOOLEAN]
  BY DEF RenderedExpr
<1> QED BY <1>1, AbsentAssumption

LEMMA Rewritten ==
  ASSUME NEW e \in Expr, NEW s \in BOOLEAN
  PROVE  LET x == rewriteExpr(e, opts, s)
         IN  x \in RenderedExpr /\ x # Absent /\ x.body = e /\ x.cond = ""
<1> DEFINE i == wraps(opts, s) /\ e.calls # {} /\ ~e.wrapped
           x == [body |-> e, cond |-> "", escape |-> FALSE, initplan |-> i]
<1>1. rewriteExpr(e, opts, s) = x
  BY ExprAssumption DEF rewriteExpr
<1>2. i \in BOOLEAN
  OBVIOUS
<1>3. x \in RenderedExpr /\ x.body = e /\ x.cond = ""
  <2> HIDE DEF i
  <2> QED BY <1>2 DEF RenderedExpr
<1> HIDE DEF x
<1> QED BY <1>1, <1>3, RealClause

LEMMA Combined ==
  ASSUME NEW p, NEW e \in RenderedExpr, e.cond = "", NEW s \in BOOLEAN
  PROVE  Says(combineCond(cond(p, opts), e, opts, s), e.body, p)
<1> DEFINE c == cond(p, opts)
<1>1. c \in Conds /\ e # Absent
  BY CondType, RealClause
<1>2. CASE c = ""
  BY <1>1, <1>2 DEF combineCond, Says
<1>3. CASE c # ""
  <2> DEFINE i == e.initplan \/ wraps(opts, s)
             x == [e EXCEPT !.cond = c, !.initplan = i]
  <2>1. combineCond(c, e, opts, s) = x
    BY <1>1, <1>3 DEF combineCond
  <2>2. i \in BOOLEAN
    OBVIOUS
  <2>3. x \in RenderedExpr /\ x.body = e.body /\ x.cond = c
    <3> HIDE DEF i, c
    <3> QED BY <1>1, <2>2 DEF RenderedExpr, Conds
  <2> HIDE DEF x
  <2> QED BY <2>1, <2>3, RealClause DEF Says
<1> QED BY <1>2, <1>3

LEMMA Escaped ==
  ASSUME NEW p, NEW x, NEW e, Says(x, e, p)
  PROVE  Says(orEscape(p, opts, x), e, p)
<1>1. CASE ~p.permissive /\ emitsServiceEscape(opts)
  <2> DEFINE y == [x EXCEPT !.escape = TRUE]
  <2>1. orEscape(p, opts, x) = y
    BY <1>1 DEF orEscape, Says
  <2>2. y \in RenderedExpr /\ y.body = x.body /\ y.cond = x.cond
    BY DEF Says, RenderedExpr
  <2> HIDE DEF y
  <2> QED BY <2>1, <2>2, RealClause DEF Says
<1>2. CASE ~(~p.permissive /\ emitsServiceEscape(opts))
  BY <1>2 DEF orEscape
<1> QED BY <1>1, <1>2

\* USING is written where the source wrote it; elsewhere only a role predicate
\* can take its place.
LEMMA UsingSays ==
  ASSUME NEW p \in Policy, Creatable(p), NEW s \in BOOLEAN
  PROVE  /\ p.using # Absent => Says(using(p, opts, s), p.using, p)
         /\ p.using = Absent /\ ~fillsAbsent(p) => using(p, opts, s) = Absent
<1> DEFINE e == rewriteExpr(p.using, opts, s)
<1>1. CASE p.using # Absent
  <2>1. p.using \in Expr /\ p.cmd # "INSERT"
    BY <1>1 DEF Policy, Creatable
  <2>2. e \in RenderedExpr /\ e.body = p.using /\ e.cond = ""
    BY <2>1, Rewritten
  <2>3. Says(combineCond(cond(p, opts), e, opts, s), p.using, p)
    BY <2>2, Combined
  <2> HIDE DEF e
  <2> QED BY <1>1, <2>1, <2>3, Escaped DEF using, e
<1>2. CASE p.using = Absent /\ ~fillsAbsent(p)
  <2>1. e = Absent
    BY <1>2 DEF rewriteExpr
  <2>2. p.cmd # "INSERT" => cond(p, opts) = ""
    BY <1>2 DEF fillsAbsent
  <2> QED BY <1>2, <2>1, <2>2 DEF using, combineCond, orEscape
<1> QED BY <1>1, <1>2

\* So is WITH CHECK; only an INSERT policy may get one it did not have.
LEMMA CheckSays ==
  ASSUME NEW p \in Policy, NEW s \in BOOLEAN
  PROVE  /\ p.check # Absent => Says(check(p, opts, s), p.check, p)
         /\ p.check = Absent /\ ~(p.cmd = "INSERT" /\ fillsAbsent(p)) =>
              check(p, opts, s) = Absent
<1> DEFINE e == rewriteExpr(p.check, opts, s)
<1>1. CASE p.check # Absent
  <2>1. p.check \in Expr
    BY <1>1 DEF Policy
  <2>2. e \in RenderedExpr /\ e # Absent /\ e.body = p.check /\ e.cond = ""
    BY <2>1, Rewritten
  <2>3. Says(combineCond(cond(p, opts), e, opts, s), p.check, p)
    BY <2>2, Combined
  <2> HIDE DEF e
  <2> QED BY <1>1, <2>2, <2>3, Escaped DEF check, e
<1>2. CASE p.check = Absent /\ ~(p.cmd = "INSERT" /\ fillsAbsent(p))
  <2>1. e = Absent
    BY <1>2 DEF rewriteExpr
  <2>2. p.cmd = "INSERT" => cond(p, opts) = ""
    BY <1>2 DEF fillsAbsent
  <2> QED BY <1>2, <2>1, <2>2 DEF check, combineCond, orEscape
<1> QED BY <1>1, <1>2

\* The qualifier of the whole rendered policy, before it is split.
LEMMA BaseSays ==
  ASSUME NEW p \in Policy, Creatable(p), NEW s \in BOOLEAN, NEW side \in Sides
  PROVE  LET q == Qual(base(p, opts, s), side)
         IN  /\ Qual(p, side) # Absent => Says(q, Qual(p, side), p)
             /\ Qual(p, side) = Absent /\ ~fillsAbsent(p) => q = Absent
<1> DEFINE b == base(p, opts, s)
<1>1. b.using = using(p, opts, s) /\ b.check = check(p, opts, s)
  BY DEF base
<1>2. /\ p.using # Absent => Says(b.using, p.using, p)
      /\ p.using = Absent /\ ~fillsAbsent(p) => b.using = Absent
  BY <1>1, UsingSays
<1>3. /\ p.check # Absent => Says(b.check, p.check, p)
      /\ p.check = Absent /\ ~(p.cmd = "INSERT" /\ fillsAbsent(p)) => b.check = Absent
  BY <1>1, CheckSays
<1>4. p.cmd = "INSERT" => p.using = Absent
  BY DEF Creatable
<1> HIDE DEF b
<1>5. CASE side = "using"
  BY <1>2, <1>5 DEF Qual, b
<1>6. CASE side = "check" /\ p.check # Absent
  BY <1>3, <1>6 DEF Qual, Says, b
<1>7. CASE side = "check" /\ p.check = Absent
  <2>1. CASE b.check = Absent
    BY <1>2, <1>7, <2>1 DEF Qual, b
  <2>2. CASE b.check # Absent
    BY <1>3, <1>4, <1>7, <2>2 DEF Qual, b
  <2> QED BY <2>1, <2>2
<1> QED BY <1>5, <1>6, <1>7 DEF Sides

-----------------------------------------------------------------------------
\* The split.

\* Policies p stands for under command cmd.
Serves(p, cmd) == p.cmd \in {cmd, "ALL"}

\* A command is served with the qualifiers of the whole policy.
LEMMA OwnQual ==
  ASSUME NEW p \in Policy, NEW e \in Own(p), NEW cmd \in Cmds, Serves(e, cmd),
         NEW side \in SidesOf(cmd)
  PROVE  /\ Serves(p, cmd) /\ side \in Sides
         /\ Qual(e, side) = Qual(base(p, opts, selfRef(p)), side)
<1> DEFINE b == base(p, opts, selfRef(p))
<1>1. b.cmd = p.cmd
  BY DEF base
<1>2. side \in Sides /\ (cmd = "INSERT" => side = "check")
                     /\ (cmd \in {"SELECT", "DELETE"} => side = "using")
  BY DEF SidesOf, Sides, Cmds
<1> HIDE DEF b
<1>3. \/ e = b
      \/ p.cmd = "ALL" /\ e \in splitAll(b)
  BY DEF Own, rendered, b
<1>4. CASE e = b
  BY <1>1, <1>2, <1>4 DEF Serves, b
<1>5. CASE p.cmd = "ALL" /\ e \in splitAll(b)
  <2>1. /\ e.cmd = cmd
        /\ \/ cmd = "SELECT" /\ e.using = b.using
           \/ cmd = "INSERT" /\ e.using = Absent /\ e.check = Qual(b, "check")
           \/ cmd = "UPDATE" /\ e.using = b.using /\ e.check = b.check
           \/ cmd = "DELETE" /\ e.using = b.using
    BY <1>5 DEF splitAll, mk, Serves, Cmds
  <2> QED BY <1>2, <1>5, <2>1 DEF Serves, Qual, b
<1> QED BY <1>3, <1>4, <1>5

\* Every command of a converted policy is served.
LEMMA OwnServes ==
  ASSUME NEW p \in Policy, NEW cmd \in Cmds, Serves(p, cmd)
  PROVE  \E e \in Own(p) : Serves(e, cmd)
<1> DEFINE b == base(p, opts, selfRef(p))
<1>1. b.cmd = p.cmd
  BY DEF base
<1> HIDE DEF b
<1>2. CASE Own(p) = {b}
  BY <1>1, <1>2 DEF Serves
<1>3. CASE Own(p) = splitAll(b)
  <2>1. mk(b, "_select", "SELECT", b.using, Absent) \in Own(p)
    BY <1>3 DEF splitAll
  <2>2. mk(b, "_insert", "INSERT", Absent, Qual(b, "check")) \in Own(p)
    BY <1>3 DEF splitAll
  <2>3. mk(b, "_update", "UPDATE", b.using, b.check) \in Own(p)
    BY <1>3 DEF splitAll
  <2>4. mk(b, "_delete", "DELETE", b.using, Absent) \in Own(p)
    BY <1>3 DEF splitAll
  <2>5. ASSUME NEW u, NEW c, NEW suffix
        PROVE  mk(b, suffix, cmd, u, c).cmd = cmd
    BY DEF mk
  <2> QED BY <2>1, <2>2, <2>3, <2>4, <2>5 DEF Serves, Cmds
<1> QED BY <1>2, <1>3 DEF Own, rendered, b

\* The suffixes tell the policies of a split apart, however long the name.
LEMMA SuffixTells ==
  ASSUME NEW name \in Seq(Symbol), NEW s \in Suffix, NEW r \in Suffix,
         suffixName(name, s) = suffixName(name, r)
  PROVE  s = r
<1> s \in Symbol /\ r \in Symbol
  BY DEF Symbol
<1>1. ASSUME NEW x \in Seq(Symbol), Append(x, s) = Append(x, r)
      PROVE  s = r
  <2>1. Append(x, s)[Len(x) + 1] = s /\ Append(x, r)[Len(x) + 1] = r
    BY AppendProperties
  <2> QED BY <1>1, <2>1
<1>2. CASE Len(name) + 1 <= MaxIdent
  BY <1>1, <1>2 DEF suffixName
<1>3. CASE ~(Len(name) + 1 <= MaxIdent)
  <2>1. MaxIdent - 1 \in 0..Len(name)
    BY <1>3, NameAssumption
  <2>2. SubSeq(name, 1, MaxIdent - 1) \in Seq(Symbol)
    BY <2>1, SubSeqProperties
  <2> QED BY <1>1, <1>3, <2>2 DEF suffixName
<1> QED BY <1>2, <1>3

LEMMA OwnNames ==
  ASSUME NEW p \in Policy, NEW m \in Own(p), NEW n \in Own(p), m.name = n.name
  PROVE  m = n
<1> DEFINE b == base(p, opts, selfRef(p))
<1>1. b.name \in Seq(Symbol)
  BY NameAssumption DEF base, Policy
<1> HIDE DEF b
<1>2. CASE Own(p) = {b}
  BY <1>2
<1>3. CASE Own(p) = splitAll(b)
  <2> DEFINE part(s) == CASE s = "_select" -> mk(b, s, "SELECT", b.using, Absent)
                          [] s = "_insert" -> mk(b, s, "INSERT", Absent, Qual(b, "check"))
                          [] s = "_update" -> mk(b, s, "UPDATE", b.using, b.check)
                          [] s = "_delete" -> mk(b, s, "DELETE", b.using, Absent)
  <2>1. \A e \in Own(p) : \E s \in Suffix : e = part(s)
    BY <1>3 DEF splitAll, Suffix
  <2>2. \A s \in Suffix : part(s).name = suffixName(b.name, s)
    BY DEF mk, Suffix
  <2> HIDE DEF part
  <2>3. PICK s \in Suffix : m = part(s)
    BY <2>1
  <2>4. PICK r \in Suffix : n = part(r)
    BY <2>1
  <2>5. s = r
    BY <1>1, <2>2, <2>3, <2>4, SuffixTells
  <2> QED BY <2>3, <2>4, <2>5
<1> QED BY <1>2, <1>3 DEF Own, rendered, b

\* Where no two names clash, everything rendered is in the bundle.
LEMMA NoClash ==
  ASSUME Inv, NEW p \in Kept, ~clashOn(p.table)
  PROVE  Own(p) \subseteq emitted
<1> SUFFICES ASSUME NEW n \in Own(p) PROVE n \in emitted
  OBVIOUS
<1>1. p \in Policy /\ p \in on(p.table) /\ outcome[p] = "converted"
  BY DEF Inv, Typing, WellFormed, Kept, CatalogType, on
<1>2. PICK f \in emitted : f.table = n.table /\ f.name = n.name
  BY DEF Inv, Accounted
<1>3. PICK q \in Kept : q \in Policy /\ f \in Own(q) /\ RenderedFrom(f, q)
  BY Origin
<1>4. f.table = q.table /\ n.table = p.table
  BY <1>1, <1>3, RenderedShape DEF RenderedFrom
<1>5. q \in on(p.table) /\ outcome[q] = "converted"
  BY <1>2, <1>4 DEF Kept, on
<1>6. q = p
  BY <1>1, <1>2, <1>3, <1>5 DEF clashOn, Own
<1> QED BY <1>1, <1>2, <1>3, <1>6, OwnNames

-----------------------------------------------------------------------------
\* The callers.

WebRoles == {"anon", "authenticated"}

\* The TO list of p names the role of caller c.
Names(p, c) == hasPublic(p) \/ roleOf[c] \in p.roles

\* A skipped policy was none of a web caller's.
LEMMA SkippedNotWeb ==
  ASSUME Inv, NEW p \in cat.policies, outcome[p] = "skipped",
         p.table \notin ManagedTable, NEW c \in Caller, Web(c)
  PROVE  ~Names(p, c)
<1>1. skip(p, opts) # ""
  BY DEF Inv, Excused
<1>2. /\ "public" \notin InternalRole /\ "anon" \notin InternalRole
      /\ "authenticated" \notin InternalRole
  BY RoleAssumption DEF PseudoRole
<1>3. roleOf[c] \in WebRoles
  BY DEF Web, WebRoles
<1>4. CASE p.roles # {} /\ p.roles \subseteq InternalRole
  BY <1>2, <1>3, <1>4 DEF Names, hasPublic, WebRoles
<1>5. CASE p.roles \ InternalRole = {"service_role"}
  BY <1>2, <1>3, <1>5 DEF Names, hasPublic, WebRoles
<1> QED BY <1>1, <1>4, <1>5 DEF skip

\* A web caller runs as the runtime role, or as the owner under the single role
\* model, and never as one of the project's own.
LEMMA WebSession ==
  ASSUME Inv, converted, NEW c \in Caller, Web(c)
  PROVE  /\ ~Service(c)
         /\ sessionRoles(target, c) \cap CustomRole = {}
         /\ opts.roleModel = "split" => AppRole \in sessionRoles(target, c)
         /\ keepsRoles(opts) => sessionRoles(target, c) =
                                  {AppRole} \cup (compatRoles \cap WebRoles)
         /\ "app_service" \notin sessionRoles(target, c)
         /\ "owner" \in sessionRoles(target, c) => opts.roleModel = "single"
<1>1. roleOf[c] \in WebRoles /\ roleOf[c] \notin CustomRole
  BY RoleAssumption DEF Web, WebRoles, PseudoRole
<1>2. ~Service(c)
  BY <1>1 DEF Service, WebRoles
<1>3. target.granted \subseteq WebRoles
  BY DEF target, Inv, Finished, converted, assembled, grantedRoles, WebRoles
<1>3a. keepsRoles(opts) => target.granted = compatRoles \cap WebRoles
  BY DEF target, Inv, Finished, converted, assembled, grantedRoles, WebRoles,
         keepsRoles
<1>4. opts.roleModel \in {"split", "single"}
  BY OptionsAssumption DEF Inv, Typing, Options
<1>5. sessionRoles(target, c) = IF opts.roleModel = "split"
                                THEN {AppRole} \cup target.granted ELSE {"owner"}
  BY <1>1, <1>2, <1>4 DEF sessionRoles
<1>6. /\ AppRole \notin CustomRole /\ "owner" \notin CustomRole
      /\ WebRoles \cap CustomRole = {}
  BY RoleAssumption DEF AppRole, PseudoRole, WebRoles
<1>7. keepsRoles(opts) => opts.roleModel = "split"
  BY DEF keepsRoles
<1> QED BY <1>2, <1>3, <1>3a, <1>4, <1>5, <1>6, <1>7 DEF WebRoles, AppRole

\* A rendered policy reaches a web caller the source names.
LEMMA TargetsReach ==
  ASSUME Inv, converted, NEW p \in Policy, keepsRoles(opts) \/ ~mixed(p),
         needsRoles(p, opts) \subseteq compatRoles,
         NEW c \in Caller, Web(c), Names(p, c)
  PROVE  \/ targets(p, opts) = {}
         \/ targets(p, opts) \cap sessionRoles(target, c) # {}
<1>1. CASE ~keepsRoles(opts)
  <2>1. custom(p) = {}
    BY <1>1 DEF mixed, Names, Web
  <2>2. targets(p, opts) = IF opts.roleModel = "split" THEN {AppRole} ELSE {}
    BY <1>1, <2>1 DEF targets
  <2> QED BY <2>2, WebSession
<1>2. CASE keepsRoles(opts) /\ hasPublic(p)
  BY <1>2 DEF targets
<1>3. CASE keepsRoles(opts) /\ ~hasPublic(p)
  <2>1. roleOf[c] \in p.roles \cap WebRoles /\ roleOf[c] \notin InternalRole
    BY <1>3, RoleAssumption DEF Names, Web, WebRoles, PseudoRole
  <2>2. roleOf[c] \in targets(p, opts)
    BY <1>3, <2>1 DEF targets
  <2>3. roleOf[c] \in compatRoles
    BY <1>3, <2>1 DEF needsRoles, WebRoles, PseudoRole
  <2> QED BY <1>3, <2>1, <2>2, <2>3, WebSession
<1> QED BY <1>1, <1>2, <1>3

\* One the source does not name is kept out: by the TO list, or, where that is
\* gone, by the role predicate.
LEMMA StrangersKeptOut ==
  ASSUME Inv, converted, ~keepsRoles(opts),
         NEW p \in Policy, ~mixed(p), skip(p, opts) = "",
         NEW c \in Caller, Web(c), ~Names(p, c),
         \/ targets(p, opts) = {}
         \/ targets(p, opts) \cap sessionRoles(target, c) # {}
  PROVE  cond(p, opts) # "" /\ ~condHolds(cond(p, opts), c)
<1>1. ~hasPublic(p) /\ roleOf[c] \in WebRoles /\ roleOf[c] \notin p.roles
  BY DEF Names, Web, WebRoles
<1>2. custom(p) = {}
  <2> SUFFICES ASSUME custom(p) # {} PROVE FALSE
    OBVIOUS
  <2>1. targets(p, opts) = custom(p)
    BY DEF targets
  <2> QED BY <2>1, WebSession DEF custom
<1>3. p.roles \subseteq PseudoRole \cup InternalRole
  BY <1>1, <1>2 DEF Policy, SourceRole, hasPublic, custom
<1>4. p.roles \cap WebRoles # {}
  <2> SUFFICES ASSUME p.roles \cap WebRoles = {} PROVE FALSE
    OBVIOUS
  <2>1. p.roles \subseteq {"service_role"} \cup InternalRole
    BY <1>3 DEF PseudoRole, WebRoles
  <2>2. p.roles # {}
    BY <1>1 DEF hasPublic
  <2>3. CASE p.roles \subseteq InternalRole
    BY <2>2, <2>3 DEF skip
  <2>4. CASE ~(p.roles \subseteq InternalRole)
    <3>1. p.roles \ InternalRole = {"service_role"}
      BY <2>1, <2>4
    <3> QED BY <2>4, <3>1 DEF skip
  <2> QED BY <2>3, <2>4
<1>5. CASE roleOf[c] = "anon"
  <2>1. p.roles \cap {"anon", "authenticated"} = {"authenticated"}
    BY <1>1, <1>4, <1>5 DEF WebRoles
  <2>2. cond(p, opts) = "authenticated"
    BY <1>1, <1>2, <2>1 DEF cond, scope
  <2> QED BY <1>5, <2>2, CallerAssumption DEF condHolds
<1>6. CASE roleOf[c] = "authenticated"
  <2>1. p.roles \cap {"anon", "authenticated"} = {"anon"}
    BY <1>1, <1>4, <1>6 DEF WebRoles
  <2>2. cond(p, opts) = "anon"
    BY <1>1, <1>2, <2>1 DEF cond, scope
  <2> QED BY <1>6, <2>2, CallerAssumption DEF condHolds
<1> QED BY <1>1, <1>5, <1>6 DEF WebRoles

\* The role predicate lets the callers through that the TO list names.
LEMMA NamedPass ==
  ASSUME NEW p \in Policy, NEW c \in Caller, Web(c), Names(p, c)
  PROVE  condHolds(cond(p, opts), c)
<1>1. CASE cond(p, opts) = ""
  BY <1>1 DEF condHolds
<1>2. CASE cond(p, opts) = "authenticated"
  <2>1. ~hasPublic(p) /\ p.roles \cap {"anon", "authenticated"} = {"authenticated"}
    BY <1>2 DEF cond, scope
  <2>2. roleOf[c] = "authenticated"
    BY <2>1 DEF Names, Web
  <2> QED BY <1>2, <2>2, CallerAssumption DEF condHolds
<1>3. CASE cond(p, opts) = "anon"
  <2>1. ~hasPublic(p) /\ p.roles \cap {"anon", "authenticated"} = {"anon"}
    BY <1>3 DEF cond, scope
  <2>2. roleOf[c] = "anon"
    BY <2>1 DEF Names, Web
  <2> QED BY <1>3, <2>2, CallerAssumption DEF condHolds
<1> QED BY <1>1, <1>2, <1>3, CondType DEF Conds

-----------------------------------------------------------------------------
\* One policy, before and after.

\* What a clause that says q holds for.
LEMMA HoldsAs ==
  ASSUME NEW p, NEW q \in Expr, NEW x, Says(x, q, p), NEW c, ~Service(c)
  PROVE  renderedHolds(x, c) <=> condHolds(cond(p, opts), c) /\ c \in q.truth
BY ExprAssumption DEF Says, renderedHolds

\* The source policy as PostgreSQL sees it.
LEMMA Written ==
  ASSUME NEW p, NEW c, NEW cmd, NEW side
  PROVE  /\ asWritten(p).permissive = p.permissive
         /\ Qual(asWritten(p), side) = Qual(p, side)
         /\ AppliesTo(asWritten(p), cmd, {roleOf[c]}) <=>
              Serves(p, cmd) /\ Names(p, c)
BY DEF asWritten, Qual, AppliesTo, Serves, Names, hasPublic

\* A policy of the catalog is one PostgreSQL accepted.
LEMMA OfCatalog ==
  ASSUME Inv, NEW p \in cat.policies
  PROVE  p \in Policy /\ Creatable(p) /\ selfRef(p) \in BOOLEAN
         /\ \A side : Qual(p, side) \in Expr \cup {Absent}
<1>1. p \in Policy
  BY DEF Inv, Typing, WellFormed, CatalogType
<1>2. Creatable(p)
  BY DEF Inv, Typing, WellFormed
<1>3. selfRef(p) \in BOOLEAN
  BY DEF selfRef
<1> QED BY <1>1, <1>2, <1>3 DEF Qual, Policy

\* A rendered policy that applies stands for one of the command, under the
\* role predicate.
LEMMA BackToSource ==
  ASSUME Inv, converted,
         NEW p \in Kept, ~fillsAbsent(p), NEW e \in Own(p),
         NEW c \in Caller, Web(c), NEW cmd \in Cmds, NEW side \in SidesOf(cmd),
         AppliesTo(e, cmd, sessionRoles(target, c)), Qual(e, side) # Absent
  PROVE  /\ e.permissive = p.permissive
         /\ Serves(p, cmd) /\ Qual(p, side) \in Expr
         /\ renderedHolds(Qual(e, side), c) <=>
              condHolds(cond(p, opts), c) /\ c \in Qual(p, side).truth
         /\ \/ targets(p, opts) = {}
            \/ targets(p, opts) \cap sessionRoles(target, c) # {}
         /\ p \in Policy /\ skip(p, opts) = ""
<1>1. p \in cat.policies /\ outcome[p] = "converted" /\ skip(p, opts) = ""
  BY DEF Kept, Inv, Excused
<1>2. /\ p \in Policy /\ Creatable(p) /\ selfRef(p) \in BOOLEAN
      /\ Qual(p, side) \in Expr \cup {Absent}
  BY <1>1, OfCatalog
<1>3. Serves(e, cmd) /\ RenderedFrom(e, p)
  BY <1>2, RenderedShape DEF AppliesTo, Serves
<1>4. /\ Serves(p, cmd) /\ side \in Sides
      /\ Qual(e, side) = Qual(base(p, opts, selfRef(p)), side)
  BY <1>2, <1>3, OwnQual
<1>5. Qual(p, side) # Absent /\ Says(Qual(e, side), Qual(p, side), p)
  BY <1>2, <1>4, BaseSays
<1>6. Qual(p, side) \in Expr
  BY <1>2, <1>5
<1>7. ~Service(c)
  BY WebSession
<1>8. renderedHolds(Qual(e, side), c) <=>
        condHolds(cond(p, opts), c) /\ c \in Qual(p, side).truth
  BY <1>5, <1>6, <1>7, HoldsAs
<1>9. \/ targets(p, opts) = {}
      \/ targets(p, opts) \cap sessionRoles(target, c) # {}
  BY <1>3 DEF AppliesTo, RenderedFrom
<1> QED BY <1>1, <1>2, <1>3, <1>4, <1>6, <1>8, <1>9 DEF RenderedFrom

\* A source policy that applies to a web caller is there in the bundle, and
\* decides as it did.
LEMMA ForthToTarget ==
  ASSUME Inv, converted, NEW p \in cat.policies,
         keepsRoles(opts) \/ ~mixed(p), outcome[p] # "blocked",
         p.table \notin ManagedTable, ~clashOn(p.table),
         NEW c \in Caller, Web(c), NEW cmd \in Cmds, NEW side \in SidesOf(cmd),
         Serves(p, cmd), Names(p, c), Qual(p, side) # Absent
  PROVE  \E e \in emitted :
           /\ e.table = p.table /\ e.permissive = p.permissive
           /\ AppliesTo(e, cmd, sessionRoles(target, c)) /\ Qual(e, side) # Absent
           /\ renderedHolds(Qual(e, side), c) <=> c \in Qual(p, side).truth
<1>1. p \in Kept
  <2>1. outcome[p] # "pending"
    BY DEF Inv, Finished, converted, pending
  <2>2. outcome[p] # "skipped"
    BY SkippedNotWeb
  <2> QED BY <2>1, <2>2 DEF Inv, Typing, Outcome, Kept
<1>2. /\ p \in Policy /\ Creatable(p) /\ selfRef(p) \in BOOLEAN
      /\ Qual(p, side) \in Expr
  BY OfCatalog
<1>3. PICK e \in Own(p) : Serves(e, cmd)
  BY <1>2, OwnServes
<1>4. e \in emitted
  BY <1>1, NoClash
<1>5. RenderedFrom(e, p)
  BY <1>2, RenderedShape
<1>6. side \in Sides /\ Qual(e, side) = Qual(base(p, opts, selfRef(p)), side)
  BY <1>2, <1>3, OwnQual
<1>7. Says(Qual(e, side), Qual(p, side), p)
  BY <1>2, <1>6, BaseSays
<1>8. renderedHolds(Qual(e, side), c) <=> c \in Qual(p, side).truth
  BY <1>2, <1>7, HoldsAs, NamedPass, WebSession
<1>8a. needsRoles(p, opts) \subseteq compatRoles
  BY <1>1 DEF Inv, Accounted
<1>9. AppliesTo(e, cmd, sessionRoles(target, c))
  BY <1>2, <1>3, <1>5, <1>8a, TargetsReach DEF AppliesTo, Serves, RenderedFrom
<1> QED BY <1>4, <1>5, <1>7, <1>8, <1>9 DEF RenderedFrom, Says

\* A web caller passes a protected table only by its policies.
LEMMA ByPolicies ==
  ASSUME Inv, converted, NEW t \in cat.enabled \ ManagedTable,
         NEW c \in Caller, Web(c), NEW cmd, NEW side
  PROVE  LET there == policiesOn(target, t)
         IN  /\ SourceAdmits(c, t, cmd, side) <=>
                  Admits(sourceOn(cat, t), cmd, side, {roleOf[c]},
                         {e \in Expr : c \in e.truth})
             /\ TargetAdmits(c, t, cmd, side) <=>
                  Admits(there, cmd, side, sessionRoles(target, c),
                         {e \in ClausesOf(there) : renderedHolds(e, c)})
<1>1. t \in rlsTables /\ bundle = assembled
  BY DEF Inv, Registered, Finished, converted
<1>2. t \in target.enabled
  BY <1>1 DEF target, assembled
<1>3. ~bypasses(target, c, t)
  <2>1. opts.roleModel = "single" => t \in target.forced
    BY <1>1 DEF target, assembled, forcedInTarget
  <2> QED BY <2>1, WebSession DEF bypasses
<1>4. ~Service(c)
  BY WebSession
<1> QED BY <1>2, <1>3, <1>4 DEF SourceAdmits, Permits, TargetAdmits, DbAdmits

\* What stands in both clauses of the service escape.
LEMMA GateClauses ==
  ASSUME NEW t
  PROVE  LET gate == [body |-> Absent, cond |-> "never", escape |-> TRUE,
                      initplan |-> FALSE]
             e    == serviceEscapeOn(t)
         IN  e.permissive = TRUE /\ e.using = gate /\ e.check = gate
<1> DEFINE gate == [body |-> Absent, cond |-> "never", escape |-> TRUE,
                    initplan |-> FALSE]
<1>1. serviceEscapeOn(t) =
        [name |-> <<"capyrls_service_escape">>, table |-> t, permissive |-> TRUE,
         cmd |-> "ALL", targets |-> {}, using |-> gate, check |-> gate]
  BY DEF serviceEscapeOn, gate
<1> HIDE DEF gate
<1>2. ASSUME NEW n, NEW x, NEW y
      PROVE  LET r == [name |-> n, table |-> x, permissive |-> TRUE, cmd |-> "ALL",
                       targets |-> {}, using |-> y, check |-> y]
             IN  r.permissive = TRUE /\ r.using = y /\ r.check = y
  OBVIOUS
<1>3. LET e == serviceEscapeOn(t)
      IN  e.permissive = TRUE /\ e.using = gate /\ e.check = gate
  BY <1>1, <1>2
<1> QED BY <1>3 DEF gate

\* The service escape says nothing to a web caller.
LEMMA GateSilent ==
  ASSUME NEW t, NEW c \in Caller, Web(c), NEW side
  PROVE  /\ serviceEscapeOn(t).permissive
         /\ ~renderedHolds(Qual(serviceEscapeOn(t), side), c)
<1> DEFINE gate == [body |-> Absent, cond |-> "never", escape |-> TRUE,
                    initplan |-> FALSE]
<1>1. Qual(serviceEscapeOn(t), side) = gate
  BY GateClauses DEF Qual
<1>2. gate.escape = TRUE /\ gate.cond = "never"
  OBVIOUS
<1> HIDE DEF gate
<1>3. ~condHolds(gate.cond, c)
  BY <1>2 DEF condHolds
<1>4. ~renderedHolds(gate, c)
  BY <1>3 DEF renderedHolds, Web, Service
<1> QED BY <1>1, <1>4, GateClauses

LEMMA EscapeSilent ==
  ASSUME NEW e \in escapePolicies, NEW c \in Caller, Web(c), NEW side
  PROVE  e.permissive /\ ~renderedHolds(Qual(e, side), c)
BY GateSilent DEF escapePolicies

-----------------------------------------------------------------------------
\* The theorems.

\* The policies rendered on a table come from its own.
LEMMA OnTable ==
  ASSUME Inv, NEW t, NEW e \in emitted, e.table = t
  PROVE  \E p \in Kept : p \in on(t) /\ e \in Own(p)
<1>1. PICK p \in Kept : e \in Own(p) /\ RenderedFrom(e, p)
  BY Origin
<1> QED BY <1>1 DEF RenderedFrom, on, Kept

\* The finished bundle widens nothing.
LEMMA Narrows == Inv => NoWidening
<1> SUFFICES ASSUME Inv, converted, ~keepsRoles(opts),
                    NEW t \in Table, narrowing(t),
                    NEW c \in Caller, NEW cmd \in Cmds, Web(c),
                    NEW side \in SidesOf(cmd), TargetAdmits(c, t, cmd, side)
             PROVE  SourceAdmits(c, t, cmd, side)
  BY DEF NoWidening
<1> DEFINE there    == policiesOn(target, t)
           session  == sessionRoles(target, c)
           voices   == Voices(there, cmd, side, session)
           holding  == {e \in ClausesOf(there) : renderedHolds(e, c)}
           written  == sourceOn(cat, t)
           spoken   == Voices(written, cmd, side, {roleOf[c]})
<1>1. t \in cat.enabled \ ManagedTable /\ ~clashOn(t)
  BY DEF narrowing, convertible
<1>2. /\ \E e \in voices : e.permissive /\ Qual(e, side) \in holding
      /\ \A e \in voices : ~e.permissive => Qual(e, side) \in holding
  BY <1>1, ByPolicies DEF Admits
<1>3. \E w \in spoken : w.permissive /\ Qual(w, side) \in {x \in Expr : c \in x.truth}
  <2>1. PICK e \in voices : e.permissive /\ Qual(e, side) \in holding
    BY <1>2
  <2>2. /\ e \in emitted \cup escapePolicies /\ e.table = t
        /\ AppliesTo(e, cmd, session) /\ Qual(e, side) # Absent
        /\ renderedHolds(Qual(e, side), c)
    BY <2>1 DEF Voices, policiesOn, target
  <2>3. e \in emitted
    BY <2>2, EscapeSilent
  <2>4. PICK p \in Kept : p \in on(t) /\ e \in Own(p)
    BY <2>2, <2>3, OnTable
  <2>5. e.permissive = p.permissive
    BY <2>4, OfCatalog, RenderedShape DEF RenderedFrom, Kept
  <2>6. ~mixed(p) /\ ~fillsAbsent(p)
    BY <2>1, <2>4, <2>5 DEF narrowing, Kept
  <2>6a. /\ Serves(p, cmd) /\ Qual(p, side) \in Expr
         /\ condHolds(cond(p, opts), c) /\ c \in Qual(p, side).truth
         /\ \/ targets(p, opts) = {}
            \/ targets(p, opts) \cap session # {}
         /\ p \in Policy /\ skip(p, opts) = ""
    BY <2>2, <2>4, <2>6, BackToSource
  <2>7. Names(p, c)
    BY <2>6, <2>6a, StrangersKeptOut
  <2>8. asWritten(p) \in written
    BY <2>4 DEF on, sourceOn
  <2>9. /\ asWritten(p).permissive = p.permissive
        /\ Qual(asWritten(p), side) = Qual(p, side)
        /\ AppliesTo(asWritten(p), cmd, {roleOf[c]})
    BY <2>6a, <2>7, Written
  <2>10. asWritten(p) \in spoken
    BY <2>6a, <2>8, <2>9, ExprAssumption DEF Voices
  <2> QED BY <2>1, <2>5, <2>6a, <2>9, <2>10
<1>4. \A w \in spoken : ~w.permissive => Qual(w, side) \in {x \in Expr : c \in x.truth}
  <2> SUFFICES ASSUME NEW w \in spoken, ~w.permissive
               PROVE  Qual(w, side) \in {x \in Expr : c \in x.truth}
    OBVIOUS
  <2>1. PICK p \in cat.policies : p.table = t /\ w = asWritten(p)
    BY DEF Voices, sourceOn
  <2>2. /\ p.permissive = w.permissive /\ Qual(p, side) = Qual(w, side)
        /\ Serves(p, cmd) /\ Names(p, c) /\ Qual(p, side) # Absent
    BY <2>1, Written DEF Voices
  <2>3. outcome[p] # "blocked" /\ ~mixed(p)
    BY <2>1, <2>2 DEF narrowing, on
  <2>4. PICK e \in emitted :
          /\ e.table = t /\ e.permissive = p.permissive
          /\ AppliesTo(e, cmd, session) /\ Qual(e, side) # Absent
          /\ renderedHolds(Qual(e, side), c) <=> c \in Qual(p, side).truth
    BY <1>1, <2>1, <2>2, <2>3, ForthToTarget
  <2>5. e \in voices
    BY <2>4 DEF Voices, policiesOn, target
  <2>6. renderedHolds(Qual(e, side), c)
    BY <1>2, <2>2, <2>4, <2>5
  <2>7. Qual(p, side) \in Expr
    BY <2>2, OfCatalog
  <2> QED BY <2>2, <2>4, <2>6, <2>7
<1>5. Admits(written, cmd, side, {roleOf[c]}, {x \in Expr : c \in x.truth})
  BY <1>3, <1>4 DEF Admits
<1> QED BY <1>1, <1>5, ByPolicies

\* However a catalog was converted, a row a web caller can reach was a row it
\* could reach on Supabase, on every table whose policies neither mix roles
\* nor lack the clause their role predicate goes into: skipping, blocking,
\* splitting and adding the escape only narrow.
THEOREM NoWideningTheorem == Spec => []NoWidening
BY Invariance, Narrows, PTL

\* A web caller keeps its access to a table when every policy is carried over
\* and no restrictive one starts to bind it.
LEMMA WebKeeps ==
  ASSUME Inv, converted, NEW t \in cat.enabled \ ManagedTable, ~clashOn(t),
         \A p \in on(t) : /\ outcome[p] # "blocked" /\ ~fillsAbsent(p)
                          /\ keepsRoles(opts) \/ ~mixed(p),
         NEW c \in Caller, Web(c), NEW cmd \in Cmds, NEW side \in SidesOf(cmd),
         \A p \in on(t) :
           /\ ~p.permissive /\ outcome[p] = "converted"
           /\ \/ targets(p, opts) = {}
              \/ targets(p, opts) \cap sessionRoles(target, c) # {}
           => Names(p, c),
         SourceAdmits(c, t, cmd, side)
  PROVE  TargetAdmits(c, t, cmd, side)
<1> DEFINE there   == policiesOn(target, t)
           session == sessionRoles(target, c)
           voices  == Voices(there, cmd, side, session)
           holding == {e \in ClausesOf(there) : renderedHolds(e, c)}
           written == sourceOn(cat, t)
           spoken  == Voices(written, cmd, side, {roleOf[c]})
           true    == {x \in Expr : c \in x.truth}
<1>1. /\ \E w \in spoken : w.permissive /\ Qual(w, side) \in true
      /\ \A w \in spoken : ~w.permissive => Qual(w, side) \in true
  BY ByPolicies DEF Admits
<1>2. ASSUME NEW e \in voices, renderedHolds(Qual(e, side), c)
      PROVE  Qual(e, side) \in holding
  <2>1. e \in there /\ Qual(e, side) # Absent
    BY DEF Voices
  <2>2. Qual(e, side) \in {e.using, e.check}
    BY DEF Qual
  <2> QED BY <1>2, <2>1, <2>2 DEF ClausesOf
<1>3. \E e \in voices : e.permissive /\ Qual(e, side) \in holding
  <2>1. PICK w \in spoken : w.permissive /\ Qual(w, side) \in true
    BY <1>1
  <2>2. PICK p \in cat.policies : p.table = t /\ w = asWritten(p)
    BY DEF Voices, sourceOn
  <2>3. /\ p.permissive = w.permissive /\ Qual(p, side) = Qual(w, side)
        /\ Serves(p, cmd) /\ Names(p, c) /\ Qual(p, side) # Absent
    BY <2>2, Written DEF Voices
  <2>4. p \in on(t)
    BY <2>2 DEF on
  <2>5. PICK e \in emitted :
          /\ e.table = t /\ e.permissive = p.permissive
          /\ AppliesTo(e, cmd, session) /\ Qual(e, side) # Absent
          /\ renderedHolds(Qual(e, side), c) <=> c \in Qual(p, side).truth
    BY <2>2, <2>3, <2>4, ForthToTarget
  <2>6. e \in voices
    BY <2>5 DEF Voices, policiesOn, target
  <2>7. renderedHolds(Qual(e, side), c)
    BY <2>1, <2>3, <2>5
  <2> QED BY <1>2, <2>1, <2>3, <2>5, <2>6, <2>7
<1>4. \A e \in voices : ~e.permissive => Qual(e, side) \in holding
  <2> SUFFICES ASSUME NEW e \in voices, ~e.permissive
               PROVE  renderedHolds(Qual(e, side), c)
    BY <1>2
  <2>1. /\ e \in emitted \cup escapePolicies /\ e.table = t
        /\ AppliesTo(e, cmd, session) /\ Qual(e, side) # Absent
    BY DEF Voices, policiesOn, target
  <2>2. e \in emitted
    BY <2>1, EscapeSilent
  <2>3. PICK p \in Kept : p \in on(t) /\ e \in Own(p)
    BY <2>1, <2>2, OnTable
  <2>4. /\ e.permissive = p.permissive
        /\ Serves(p, cmd) /\ Qual(p, side) \in Expr
        /\ renderedHolds(Qual(e, side), c) <=>
             condHolds(cond(p, opts), c) /\ c \in Qual(p, side).truth
        /\ \/ targets(p, opts) = {}
           \/ targets(p, opts) \cap session # {}
        /\ p \in Policy
    BY <2>1, <2>3, BackToSource
  <2>5. Names(p, c)
    BY <2>3, <2>4 DEF Kept
  <2>6. /\ asWritten(p).permissive = p.permissive
        /\ Qual(asWritten(p), side) = Qual(p, side)
        /\ AppliesTo(asWritten(p), cmd, {roleOf[c]})
    BY <2>4, <2>5, Written
  <2>7. asWritten(p) \in spoken
    BY <2>3, <2>4, <2>6, ExprAssumption DEF Voices, on, sourceOn
  <2>8. c \in Qual(p, side).truth
    BY <1>1, <2>4, <2>6, <2>7
  <2>9. condHolds(cond(p, opts), c)
    BY <2>4, <2>5, NamedPass
  <2> QED BY <2>4, <2>8, <2>9
<1>5. Admits(there, cmd, side, session, holding)
  BY <1>3, <1>4 DEF Admits
<1> QED BY <1>5, ByPolicies

\* Nor does it take anything away from a table that ports mechanically.
LEMMA Preserves == Inv /\ NoWidening => WebAccessPreserved
<1> SUFFICES ASSUME Inv, NoWidening, converted, ~keepsRoles(opts),
                    NEW t \in Table, mechanical(t),
                    NEW c \in Caller, NEW cmd \in Cmds, Web(c),
                    NEW side \in SidesOf(cmd)
             PROVE  TargetAdmits(c, t, cmd, side) <=> SourceAdmits(c, t, cmd, side)
  BY DEF WebAccessPreserved
<1>1. t \in cat.enabled \ ManagedTable /\ ~clashOn(t)
  BY DEF mechanical, convertible
<1>2. \A p \in on(t) : /\ outcome[p] # "blocked" /\ ~mixed(p)
                       /\ ~fillsAbsent(p) /\ ~scopedRestrictive(p)
  BY DEF mechanical
<1>3. ASSUME TargetAdmits(c, t, cmd, side) PROVE SourceAdmits(c, t, cmd, side)
  <2>1. narrowing(t)
    BY <1>2 DEF narrowing, mechanical
  <2> QED BY <1>3, <2>1 DEF NoWidening
<1>4. ASSUME NEW p \in on(t), ~p.permissive, outcome[p] = "converted",
             \/ targets(p, opts) = {}
             \/ targets(p, opts) \cap sessionRoles(target, c) # {}
      PROVE  Names(p, c)
  <2>1. p \in Policy /\ skip(p, opts) = ""
    BY <1>4, OfCatalog DEF on, Inv, Excused
  <2>2. cond(p, opts) = ""
    BY <1>2, <1>4 DEF scopedRestrictive
  <2> QED BY <1>2, <1>4, <2>1, <2>2, StrangersKeptOut
<1>5. SourceAdmits(c, t, cmd, side) => TargetAdmits(c, t, cmd, side)
  BY <1>1, <1>2, <1>4, WebKeeps
<1> QED BY <1>3, <1>5

\* And where nothing was blocked, mixed, filled in or scoped, web callers
\* reach exactly what they reached, command by command and side by side.
THEOREM WebAccessPreservedTheorem == Spec => []WebAccessPreserved
BY Invariance, Narrows, Preserves, PTL

\* Under compat with its roles kept, nobody loses: the runtime role inherits
\* what anon and authenticated may do, and only a restrictive policy for one
\* of the two would bind the other.
THEOREM CompatKeepsAccessTheorem == Spec => []CompatKeepsAccess
<1>1. Inv => CompatKeepsAccess
  <2> SUFFICES ASSUME Inv, converted, keepsRoles(opts), NEW t \in Table,
                      convertible(t),
                      \A p \in on(t) : /\ outcome[p] # "blocked"
                                       /\ ~p.permissive => scope(p) = "",
                      NEW c \in Caller, NEW cmd \in Cmds, Web(c),
                      NEW side \in SidesOf(cmd), SourceAdmits(c, t, cmd, side)
               PROVE  TargetAdmits(c, t, cmd, side)
    BY DEF CompatKeepsAccess
  <2>1. t \in cat.enabled \ ManagedTable /\ ~clashOn(t)
    BY DEF convertible
  <2>2. \A p : ~fillsAbsent(p)
    BY DEF fillsAbsent, cond
  <2>3. ASSUME NEW p \in on(t), ~p.permissive, outcome[p] = "converted",
               \/ targets(p, opts) = {}
               \/ targets(p, opts) \cap sessionRoles(target, c) # {}
        PROVE  Names(p, c)
    <3> SUFFICES ASSUME ~Names(p, c) PROVE FALSE
      OBVIOUS
    <3>1. skip(p, opts) = "" /\ scope(p) = ""
      BY <2>3 DEF on, Inv, Excused
    <3>2. ~hasPublic(p) /\ targets(p, opts) = p.roles \ InternalRole
      BY DEF Names, targets
    <3>3. targets(p, opts) # {}
      BY <3>1, <3>2 DEF skip, hasPublic
    <3>4. p.roles \cap WebRoles \notin {{"anon"}, {"authenticated"}}
      BY <3>1, <3>2 DEF scope, WebRoles
    <3>5. p.roles \cap WebRoles # WebRoles
      BY DEF Names, Web, WebRoles
    <3>6. p.roles \cap WebRoles = {}
      BY <3>4, <3>5 DEF WebRoles
    <3>7. AppRole \notin p.roles
      <4>1. p.roles \subseteq SourceRole
        BY OfCatalog DEF on, Policy
      <4>2. AppRole \notin SourceRole
        BY RoleAssumption DEF AppRole, SourceRole, PseudoRole
      <4> QED BY <4>1, <4>2
    <3> QED BY <2>3, <3>2, <3>3, <3>6, <3>7, WebSession
  <2> QED BY <2>1, <2>2, <2>3, WebKeeps
<1> QED BY <1>1, Invariance, PTL

\* Where the escape is emitted, every clause of a restrictive policy has it.
LEMMA RestrictiveEscape ==
  ASSUME Inv, emitsServiceEscape(opts), NEW p \in Policy, ~p.permissive,
         NEW e \in Own(p), NEW side \in Sides, Qual(e, side) # Absent
  PROVE  Qual(e, side).escape
<1> DEFINE s == selfRef(p)
           b == base(p, opts, s)
<1>1. s \in BOOLEAN
  BY DEF selfRef
<1> HIDE DEF s
<1>2. ASSUME NEW x, ClauseOf(x, p), orEscape(p, opts, x) # Absent
      PROVE  orEscape(p, opts, x).escape = TRUE
  <2>1. x # Absent /\ x \in RenderedExpr
    BY <1>2 DEF orEscape, ClauseOf
  <2>2. orEscape(p, opts, x) = [x EXCEPT !.escape = TRUE]
    BY <2>1 DEF orEscape
  <2> QED BY <2>1, <2>2 DEF RenderedExpr
<1>3. \A x \in {b.using, b.check} : x # Absent => x.escape = TRUE
  <2> DEFINE u == rewriteExpr(p.using, opts, s)
             k == rewriteExpr(p.check, opts, s)
  <2>1. p.using \in Expr \cup {Absent} /\ p.check \in Expr \cup {Absent}
    BY DEF Policy
  <2>2. ClauseOf(u, p) /\ ClauseOf(k, p)
    BY <1>1, <2>1, RewriteClause
  <2>3. /\ ClauseOf(combineCond(cond(p, opts), u, opts, s), p)
        /\ ClauseOf(combineCond(cond(p, opts), k, opts, s), p)
    BY <1>1, <2>2, CombineClause
  <2> HIDE DEF u, k
  <2>4. \E x : ClauseOf(x, p) /\ b.using = orEscape(p, opts, x)
    BY <2>2, <2>3 DEF base, using, u
  <2>5. \E x : ClauseOf(x, p) /\ b.check = orEscape(p, opts, x)
    BY <2>2, <2>3 DEF base, check, k
  <2> QED BY <1>2, <2>4, <2>5
<1> HIDE DEF b
<1>4. e.using \in {b.using, b.check, Absent} /\ e.check \in {b.using, b.check, Absent}
  <2>1. Qual(b, "check") \in {b.using, b.check}
    BY DEF Qual
  <2>2. e = b \/ e \in splitAll(b)
    BY DEF Own, rendered, b, s
  <2> QED BY <2>1, <2>2 DEF splitAll, mk
<1>5. Qual(e, side) \in {e.using, e.check}
  BY DEF Qual
<1> QED BY <1>3, <1>4, <1>5

\* The server keeps its way in, on every table of the bundle: by BYPASSRLS, as
\* the owner, or by the escape, which every restrictive clause carries.
THEOREM ServicePathSurvivesTheorem == Spec => []ServicePathSurvives
<1>1. Inv => ServicePathSurvives
  <2> SUFFICES ASSUME Inv, converted, NEW t \in bundle.enable, NEW c \in Caller,
                      NEW cmd \in Cmds, Service(c), hasServicePath(t),
                      NEW side \in SidesOf(cmd)
               PROVE  TargetAdmits(c, t, cmd, side)
    BY DEF ServicePathSurvives
  <2> DEFINE session == sessionRoles(target, c)
  <2>1. bundle = assembled /\ t \in rlsTables
    BY DEF Inv, Finished, converted, assembled
  <2>2. opts.roleModel \in {"split", "single"} /\ opts.target \in {"postgres", "capydb"}
    BY OptionsAssumption DEF Inv, Typing, Options
  <2>3. ~Web(c) /\ roleOf[c] \notin CustomRole
    BY RoleAssumption DEF Service, Web, PseudoRole
  <2>4. CASE opts.roleModel = "split" /\ ~splitOnCapyDB(opts)
    <3>1. "app_service" \in session
      BY <2>3, <2>4 DEF sessionRoles
    <3> QED BY <3>1 DEF TargetAdmits, DbAdmits, bypasses
  <2>5. CASE splitOnCapyDB(opts)
    <3>1. session = {"owner"}
      BY <2>3, <2>5 DEF sessionRoles, splitOnCapyDB
    <3>2. t \notin target.forced
      BY <2>1, <2>5 DEF hasServicePath, splitOnCapyDB, target, forcedInTarget, assembled
    <3> QED BY <3>1, <3>2 DEF TargetAdmits, DbAdmits, bypasses
  <2>6. CASE opts.roleModel = "single"
    <3> DEFINE there   == policiesOn(target, t)
               voices  == Voices(there, cmd, side, session)
               holding == {x \in ClausesOf(there) : renderedHolds(x, c)}
               gate    == [body |-> Absent, cond |-> "never", escape |-> TRUE,
                           initplan |-> FALSE]
    <3>1. emitsServiceEscape(opts)
      BY <2>6 DEF hasServicePath, emitsServiceEscape
    <3>2. gate # Absent /\ gate.escape = TRUE
      <4>1. gate \in [body : Expr \cup {Absent},
                      cond : {"", "anon", "authenticated", "never"},
                      escape : BOOLEAN, initplan : BOOLEAN]
        OBVIOUS
      <4>2. gate.escape = TRUE
        OBVIOUS
      <4> HIDE DEF gate
      <4> QED BY <4>1, <4>2, AbsentAssumption
    <3> HIDE DEF gate
    <3>3. PICK g : /\ g \in there /\ g.permissive = TRUE /\ g.cmd = "ALL"
                   /\ g.targets = {} /\ g.using = gate /\ g.check = gate
      <4>1. serviceEscapeOn(t) \in escapePolicies
        BY <2>1, <3>1 DEF escapePolicies, assembled
      <4>2. serviceEscapeOn(t) =
              [name |-> <<"capyrls_service_escape">>, table |-> t, permissive |-> TRUE,
               cmd |-> "ALL", targets |-> {}, using |-> gate, check |-> gate]
        BY DEF serviceEscapeOn, gate
      <4>3. ASSUME NEW n, NEW x, NEW y
            PROVE  LET r == [name |-> n, table |-> x, permissive |-> TRUE, cmd |-> "ALL",
                             targets |-> {}, using |-> y, check |-> y]
                   IN  /\ r.table = x /\ r.permissive = TRUE /\ r.cmd = "ALL"
                       /\ r.targets = {} /\ r.using = y /\ r.check = y
        OBVIOUS
      <4> DEFINE g == serviceEscapeOn(t)
      <4>4. /\ g.table = t /\ g.permissive = TRUE /\ g.cmd = "ALL"
            /\ g.targets = {} /\ g.using = gate /\ g.check = gate
        BY <4>2, <4>3
      <4> HIDE DEF g
      <4>5. g \in there
        BY <4>1, <4>4 DEF g, policiesOn, target
      <4> QED BY <4>4, <4>5
    <3>4. Qual(g, side) = gate
      BY <3>3 DEF Qual
    <3>5. g \in voices /\ Qual(g, side) \in holding
      BY <3>2, <3>3, <3>4 DEF Voices, AppliesTo, ClausesOf, renderedHolds
    <3>6. \A e \in voices : ~e.permissive => Qual(e, side) \in holding
      <4> SUFFICES ASSUME NEW e \in voices, ~e.permissive
                   PROVE  Qual(e, side) \in holding
        OBVIOUS
      <4>1. e \in there /\ Qual(e, side) # Absent
        BY DEF Voices
      <4>2. e \in emitted
        <5>1. e \in emitted \cup escapePolicies
          BY <4>1 DEF policiesOn, target
        <5>2. \A x \in escapePolicies : x.permissive = TRUE
          BY DEF escapePolicies, serviceEscapeOn
        <5> QED BY <5>1, <5>2
      <4>3. PICK p \in Kept : p \in Policy /\ e \in Own(p) /\ RenderedFrom(e, p)
        BY <4>2, Origin
      <4>4. ~p.permissive /\ side \in Sides
        BY <4>3 DEF RenderedFrom, SidesOf, Sides
      <4>5. Qual(e, side).escape
        BY <3>1, <4>1, <4>3, <4>4, RestrictiveEscape
      <4>6. Qual(e, side) \in {e.using, e.check}
        BY DEF Qual
      <4> QED BY <4>1, <4>5, <4>6 DEF ClausesOf, renderedHolds
    <3>7. Admits(there, cmd, side, session, holding)
      BY <3>3, <3>5, <3>6 DEF Admits
    <3> QED BY <3>7 DEF TargetAdmits, DbAdmits
  <2> QED BY <2>2, <2>4, <2>5, <2>6
<1> QED BY <1>1, Invariance, PTL

-----------------------------------------------------------------------------
\* The initplan wrap and PostgreSQL's recursion check.  What a rendered policy scans
\* its source scans.  It differs from it by the wraps, and a table that its policies
\* lead back to has none: its text names it, so the converter gave them up.

\* Clause x is expression e with what the converter adds; a wrap is not among
\* it when the policies of the table name themselves (s).
Adorns(x, e, s) ==
  x # Absent => x \in RenderedExpr /\ x.body = e /\ (s => ~x.initplan)

-----------------------------------------------------------------------------
\* Expressions.

LEMMA RewriteAdorns ==
  ASSUME NEW e \in Expr \cup {Absent}, NEW s \in BOOLEAN
  PROVE  Adorns(rewriteExpr(e, opts, s), e, s)
<1>1. CASE e = Absent
  BY <1>1 DEF rewriteExpr, Adorns
<1>2. CASE e # Absent
  <2> DEFINE i == wraps(opts, s) /\ e.calls # {} /\ ~e.wrapped
             x == [body |-> e, cond |-> "", escape |-> FALSE, initplan |-> i]
  <2>1. rewriteExpr(e, opts, s) = x
    BY <1>2 DEF rewriteExpr
  <2>2. i \in BOOLEAN /\ (s => ~i)
    BY DEF wraps
  <2>3. x \in RenderedExpr /\ x.body = e /\ x.initplan = i
    <3> HIDE DEF i
    <3> QED BY <2>2 DEF RenderedExpr
  <2> HIDE DEF x, i
  <2> QED BY <2>1, <2>2, <2>3 DEF Adorns
<1> QED BY <1>1, <1>2

LEMMA CombineAdorns ==
  ASSUME NEW p, NEW x, NEW e, NEW s \in BOOLEAN, Adorns(x, e, s), x = Absent => e = Absent
  PROVE  Adorns(combineCond(cond(p, opts), x, opts, s), e, s)
<1> DEFINE c == cond(p, opts)
<1>1. c \in Conds
  BY CondType
<1>2. CASE c = ""
  BY <1>2 DEF combineCond
<1>3. CASE c # "" /\ x = Absent
  <2> DEFINE i == wraps(opts, s)
             y == [body |-> Absent, cond |-> c, escape |-> FALSE, initplan |-> i]
  <2>1. combineCond(c, x, opts, s) = y
    BY <1>3 DEF combineCond
  <2>2. i \in BOOLEAN /\ (s => ~i)
    BY DEF wraps
  <2>3. y \in RenderedExpr /\ y.body = Absent /\ y.initplan = i
    <3> HIDE DEF i, c
    <3> QED BY <1>1, <2>2 DEF RenderedExpr, Conds
  <2> HIDE DEF y, i
  <2> QED BY <1>3, <2>1, <2>2, <2>3 DEF Adorns
<1>4. CASE c # "" /\ x # Absent
  <2> DEFINE i == x.initplan \/ wraps(opts, s)
             y == [x EXCEPT !.cond = c, !.initplan = i]
  <2>1. combineCond(c, x, opts, s) = y
    BY <1>4 DEF combineCond
  <2>2. x \in RenderedExpr /\ x.body = e /\ (s => ~x.initplan)
    BY <1>4 DEF Adorns
  <2>3. i \in BOOLEAN /\ (s => ~i)
    BY <2>2 DEF wraps
  <2>4. y \in RenderedExpr /\ y.body = x.body /\ y.initplan = i
    <3> HIDE DEF i, c
    <3> QED BY <1>1, <2>2, <2>3 DEF RenderedExpr, Conds
  <2> HIDE DEF y, i
  <2> QED BY <2>1, <2>2, <2>3, <2>4 DEF Adorns
<1> QED BY <1>2, <1>3, <1>4

LEMMA EscapeAdorns ==
  ASSUME NEW p, NEW x, NEW e, NEW s, Adorns(x, e, s)
  PROVE  Adorns(orEscape(p, opts, x), e, s)
<1>1. CASE x # Absent /\ ~p.permissive /\ emitsServiceEscape(opts)
  <2> DEFINE y == [x EXCEPT !.escape = TRUE]
  <2>1. orEscape(p, opts, x) = y
    BY <1>1 DEF orEscape
  <2>2. x \in RenderedExpr
    BY <1>1 DEF Adorns
  <2>3. y \in RenderedExpr /\ y.body = x.body /\ y.initplan = x.initplan
    BY <2>2 DEF RenderedExpr
  <2> HIDE DEF y
  <2> QED BY <1>1, <2>1, <2>3 DEF Adorns
<1>2. CASE ~(x # Absent /\ ~p.permissive /\ emitsServiceEscape(opts))
  BY <1>2 DEF orEscape
<1> QED BY <1>1, <1>2

\* The qualifier of a rendered policy is that of its source, adorned.
LEMMA BaseAdorns ==
  ASSUME NEW p \in Policy, Creatable(p), NEW s \in BOOLEAN, NEW side \in Sides
  PROVE  Adorns(Qual(base(p, opts, s), side), Qual(p, side), s)
<1> DEFINE b == base(p, opts, s)
           u == rewriteExpr(p.using, opts, s)
           k == rewriteExpr(p.check, opts, s)
<1>1. p.using \in Expr \cup {Absent} /\ p.check \in Expr \cup {Absent}
  BY DEF Policy
<1>2. Adorns(u, p.using, s) /\ Adorns(k, p.check, s)
  BY <1>1, RewriteAdorns
<1>3. (u = Absent => p.using = Absent) /\ (k = Absent => p.check = Absent)
  BY <1>1, Rewritten
<1>4. /\ Adorns(combineCond(cond(p, opts), u, opts, s), p.using, s)
      /\ Adorns(combineCond(cond(p, opts), k, opts, s), p.check, s)
  BY <1>2, <1>3, CombineAdorns
<1> HIDE DEF u, k
<1>5. Adorns(using(p, opts, s), p.using, s) /\ Adorns(check(p, opts, s), p.check, s)
  BY <1>2, <1>4, EscapeAdorns DEF using, check, u, k
<1>6. b.using = using(p, opts, s) /\ b.check = check(p, opts, s)
  BY DEF base
<1> HIDE DEF b
<1>7. CASE side = "using"
  BY <1>5, <1>6, <1>7 DEF Qual, b
<1>8. CASE side = "check" /\ b.check = Absent
  <2>1. p.check = Absent
    BY <1>6, <1>8, CheckSays DEF Says
  <2> QED BY <1>5, <1>6, <1>8, <2>1 DEF Qual, b
<1>9. CASE side = "check" /\ b.check # Absent
  <2>1. CASE p.check # Absent
    BY <1>5, <1>6, <1>9, <2>1 DEF Qual, b
  <2>2. CASE p.check = Absent
    <3>1. p.using = Absent
      BY <1>6, <1>9, <2>2, CheckSays DEF Creatable
    <3> QED BY <1>5, <1>6, <1>9, <2>2, <3>1 DEF Qual, b
  <2> QED BY <2>1, <2>2
<1> QED BY <1>7, <1>8, <1>9 DEF Sides

-----------------------------------------------------------------------------
\* Policies.

\* A policy that speaks to the application's web sessions was written for web
\* callers.
LEMMA WrittenForWeb ==
  ASSUME Inv, converted, NEW p \in Policy, skip(p, opts) = "",
         targets(p, opts) = {} \/ targets(p, opts) \cap webRoles # {}
  PROVE  hasPublic(p) \/ p.roles \cap WebRoles # {}
<1> SUFFICES ASSUME ~hasPublic(p) PROVE p.roles \cap WebRoles # {}
  OBVIOUS
<1>1. p.roles \subseteq SourceRole /\ p.roles # {} /\ "public" \notin p.roles
  BY DEF Policy, hasPublic
<1>2. bundle.granted \subseteq WebRoles
  <2>1. bundle = assembled
    BY DEF Inv, Finished, converted
  <2>2. assembled.granted = grantedRoles(opts, compatRoles)
    BY DEF assembled
  <2> QED BY <2>1, <2>2 DEF grantedRoles, WebRoles
<1>3. ~(p.roles \subseteq InternalRole)
  BY <1>1 DEF skip
<1>4. CASE keepsRoles(opts)
  <2>1. targets(p, opts) = p.roles \ InternalRole
    BY <1>4 DEF targets
  <2>2. PICK r \in p.roles : r \in {AppRole, "owner"} \cup WebRoles
    BY <1>2, <1>3, <2>1 DEF webRoles
  <2>3. r \notin {AppRole, "owner"}
    BY <1>1, RoleAssumption DEF SourceRole, PseudoRole, AppRole
  <2> QED BY <2>2, <2>3
<1>5. CASE ~keepsRoles(opts)
  <2>1. CASE custom(p) = {}
    <3>1. p.roles \ InternalRole \subseteq PseudoRole
      BY <1>1, <2>1 DEF SourceRole, custom
    <3>2. p.roles \ InternalRole # {"service_role"} /\ p.roles \ InternalRole # {}
      BY <1>1, <1>3, <1>5 DEF skip
    <3> QED BY <3>1, <3>2 DEF PseudoRole, WebRoles
  <2>2. CASE custom(p) # {} /\ ~mixed(p)
    <3>1. targets(p, opts) = custom(p)
      BY <1>5, <2>2 DEF targets
    <3>2. custom(p) \cap ({AppRole, "owner"} \cup WebRoles) = {}
      BY RoleAssumption DEF custom, AppRole, WebRoles, PseudoRole
    <3> QED BY <1>2, <2>2, <3>1, <3>2 DEF webRoles
  <2>3. CASE mixed(p)
    BY <2>3 DEF mixed, WebRoles
  <2> QED BY <2>1, <2>2, <2>3
<1> QED BY <1>4, <1>5

\* What the web sessions' policies of a table consult after the conversion.
LEMMA Consulted ==
  ASSUME Inv, converted, NEW x \in Table, NEW cmd \in Cmds,
         NEW q \in Quals(policiesOn(target, x), cmd, webRoles)
  PROVE  /\ q # Absent /\ q \in ClausesOf(policiesOn(target, x))
         /\ \/ q.body = Absent
            \/ q.body \in Expr /\ q.body \in Quals(sourceOn(cat, x), cmd, WebRoles)
         /\ x \in selfRefTables(cat) \/ x \in ManagedTable => ~q.initplan
<1>1. PICK side \in SidesOf(cmd), e \in policiesOn(target, x) :
        AppliesTo(e, cmd, webRoles) /\ q = Qual(e, side) /\ q # Absent
  BY DEF Quals, Voices
<1>2. q \in ClausesOf(policiesOn(target, x))
  BY <1>1 DEF Qual, ClausesOf
<1>3. e.table = x /\ (e \in emitted \/ e \in escapePolicies)
  BY <1>1 DEF policiesOn, target
<1>4. CASE e \in escapePolicies
  <2> DEFINE gate == [body |-> Absent, cond |-> "never", escape |-> TRUE,
                      initplan |-> FALSE]
  <2>1. PICK t : e = serviceEscapeOn(t)
    BY <1>4 DEF escapePolicies
  <2>2. e.using = gate /\ e.check = gate
    BY <2>1, GateClauses
  <2>3. gate.body = Absent /\ gate.initplan = FALSE
    OBVIOUS
  <2> HIDE DEF gate
  <2>4. q = gate
    BY <1>1, <2>2 DEF Qual
  <2> QED BY <1>1, <1>2, <2>3, <2>4
<1>5. CASE e \in emitted
  <2>1. PICK p \in Kept : /\ p \in Policy /\ e \in Own(p) /\ RenderedFrom(e, p)
                          /\ p.table \in rlsTables
    BY <1>5, Origin
  <2>2. p \in cat.policies /\ Creatable(p) /\ p.table = x /\ skip(p, opts) = ""
    BY <1>3, <2>1, OfCatalog DEF Kept, Inv, Excused, RenderedFrom
  <2>3. Serves(e, cmd) /\ selfRef(p) \in BOOLEAN
    BY <1>1 DEF AppliesTo, Serves, selfRef
  <2>4. /\ Serves(p, cmd) /\ side \in Sides
        /\ q = Qual(base(p, opts, selfRef(p)), side)
    BY <1>1, <2>1, <2>3, OwnQual
  <2>5. Adorns(q, Qual(p, side), selfRef(p))
    BY <2>1, <2>2, <2>3, <2>4, BaseAdorns
  <2>6. x \notin ManagedTable /\ (x \in selfRefTables(cat) => ~q.initplan)
    BY <1>1, <2>1, <2>2, <2>5 DEF Inv, Typing, Adorns, selfRef
  <2>7. ASSUME q.body # Absent
        PROVE  q.body \in Expr /\ q.body \in Quals(sourceOn(cat, x), cmd, WebRoles)
    <3>1. q.body = Qual(p, side) /\ Qual(p, side) \in Expr
      BY <1>1, <2>2, <2>5, <2>7, OfCatalog DEF Adorns
    <3>2. hasPublic(p) \/ p.roles \cap WebRoles # {}
      BY <1>1, <2>1, <2>2, WrittenForWeb DEF AppliesTo, RenderedFrom
    <3>3. /\ asWritten(p) \in sourceOn(cat, x)
          /\ Qual(asWritten(p), side) = Qual(p, side)
          /\ AppliesTo(asWritten(p), cmd, WebRoles)
      BY <2>2, <2>4, <3>2 DEF sourceOn, asWritten, Qual, AppliesTo, Serves
    <3>4. Qual(p, side) # Absent
      BY <3>1, ExprAssumption
    <3> QED BY <1>1, <3>1, <3>3, <3>4 DEF Quals, Voices
  <2> QED BY <1>1, <1>2, <2>6, <2>7
<1> QED BY <1>3, <1>4, <1>5

-----------------------------------------------------------------------------
\* What policies lead to.

\* The tables a query on x has to expand next, and those it leads to.
Scanned(on_, roles, scans, cmd, x) == UNION {scans[q] : q \in Quals(on_[x], cmd, roles)}

Reach(on_, roles, scans, S) ==
  {x \in DOMAIN on_ : \A C \in SUBSET DOMAIN on_ :
     S \subseteq C /\ (\A y \in C : Scanned(on_, roles, scans, "SELECT", y) \subseteq C)
       => x \in C}

LEMMA RecursesBy ==
  ASSUME NEW on_, NEW cmd, NEW t, NEW roles, NEW armed, NEW scans
  PROVE  Recurses(on_, cmd, t, roles, armed, scans) <=>
           \E x \in Reach(on_, roles, scans, Scanned(on_, roles, scans, cmd, t)) :
             /\ Quals(on_[x], "SELECT", roles) \cap armed # {}
             /\ \/ x = t
                \/ x \in Reach(on_, roles, scans,
                               Scanned(on_, roles, scans, "SELECT", x))
BY DEF Recurses, Reach, Scanned

\* Source and bundle, as the recursion check is asked about them.
SourceOn    == [x \in Table |-> IF x \in cat.enabled THEN sourceOn(cat, x) ELSE {}]
TargetOn    == [x \in Table |-> policiesOn(target, x)]
Clauses     == ClausesOf(UNION {policiesOn(target, x) : x \in Table})
SourceScans == [e \in Expr |-> scansInSource(e)]
TargetScans == [e \in Clauses |-> scansInTarget(e)]

LEMMA ScansKept ==
  ASSUME Inv, converted, cat.enabled = Table, NEW x \in Table, NEW cmd \in Cmds
  PROVE  Scanned(TargetOn, webRoles, TargetScans, cmd, x)
           \subseteq Scanned(SourceOn, WebRoles, SourceScans, cmd, x)
<1> SUFFICES ASSUME NEW q \in Quals(TargetOn[x], cmd, webRoles),
                    NEW z \in TargetScans[q]
             PROVE  z \in Scanned(SourceOn, WebRoles, SourceScans, cmd, x)
  BY DEF Scanned
<1>1. TargetOn[x] = policiesOn(target, x) /\ SourceOn[x] = sourceOn(cat, x)
  BY DEF TargetOn, SourceOn
<1>2. /\ q \in ClausesOf(policiesOn(target, x))
      /\ \/ q.body = Absent
         \/ q.body \in Expr /\ q.body \in Quals(sourceOn(cat, x), cmd, WebRoles)
  BY <1>1, Consulted
<1>3. q \in Clauses
  BY <1>2 DEF Clauses, ClausesOf
<1>4. z \in scansInTarget(q)
  BY <1>3 DEF TargetScans
<1>5. q.body \in Expr /\ z \in q.body.reads
  BY <1>2, <1>4, ExprAssumption DEF scansInTarget
<1>6. z \in SourceScans[q.body]
  BY <1>5 DEF SourceScans, scansInSource
<1> QED BY <1>1, <1>2, <1>5, <1>6, ExprAssumption DEF Scanned

LEMMA ReachKept ==
  ASSUME Inv, converted, cat.enabled = Table, NEW S, NEW R, S \subseteq R
  PROVE  Reach(TargetOn, webRoles, TargetScans, S)
           \subseteq Reach(SourceOn, WebRoles, SourceScans, R)
<1> SUFFICES ASSUME NEW x \in Reach(TargetOn, webRoles, TargetScans, S),
                    NEW C \in SUBSET Table, R \subseteq C,
                    \A y \in C : Scanned(SourceOn, WebRoles, SourceScans, "SELECT", y)
                                   \subseteq C
             PROVE  x \in C
  BY DEF Reach, SourceOn, TargetOn
<1>1. \A y \in C : Scanned(TargetOn, webRoles, TargetScans, "SELECT", y) \subseteq C
  BY ScansKept DEF Cmds
<1> QED BY <1>1 DEF Reach, TargetOn

\* A table that the source policies lead back to spells itself, or is managed.
LEMMA LoopSpelled ==
  ASSUME Inv, cat.enabled = Table, selfContained, NEW x \in Table, NEW cmd \in Cmds,
         x \in Reach(SourceOn, WebRoles, SourceScans,
                     Scanned(SourceOn, WebRoles, SourceScans, cmd, x))
  PROVE  x \in selfRefTables(cat) \/ x \in ManagedTable
<1>1. ASSUME NEW y \in Table, NEW k \in Cmds,
             NEW z \in Scanned(SourceOn, WebRoles, SourceScans, k, y)
      PROVE  z \in Table /\ scansTable(y, z)
  <2>1. SourceOn[y] = sourceOn(cat, y)
    BY DEF SourceOn
  <2>2. PICK q \in Quals(sourceOn(cat, y), k, WebRoles) : z \in SourceScans[q]
    BY <1>1, <2>1 DEF Scanned
  <2>3. PICK side \in SidesOf(k), p \in cat.policies :
          p.table = y /\ q = Qual(asWritten(p), side) /\ q # Absent
    BY <2>2 DEF Quals, Voices, sourceOn
  <2>4. q \in {p.using, p.check} /\ q \in Expr
    <3>1. q = Qual(p, side)
      BY <2>3 DEF asWritten, Qual
    <3> QED BY <2>3, <3>1, OfCatalog DEF Qual
  <2>5. z \in q.reads
    BY <2>2, <2>4 DEF SourceScans, scansInSource
  <2>6. z \in Table
    BY <2>4, <2>5, ExprAssumption DEF ExprType
  <2> QED BY <2>3, <2>4, <2>5, <2>6 DEF scansTable, on
<1>2. ASSUME NEW C \in SUBSET Table,
             \A y \in C \cup {x}, z \in Table : scansTable(y, z) => z \in C
      PROVE  x \in C
  <2>1. Scanned(SourceOn, WebRoles, SourceScans, cmd, x) \subseteq C
    BY <1>1, <1>2
  <2>2. \A y \in C : Scanned(SourceOn, WebRoles, SourceScans, "SELECT", y) \subseteq C
    BY <1>1, <1>2 DEF Cmds
  <2> QED BY <2>1, <2>2 DEF Reach, SourceOn
<1>3. \E p \in on(x) : x \in spelledIn(p.using) \cup spelledIn(p.check)
  BY <1>2 DEF selfContained
<1> QED BY <1>3 DEF selfRefTables, on

-----------------------------------------------------------------------------
\* The converter adds no recursion: on tables that had row security, PostgreSQL
\* rejects no statement after the conversion that it accepted before, as long
\* as loops of policies are spelled-out self references.
THEOREM NoNewRecursionTheorem == Spec => []NoNewRecursion
<1>1. Inv => NoNewRecursion
  <2> SUFFICES ASSUME Inv, converted, cat.enabled = Table, selfContained,
                      NEW t \in Table, NEW cmd \in Cmds, TargetRecurses(t, cmd)
               PROVE  SourceRecurses(t, cmd)
    BY DEF NoNewRecursion
  <2> DEFINE SourceArmed  == {e \in Expr : armedInSource(e)}
             TargetArmed  == {e \in Clauses : armedInTarget(e)}
             SourceNext(x, k) == Scanned(SourceOn, WebRoles, SourceScans, k, x)
             TargetNext(x, k) == Scanned(TargetOn, webRoles, TargetScans, k, x)
             SourceReach(S) == Reach(SourceOn, WebRoles, SourceScans, S)
             TargetReach(S) == Reach(TargetOn, webRoles, TargetScans, S)
  <2>1. Recurses(TargetOn, cmd, t, webRoles, TargetArmed, TargetScans)
    BY DEF TargetRecurses, TargetOn, TargetScans, Clauses
  <2>2. PICK x \in TargetReach(TargetNext(t, cmd)) :
          /\ Quals(TargetOn[x], "SELECT", webRoles) \cap TargetArmed # {}
          /\ x = t \/ x \in TargetReach(TargetNext(x, "SELECT"))
    BY <2>1, RecursesBy
  <2>3. x \in Table /\ "SELECT" \in Cmds
    BY <2>2 DEF Reach, TargetOn, Cmds
  <2>4. /\ x \in SourceReach(SourceNext(t, cmd))
        /\ x = t \/ x \in SourceReach(SourceNext(x, "SELECT"))
    BY <2>2, <2>3, ScansKept, ReachKept
  <2>5. x \in selfRefTables(cat) \/ x \in ManagedTable
    BY <2>3, <2>4, LoopSpelled
  <2>6. Quals(SourceOn[x], "SELECT", WebRoles) \cap SourceArmed # {}
    <3>1. PICK q \in Quals(policiesOn(target, x), "SELECT", webRoles) : armedInTarget(q)
      BY <2>2, <2>3 DEF TargetOn
    <3>2. /\ ~q.initplan
          /\ q.body = Absent \/ q.body \in Quals(sourceOn(cat, x), "SELECT", WebRoles)
          /\ q.body = Absent \/ q.body \in Expr
      BY <2>3, <2>5, Consulted
    <3>3. q.body # Absent /\ armedInSource(q.body)
      BY <3>1, <3>2 DEF armedInTarget
    <3> QED BY <2>3, <3>2, <3>3 DEF SourceOn
  <2>7. Recurses(SourceOn, cmd, t, WebRoles, SourceArmed, SourceScans)
    BY <2>4, <2>6, RecursesBy
  <2> QED BY <2>7 DEF SourceRecurses, SourceOn, SourceScans, WebRoles
<1> QED BY <1>1, Invariance, PTL

=============================================================================
