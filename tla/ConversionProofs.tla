-------------------------- MODULE ConversionProofs --------------------------
(***************************************************************************)
(* What every conversion guarantees, whatever the catalog, the options and *)
(* the expressions: its types, that what it emits is in force, that the    *)
(* prelude and the contract cover what the policies call, and that the     *)
(* report and the bundle agree.                                            *)
(*                                                                         *)
(* The properties speak of the end of the loop; the invariant says of      *)
(* every turn what the policies converted so far have left behind.         *)
(***************************************************************************)
EXTENDS ConversionAccess, SequenceTheorems, TLAPS

Conds == {"", "anon", "authenticated"}

\* A clause rendered for policy p: one of its own, with what the converter
\* adds to it.
ClauseOf(x, p) ==
  x # Absent =>
    /\ x \in RenderedExpr
    /\ x.body \in {p.using, p.check, Absent}
    /\ x.cond \in {"", cond(p, opts)}
    /\ x.escape => emitsServiceEscape(opts)

-----------------------------------------------------------------------------
\* Expressions.

\* A TO list leaves one of three predicates.
LEMMA CondType == ASSUME NEW p, NEW o PROVE cond(p, o) \in Conds
BY DEF cond, scope, Conds

\* Rewriting adds no predicate and no escape.
LEMMA RewriteClause ==
  ASSUME NEW p, NEW e \in {p.using, p.check}, e \in Expr \cup {Absent},
         NEW s \in BOOLEAN
  PROVE  ClauseOf(rewriteExpr(e, opts, s), p)
<1>1. CASE e = Absent
  BY <1>1 DEF rewriteExpr, ClauseOf
<1>2. CASE e # Absent
  <2> DEFINE i == wraps(opts, s) /\ e.calls # {} /\ ~e.wrapped
             x == [body |-> e, cond |-> "", escape |-> FALSE, initplan |-> i]
  <2>1. rewriteExpr(e, opts, s) = x
    BY <1>2 DEF rewriteExpr
  <2>2. i \in BOOLEAN
    OBVIOUS
  <2>3. /\ x \in RenderedExpr
        /\ x.body = e /\ x.cond = "" /\ x.escape = FALSE
    <3> HIDE DEF i
    <3> QED BY <2>2 DEF RenderedExpr
  <2> HIDE DEF x
  <2> QED BY <2>1, <2>3 DEF ClauseOf
<1> QED BY <1>1, <1>2

\* Nor does the role predicate spoil a clause.
LEMMA CombineClause ==
  ASSUME NEW p, NEW e, ClauseOf(e, p), NEW s \in BOOLEAN
  PROVE  ClauseOf(combineCond(cond(p, opts), e, opts, s), p)
<1> DEFINE c == cond(p, opts)
<1>1. c \in Conds
  BY CondType
<1>2. CASE c = ""
  BY <1>2 DEF combineCond
<1>3. CASE c # "" /\ e = Absent
  <2> DEFINE x == [body |-> Absent, cond |-> c, escape |-> FALSE, initplan |-> wraps(opts, s)]
  <2>1. combineCond(c, e, opts, s) = x
    BY <1>3 DEF combineCond
  <2>2. wraps(opts, s) \in BOOLEAN
    BY DEF wraps
  <2>3. /\ x \in RenderedExpr
        /\ x.body = Absent /\ x.cond = c /\ x.escape = FALSE
    BY <1>1, <2>2 DEF RenderedExpr, Conds
  <2> HIDE DEF x
  <2> QED BY <2>1, <2>3 DEF ClauseOf
<1>4. CASE c # "" /\ e # Absent
  <2> DEFINE i == e.initplan \/ wraps(opts, s)
             x == [e EXCEPT !.cond = c, !.initplan = i]
  <2>1. combineCond(c, e, opts, s) = x
    BY <1>4 DEF combineCond
  <2>2. i \in BOOLEAN
    OBVIOUS
  <2>3. e \in RenderedExpr
    BY <1>4 DEF ClauseOf
  <2>4. x \in RenderedExpr /\ x.body = e.body /\ x.cond = c /\ x.escape = e.escape
    <3> HIDE DEF i, c
    <3> QED BY <1>1, <2>2, <2>3 DEF RenderedExpr, Conds
  <2> QED BY <1>4, <2>1, <2>4 DEF ClauseOf
<1> QED BY <1>2, <1>3, <1>4

\* Nor the service escape, which needs the option.
LEMMA EscapeClause ==
  ASSUME NEW p, NEW e, ClauseOf(e, p)
  PROVE  ClauseOf(orEscape(p, opts, e), p)
<1>1. CASE e # Absent /\ ~p.permissive /\ emitsServiceEscape(opts)
  <2> DEFINE x == [e EXCEPT !.escape = TRUE]
  <2>1. orEscape(p, opts, e) = x
    BY <1>1 DEF orEscape
  <2>2. e \in RenderedExpr
    BY <1>1 DEF ClauseOf
  <2>3. x \in RenderedExpr /\ x.body = e.body /\ x.cond = e.cond
    BY <2>2 DEF RenderedExpr
  <2> QED BY <1>1, <2>1, <2>3 DEF ClauseOf
<1>2. CASE ~(e # Absent /\ ~p.permissive /\ emitsServiceEscape(opts))
  BY <1>2 DEF orEscape
<1> QED BY <1>1, <1>2

-----------------------------------------------------------------------------
\* Policies.

LEMMA UsingClause ==
  ASSUME NEW p \in Policy, NEW s \in BOOLEAN
  PROVE  ClauseOf(using(p, opts, s), p)
<1> DEFINE e == rewriteExpr(p.using, opts, s)
<1>1. p.using \in Expr \cup {Absent}
  BY DEF Policy
<1>2. ClauseOf(e, p)
  BY <1>1, RewriteClause
<1>3. ClauseOf(combineCond(cond(p, opts), e, opts, s), p)
  BY <1>2, CombineClause
<1> HIDE DEF e
<1> QED BY <1>2, <1>3, EscapeClause DEF using, e

LEMMA CheckClause ==
  ASSUME NEW p \in Policy, NEW s \in BOOLEAN
  PROVE  ClauseOf(check(p, opts, s), p)
<1> DEFINE e == rewriteExpr(p.check, opts, s)
<1>1. p.check \in Expr \cup {Absent}
  BY DEF Policy
<1>2. ClauseOf(e, p)
  BY <1>1, RewriteClause
<1>3. ClauseOf(combineCond(cond(p, opts), e, opts, s), p)
  BY <1>2, CombineClause
<1> HIDE DEF e
<1> QED BY <1>2, <1>3, EscapeClause DEF check, e

\* A TO list is made of roles of the source and the runtime role.
LEMMA TargetsType ==
  ASSUME NEW p \in Policy, NEW o
  PROVE  targets(p, o) \subseteq SourceRole \cup {AppRole}
<1>1. p.roles \subseteq SourceRole
  BY DEF Policy
<1>2. custom(p) \subseteq SourceRole
  BY <1>1 DEF custom
<1>3. CASE keepsRoles(o)
  BY <1>1, <1>3 DEF targets
<1>4. CASE ~keepsRoles(o)
  BY <1>2, <1>4 DEF targets
<1> QED BY <1>3, <1>4

\* A suffixed name is a name again.
LEMMA SuffixType ==
  ASSUME NEW name \in Seq(Symbol), NEW suffix \in Suffix
  PROVE  suffixName(name, suffix) \in Seq(Symbol)
<1> suffix \in Symbol
  BY DEF Symbol
<1>1. CASE Len(name) + 1 <= MaxIdent
  BY <1>1, AppendProperties DEF suffixName
<1>2. CASE ~(Len(name) + 1 <= MaxIdent)
  <2>1. MaxIdent - 1 \in 0..Len(name)
    BY <1>2, NameAssumption
  <2>2. SubSeq(name, 1, MaxIdent - 1) \in Seq(Symbol)
    BY <2>1, SubSeqProperties
  <2> QED BY <1>2, <2>2, AppendProperties DEF suffixName
<1> QED BY <1>1, <1>2

\* What a converted policy contributes to the bundle.
RenderedFrom(e, p) ==
  /\ e.name \in Seq(Symbol) /\ e.table = p.table
  /\ e.permissive = p.permissive /\ e.cmd \in PolicyCmd
  /\ e.targets = targets(p, opts)
  /\ ClauseOf(e.using, p) /\ ClauseOf(e.check, p)

\* It has these fields and no other.
RecordOf(e) == e = [name |-> e.name, table |-> e.table, permissive |-> e.permissive,
                    cmd |-> e.cmd, targets |-> e.targets,
                    using |-> e.using, check |-> e.check]

LEMMA BaseShape ==
  ASSUME NEW p \in Policy, NEW s \in BOOLEAN
  PROVE  RecordOf(base(p, opts, s)) /\ RenderedFrom(base(p, opts, s), p)
<1>1. p.name \in Seq(Symbol) /\ p.cmd \in PolicyCmd
  BY NameAssumption DEF Policy
<1> QED BY <1>1, UsingClause, CheckClause DEF base, RenderedFrom, RecordOf

\* Any of the four policies a FOR ALL becomes keeps the shape of the whole.
LEMMA MkShape ==
  ASSUME NEW p, NEW b, RenderedFrom(b, p),
         NEW suffix \in Suffix, NEW cmd \in Cmds,
         NEW u \in {b.using, b.check, Absent}, NEW c \in {b.using, b.check, Absent}
  PROVE  RecordOf(mk(b, suffix, cmd, u, c)) /\ RenderedFrom(mk(b, suffix, cmd, u, c), p)
<1> DEFINE n == suffixName(b.name, suffix)
<1>1. n \in Seq(Symbol)
  BY SuffixType DEF RenderedFrom
<1>2. ClauseOf(u, p) /\ ClauseOf(c, p)
  BY DEF RenderedFrom, ClauseOf
<1> QED BY <1>1, <1>2 DEF RenderedFrom, RecordOf, PolicyCmd, mk

\* The policies rendered for p.
Own(p) == rendered(p, opts, selfRef(p))

LEMMA RenderedShape ==
  ASSUME NEW p \in Policy, NEW e \in Own(p)
  PROVE  RecordOf(e) /\ RenderedFrom(e, p)
<1> DEFINE b == base(p, opts, selfRef(p))
<1>1. selfRef(p) \in BOOLEAN
  BY DEF selfRef
<1>2. RecordOf(b) /\ RenderedFrom(b, p)
  BY <1>1, BaseShape
<1>3. Qual(b, "check") \in {b.using, b.check, Absent}
  BY DEF Qual
<1> HIDE DEF b
<1>4. \A x \in splitAll(b) : RecordOf(x) /\ RenderedFrom(x, p)
  <2>1. ASSUME NEW suffix \in Suffix, NEW cmd \in Cmds,
               NEW u \in {b.using, b.check, Absent}, NEW c \in {b.using, b.check, Absent}
        PROVE  /\ RecordOf(mk(b, suffix, cmd, u, c))
               /\ RenderedFrom(mk(b, suffix, cmd, u, c), p)
    BY <1>2, MkShape
  <2>2. /\ "_select" \in Suffix /\ "_insert" \in Suffix /\ "_update" \in Suffix
        /\ "_delete" \in Suffix
    BY DEF Suffix
  <2>3. /\ "SELECT" \in Cmds /\ "INSERT" \in Cmds /\ "UPDATE" \in Cmds
         /\ "DELETE" \in Cmds
    BY DEF Cmds
  <2> SUFFICES ASSUME NEW x \in splitAll(b)
               PROVE  RecordOf(x) /\ RenderedFrom(x, p)
    OBVIOUS
  <2>4. CASE x = mk(b, "_select", "SELECT", b.using, Absent)
    BY <2>1, <2>2, <2>3, <2>4
  <2>5. CASE x = mk(b, "_insert", "INSERT", Absent, Qual(b, "check"))
    BY <1>3, <2>1, <2>2, <2>3, <2>5
  <2>6. CASE x = mk(b, "_update", "UPDATE", b.using, b.check)
    BY <2>1, <2>2, <2>3, <2>6
  <2>7. CASE x = mk(b, "_delete", "DELETE", b.using, Absent)
    BY <2>1, <2>2, <2>3, <2>7
  <2> QED BY <2>4, <2>5, <2>6, <2>7 DEF splitAll
<1>5. e = b \/ e \in splitAll(b)
  BY DEF Own, rendered, b
<1> QED BY <1>2, <1>4, <1>5

-----------------------------------------------------------------------------
\* The invariant.

Outcome == {"pending", "skipped", "blocked", "converted"}

\* What the conversion relies on of a catalog, wherever it was read from.
WellFormed(k) == k \in CatalogType /\ \A p \in k.policies : Creatable(p)

Typing ==
  /\ pc \in {"check", "loop", "done", "refused"}
  /\ WellFormed(cat) /\ opts \in OptionSets
  /\ outcome \in [cat.policies -> Outcome]
  /\ rlsTables \in SUBSET (Table \ ManagedTable)
  /\ compatRoles \in SUBSET PseudoRole
  /\ used \in SUBSET Helper

Kept   == {p \in cat.policies : outcome[p] = "converted"}
Denied == {p \in cat.policies : /\ outcome[p] = "skipped"
                                /\ p.table \notin ManagedTable
                                /\ skip(p, opts) = "service_denied"}

\* What a converted policy needs is there, and its names are taken.
Accounted ==
  \A p \in Kept :
    /\ p.table \in rlsTables
    /\ needs(p) \subseteq used /\ needsRoles(p, opts) \subseteq compatRoles
    /\ \A e \in Own(p) : \E f \in emitted : f.table = e.table /\ f.name = e.name

\* Nothing is emitted that no converted policy asked for.
Grounded == \A e \in emitted : \E p \in Kept : e \in Own(p)

\* A policy is skipped for its roles or not at all, with a stub if need be.
Excused ==
  /\ stubs = {renderSystemStub(p, opts) : p \in Denied}
  /\ \A p \in cat.policies : outcome[p] \in {"blocked", "converted"} =>
       skip(p, opts) = ""
  /\ \A p \in cat.policies : outcome[p] = "skipped" =>
       p.table \in ManagedTable \/ skip(p, opts) # ""

\* The history's tables are registered from the start.
Registered == cat.enabled \ ManagedTable \subseteq rlsTables

Finished ==
  IF pc = "done" THEN pending = {} /\ bundle = assembled
  ELSE bundle = noBundle

Inv == Typing /\ Accounted /\ Grounded /\ Excused /\ Registered /\ Finished

\* A catalog that has just been handed to the conversion.
Fresh ==
  /\ pc = "check" /\ WellFormed(cat) /\ opts \in OptionSets
  /\ outcome = [p \in cat.policies |-> "pending"]
  /\ rlsTables = cat.enabled \ ManagedTable
  /\ emitted = {} /\ stubs = {} /\ compatRoles = {} /\ used = {}
  /\ bundle = noBundle

LEMMA FreshInv == Fresh => Inv
<1> SUFFICES ASSUME Fresh PROVE Inv
  OBVIOUS
<1>1. Typing
  BY DEF Fresh, Typing, Outcome, WellFormed, CatalogType
<1>2. Kept = {} /\ Denied = {}
  BY DEF Fresh, Kept, Denied
<1>3. Accounted /\ Grounded
  BY <1>2 DEF Fresh, Accounted, Grounded
<1>4. Excused
  BY <1>2 DEF Fresh, Excused
<1>5. Finished /\ Registered
  BY DEF Fresh, Finished, Registered
<1> QED BY <1>1, <1>3, <1>4, <1>5 DEF Inv

LEMMA InitInv == Init => Inv
<1>1. Init => Fresh
  BY CatalogAssumption, SourcePoliciesAssumption DEF Init, Fresh, WellFormed
<1> QED BY <1>1, FreshInv

\* Catalog and options never change, nor what they say of a policy.
LEMMA Steady ==
  ASSUME cat' = cat, opts' = opts, NEW p
  PROVE  /\ Own(p)' = Own(p)
         /\ needs(p)' = needs(p)
         /\ needsRoles(p, opts)' = needsRoles(p, opts)
         /\ skip(p, opts)' = skip(p, opts)
         /\ renderSystemStub(p, opts)' = renderSystemStub(p, opts)
<1>1. selfRef(p)' = selfRef(p)
  BY DEF selfRef
<1> QED BY <1>1 DEF Own, needs

\* The policy at hand gets an outcome; the others keep theirs.
LEMMA Marked ==
  ASSUME Typing, cat' = cat, opts' = opts, NEW p \in pending, NEW w \in Outcome,
         outcome' = [outcome EXCEPT ![p] = w]
  PROVE  /\ p \in cat.policies /\ p \in Policy
         /\ outcome' \in [cat.policies -> Outcome]
         /\ outcome'[p] = w
         /\ \A q \in cat.policies \ {p} : outcome'[q] = outcome[q]
         /\ Kept' = IF w = "converted" THEN Kept \cup {p} ELSE Kept
         /\ Denied' = IF w = "skipped" /\ p.table \notin ManagedTable
                         /\ skip(p, opts) = "service_denied"
                      THEN Denied \cup {p} ELSE Denied
<1>1. p \in cat.policies /\ outcome[p] = "pending"
  BY DEF pending
<1>2. p \in Policy
  BY <1>1 DEF Typing, WellFormed, CatalogType
<1>3. /\ outcome' \in [cat.policies -> Outcome]
      /\ outcome'[p] = w
      /\ \A q \in cat.policies \ {p} : outcome'[q] = outcome[q]
  BY <1>1 DEF Typing
<1>4. Kept' = IF w = "converted" THEN Kept \cup {p} ELSE Kept
  BY <1>1, <1>3 DEF Kept
<1>5. Denied' = IF w = "skipped" /\ p.table \notin ManagedTable
                     /\ skip(p, opts) = "service_denied"
                THEN Denied \cup {p} ELSE Denied
  BY <1>1, <1>3 DEF Denied
<1> QED BY <1>1, <1>2, <1>3, <1>4, <1>5

\* As long as what was converted and emitted stays and the bundle's needs only
\* grow, everything converted stays accounted for.
LEMMA StillAccounted ==
  ASSUME Accounted, Grounded, cat' = cat, opts' = opts, Kept' = Kept,
         emitted' = emitted, rlsTables \subseteq rlsTables', used \subseteq used',
         compatRoles \subseteq compatRoles'
  PROVE  Accounted' /\ Grounded'
<1>1. \A p : /\ Own(p)' = Own(p) /\ needs(p)' = needs(p)
             /\ needsRoles(p, opts)' = needsRoles(p, opts)
  BY Steady
<1>2. Accounted'
  BY <1>1 DEF Accounted
<1>3. Grounded'
  BY <1>1 DEF Grounded
<1> QED BY <1>2, <1>3

\* What a skipped or blocked policy adds: a stub when it is denied its path.
LEMMA StillExcused ==
  ASSUME Typing, Excused, cat' = cat, opts' = opts,
         NEW p \in pending, NEW w \in {"skipped", "blocked", "converted"},
         outcome' = [outcome EXCEPT ![p] = w],
         w # "skipped" => skip(p, opts) = "",
         w = "skipped" => p.table \in ManagedTable \/ skip(p, opts) # "",
         stubs' = IF w = "skipped" /\ p.table \notin ManagedTable
                     /\ skip(p, opts) = "service_denied"
                  THEN stubs \cup {renderSystemStub(p, opts)} ELSE stubs
  PROVE  Excused'
<1> w \in Outcome
  BY DEF Outcome
<1>1. /\ outcome'[p] = w
      /\ \A q \in cat.policies \ {p} : outcome'[q] = outcome[q]
      /\ Denied' = IF w = "skipped" /\ p.table \notin ManagedTable
                      /\ skip(p, opts) = "service_denied"
                   THEN Denied \cup {p} ELSE Denied
  BY Marked
<1>2. \A q : /\ skip(q, opts)' = skip(q, opts)
             /\ renderSystemStub(q, opts)' = renderSystemStub(q, opts)
  BY Steady
<1>3. stubs' = {renderSystemStub(q, opts) : q \in Denied'}
  BY <1>1 DEF Excused
<1>4. \A q \in cat.policies : outcome'[q] \in {"blocked", "converted"} =>
        skip(q, opts) = ""
  BY <1>1 DEF Excused
<1>5. \A q \in cat.policies : outcome'[q] = "skipped" =>
         q.table \in ManagedTable \/ skip(q, opts) # ""
  BY <1>1 DEF Excused
<1>6. (stubs = {renderSystemStub(q, opts) : q \in Denied})'
  BY <1>2, <1>3
<1>7. (\A q \in cat.policies : outcome[q] \in {"blocked", "converted"} =>
         skip(q, opts) = "")'
  BY <1>2, <1>4
<1>8. (\A q \in cat.policies : outcome[q] = "skipped" =>
         q.table \in ManagedTable \/ skip(q, opts) # "")'
  BY <1>2, <1>5
<1> QED BY <1>6, <1>7, <1>8 DEF Excused

\* What p needs are accessors of the prelude.
LEMMA NeedsType ==
  ASSUME NEW p \in Policy PROVE needs(p) \subseteq Helper
<1>1. callsOf(p.using) \subseteq Helper /\ callsOf(p.check) \subseteq Helper
  BY ExprAssumption DEF Policy, callsOf, ExprType
<1>2. {"user_id", "role"} \subseteq Helper
  BY DEF Helper
<1>3. CASE opts.mode = "vanilla"
  BY <1>1, <1>2, <1>3 DEF needs
<1>4. CASE opts.mode # "vanilla"
  BY <1>2, <1>4 DEF needs
<1> QED BY <1>3, <1>4

\* Policy p is rendered: its policies take the place of their namesakes.
LEMMA ConvertAccounted ==
  ASSUME Typing, Accounted, Grounded, NEW p \in pending, Convert(p)
  PROVE  Accounted' /\ Grounded'
<1>1. cat' = cat /\ opts' = opts
  BY DEF Convert
<1>2. Kept' = Kept \cup {p}
  BY <1>1, Marked DEF Convert, Outcome
<1>3. \A q : /\ Own(q)' = Own(q) /\ needs(q)' = needs(q)
             /\ needsRoles(q, opts)' = needsRoles(q, opts)
  BY <1>1, Steady
<1>4. emitted' = {e \in emitted : \A n \in Own(p) : <<e.table, e.name>> # <<n.table, n.name>>}
                   \cup Own(p)
  BY DEF Convert, renderPolicySQL, Own
<1>5. /\ rlsTables' = rlsTables \cup {p.table} /\ used' = used \cup needs(p)
      /\ compatRoles' = compatRoles \cup needsRoles(p, opts)
  BY DEF Convert, withTable
<1>6. \A e \in emitted : \E f \in emitted' : f.table = e.table /\ f.name = e.name
  <2> SUFFICES ASSUME NEW e \in emitted
               PROVE  \E f \in emitted' : f.table = e.table /\ f.name = e.name
    OBVIOUS
  <2>1. CASE \A n \in Own(p) : <<e.table, e.name>> # <<n.table, n.name>>
    BY <1>4, <2>1
  <2>2. CASE \E n \in Own(p) : <<e.table, e.name>> = <<n.table, n.name>>
    BY <1>4, <2>2
  <2> QED BY <2>1, <2>2
<1>7. \A q \in Kept' : \A e \in Own(q) : \E f \in emitted' : f.table = e.table /\ f.name = e.name
  <2> SUFFICES ASSUME NEW q \in Kept', NEW e \in Own(q)
               PROVE  \E f \in emitted' : f.table = e.table /\ f.name = e.name
    OBVIOUS
  <2>1. CASE q = p
    BY <1>4, <2>1
  <2>2. CASE q # p
    <3>1. PICK f \in emitted : f.table = e.table /\ f.name = e.name
      BY <1>2, <2>2 DEF Accounted
    <3> QED BY <1>6, <3>1
  <2> QED BY <2>1, <2>2
<1>8. \A q \in Kept' : /\ q.table \in rlsTables' /\ needs(q) \subseteq used'
                       /\ needsRoles(q, opts) \subseteq compatRoles'
  BY <1>2, <1>5 DEF Accounted
<1>9. Accounted'
  BY <1>3, <1>7, <1>8 DEF Accounted
<1>10. Grounded'
  BY <1>2, <1>3, <1>4 DEF Grounded
<1> QED BY <1>9, <1>10

\* Before the end nothing is assembled, and nothing that is not at the end
\* gets there.
LEMMA StillRunning ==
  ASSUME Finished, pc # "done", pc' # "done", bundle' = bundle
  PROVE  Finished'
BY DEF Finished

\* The type of what a turn of the loop changes.
LEMMA TurnTyping ==
  ASSUME Typing, NEW p \in pending, NEW w \in Outcome,
         cat' = cat, opts' = opts, pc' = pc, outcome' = [outcome EXCEPT ![p] = w],
         rlsTables' \in {rlsTables, rlsTables \cup {p.table}},
         rlsTables' # rlsTables => p.table \notin ManagedTable,
         compatRoles' \in {compatRoles, compatRoles \cup needsRoles(p, opts)},
         used' \in {used, used \cup needs(p)}
  PROVE  Typing'
<1>1. p \in Policy /\ outcome' \in [cat.policies -> Outcome]
  BY Marked
<1>2. needs(p) \subseteq Helper
  BY <1>1, NeedsType
<1>3. needsRoles(p, opts) \subseteq PseudoRole
  BY DEF needsRoles
<1>4. rlsTables' \in SUBSET (Table \ ManagedTable)
  BY <1>1 DEF Typing, Policy
<1>5. used' \in SUBSET Helper /\ compatRoles' \in SUBSET PseudoRole
  BY <1>2, <1>3 DEF Typing
<1> QED BY <1>1, <1>4, <1>5 DEF Typing

\* With the outcomes and the stubs the excuses stay.
LEMMA SameExcuses ==
  ASSUME Excused, cat' = cat, opts' = opts, outcome' = outcome, stubs' = stubs
  PROVE  Excused'
<1>1. \A q : /\ skip(q, opts)' = skip(q, opts)
             /\ renderSystemStub(q, opts)' = renderSystemStub(q, opts)
  BY Steady
<1>2. Denied' = Denied
  BY DEF Denied
<1> QED BY <1>1, <1>2 DEF Excused

\* Every step keeps the invariant.
LEMMA StepInv == Inv /\ [Next]_vars => Inv'
<1> SUFFICES ASSUME Inv, [Next]_vars PROVE Inv'
  OBVIOUS
<1> USE DEF Inv
<1>1. CASE Refuse \/ Accept
  <2>1. /\ cat' = cat /\ opts' = opts /\ outcome' = outcome /\ emitted' = emitted
        /\ stubs' = stubs /\ rlsTables' = rlsTables /\ used' = used
        /\ compatRoles' = compatRoles /\ bundle' = bundle
        /\ pc = "check" /\ pc' \in {"loop", "refused"}
    BY <1>1 DEF Refuse, Accept
  <2>2. Typing'
    BY <2>1 DEF Typing
  <2>3. Kept' = Kept
    BY <2>1 DEF Kept
  <2>4. Accounted' /\ Grounded'
    BY <2>1, <2>3, StillAccounted
  <2>5. Excused'
    BY <2>1, SameExcuses
  <2>6. Registered'
    BY <2>1 DEF Registered
  <2>7. Finished'
    BY <2>1, StillRunning
  <2> QED BY <2>6, <2>2, <2>4, <2>5, <2>7
<1>2. ASSUME NEW p \in cat.policies, SkipManaged(p)
      PROVE  Inv'
  <2>1. /\ cat' = cat /\ opts' = opts /\ emitted' = emitted /\ stubs' = stubs
        /\ rlsTables' = rlsTables /\ used' = used /\ compatRoles' = compatRoles
        /\ bundle' = bundle /\ pc' = pc /\ pc = "loop" /\ p \in pending
        /\ p.table \in ManagedTable
        /\ outcome' = [outcome EXCEPT ![p] = "skipped"]
    BY <1>2 DEF SkipManaged, At
  <2>2. Typing'
    BY <2>1, TurnTyping DEF Outcome
  <2>3. Kept' = Kept
    BY <2>1, Marked DEF Outcome
  <2>4. Accounted' /\ Grounded'
    BY <2>1, <2>3, StillAccounted
  <2>5. Excused'
    BY <2>1, StillExcused
  <2>6. Registered'
    BY <2>1 DEF Registered
  <2>7. Finished'
    BY <2>1, StillRunning
  <2> QED BY <2>6, <2>2, <2>4, <2>5, <2>7
<1>3. ASSUME NEW p \in cat.policies, SkipForRoles(p)
      PROVE  Inv'
  <2>1. /\ cat' = cat /\ opts' = opts /\ emitted' = emitted
        /\ rlsTables' = rlsTables /\ used' = used
        /\ compatRoles' = compatRoles \cup needsRoles(p, opts)
        /\ bundle' = bundle /\ pc' = pc /\ pc = "loop" /\ p \in pending
        /\ skip(p, opts) # ""
        /\ outcome' = [outcome EXCEPT ![p] = "skipped"]
    BY <1>3 DEF SkipForRoles, AnalyzeRoles, At
  <2>2. Typing'
    BY <2>1, TurnTyping DEF Outcome
  <2>3. Kept' = Kept
    BY <2>1, Marked DEF Outcome
  <2>4. Accounted' /\ Grounded'
    BY <2>1, <2>3, StillAccounted
  <2>5. Excused'
    <3>1. stubs' = IF p.table \notin ManagedTable /\ skip(p, opts) = "service_denied"
                   THEN stubs \cup {renderSystemStub(p, opts)} ELSE stubs
      BY <1>3 DEF SkipForRoles
    <3> QED BY <2>1, <3>1, StillExcused
  <2>6. Registered'
    BY <2>1 DEF Registered
  <2>7. Finished'
    BY <2>1, StillRunning
  <2> QED BY <2>6, <2>2, <2>4, <2>5, <2>7
<1>4. ASSUME NEW p \in cat.policies, Block(p)
      PROVE  Inv'
  <2>1. /\ cat' = cat /\ opts' = opts /\ emitted' = emitted /\ stubs' = stubs
        /\ rlsTables' = rlsTables /\ used' = used \cup needs(p)
        /\ compatRoles' = compatRoles \cup needsRoles(p, opts)
        /\ bundle' = bundle /\ pc' = pc /\ pc = "loop" /\ p \in pending
        /\ skip(p, opts) = ""
        /\ outcome' = [outcome EXCEPT ![p] = "blocked"]
    BY <1>4 DEF Block, AnalyzeRoles, At
  <2>2. Typing'
    BY <2>1, TurnTyping DEF Outcome
  <2>3. Kept' = Kept
    BY <2>1, Marked DEF Outcome
  <2>4. Accounted' /\ Grounded'
    BY <2>1, <2>3, StillAccounted
  <2>5. Excused'
    BY <2>1, StillExcused
  <2>6. Registered'
    BY <2>1 DEF Registered
  <2>7. Finished'
    BY <2>1, StillRunning
  <2> QED BY <2>6, <2>2, <2>4, <2>5, <2>7
<1>5. ASSUME NEW p \in cat.policies, Convert(p)
      PROVE  Inv'
  <2>1. /\ cat' = cat /\ opts' = opts /\ stubs' = stubs
        /\ rlsTables' = rlsTables \cup {p.table} /\ used' = used \cup needs(p)
        /\ compatRoles' = compatRoles \cup needsRoles(p, opts)
        /\ bundle' = bundle /\ pc' = pc /\ pc = "loop" /\ p \in pending
        /\ skip(p, opts) = "" /\ p.table \notin ManagedTable
        /\ outcome' = [outcome EXCEPT ![p] = "converted"]
    BY <1>5 DEF Convert, withTable, At
  <2>2. Typing'
    BY <2>1, TurnTyping DEF Outcome
  <2>3. Accounted' /\ Grounded'
    BY <1>5, <2>1, ConvertAccounted
  <2>4. Excused'
    BY <2>1, StillExcused
  <2>5. Registered'
    BY <2>1 DEF Registered
  <2>6. Finished'
    BY <2>1, StillRunning
  <2> QED BY <2>5, <2>2, <2>3, <2>4, <2>6
<1>6. CASE Assemble
  <2>1. /\ cat' = cat /\ opts' = opts /\ outcome' = outcome /\ emitted' = emitted
        /\ stubs' = stubs /\ rlsTables' = rlsTables /\ used' = used
        /\ compatRoles' = compatRoles /\ bundle' = assembled
        /\ pending = {} /\ pc' = "done"
    BY <1>6 DEF Assemble
  <2>2. Typing'
    BY <2>1 DEF Typing
  <2>3. Kept' = Kept
    BY <2>1 DEF Kept
  <2>4. Accounted' /\ Grounded'
    BY <2>1, <2>3, StillAccounted
  <2>5. Excused'
    BY <2>1, SameExcuses
  <2>6. Registered'
    BY <2>1 DEF Registered
  <2>7. Finished'
    <3>1. assembled' = assembled
      BY <2>1 DEF assembled
    <3>2. pending' = pending
      BY <2>1 DEF pending
    <3> QED BY <2>1, <3>1, <3>2 DEF Finished
  <2> QED BY <2>6, <2>2, <2>4, <2>5, <2>7
<1>7. CASE UNCHANGED vars
  <2>1. /\ cat' = cat /\ opts' = opts /\ outcome' = outcome /\ emitted' = emitted
        /\ stubs' = stubs /\ rlsTables' = rlsTables /\ used' = used
        /\ compatRoles' = compatRoles /\ bundle' = bundle /\ pc' = pc
    BY <1>7 DEF vars
  <2>2. Typing'
    BY <2>1 DEF Typing
  <2>3. Kept' = Kept
    BY <2>1 DEF Kept
  <2>4. Accounted' /\ Grounded'
    BY <2>1, <2>3, StillAccounted
  <2>5. Excused'
    BY <2>1, SameExcuses
  <2>6. Registered'
    BY <2>1 DEF Registered
  <2>7. Finished'
    <3>1. assembled' = assembled
      BY <2>1 DEF assembled
    <3>2. pending' = pending
      BY <2>1 DEF pending
    <3> QED BY <2>1, <3>1, <3>2 DEF Finished
  <2> QED BY <2>6, <2>2, <2>4, <2>5, <2>7
<1> QED BY <1>1, <1>2, <1>3, <1>4, <1>5, <1>6, <1>7 DEF Next

LEMMA Invariance == Spec => []Inv
BY InitInv, StepInv, PTL DEF Spec

-----------------------------------------------------------------------------
\* Every emitted policy is rendered from a converted one.
LEMMA Origin ==
  ASSUME Inv, NEW e \in emitted
  PROVE  \E p \in Kept : /\ p \in Policy /\ e \in Own(p) /\ RecordOf(e)
                         /\ RenderedFrom(e, p) /\ p.table \in rlsTables
                         /\ needs(p) \subseteq used
                         /\ needsRoles(p, opts) \subseteq compatRoles
<1>1. PICK p \in Kept : e \in Own(p)
  BY DEF Inv, Grounded
<1>2. p \in Policy
  BY DEF Inv, Typing, WellFormed, Kept, CatalogType
<1>3. RecordOf(e) /\ RenderedFrom(e, p)
  BY <1>1, <1>2, RenderedShape
<1>4. /\ p.table \in rlsTables /\ needs(p) \subseteq used
      /\ needsRoles(p, opts) \subseteq compatRoles
  BY DEF Inv, Accounted
<1> QED BY <1>1, <1>2, <1>3, <1>4

LEMMA Types == Inv => TypeOK
<1> SUFFICES ASSUME Inv PROVE TypeOK
  OBVIOUS
<1>1. Typing
  BY DEF Inv
<1>2. cat \in CatalogType /\ opts \in Options
  BY <1>1, OptionsAssumption DEF Typing, WellFormed
<1>3. emitted \subseteq RenderedPolicy
  <2> SUFFICES ASSUME NEW e \in emitted PROVE e \in RenderedPolicy
    OBVIOUS
  <2>1. PICK p \in Kept : /\ p \in Policy /\ e \in Own(p) /\ RecordOf(e)
                          /\ RenderedFrom(e, p) /\ p.table \in rlsTables
    BY Origin
  <2>2. /\ e.name \in Seq(Symbol) /\ e.table \in Table \ ManagedTable
        /\ e.permissive \in BOOLEAN /\ e.cmd \in PolicyCmd
    BY <1>1, <2>1 DEF RenderedFrom, Typing, Policy
  <2>3. e.targets \subseteq SourceRole \cup {AppRole}
    BY <2>1, TargetsType DEF RenderedFrom
  <2>4. /\ e.using \in RenderedExpr \cup {Absent}
        /\ e.check \in RenderedExpr \cup {Absent}
    BY <2>1 DEF RenderedFrom, ClauseOf
  <2> QED BY <2>1, <2>2, <2>3, <2>4 DEF RecordOf, RenderedPolicy
<1>4. /\ bundle.enable \subseteq rlsTables
      /\ bundle.force \cup bundle.escape \subseteq bundle.enable
  <2>1. CASE pc = "done"
    BY <2>1 DEF Inv, Finished, assembled
  <2>2. CASE pc # "done"
    BY <2>2 DEF Inv, Finished, noBundle
  <2> QED BY <2>1, <2>2
<1> QED BY <1>1, <1>2, <1>3, <1>4 DEF TypeOK, Typing, Outcome

\* The conversion's data always has its types; no policy of a table Supabase
\* manages is rendered, and no other table is enabled, forced or given the
\* escape than those the loop registered.
THEOREM TypeOKTheorem == Spec => []TypeOK
BY Types, Invariance, PTL

\* What the bundle emits is in force: its table is registered, and enabled and
\* FORCEd when the files are assembled.
LEMMA EmittedInForce ==
  ASSUME Inv, converted, NEW e \in emitted
  PROVE  inForce(e)
<1>1. e.table \in rlsTables
  BY Origin DEF RenderedFrom
<1>2. bundle = assembled
  BY DEF Inv, Finished, converted
<1> QED BY <1>1, <1>2 DEF assembled, inForce

\* At the end every policy has an outcome, the bundle holds policies rendered
\* from the converted ones and takes every name they ask for, and a stub
\* stands for each policy of a denied service path and for no other.
THEOREM ReportMatchesBundleTheorem == Spec => []ReportMatchesBundle
<1>1. Inv => ReportMatchesBundle
  <2> SUFFICES ASSUME Inv, converted PROVE ReportMatchesBundle
    BY DEF ReportMatchesBundle
  <2> DEFINE all == UNION {rendered(p, opts, selfRef(p)) : p \in Kept}
  <2>1. emitted \subseteq all
    BY DEF Inv, Grounded, Own
  <2>2. \A e \in all : \E f \in emitted : f.table = e.table /\ f.name = e.name
    BY DEF Inv, Accounted, Own
  <2>3. \A p \in cat.policies : outcome[p] # "pending"
    BY DEF Inv, Finished, converted, pending
  <2>4. \A p \in cat.policies : outcome[p] = "skipped" \/ skip(p, opts) = ""
    BY <2>3 DEF Inv, Typing, Outcome, Excused
  <2>5. Denied = IF opts.roleModel = "single" /\ ~emitsServiceEscape(opts)
                 THEN {p \in cat.policies : serviceOnly(p)} ELSE {}
    <3>1. ASSUME NEW p
          PROVE  skip(p, opts) = "service_denied" <=>
                   /\ opts.roleModel = "single" /\ ~emitsServiceEscape(opts)
                   /\ p.roles \ InternalRole = {"service_role"}
      BY DEF skip, keepsRoles
    <3> QED BY <2>4, <3>1 DEF Denied, serviceOnly
  <2>6. {<<s.table, s.name>> : s \in stubs} =
          {<<p.table, Append(p.name, "_system")>> : p \in Denied}
    <3>1. stubs = {renderSystemStub(p, opts) : p \in Denied}
      BY DEF Inv, Excused
    <3>2. \A p : /\ renderSystemStub(p, opts).table = p.table
                 /\ renderSystemStub(p, opts).name = Append(p.name, "_system")
      BY DEF renderSystemStub
    <3>3. ASSUME NEW p \in Denied
          PROVE  <<p.table, Append(p.name, "_system")>> \in {<<s.table, s.name>> : s \in stubs}
      <4>1. renderSystemStub(p, opts) \in stubs
        BY <3>1
      <4> QED BY <3>2, <4>1
    <3>4. ASSUME NEW s \in stubs
          PROVE  <<s.table, s.name>> \in {<<p.table, Append(p.name, "_system")>> : p \in Denied}
      <4>1. PICK p \in Denied : s = renderSystemStub(p, opts)
        BY <3>1
      <4> QED BY <3>2, <4>1
    <3> QED BY <3>3, <3>4
  <2>7. \A e \in emitted : inForce(e)
    BY EmittedInForce
  <2> QED BY <2>1, <2>2, <2>3, <2>5, <2>6, <2>7 DEF ReportMatchesBundle, Kept
<1> QED BY <1>1, Invariance, PTL

-----------------------------------------------------------------------------
\* What the prelude defines, given what was used.
LEMMA Prelude ==
  ASSUME NEW o, NEW u, NEW a \in u \cap Helper
  PROVE  a \in preludeAccessors(o, u)
BY DEF preludeAccessors, Helper

\* What a clause of a converted policy calls is used, or is the escape's.
LEMMA ClauseCalls ==
  ASSUME Inv, NEW p \in Policy, needs(p) \subseteq used,
         NEW x, ClauseOf(x, p), NEW a \in callsIn(x)
  PROVE  \/ opts.mode = "compat" /\ a \in Helper
         \/ a \in used
         \/ emitsServiceEscape(opts) /\ a = serviceEscapePredicate(opts)
<1>1. /\ x # Absent /\ x.body \in {p.using, p.check, Absent}
      /\ x.cond \in {"", cond(p, opts)} /\ (x.escape => emitsServiceEscape(opts))
  BY DEF ClauseOf, callsIn
<1>2. callsOf(x.body) \subseteq callsOf(p.using) \cup callsOf(p.check)
  BY <1>1 DEF callsOf
<1>3. x.cond # "" => scope(p) # "" /\ ~keepsRoles(opts)
  BY <1>1 DEF cond
<1>4. opts.mode \in {"vanilla", "compat"}
  BY OptionsAssumption DEF Inv, Typing, Options
<1>5. CASE a \in callsOf(x.body)
  <2>1. CASE opts.mode = "vanilla"
    BY <1>2, <1>5, <2>1 DEF needs
  <2>2. CASE opts.mode = "compat"
    <3>1. callsOf(p.using) \subseteq Helper /\ callsOf(p.check) \subseteq Helper
      BY ExprAssumption DEF Policy, callsOf, ExprType
    <3> QED BY <1>2, <1>5, <2>2, <3>1
  <2> QED BY <1>4, <2>1, <2>2
<1>6. CASE x.cond # "" /\ a = IF opts.mode = "compat" THEN "role" ELSE "user_id"
  <2>1. CASE opts.mode = "vanilla"
    BY <1>3, <1>6, <2>1 DEF needs
  <2>2. CASE opts.mode = "compat"
    BY <1>6, <2>2 DEF Helper
  <2> QED BY <1>4, <2>1, <2>2
<1>7. CASE x.escape /\ a = serviceEscapePredicate(opts)
  BY <1>1, <1>7
<1> QED BY <1>1, <1>5, <1>6, <1>7 DEF callsIn

\* An accessor that is used or is the escape's is defined, and the setting it
\* reads is in the contract.
LEMMA AccessorCovered ==
  ASSUME Inv, converted, NEW a,
         \/ opts.mode = "compat" /\ a \in Helper
         \/ a \in used
         \/ emitsServiceEscape(opts) /\ a = serviceEscapePredicate(opts)
  PROVE  a \in bundle.accessors /\ setting(a) \in bundle.gucs
<1>1. /\ bundle.accessors = preludeAccessors(opts, used)
      /\ bundle.gucs = GUCContract(opts, used)
  BY DEF Inv, Finished, converted, assembled
<1>2. used \subseteq Helper
  BY DEF Inv, Typing
<1>3. CASE opts.mode = "compat"
  <2>1. a \in Helper
    BY <1>2, <1>3 DEF serviceEscapePredicate, Helper
  <2>2. setting(a) = "request.jwt.claims"
    BY <1>3 DEF setting
  <2>3. a \in preludeAccessors(opts, used)
    BY <1>3, <2>1 DEF preludeAccessors
  <2>4. "request.jwt.claims" \in GUCContract(opts, used)
    BY <1>3 DEF GUCContract
  <2> QED BY <1>1, <2>2, <2>3, <2>4
<1>4. CASE opts.mode # "compat"
  <2>1. CASE a \in used
    <3>1. a \in Helper
      BY <1>2, <2>1
    <3>2. a \in preludeAccessors(opts, used)
      BY <2>1, <3>1, Prelude
    <3>3. setting(a) = a
      BY <1>4, <3>1 DEF setting, Helper
    <3>4. a \in GUCContract(opts, used)
      BY <1>4, <2>1, <3>1 DEF GUCContract, Helper
    <3> QED BY <1>1, <3>2, <3>3, <3>4
  <2>2. CASE emitsServiceEscape(opts) /\ a = serviceEscapePredicate(opts)
    <3>1. a = "is_service"
      BY <1>4, <2>2 DEF serviceEscapePredicate
    <3>2. a \in preludeAccessors(opts, used)
      BY <1>4, <2>2, <3>1 DEF preludeAccessors
    <3>3. setting(a) = "role"
      BY <1>4, <3>1 DEF setting
    <3>4. "role" \in GUCContract(opts, used)
      BY <1>4, <2>2 DEF GUCContract
    <3> QED BY <1>1, <3>2, <3>3, <3>4
  <2> QED BY <1>4, <2>1, <2>2
<1> QED BY <1>3, <1>4

\* No policy of the bundle and no escape calls an accessor the prelude leaves
\* out, and no setting behind one is missing from the contract the report
\* gives the application.
THEOREM ContextCompleteTheorem == Spec => []ContextComplete
<1>1. Inv => ContextComplete
  <2> SUFFICES ASSUME Inv, converted,
                      NEW a \in (UNION {callsIn(e.using) \cup callsIn(e.check) : e \in emitted})
                                  \cup (IF bundle.escape # {}
                                        THEN {serviceEscapePredicate(opts)} ELSE {})
               PROVE  a \in bundle.accessors /\ setting(a) \in bundle.gucs
    BY DEF ContextComplete
  <2>1. CASE \E e \in emitted : a \in callsIn(e.using) \cup callsIn(e.check)
    <3>1. PICK e \in emitted : a \in callsIn(e.using) \cup callsIn(e.check)
      BY <2>1
    <3>2. PICK p \in Kept : p \in Policy /\ RenderedFrom(e, p) /\ needs(p) \subseteq used
      BY Origin
    <3>3. ClauseOf(e.using, p) /\ ClauseOf(e.check, p)
      BY <3>2 DEF RenderedFrom
    <3>4. \/ opts.mode = "compat" /\ a \in Helper
          \/ a \in used
          \/ emitsServiceEscape(opts) /\ a = serviceEscapePredicate(opts)
      BY <3>1, <3>2, <3>3, ClauseCalls
    <3> QED BY <3>4, AccessorCovered
  <2>2. CASE bundle.escape # {} /\ a = serviceEscapePredicate(opts)
    <3>1. emitsServiceEscape(opts)
      BY <2>2 DEF Inv, Finished, converted, assembled
    <3> QED BY <2>2, <3>1, AccessorCovered
  <2> QED BY <2>1, <2>2
<1> QED BY <1>1, Invariance, PTL

-----------------------------------------------------------------------------
\* A clause PostgreSQL refuses for the command is not written: combineCond
\* fills no clause the command does not take, and splitAll sorts them out.
LEMMA OwnCreatable ==
  ASSUME NEW p, Creatable(p), NEW e \in Own(p)
  PROVE  Creatable(e)
<1> DEFINE b == base(p, opts, selfRef(p))
<1>1. b.cmd = p.cmd /\ b.using = using(p, opts, selfRef(p))
                    /\ b.check = check(p, opts, selfRef(p))
  BY DEF base
<1>2. p.cmd = "INSERT" => b.using = Absent
  BY <1>1 DEF using, rewriteExpr, orEscape, Creatable
<1>3. p.cmd \in {"SELECT", "DELETE"} => b.check = Absent
  BY <1>1 DEF check, rewriteExpr, orEscape, Creatable
<1>4. Creatable(b)
  BY <1>1, <1>2, <1>3 DEF Creatable
<1> HIDE DEF b
<1>5. \A x \in splitAll(b) : Creatable(x)
  BY DEF splitAll, mk, Creatable
<1>6. e = b \/ e \in splitAll(b)
  BY DEF Own, rendered, b
<1> QED BY <1>4, <1>5, <1>6

\* The roles of a rendered TO list are the project's own, the runtime role, or
\* among Supabase's, which the policy asked to have created.
LEMMA TargetsProvided ==
  ASSUME Inv, converted, NEW p \in Policy, needsRoles(p, opts) \subseteq compatRoles,
         NEW r \in targets(p, opts)
  PROVE  r \in CustomRole \cup bundle.roles \cup
                (IF splitOnCapyDB(opts) THEN {AppRole} ELSE {})
<1>1. bundle.roles = createdRoles(opts, compatRoles)
  BY DEF Inv, Finished, converted, assembled
<1>2. CASE keepsRoles(opts)
  <2>1. ~hasPublic(p) /\ r \in p.roles \ InternalRole
    BY <1>2 DEF targets
  <2>2. r \in CustomRole \cup PseudoRole
    BY <2>1 DEF Policy, SourceRole, hasPublic
  <2>3. r \in PseudoRole => r \in compatRoles
    BY <1>2, <2>1 DEF needsRoles
  <2>4. compatRoles \subseteq bundle.roles
    BY <1>1, <1>2 DEF keepsRoles, createdRoles
  <2> QED BY <2>2, <2>3, <2>4
<1>3. CASE ~keepsRoles(opts)
  <2>1. r \in CustomRole \/ (r = AppRole /\ opts.roleModel = "split")
    BY <1>3 DEF targets, custom
  <2>2. opts.roleModel = "split" /\ ~splitOnCapyDB(opts) => AppRole \in bundle.roles
    BY <1>1 DEF createdRoles
  <2> QED BY <2>1, <2>2
<1> QED BY <1>2, <1>3

\* No policy of a bundle is one PostgreSQL refuses: its clauses fit its
\* command, and whoever it is for exists once file 02 is through.
THEOREM BundleAppliesTheorem == Spec => []BundleApplies
<1>1. Inv => BundleApplies
  <2> SUFFICES ASSUME Inv, converted, NEW e \in emitted
               PROVE  /\ Creatable(e)
                      /\ e.targets \subseteq CustomRole \cup bundle.roles \cup
                           (IF splitOnCapyDB(opts) THEN {AppRole} ELSE {})
    BY DEF BundleApplies
  <2>1. PICK p \in Kept : /\ p \in Policy /\ e \in Own(p) /\ RenderedFrom(e, p)
                          /\ needsRoles(p, opts) \subseteq compatRoles
    BY Origin
  <2>2. Creatable(p)
    BY DEF Kept, Inv, Typing, WellFormed
  <2>3. Creatable(e)
    BY <2>1, <2>2, OwnCreatable
  <2>4. e.targets = targets(p, opts)
    BY <2>1 DEF RenderedFrom
  <2> QED BY <2>1, <2>3, <2>4, TargetsProvided
<1> QED BY <1>1, Invariance, PTL

=============================================================================
