--------------------------- MODULE RewriterProofs ---------------------------
(***************************************************************************)
(* The context of a run is sound for every set of claims and every input:  *)
(* what a rendered reference reads never changes after it is rendered, the *)
(* accessors it needs are defined and the contract is consistent.          *)
(*                                                                         *)
(* MeaningKept is not inductive: a later promotion could redefine what an  *)
(* earlier reference reads.  Inv adds why it cannot: promoted names are    *)
(* never those of the code, and every accessor rendered is one or the      *)
(* other and stays what it was.                                            *)
(***************************************************************************)
EXTENDS Rewriter, WellFoundedInduction, TLAPS

\* Where the loops stand.
Positions ==
  /\ input \in Inputs
  /\ item \in Nat \ {0} /\ at \in Nat \ {0}

\* No promoted name is one of the code's.
ClaimsFresh == DOMAIN claims \cap reservedAccessors = {}

\* The accessor is one the prelude will define: used, or promoted.
Known(x) ==
  IF opts.mode = "compat" THEN x.accessor \in {"uid", "role", "email", "jwt"}
  ELSE \/ x.accessor \in DOMAIN claims
       \/ \E n \in used \cap Builtin : x.accessor = spelled[n]

Sound(x) == Known(x) /\ meaning(x.accessor, x.path) = x.reads

OutputCurrent ==
  done => /\ ~more
          /\ output.accessors = emitPrelude
          /\ output.gucs = buildGUCContract

Inv == /\ Positions
       /\ ClaimsFresh
       /\ \A x \in rendered \cup written : Sound(x)
       /\ OutputCurrent

-----------------------------------------------------------------------------
\* The names of the code differ from one another (SpellingAssumption).
LEMMA Distinct ==
  /\ spelled["sub"] # spelled["role"] /\ spelled["sub"] # spelled["email"]
  /\ spelled["role"] # spelled["email"]
  /\ spelled["user_id"] # spelled["role"] /\ spelled["user_id"] # spelled["email"]
  /\ spelled["claims"] \notin {spelled["user_id"], spelled["role"], spelled["email"]}
BY SpellingAssumption DEF Builtin

\* The accessors of the code have reserved names.
LEMMA Reserved == \A n \in Builtin : spelled[n] \in reservedAccessors
BY DEF reservedAccessors

\* Only three facts have an accessor of their own.
LEMMA BuiltinCases ==
  ASSUME NEW r
  PROVE  \/ builtinFor(r) = "user_id" /\ fact(r) = spelled["sub"]
         \/ builtinFor(r) = "role"    /\ fact(r) = spelled["role"]
         \/ builtinFor(r) = "email"   /\ fact(r) = spelled["email"]
         \/ builtinFor(r) = "" /\ fact(r) \notin {spelled["sub"], spelled["role"],
                                                  spelled["email"]}
BY Distinct DEF builtinFor

\* As no promoted name is reserved, a built-in accessor reads its own fact.
LEMMA BuiltinMeaning ==
  ASSUME ClaimsFresh, opts.mode # "compat",
         NEW r, builtinFor(r) # ""
  PROVE  /\ builtinFor(r) \in Builtin
         /\ meaning(spelled[builtinFor(r)], Whole) = fact(r)
<1>1. builtinFor(r) \in Builtin
  BY BuiltinCases DEF Builtin
<1>2. spelled[builtinFor(r)] \notin DOMAIN claims
  BY <1>1, Reserved DEF ClaimsFresh
<1>3. CASE builtinFor(r) = "user_id" /\ fact(r) = spelled["sub"]
  BY <1>1, <1>2, <1>3, Distinct DEF meaning
<1>4. CASE builtinFor(r) = "role" /\ fact(r) = spelled["role"]
  BY <1>1, <1>2, <1>4, Distinct DEF meaning
<1>5. CASE builtinFor(r) = "email" /\ fact(r) = spelled["email"]
  BY <1>1, <1>2, <1>5, Distinct DEF meaning
<1> QED BY <1>3, <1>4, <1>5, BuiltinCases

\* The blob accessor reads the claim that follows it.
LEMMA BlobMeaning ==
  ASSUME ClaimsFresh, opts.mode # "compat", NEW path
  PROVE  meaning(spelled["claims"], path) = path
<1>1. spelled["claims"] \notin DOMAIN claims
  BY Reserved DEF ClaimsFresh, Builtin
<1> QED BY <1>1, Distinct DEF meaning

\* In compat mode a call reads what it read.
LEMMA CompatMeaning ==
  ASSUME opts.mode = "compat", NEW r
  PROVE  meaning(r.member, r.claim) = fact(r)
<1> DEFINE s == [member |-> r.member, claim |-> r.claim]
<1>1. meaning(r.member, r.claim) = fact(s)
  BY DEF meaning
<1>2. s.member = r.member /\ s.claim = r.claim
  OBVIOUS
<1>3. fact(s) = fact(r)
  <2> HIDE DEF s
  <2> QED BY <1>2 DEF fact
<1> QED BY <1>1, <1>3

\* A reference that has no built-in accessor reads its own literal.
LEMMA PlainFact ==
  ASSUME NEW r, builtinFor(r) = ""
  PROVE  fact(r) = r.claim
<1>1. fact(r) \notin {spelled["sub"], spelled["role"], spelled["email"]}
  BY BuiltinCases
<1> QED BY <1>1 DEF fact

\* Where rewriteExpr stands there is a reference.
LEMMA RefType ==
  ASSUME Positions, Reading
  PROVE  ref \in Ref
<1>1. input.items \in Seq(Item)
  BY InputAssumption DEF Positions, Input
<1>2. input.items[item] \in Item
  BY <1>1 DEF Positions, Reading, more
<1>3. refs \in Seq(Ref)
  BY <1>2 DEF refs, Item
<1> QED BY <1>3 DEF Positions, Reading, ref

-----------------------------------------------------------------------------
\* Until the last item is done nothing is assembled.
LEMMA NotYet ==
  ASSUME OutputCurrent, more, output' = output
  PROVE  OutputCurrent'
BY DEF OutputCurrent, done

\* Passing a reference keeps the place.
LEMMA NextReference ==
  ASSUME Positions, input' = input, item' = item, at' = at + 1
  PROVE  Positions'
BY DEF Positions

\* The names of the code never change.
LEMMA StillFresh ==
  ASSUME ClaimsFresh, claims' = claims
  PROVE  ClaimsFresh'
BY DEF ClaimsFresh, reservedAccessors

\* While the promoted claims stay, what was rendered stays sound.
LEMMA StillSound ==
  ASSUME NEW x, Sound(x), opts' = opts, claims' = claims, used \subseteq used'
  PROVE  Sound(x)'
<1>1. meaning(x.accessor, x.path)' = meaning(x.accessor, x.path)
  BY DEF meaning
<1>2. Known(x)'
  BY DEF Sound, Known
<1> QED BY <1>1, <1>2 DEF Sound

\* A rendering that is sound as the claims stand is so after a step that
\* leaves them alone and makes its accessor known.
LEMMA SoundAfter ==
  ASSUME NEW x, meaning(x.accessor, x.path) = x.reads, Known(x)',
         opts' = opts, claims' = claims
  PROVE  Sound(x)'
<1>1. meaning(x.accessor, x.path)' = meaning(x.accessor, x.path)
  BY DEF meaning
<1> QED BY <1>1 DEF Sound

\* A promotion leaves every earlier meaning alone: an accessor in use is
\* either the claim's own or one of the code's, whose names no claim takes.
LEMMA PromotionKeeps ==
  ASSUME ClaimsFresh, opts.mode = "vanilla", NEW k, promotable(k),
         opts' = opts, claims' = promoted(k), used' = used,
         NEW x, Sound(x)
  PROVE  Sound(x)'
<1> DEFINE name == sanitizeClaimName(k)
<1>1. /\ DOMAIN claims' = DOMAIN claims \cup {name}
      /\ \A n \in DOMAIN claims : claims'[n] = claims[n]
      /\ name \notin reservedAccessors
  BY DEF promoted, promotable
<1>2. Known(x)
  BY DEF Sound
<1>3. Known(x)'
  BY <1>1, <1>2 DEF Known
<1>4. CASE x.accessor \in DOMAIN claims
  <2>1. meaning(x.accessor, x.path) = claims[x.accessor]
    BY <1>4 DEF meaning
  <2>2. meaning(x.accessor, x.path)' = claims[x.accessor]
    BY <1>1, <1>4 DEF meaning
  <2> QED BY <1>3, <2>1, <2>2 DEF Sound
<1>5. CASE x.accessor \notin DOMAIN claims
  <2>1. PICK n \in used \cap Builtin : x.accessor = spelled[n]
    BY <1>2, <1>5 DEF Known
  <2>2. x.accessor \notin DOMAIN claims'
    BY <1>1, <1>5, <2>1, Reserved
  <2>3. meaning(x.accessor, x.path)' = meaning(x.accessor, x.path)
    BY <1>5, <2>2 DEF meaning
  <2> QED BY <1>3, <2>3 DEF Sound
<1> QED BY <1>4, <1>5

\* The invariant holds of a run that has not begun.
LEMMA InitInv == Init => Inv
<1> SUFFICES ASSUME Init PROVE Inv
  OBVIOUS
<1>1. Positions
  BY DEF Init, Positions
<1>2. ClaimsFresh
  BY DEF Init, ClaimsFresh
<1>3. OutputCurrent
  BY DEF Init, OutputCurrent, done
<1> QED BY <1>1, <1>2, <1>3 DEF Inv, Init

\* Every step of the rewriter keeps the invariant.
LEMMA StepInv == Inv /\ [Next]_vars => Inv'
<1> SUFFICES ASSUME Inv, [Next]_vars PROVE Inv'
  OBVIOUS
<1> USE DEF Inv
<1>1. CASE Blocker
  <2>1. Positions' /\ ClaimsFresh'
    BY <1>1 DEF Blocker, Positions, ClaimsFresh, reservedAccessors
  <2>2. OutputCurrent'
    BY <1>1, NotYet DEF Blocker, Reading
  <2>3. \A x \in (rendered \cup written)' : Sound(x)'
    BY <1>1, StillSound DEF Blocker
  <2> QED BY <2>1, <2>2, <2>3
<1>2. CASE KeepCall
  <2>1. Positions' /\ ClaimsFresh'
    BY <1>2, NextReference, StillFresh DEF KeepCall, Render
  <2>2. OutputCurrent'
    BY <1>2, NotYet DEF KeepCall, Reading
  <2>3. ref \in Ref /\ ref.member # "foreign"
    BY <1>2, RefType DEF KeepCall
  <2>4. ref.member \in {"uid", "role", "email", "jwt"}
    BY <2>3 DEF Ref, Member
  <2>5. PICK new : new = [accessor |-> ref.member, path |-> ref.claim,
                          reads |-> fact(ref)]
    OBVIOUS
  <2>6. Sound(new)'
    <3>1. opts' = opts /\ claims' = claims /\ opts.mode = "compat"
      BY <1>2 DEF KeepCall
    <3>2. /\ new.accessor = ref.member /\ new.path = ref.claim
          /\ new.reads = fact(ref)
      BY <2>5
    <3>3. Known(new)'
      BY <2>4, <3>1, <3>2 DEF Known
    <3>4. meaning(new.accessor, new.path) = new.reads
      BY <3>1, <3>2, CompatMeaning
    <3> QED BY <3>1, <3>3, <3>4, SoundAfter
  <2>7. \A x \in rendered \cup written : Sound(x)'
    BY <1>2, StillSound DEF KeepCall
  <2>8. rendered' = rendered \cup {new} /\ written' = written
    BY <1>2, <2>5 DEF KeepCall, Render
  <2> QED BY <2>1, <2>2, <2>6, <2>7, <2>8
<1>3. CASE UseBuiltin
  <2>1. Positions' /\ ClaimsFresh'
    BY <1>3, NextReference, StillFresh DEF UseBuiltin, Render
  <2>2. OutputCurrent'
    BY <1>3, NotYet DEF UseBuiltin, Reading
  <2>3. /\ builtinFor(ref) \in Builtin
        /\ meaning(spelled[builtinFor(ref)], Whole) = fact(ref)
    BY <1>3, BuiltinMeaning DEF UseBuiltin
  <2>4. PICK new : new = [accessor |-> spelled[builtinFor(ref)], path |-> Whole,
                          reads |-> fact(ref)]
    OBVIOUS
  <2>5. Sound(new)'
    <3>1. /\ opts' = opts /\ claims' = claims /\ opts.mode = "vanilla"
          /\ builtinFor(ref) \in used'
      BY <1>3 DEF UseBuiltin
    <3>2. /\ new.accessor = spelled[builtinFor(ref)] /\ new.path = Whole
          /\ new.reads = fact(ref)
      BY <2>4
    <3>3. Known(new)'
      BY <2>3, <3>1, <3>2 DEF Known
    <3> QED BY <2>3, <3>1, <3>2, <3>3, SoundAfter
  <2>6. \A x \in rendered \cup written : Sound(x)'
    BY <1>3, StillSound DEF UseBuiltin
  <2>7. rendered' = rendered \cup {new} /\ written' = written
    BY <1>3, <2>4 DEF UseBuiltin, Render
  <2> QED BY <2>1, <2>2, <2>5, <2>6, <2>7
<1>4. CASE PromoteClaim
  <2>1. Positions' /\ ClaimsFresh'
    <3>1. Positions'
      BY <1>4, NextReference DEF PromoteClaim, Render
    <3>2. /\ DOMAIN claims' = DOMAIN claims \cup {sanitizeClaimName(ref.claim)}
          /\ sanitizeClaimName(ref.claim) \notin reservedAccessors
      BY <1>4 DEF PromoteClaim, promoted, promotable
    <3> QED BY <3>1, <3>2 DEF ClaimsFresh, reservedAccessors
  <2>2. OutputCurrent'
    BY <1>4, NotYet DEF PromoteClaim, Reading
  <2>3. fact(ref) = ref.claim
    BY <1>4, PlainFact DEF PromoteClaim
  <2>4. PICK new : new = [accessor |-> sanitizeClaimName(ref.claim), path |-> Whole,
                          reads |-> fact(ref)]
    OBVIOUS
  <2>5. Sound(new)'
    <3>1. opts' = opts /\ opts.mode = "vanilla" /\ claims' = promoted(ref.claim)
      BY <1>4 DEF PromoteClaim
    <3>2. new.accessor = sanitizeClaimName(ref.claim) /\ new.reads = ref.claim
      BY <2>3, <2>4
    <3>3. new.accessor \in DOMAIN claims' /\ claims'[new.accessor] = new.reads
      BY <3>1, <3>2 DEF promoted
    <3>4. Known(new)'
      BY <3>1, <3>3 DEF Known
    <3>5. meaning(new.accessor, new.path)' = new.reads
      BY <3>1, <3>3 DEF meaning
    <3> QED BY <3>4, <3>5 DEF Sound
  <2>6. \A x \in rendered \cup written : Sound(x)'
    BY <1>4, PromotionKeeps DEF PromoteClaim
  <2>7. rendered' = rendered \cup {new} /\ written' = written
    BY <1>4, <2>4 DEF PromoteClaim, Render
  <2> QED BY <2>1, <2>2, <2>5, <2>6, <2>7
<1>5. CASE FallBack
  <2>1. Positions' /\ ClaimsFresh'
    BY <1>5, NextReference, StillFresh DEF FallBack, Render
  <2>2. OutputCurrent'
    BY <1>5, NotYet DEF FallBack, Reading
  <2>3. fact(ref) = ref.claim
    BY <1>5, PlainFact DEF FallBack
  <2>4. PICK new : new = [accessor |-> spelled["claims"], path |-> ref.claim,
                          reads |-> fact(ref)]
    OBVIOUS
  <2>5. Sound(new)'
    <3>1. /\ opts' = opts /\ claims' = claims /\ opts.mode = "vanilla"
          /\ "claims" \in used'
      BY <1>5 DEF FallBack
    <3>2. /\ new.accessor = spelled["claims"] /\ new.path = ref.claim
          /\ new.reads = ref.claim
      BY <2>3, <2>4
    <3>3. Known(new)'
      BY <3>1, <3>2 DEF Known, Builtin
    <3>4. meaning(spelled["claims"], ref.claim) = ref.claim
      BY <3>1, BlobMeaning
    <3> QED BY <3>1, <3>2, <3>3, <3>4, SoundAfter
  <2>6. \A x \in rendered \cup written : Sound(x)'
    BY <1>5, StillSound DEF FallBack
  <2>7. rendered' = rendered \cup {new} /\ written' = written
    BY <1>5, <2>4 DEF FallBack, Render
  <2> QED BY <2>1, <2>2, <2>5, <2>6, <2>7
<1>6. CASE NextItem
  <2>1. Positions' /\ ClaimsFresh'
    BY <1>6 DEF NextItem, Positions, ClaimsFresh, reservedAccessors
  <2>2. OutputCurrent'
    BY <1>6, NotYet DEF NextItem
  <2>3. \A x \in rendered \cup written : Sound(x)'
    BY <1>6, StillSound DEF NextItem
  <2>4. (rendered \cup written)' \subseteq rendered \cup written
    BY <1>6 DEF NextItem
  <2> QED BY <2>1, <2>2, <2>3, <2>4
<1>7. CASE Assemble
  <2>1. Positions' /\ ClaimsFresh'
    BY <1>7 DEF Assemble, Positions, ClaimsFresh, reservedAccessors
  <2>2. OutputCurrent'
    BY <1>7 DEF Assemble, OutputCurrent, more, emitPrelude, buildGUCContract,
                emitsServiceEscape
  <2>3. \A x \in (rendered \cup written)' : Sound(x)'
    BY <1>7, StillSound DEF Assemble
  <2> QED BY <2>1, <2>2, <2>3
<1>8. CASE UNCHANGED vars
  <2>1. Positions' /\ ClaimsFresh'
    BY <1>8 DEF vars, Positions, ClaimsFresh, reservedAccessors
  <2>2. OutputCurrent'
    BY <1>8 DEF vars, OutputCurrent, done, more, emitPrelude, buildGUCContract,
                emitsServiceEscape
  <2>3. \A x \in (rendered \cup written)' : Sound(x)'
    BY <1>8, StillSound DEF vars
  <2> QED BY <2>1, <2>2, <2>3
<1> QED BY <1>1, <1>2, <1>3, <1>4, <1>5, <1>6, <1>7, <1>8 DEF Next

\* Before the run and after every step.
LEMMA Invariance == Spec => []Inv
BY InitInv, StepInv, PTL DEF Spec

-----------------------------------------------------------------------------
\* Whatever the claims are called and in whatever order they are read, each
\* reference in the files written reads what the source's did: replaceHelper
\* and promoteClaim never let two claims share an accessor, nor a claim take
\* one of the code's.
THEOREM MeaningKeptTheorem == Spec => []MeaningKept
<1>1. Inv => MeaningKept
  BY DEF Inv, Sound, MeaningKept
<1> QED BY <1>1, Invariance, PTL

\* What Known promises, the prelude defines and the contract covers.
LEMMA KnownDefined ==
  ASSUME NEW a, NEW x, x.accessor = a, Known(x)
  PROVE  /\ a \in emitPrelude
         /\ \E g \in buildGUCContract : g[1] = setting(a)
<1>1. CASE opts.mode = "compat"
  <2>1. a \in emitPrelude
    BY <1>1 DEF Known, emitPrelude
  <2>2. <<"request.jwt.claims", Whole>> \in buildGUCContract
    BY <1>1 DEF buildGUCContract
  <2>3. setting(a) = "request.jwt.claims"
    BY <1>1 DEF setting
  <2> QED BY <2>1, <2>2, <2>3
<1>2. CASE opts.mode # "compat" /\ a \in DOMAIN claims
  <2>1. a \in emitPrelude
    BY <1>2 DEF emitPrelude
  <2>2. <<a, claims[a]>> \in buildGUCContract
    BY <1>2 DEF buildGUCContract
  <2>3. setting(a) = a
    BY <1>2 DEF setting
  <2> QED BY <2>1, <2>2, <2>3
<1>3. CASE opts.mode # "compat" /\ a \notin DOMAIN claims
  <2>1. PICK n \in used \cap Builtin : a = spelled[n]
    BY <1>3 DEF Known
  <2>2. setting(a) = a
    BY <1>3 DEF setting
  <2>3. CASE n = "user_id"
    <3>1. a \in emitPrelude
      BY <1>3, <2>1, <2>3 DEF emitPrelude
    <3>2. <<a, spelled["sub"]>> \in buildGUCContract
      BY <1>3, <2>1, <2>3 DEF buildGUCContract
    <3> QED BY <3>1, <3>2, <2>2
  <2>4. CASE n = "role"
    <3>1. a \in emitPrelude
      BY <1>3, <2>1, <2>4 DEF emitPrelude
    <3>2. <<a, a>> \in buildGUCContract
      BY <1>3, <2>1, <2>4 DEF buildGUCContract
    <3> QED BY <3>1, <3>2, <2>2
  <2>5. CASE n = "email"
    <3>1. a \in emitPrelude
      BY <1>3, <2>1, <2>5 DEF emitPrelude
    <3>2. <<a, a>> \in buildGUCContract
      BY <1>3, <2>1, <2>5 DEF buildGUCContract
    <3> QED BY <3>1, <3>2, <2>2
  <2>6. CASE n = "claims"
    <3>1. a \in emitPrelude
      BY <1>3, <2>1, <2>6 DEF emitPrelude
    <3>2. <<a, Whole>> \in buildGUCContract
      BY <1>3, <2>1, <2>6 DEF buildGUCContract
    <3> QED BY <3>1, <3>2, <2>2
  <2> QED BY <2>1, <2>3, <2>4, <2>5, <2>6 DEF Builtin
<1> QED BY <1>1, <1>2, <1>3

\* Every accessor the files call is in the prelude, and its setting in the
\* contract, for every input of either command: emitPrelude and
\* buildGUCContract forget nothing the rewriter used or promoted.
THEOREM ContextDefinedTheorem == Spec => []ContextDefined
<1>1. Inv => ContextDefined
  <2> SUFFICES ASSUME Inv, done, NEW x \in written
               PROVE  /\ x.accessor \in output.accessors
                      /\ \E g \in output.gucs : g[1] = setting(x.accessor)
    BY DEF ContextDefined
  <2>1. Known(x)
    BY DEF Inv, Sound
  <2>2. output.accessors = emitPrelude /\ output.gucs = buildGUCContract
    BY DEF Inv, OutputCurrent
  <2> QED BY <2>1, <2>2, KnownDefined
<1> QED BY <1>1, Invariance, PTL

\* The contract never asks for one setting twice, with two meanings.
THEOREM ContractConsistentTheorem == Spec => []ContractConsistent
<1>1. Inv => ContractConsistent
  <2> SUFFICES ASSUME Inv, done, NEW g \in output.gucs, NEW h \in output.gucs,
                      g[1] = h[1]
               PROVE  g = h
    BY DEF ContractConsistent
  <2>1. g \in buildGUCContract /\ h \in buildGUCContract
    BY DEF Inv, OutputCurrent
  <2>2. CASE opts.mode = "compat"
    BY <2>1, <2>2 DEF buildGUCContract
  <2>3. CASE opts.mode # "compat"
    <3> DEFINE Own == {<<spelled["user_id"], spelled["sub"]>>,
                       <<spelled["role"], spelled["role"]>>,
                       <<spelled["email"], spelled["email"]>>,
                       <<spelled["claims"], Whole>>}
               Promoted == {<<n, claims[n]>> : n \in DOMAIN claims}
    <3>1. \A k \in buildGUCContract : k \in Own \cup Promoted
      BY <2>3 DEF buildGUCContract
    <3>2. \A k \in Own : k[1] \in reservedAccessors
      BY Reserved DEF Builtin
    <3>3. \A k \in Promoted : k[1] \notin reservedAccessors
      BY DEF Inv, ClaimsFresh
    <3>4. \A k, l \in Promoted : k[1] = l[1] => k = l
      OBVIOUS
    <3>5. \A k, l \in Own : k[1] = l[1] => k = l
      BY Distinct
    <3> HIDE DEF Own, Promoted
    <3> QED BY <2>1, <3>1, <3>2, <3>3, <3>4, <3>5
  <2> QED BY <2>2, <2>3
<1> QED BY <1>1, Invariance, PTL

-----------------------------------------------------------------------------
\* The report and the roles file are written from the same input and options.
NoteCurrent ==
  /\ opts \in OptionSets
  /\ done => /\ output.files = outFiles /\ output.created = createdRoles
             /\ output.roleNote = roleNote

LEMMA NoteInvariance == Spec => []NoteCurrent
<1>1. Init => NoteCurrent
  BY DEF Init, NoteCurrent, done
<1>2. NoteCurrent /\ [Next]_vars => NoteCurrent'
  <2> SUFFICES ASSUME NoteCurrent, [Next]_vars PROVE NoteCurrent'
    OBVIOUS
  <2>1. input' = input /\ opts' = opts
    BY DEF Next, Blocker, KeepCall, UseBuiltin, PromoteClaim, FallBack, NextItem,
           Assemble, vars
  <2>2. outFiles' = outFiles /\ createdRoles' = createdRoles /\ roleNote' = roleNote
    BY <2>1 DEF outFiles, createdRoles, roleNote, keptRoles, splitOnCapyDB
  <2>3. CASE Assemble
    BY <2>1, <2>2, <2>3 DEF Assemble, NoteCurrent
  <2>4. CASE output' = output
    BY <2>1, <2>2, <2>4 DEF NoteCurrent, done
  <2> QED BY <2>3, <2>4 DEF Next, Blocker, KeepCall, UseBuiltin, PromoteClaim,
                            FallBack, NextItem, vars
<1> QED BY <1>1, <1>2, PTL DEF Spec

\* The report says "the roles file creates them" of the roles a rewrite keeps
\* exactly when the roles file is there and does, whatever the options.
THEOREM RoleNoteTruthfulTheorem == Spec => []RoleNoteTruthful
<1>1. NoteCurrent => RoleNoteTruthful
  <2> SUFFICES ASSUME NoteCurrent, done, keptRoles # {}
               PROVE  (output.roleNote = "roles file creates them")
                        <=> ("roles" \in output.files /\ input.toRoles \subseteq output.created)
    BY DEF RoleNoteTruthful
  <2>1. input.toRoles = keptRoles /\ opts.roleModel \in {"split", "single"}
    BY InputAssumption DEF keptRoles, NoteCurrent, Options
  <2>2. "roles" \in outFiles <=> opts.roleModel = "split"
    BY DEF outFiles
  <2>3. CASE splitOnCapyDB(opts)
    <3>1. createdRoles = {} /\ roleNote # "roles file creates them"
      BY <2>3 DEF createdRoles, roleNote
    <3> QED BY <2>1, <3>1 DEF NoteCurrent
  <2>4. CASE opts.roleModel = "single"
    <3>1. roleNote # "roles file creates them"
      BY <2>4 DEF roleNote, splitOnCapyDB
    <3> QED BY <2>2, <2>4, <3>1 DEF NoteCurrent
  <2>5. CASE opts.roleModel = "split" /\ ~splitOnCapyDB(opts)
    <3>1. createdRoles = keptRoles /\ roleNote = "roles file creates them"
      BY <2>5 DEF createdRoles, roleNote
    <3> QED BY <2>1, <2>2, <2>5, <3>1 DEF NoteCurrent
  <2> QED BY <2>1, <2>3, <2>4, <2>5
<1> QED BY <1>1, NoteInvariance, PTL

-----------------------------------------------------------------------------
\* Types: where the loops stand, what was rendered, promoted and used.

\* Every set of naturals has a least member, and a bounded one a greatest.
LEMMA LeastNatural ==
  ASSUME NEW S \in SUBSET Nat, S # {}
  PROVE  \E j \in S : \A l \in S : j <= l
<1> DEFINE R == {ss \in Nat \X Nat : ss[1] < ss[2]}
<1>1. IsWellFoundedOn(R, Nat)
  BY NatLessThanWellFounded DEF OpToRel
<1>2. PICK j \in S : \A l \in S : <<l, j>> \notin R
  <2> HIDE DEF R
  <2> QED BY <1>1, WFMin
<1>3. ASSUME NEW l \in S PROVE j <= l
  <2>1. ~(l < j)
    BY <1>2
  <2> QED BY <2>1
<1> QED BY <1>3

LEMMA GreatestNatural ==
  ASSUME NEW n \in Nat, NEW S \in SUBSET (1..n), S # {}
  PROVE  \E j \in S : \A l \in S : l <= j
<1> DEFINE T == {n - j : j \in S}
<1>1. T \in SUBSET Nat /\ T # {}
  <2>1. \A j \in S : n - j \in Nat
    OBVIOUS
  <2> QED BY <2>1
<1>2. PICK m \in T : \A k \in T : m <= k
  <2> HIDE DEF T
  <2> QED BY <1>1, LeastNatural
<1>3. PICK j \in S : m = n - j
  OBVIOUS
<1>4. ASSUME NEW l \in S PROVE l <= j
  <2>1. n - l \in T
    OBVIOUS
  <2>2. n - j <= n - l
    <3> HIDE DEF T
    <3> QED BY <1>2, <1>3, <2>1
  <2>3. n \in Int /\ j \in Int /\ l \in Int
    OBVIOUS
  <2> HIDE DEF T
  <2> QED BY <2>2, <2>3
<1> QED BY <1>4

\* A promoted name is spelled in the characters of names: the parts of a claim
\* that are no such characters are made some or trimmed.
LEMMA NameType ==
  ASSUME NEW claim \in Claim
  PROVE  sanitizeClaimName(claim) \in Seq(Char)
<1> DEFINE clean(c) == IF c \in Char THEN c ELSE "_"
           n     == Len(claim)
           chars == [j \in 1..n |-> clean(toLower[claim[j]])]
           kept  == {j \in 1..n : chars[j] # "_"}
           lo    == CHOOSE j \in kept : \A l \in kept : j <= l
           hi    == CHOOSE j \in kept : \A l \in kept : l <= j
           name  == SubSeq(chars, lo, hi)
<1>1. n \in Nat
  BY ClaimAssumption
<1>2. \A c : clean(c) \in Char
  BY DEF Char
<1>3. chars \in Seq(Char)
  <2>1. chars \in [1..n -> Char]
    <3> HIDE DEF clean, n
    <3> QED BY <1>2
  <2> HIDE DEF chars
  <2> QED BY <1>1, <2>1
<1>4. ASSUME kept # {}
      PROVE  name \in Seq(Char)
  <2>1. lo \in 1..Len(chars) /\ hi \in 1..Len(chars)
    <3>1. kept \in SUBSET (1..n) /\ kept \in SUBSET Nat
      <4>1. kept \subseteq 1..n
        OBVIOUS
      <4> HIDE DEF kept, n
      <4> QED BY <1>1, <4>1
    <3>2. \E j \in kept : \A l \in kept : j <= l
      <4> HIDE DEF kept, n
      <4> QED BY <1>4, <3>1, LeastNatural
    <3>3. \E j \in kept : \A l \in kept : l <= j
      <4> HIDE DEF kept, n
      <4> QED BY <1>1, <1>4, <3>1, GreatestNatural
    <3>4. lo \in kept /\ hi \in kept
      <4> HIDE DEF kept
      <4> QED BY <3>2, <3>3
    <3>5. Len(chars) = n
      <4> HIDE DEF n, clean
      <4> QED BY <1>1
    <3> HIDE DEF lo, hi, kept, chars, n
    <3> QED BY <3>1, <3>4, <3>5
  <2> HIDE DEF chars, lo, hi
  <2> QED BY <1>3, <2>1
<1>5. <<>> \in Seq(Char)
  OBVIOUS
<1>6. sanitizeClaimName(claim) =
        IF kept = {} \/ Len(name) > MaxClaimName \/ name[1] \notin Letter THEN <<>> ELSE name
  BY DEF sanitizeClaimName
<1> HIDE DEF kept, name
<1> QED BY <1>4, <1>5, <1>6

\* What a reference reads is a fact of the token.
LEMMA FactType ==
  ASSUME NEW r \in Ref
  PROVE  fact(r) \in Claim \cup {Whole} \cup {spelled[n] : n \in DOMAIN spelled}
<1>1. {"sub", "role", "email"} \subseteq DOMAIN spelled
  BY SpellingAssumption DEF Builtin
<1>2. r.claim \in Claim \cup {Whole}
  BY DEF Ref
<1> QED BY <1>1, <1>2 DEF fact

\* A rendered reference calls an accessor: one the code names, or one named
\* after a claim, or a helper left as it is.
LEMMA RenderType ==
  ASSUME NEW name \in Seq(Char) \cup Member, NEW path \in Claim \cup {Whole},
         rendered \subseteq Rendering, ref \in Ref, Render(name, path)
  PROVE  rendered' \subseteq Rendering
<1> DEFINE new == [accessor |-> name, path |-> path, reads |-> fact(ref)]
<1>1. new \in Rendering
  BY FactType DEF Rendering
<1>2. rendered' = rendered \cup {new}
  BY DEF Render
<1> HIDE DEF new
<1> QED BY <1>1, <1>2

\* The accessors of the code are spelled in the characters of names.
LEMMA BuiltinType == \A n \in Builtin : spelled[n] \in Seq(Char)
BY SpellingAssumption

LEMMA TypeStep ==
  ASSUME TypeOK, Positions, Next
  PROVE  TypeOK'
<1>1. /\ input' = input /\ opts' = opts
  BY DEF Next, Blocker, KeepCall, UseBuiltin, PromoteClaim, FallBack, NextItem, Assemble
<1>2. Reading => ref \in Ref
  BY RefType
<1>3. ASSUME Reading, at' = at + 1, UNCHANGED <<item, written>>,
             rendered' \subseteq Rendering, blocked' \in BOOLEAN,
             \A n \in DOMAIN claims' : n \in Seq(Char) /\ claims'[n] \in Claim,
             used' \subseteq Builtin
      PROVE  TypeOK'
  BY <1>1, <1>3 DEF TypeOK
<1>4. CASE Blocker
  BY <1>3, <1>4 DEF Blocker, TypeOK
<1>5. CASE KeepCall
  <2>1. ref.member \in Member /\ ref.claim \in Claim \cup {Whole}
    BY <1>2, <1>5 DEF KeepCall, Ref
  <2>2. rendered' \subseteq Rendering
    BY <1>2, <1>5, <2>1, RenderType DEF KeepCall, TypeOK
  <2> QED BY <1>3, <1>5, <2>2 DEF KeepCall, Render, TypeOK
<1>6. CASE UseBuiltin
  <2>1. builtinFor(ref) \in Builtin
    BY <1>6, BuiltinCases DEF UseBuiltin, Builtin
  <2>2. rendered' \subseteq Rendering
    BY <1>2, <1>6, <2>1, BuiltinType, RenderType DEF UseBuiltin, TypeOK
  <2> QED BY <1>3, <1>6, <2>1, <2>2 DEF UseBuiltin, Render, TypeOK
<1>7. CASE PromoteClaim
  <2>1. ref.claim \in Claim
    BY <1>2, <1>7 DEF PromoteClaim, Ref
  <2>2. sanitizeClaimName(ref.claim) \in Seq(Char)
    BY <2>1, NameType
  <2>3. rendered' \subseteq Rendering
    BY <1>2, <1>7, <2>2, RenderType DEF PromoteClaim, TypeOK
  <2>4. \A n \in DOMAIN claims' : n \in Seq(Char) /\ claims'[n] \in Claim
    BY <1>7, <2>1, <2>2 DEF PromoteClaim, promoted, TypeOK
  <2> QED BY <1>3, <1>7, <2>3, <2>4 DEF PromoteClaim, Render, TypeOK
<1>8. CASE FallBack
  <2>1. spelled["claims"] \in Seq(Char) /\ "claims" \in Builtin
    BY BuiltinType DEF Builtin
  <2>2. ref.claim \in Claim \cup {Whole}
    BY <1>2, <1>8 DEF FallBack, Ref
  <2>3. rendered' \subseteq Rendering
    BY <1>2, <1>8, <2>1, <2>2, RenderType DEF FallBack, TypeOK
  <2> QED BY <1>3, <1>8, <2>1, <2>3 DEF FallBack, Render, TypeOK
<1>9. CASE NextItem
  <2>1. item' \in 1..(Len(input.items) + 1)
    BY <1>9 DEF NextItem, more, TypeOK, Input
  <2>2. written' \subseteq Rendering
    BY <1>9 DEF NextItem, TypeOK
  <2>3. at' \in Nat \ {0} /\ rendered' \subseteq Rendering
    BY <1>9 DEF NextItem
  <2>4. blocked' \in BOOLEAN
    BY <1>9 DEF NextItem
  <2>5. UNCHANGED <<claims, used>>
    BY <1>9 DEF NextItem
  <2> HIDE <1>9
  <2> QED BY <1>1, <2>1, <2>2, <2>3, <2>4, <2>5 DEF TypeOK
<1>10. CASE Assemble
  BY <1>1, <1>10 DEF Assemble, TypeOK
<1> QED BY <1>4, <1>5, <1>6, <1>7, <1>8, <1>9, <1>10 DEF Next

\* Whatever the claims are spelled like, every accessor the files call is one a
\* SQL identifier can spell, or a helper that stays, and stands for a claim of
\* the run or a fact the code knows.
THEOREM TypeOKTheorem == Spec => []TypeOK
<1>1. Init => TypeOK
  <2> SUFFICES ASSUME Init PROVE TypeOK
    OBVIOUS
  <2>1. input \in Input /\ opts \in Options
    BY InputAssumption DEF Init
  <2>2. input.items \in Seq(Item)
    BY <2>1 DEF Input
  <2>3. item \in 1..(Len(input.items) + 1)
    BY <2>2 DEF Init
  <2>4. at \in Nat \ {0} /\ used \subseteq Builtin
    BY DEF Init
  <2>5. blocked \in BOOLEAN
    BY DEF Init
  <2>6. rendered \subseteq Rendering /\ written \subseteq Rendering
    BY DEF Init
  <2>7. DOMAIN claims = {}
    BY DEF Init
  <2> QED BY <2>1, <2>3, <2>4, <2>6, <2>7, <2>5 DEF TypeOK
<1>2. TypeOK /\ Inv /\ [Next]_vars => TypeOK'
  <2> SUFFICES ASSUME TypeOK, Inv, [Next]_vars PROVE TypeOK'
    OBVIOUS
  <2>1. CASE Next
    BY <2>1, TypeStep DEF Inv
  <2>2. CASE vars' = vars
    BY <2>2 DEF vars, TypeOK
  <2> QED BY <2>1, <2>2
<1> QED BY <1>1, <1>2, Invariance, PTL DEF Spec

=============================================================================
