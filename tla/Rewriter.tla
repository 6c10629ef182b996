------------------------------ MODULE Rewriter ------------------------------
(***************************************************************************)
(* The rewriter (rewrite.go) over one whole run: the auth.* references of  *)
(* every expression, in the order they are read, become accessor calls;    *)
(* what was promoted or used on the way decides which accessors the        *)
(* prelude defines and which settings the report asks the application for. *)
(* Both commands are here: ConvertCatalog hands it the policies and then   *)
(* the column defaults, Rewrite the source files.                          *)
(*                                                                         *)
(* A JWT claim is a sequence of characters, an accessor is its name.  The  *)
(* role predicate of a policy reads auth.uid() (auth.role() in compat      *)
(* mode) and stands in the model as a reference of the policy.             *)
(***************************************************************************)
EXTENDS Integers, Sequences, FiniteSets

CONSTANTS
  Claim,         \* JWT claims, sequences of characters
  Letter, Digit, \* the characters a to z, 0 to 9
  toLower,       \* strings.ToLower, character by character
  MaxClaimName,  \* length of the longest accessor name
  spelled,       \* the spelling of the names the code itself uses
  Inputs,        \* what a run is given
  OptionSets

Builtin == {"user_id", "role", "email", "claims"}
Whole   == <<>>  \* the blob itself rather than one of its claims

\* One occurrence of auth.<member>.  `claim' is the literal of a top-level
\* ->> after auth.jwt(), Whole for any other use of it.
Member == {"uid", "role", "email", "jwt", "foreign"}
Ref  == [member : Member, claim : Claim \cup {Whole}]
Item == [kind : {"policy", "default", "file"}, refs : Seq(Ref)]

Input   == [items : Seq(Item), toRoles : SUBSET {"anon", "authenticated", "service_role"}]
Options == [command : {"convert", "rewrite"}, mode : {"vanilla", "compat"},
            roleModel : {"split", "single"}, target : {"postgres", "capydb"},
            noServiceEscape : BOOLEAN]

\* The characters of accessor names.
Char == Letter \cup Digit \cup {"_"}

ASSUME SpellingAssumption ==
  /\ DOMAIN spelled = Builtin \cup {"sub", "is_service"}
  /\ \A a, b \in DOMAIN spelled : spelled[a] = spelled[b] => a = b
  /\ \A a \in DOMAIN spelled : spelled[a] \in Seq(Char) /\ spelled[a] # <<>>
ASSUME ClaimAssumption == Claim \subseteq Seq(STRING) /\ Whole \notin Claim
ASSUME InputAssumption ==
  /\ Inputs \subseteq Input
  /\ OptionSets \subseteq Options

VARIABLES
  input, opts,
  item,       \* index of the expression list being rewritten
  at,         \* index of its next reference
  rendered,   \* what its references became so far
  blocked,    \* it holds a reference that cannot port
  claims,     \* promoted claim of each accessor name
  used,       \* built-in accessors needed
  written,    \* references in the files written out
  output      \* the prelude, the contract and the files; None before

vars == <<input, opts, item, at, rendered, blocked, claims, used, written, output>>

None == [accessors |-> {}, gucs |-> {}, files |-> {}, created |-> {}, roleNote |-> ""]

-----------------------------------------------------------------------------
\* Names.

\* The claim in lower case, other characters made underscores, those at the
\* ends trimmed; <<>> when that is no identifier.
sanitizeClaimName(claim) ==
  LET clean(c) == IF c \in Char THEN c ELSE "_"
      chars    == [i \in 1..Len(claim) |-> clean(toLower[claim[i]])]
      kept     == {i \in 1..Len(claim) : chars[i] # "_"}
      name     == SubSeq(chars, CHOOSE i \in kept : \A j \in kept : i <= j,
                                CHOOSE i \in kept : \A j \in kept : j <= i)
  IN  IF kept = {} \/ Len(name) > MaxClaimName \/ name[1] \notin Letter
      THEN <<>> ELSE name

reservedAccessors == {spelled[n] : n \in Builtin \cup {"is_service"}}

\* What a reference reads of the token.
fact(r) == CASE r.member = "uid"   -> spelled["sub"]
             [] r.member = "role"  -> spelled["role"]
             [] r.member = "email" -> spelled["email"]
             [] OTHER              -> r.claim

\* Mutated form: the accessor of sub is named after the claim.
builtinForAsClaim(r) == CASE fact(r) = spelled["sub"]   -> "sub"
                          [] fact(r) = spelled["role"]  -> "role"
                          [] fact(r) = spelled["email"] -> "email"
                          [] OTHER                      -> ""

\* The built-in accessor for it, "" when it has none of its own.
builtinFor(r) == CASE fact(r) = spelled["sub"]   -> "user_id"
                   [] fact(r) = spelled["role"]  -> "role"
                   [] fact(r) = spelled["email"] -> "email"
                   [] OTHER                      -> ""

emitsServiceEscape(o) == o.roleModel = "single" /\ ~o.noServiceEscape
splitOnCapyDB(o)      == o.target = "capydb" /\ o.roleModel = "split"

-----------------------------------------------------------------------------
Init ==
  /\ input \in Inputs
  /\ opts \in OptionSets
  /\ (opts.command = "rewrite") <=> \A i \in 1..Len(input.items) : input.items[i].kind = "file"
  /\ item = 1 /\ at = 1 /\ rendered = {} /\ blocked = FALSE
  /\ claims = <<>>
  /\ used = {} /\ written = {} /\ output = None

more == item <= Len(input.items)
refs == input.items[item].refs
ref  == refs[at]

\* The loop of rewriteExpr stands at a reference.
Reading == more /\ at <= Len(refs)

\* A call of accessor `name' takes the place of the current reference, with
\* the ->> that followed it still there when `path' says so.
Render(name, path) ==
  /\ rendered' = rendered \cup {[accessor |-> name, path |-> path, reads |-> fact(ref)]}
  /\ at' = at + 1

Blocker ==
  /\ Reading /\ ref.member = "foreign"
  /\ blocked' = TRUE
  /\ at' = at + 1
  /\ UNCHANGED <<input, opts, item, rendered, claims, used, written, output>>

\* replaceHelper in compat mode: the call stays as it is.
KeepCall ==
  /\ Reading /\ ref.member # "foreign" /\ opts.mode = "compat"
  /\ Render(ref.member, ref.claim)
  /\ UNCHANGED <<input, opts, item, blocked, claims, used, written, output>>

UseBuiltin ==
  /\ Reading /\ ref.member # "foreign" /\ opts.mode = "vanilla"
  /\ builtinFor(ref) # ""
  /\ used' = used \cup {builtinFor(ref)}
  /\ Render(spelled[builtinFor(ref)], Whole)
  /\ UNCHANGED <<input, opts, item, blocked, claims, written, output>>

\* Mutated forms: a name in use, by a claim or by the code, is no obstacle.
promotableTwice(claim) ==
  sanitizeClaimName(claim) \notin {<<>>} \cup reservedAccessors
promotableOverBuiltin(claim) ==
  LET name == sanitizeClaimName(claim)
  IN  name # <<>> /\ (name \in DOMAIN claims => claims[name] = claim)

\* promoteClaim succeeds unless the name is taken, by the code or by a claim.
promotable(claim) ==
  LET name == sanitizeClaimName(claim)
  IN  /\ name # <<>>
      /\ name \notin reservedAccessors
      /\ name \in DOMAIN claims => claims[name] = claim

\* What promotion leaves of the map.
promoted(claim) ==
  [n \in DOMAIN claims \cup {sanitizeClaimName(claim)} |->
     IF n = sanitizeClaimName(claim) THEN claim ELSE claims[n]]

PromoteClaim ==
  /\ Reading /\ ref.member # "foreign" /\ opts.mode = "vanilla"
  /\ builtinFor(ref) = "" /\ ref.claim # Whole
  /\ promotable(ref.claim)
  /\ claims' = promoted(ref.claim)
  /\ Render(sanitizeClaimName(ref.claim), Whole)
  /\ UNCHANGED <<input, opts, item, blocked, used, written, output>>

\* Any other use of auth.jwt() reads the whole blob.
FallBack ==
  /\ Reading /\ ref.member # "foreign" /\ opts.mode = "vanilla"
  /\ builtinFor(ref) = ""
  /\ ref.claim = Whole \/ ~promotable(ref.claim)
  /\ used' = used \cup {"claims"}
  /\ Render(spelled["claims"], ref.claim)
  /\ UNCHANGED <<input, opts, item, blocked, claims, written, output>>

\* A blocked policy or default is left out, a source file never is.
NextItem ==
  /\ more /\ at > Len(refs)
  /\ written' = IF blocked /\ input.items[item].kind # "file"
                THEN written ELSE written \cup rendered
  /\ item' = item + 1 /\ at' = 1 /\ rendered' = {} /\ blocked' = FALSE
  /\ UNCHANGED <<input, opts, claims, used, output>>

-----------------------------------------------------------------------------
\* Mutated form: the blob accessor is not defined.
emitPreludeNoBlob ==
  IF opts.mode = "compat" THEN {"jwt", "uid", "role", "email"}
  ELSE {spelled["user_id"]}
       \cup {spelled[n] : n \in used \cap {"email"}}
       \cup (IF "role" \in used \/ emitsServiceEscape(opts)
             THEN {spelled["role"]} ELSE {})
       \cup (IF emitsServiceEscape(opts) THEN {spelled["is_service"]} ELSE {})
       \cup DOMAIN claims

\* emitPrelude: the accessors defined, the claims' after the built-in ones.
emitPrelude ==
  IF opts.mode = "compat" THEN {"jwt", "uid", "role", "email"}
  ELSE {spelled["user_id"]}
       \cup {spelled[n] : n \in used \cap {"email", "claims"}}
       \cup (IF "role" \in used \/ emitsServiceEscape(opts)
             THEN {spelled["role"]} ELSE {})
       \cup (IF emitsServiceEscape(opts) THEN {spelled["is_service"]} ELSE {})
       \cup DOMAIN claims

\* What an accessor reads, by its last definition in the prelude.
meaning(name, path) ==
  CASE opts.mode = "compat" -> fact([member |-> name, claim |-> path])
    [] opts.mode # "compat" /\ name \in DOMAIN claims -> claims[name]
    [] OTHER -> CASE name = spelled["user_id"] -> spelled["sub"]
                  [] name = spelled["claims"]  -> path
                  [] OTHER                     -> name

\* buildGUCContract: <<setting, what the application is told to put there>>.
buildGUCContract ==
  IF opts.mode = "compat" THEN {<<"request.jwt.claims", Whole>>}
  ELSE {<<spelled["user_id"], spelled["sub"]>>}
       \cup (IF "role" \in used \/ emitsServiceEscape(opts)
             THEN {<<spelled["role"], spelled["role"]>>} ELSE {})
       \cup (IF "email" \in used THEN {<<spelled["email"], spelled["email"]>>} ELSE {})
       \cup {<<n, claims[n]>> : n \in DOMAIN claims}
       \cup (IF "claims" \in used THEN {<<spelled["claims"], Whole>>} ELSE {})

outFiles ==
  {"prelude"}
    \cup (IF opts.roleModel = "split" THEN {"roles"} ELSE {})
    \cup (IF opts.command = "convert" THEN {"policies"} ELSE {"sources"})
    \cup (IF opts.command = "convert" /\ opts.roleModel = "single"
          THEN {"force_rls"} ELSE {})

\* Rewrite: the roles its TO clauses still name, and what the report says of
\* them.  ConvertCatalog's are in Conversion.
keptRoles == IF opts.command = "rewrite" THEN input.toRoles ELSE {}
createdRoles ==
  IF opts.roleModel = "split" /\ ~splitOnCapyDB(opts) THEN keptRoles ELSE {}
\* Mutated form: the single model is not told apart (fixed in 1.15.0).
roleNoteSplitOnly ==
  CASE keptRoles = {}            -> ""
    [] keptRoles # {} /\ splitOnCapyDB(opts) -> "stops the apply"
    [] OTHER                     -> "roles file creates them"
roleNote ==
  CASE keptRoles = {}            -> ""
    [] keptRoles # {} /\ splitOnCapyDB(opts) -> "stops the apply"
    [] keptRoles # {} /\ opts.roleModel = "single" -> "must exist"
    [] OTHER                     -> "roles file creates them"

Assemble ==
  /\ ~more /\ output = None
  /\ output' = [accessors |-> emitPrelude, gucs |-> buildGUCContract,
                files |-> outFiles, created |-> createdRoles, roleNote |-> roleNote]
  /\ UNCHANGED <<input, opts, item, at, rendered, blocked, claims, used, written>>

Next == \/ Blocker \/ KeepCall \/ UseBuiltin \/ PromoteClaim \/ FallBack
        \/ NextItem \/ Assemble

Spec == Init /\ [][Next]_vars

-----------------------------------------------------------------------------
Rendering == [accessor : Seq(Char) \cup Member, path : Claim \cup {Whole},
              reads : Claim \cup {Whole} \cup {spelled[n] : n \in DOMAIN spelled}]

\* Types.
TypeOK ==
  /\ input \in Input /\ opts \in Options
  /\ item \in 1..(Len(input.items) + 1) /\ at \in Nat \ {0}
  /\ rendered \subseteq Rendering /\ written \subseteq Rendering
  /\ blocked \in BOOLEAN
  /\ \A n \in DOMAIN claims : n \in Seq(Char) /\ claims[n] \in Claim
  /\ used \subseteq Builtin

done == output # None

\* Every reference in the files reads what the source's read of the token,
\* whatever was promoted before or after it: no two claims share an accessor
\* and none shadows a built-in one.
MeaningKept ==
  \A x \in written : meaning(x.accessor, x.path) = x.reads

\* The setting an accessor is defined over.
setting(name) == IF opts.mode = "compat" THEN "request.jwt.claims" ELSE name

\* Every accessor the files call, policies, defaults and sources alike, is
\* defined by the prelude, and the setting behind it is in the contract.
ContextDefined ==
  done => \A x \in written :
    /\ x.accessor \in output.accessors
    /\ \E g \in output.gucs : g[1] = setting(x.accessor)

\* The contract asks for each setting once, so the application can meet it.
ContractConsistent ==
  done => \A g, h \in output.gucs : g[1] = h[1] => g = h

\* Rewrite: the report calls the roles of the TO clauses created exactly when
\* the roles file creates them all (CHANGELOG, the fix for the single model).
RoleNoteTruthful ==
  done /\ keptRoles # {} =>
    (output.roleNote = "roles file creates them")
      <=> ("roles" \in output.files /\ input.toRoles \subseteq output.created)

=============================================================================
