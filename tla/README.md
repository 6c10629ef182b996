# A verification project for capyrls

capyrls reads the row-security policies of a Supabase project (from its
migrations, a dump or the live database) and writes a bundle of SQL that
reproduces them on plain PostgreSQL or CapyDB, with a report of what it did.
What makes it hard is that its output is only right *as PostgreSQL will evaluate
it*: access after the bundle is applied has to be the access before, across role
lists, commands, two dialects, two role models, two targets and any history of
DDL. And although the converter itself is sequential, what surrounds it is not:
the database migrates while it is read, runs are killed between two files, and
the bundle is applied, interrupted and applied again to a database in use. The
modules here state all that, check it on small instances and prove much of it
for all instances.

Paths below are relative to `src/`.

## 1. The system

| component | files | state | operations | talks to |
|---|---|---|---|---|
| lexer, splitter | `lex.go`, `parse.go` | position in the text | tokens, statements, dollar quotes, comments | parser, rewriter, uid check |
| catalog | `model.go` | `Catalog`: tables and flags, policies in order of appearance, auth defaults, column types, routines, definers, notes | `upsertPolicy`, `findPolicy`, `dropPolicy`, `note` | filled by the parser or `live`, read by the conversion |
| history parser | `parse.go` | the catalog | one handler per kind of statement | lexer, catalog |
| live introspection | `live/live.go` | a connection | six queries, no transaction | catalog |
| policy conversion | `capyrls.go`, `emit.go` | per-run maps (`rlsTables`, `compatRoles`, `selfRefTables`), buffers, report | a loop over the sorted policies: skip, block or render; then assembly of the files | rewriter, prelude, report |
| rewriter | `rewrite.go` | promoted claims, used accessors, warnings | `rewriteExpr`, `replaceHelper`, `promoteClaim` | called once per clause, default and file; read at the end by prelude and contract |
| prelude, roles | `emit.go` | none | `emitPrelude`, `emitRolesSplit`, `emitRolesCapyDB`, `emitSingleRole` | applied in file order 01, 02, 03 |
| rewrite mode | `capyrls.go` | the same rewriter | `Rewrite` over source files | rewriter, prelude |
| SECURITY DEFINER analysis | `definer.go` | definers by name | `definerWrites`, `definerFix` | catalog, forced tables |
| uid type check | `uidtype.go` | column types | per-expression scan | lexer, catalog |
| report | `report.go` | outcomes | sort, render | conversion |
| command line | `cmd/capyrls` | arguments, output directory | load, convert, write the files one by one, exit status | everything |
| WASM front end | `cmd/capyrls-wasm` | none | maps strings to options, calls `Convert` | conversion |

### What is hard

* **Semantics at a distance.** A `TO` list becomes a predicate, a membership or
  nothing; `FOR ALL` becomes four policies; `BYPASSRLS` becomes a permissive policy
  plus a disjunct in every restrictive one. Each step is right only together with
  the others and with what PostgreSQL adds (permissive OR, restrictive AND, the
  default of `WITH CHECK`).
* **Order.** Every `CREATE POLICY` drops its namesake first, the prelude is emitted
  from what later text used, a claim's accessor depends on the claims read before it.
* **Per-table decisions taken from per-policy text.** One sublink in one policy
  decides whether the queries of its siblings recurse.
* **Long histories.** The catalog must follow create, alter, rename and drop through
  every spelling of a table, for any number of statements, and it sees only some
  of the statements PostgreSQL executed.
* **A database in motion.** The six queries of a live load see six moments; the
  bundle goes live statement by statement, under callers, over an earlier bundle,
  and may stop anywhere.
* **A directory that outlives the run.** Files of two runs can lie next to each other.
* **Text.** One symbol off in a quote or comment, and every later statement shifts.

### What makes the components correct

* lexer: tokens and statements are PostgreSQL's;
* parser: the catalog is PostgreSQL's, statement by statement;
* live load: what it yields opens no table, whatever it mixes;
* conversion: web callers keep their access, none gains any, the service path
  survives, the bundle applies, the report is truthful;
* rewriter: a call reads what the source's call read, whatever else was promoted;
  prelude and contract cover what the files call;
* deployment: at no moment is more let through than before or after, and in the end
  exactly what was converted, however often it failed;
* command line: exit status and report say the truth about what is in the directory.

## 2. Modules

| module | role |
|---|---|
| `RowSecurity` | PostgreSQL's policy evaluation, its static recursion check, the clause rules of `CREATE POLICY`. External: a specification of the platform |
| `Conversion` | `ConvertCatalog`, one action per way a policy leaves the loop |
| `ConversionAccess` | who reaches a row before and after; the properties of the bundle |
| `ConversionRecursion` | the initplan wrap against the recursion check |
| `Deployment` | the bundle applied to a database, with failures, retries, later bundles |
| `LiveLoad` | the catalog read from a database that migrates meanwhile |
| `CommandLine` | runs of `convert` into one directory |
| `Rewriter` | the rewriter over a whole run of either command |
| `PgCatalog`, `PgRoutines` | the part of PostgreSQL's catalog a history changes. External; `PgCatalog` is the abstract specification of `History` |
| `Catalog` | capyrls's catalog and one operator per statement handler |
| `Routines` | its definers and the routines it hands to the reader |
| `History` | a history as PostgreSQL executed it and as `ParseSQL` replays it |
| `PgLexis` | PostgreSQL's tokens, defined by what they are. External |
| `Lexer` | `lexSQL` and `splitStatements`, one action per case of the switch |
| `UidType` | the columns `--uid-type text` warns of |
| `DefinerBody` | what the text of a routine says of it, and the tables its body writes |
| `ConversionProofs`, `AccessProofs`, `RewriterProofs`, `HistoryProofs`, `DeploymentProofs`, `CommandLineProofs`, `LexerProofs`, `TextProofs` | the proofs |
| `MCAccess`, `MCRecursion`, `MCRewriter`, `MCHistory`, `MCDeployment`, `MCCommandLine`, `MCText` | the small instances |

How they compose:

    RowSecurity <- Conversion <- ConversionAccess <- Deployment
                        ^               ^--------- LiveLoad <- CommandLine
                        '-- ConversionRecursion
    Catalog <- Routines <- History    (instances: PgCatalog twice, PgRoutines)
    PgLexis <- Lexer <- UidType, DefinerBody
    Rewriter

    ConversionProofs <- AccessProofs <- DeploymentProofs, CommandLineProofs
    LexerProofs <- TextProofs
    RewriterProofs, HistoryProofs

`Deployment` and `LiveLoad` take the conversion's own steps among theirs, so what is
deployed or written has gone through every action of `Conversion`.

### Conversion

A policy is a record like `Policy` of `model.go`. An expression is abstracted to
what the properties tell apart: the set of callers it is true for on the row at hand
(`truth`), the auth helpers it calls, whether its calls are wrapped in a sublink
already, whether it holds something that cannot port, the tables its subqueries scan
and the tables *spelled* in its text. Those last two differ, because
`expressionReferencesTable` reads text and PostgreSQL does not. A rendered expression
is that body plus what the converter adds: the role predicate, the service escape
and an initplan sublink.

One action is one iteration of the loop of `ConvertCatalog`, from the sort order's
next policy to the outcome recorded for it: `SkipManaged`, `SkipForRoles`, `Block`,
`Convert`. `Refuse` and `Accept` are `Options.check`; `Assemble` is everything after
the loop. `emitted` is the *effect* of file 03 so far: rendering is followed by the
replacement that the leading `DROP POLICY IF EXISTS` performs. Names are sequences
whose elements may be whole suffixes, so that truncation (`suffixName`, 63 bytes in
PostgreSQL, `MaxIdent` here) can make two of them meet.

`ConversionAccess` compares two platforms. Before: Supabase, where a caller runs as
`anon`, `authenticated`, `service_role` (which has `BYPASSRLS`) or a role of the
project's own. After: a session role that depends on role model and target, with its
memberships, FORCE, the escape policy and ownership. It assumes that the application
keeps the contract of the report: it sets the user id (or claims) for exactly the
callers that had one, and the service context for the service caller
(`CallerAssumption`, and the use of `roleOf` in `renderedHolds`).

### Deployment

The three files are a program of stages, each a set of statements of one kind;
their order within a stage is left open, which covers the one they are written in.
`Execute` runs a statement, `Drop` and `Create` are the two that make up a policy,
`NextStage` moves on. What commits together is `grain`: a whole file, as in
`apply_live_test.go`, where one simple query is one transaction, or every statement,
as with a client that splits the file. `work` is what the session sees, `db` what
everyone else does. `Fail` is PostgreSQL refusing a statement (the roles file raising
because CapyDB's runtime role is missing, a `TO` list naming a role that is not there),
`Interrupt` a lost connection; after either the bundle is applied from the start.
`ProvideRole` is the operator or the platform creating what the bundle leaves to them.
`Reapply` deploys the same bundle again, `Reconvert` that of another catalog over it.

### LiveLoad and CommandLine

`LiveLoad` answers the six queries of `live.Load` one at a time; between any two the
database may `Migrate` to another catalog. `GiveUp` is a failing query or the deadline
of `main.go`. `parsePolicy` is what becomes of a row of `pg_policies`. Queries three
to six (defaults, routines, uuid columns, definers) take their turn and may fail, but
what they read does not bear on policies.

`CommandLine` puts `emit` behind it: `Truncate` and `WriteFile` are the two halves of
`os.WriteFile`, `WriteError` and `Kill` end the run anywhere, `Exit` is the end of
`runConvert` with or without `--strict`, and `Rerun` starts another run into the same
directory under any options. `disk` says which run each file is from, 0 for a torn one.

### Rewriter

A claim and an accessor are sequences of characters, because `sanitizeClaimName`
makes different claims meet in one name. A reference is one occurrence of `auth.*`
with the literal that follows it. The actions are the branches of `rewriteExpr` and
`replaceHelper`: `Blocker`, `KeepCall` (compat), `UseBuiltin`, `PromoteClaim`,
`FallBack`; `NextItem` ends an expression or file and `Assemble` writes prelude and
contract. The role predicate of a policy stands in the input as a reference of
its own, since it goes through the same bookkeeping.

### Catalog, Routines and History

A table is named in the text as `QName`, with or without its schema, and compared
by `Key`. The clauses of a policy are a function from `Clause` to `Value`:
`ALTER POLICY` replaces the clauses it names. Statements that PostgreSQL rejects
are not enabled, since the history was applied once. `DropTable`, `RenameTable`,
policies made inside DO blocks and function bodies (`CreatePolicyInBody`), redundant
`IF NOT EXISTS` definitions (`DeclareAgain`) and `ALTER TABLE ... DROP c` without the
word `COLUMN` (`BareDropColumn`) happen to PostgreSQL and reach the parser as it
really sees them, that is hardly. `displaced`, `renamed`, `unseen` and `muddled` record
which objects they touched; the properties promise nothing about *those* and
everything about the rest, which is the point: blindness must stay local.

A routine's body is what it writes, in order, where its `search_path` leads and whether its text
mentions `auth.*`. PostgreSQL keeps one definition per name and argument list, capyrls
one per name. `CreateRoutine` and `DropRoutine` reach the parser; a `DROP` of a second
name of a list (`DropRoutineUnseen`) and `ALTER FUNCTION ... SECURITY` (`AlterSecurity`)
do not change its definers.

`History` instantiates `PgCatalog` twice: on its own variables (what PostgreSQL did)
and on a view of the parser's catalog (what capyrls believes). That the second
instance is a behaviour of the first's specification is the refinement.

### Lexer, UidType and DefinerBody

A text is a sequence of symbols, punctuation by character and letters by word. One
case of the switch in `lexSQL` is one action that appends one token; `Split` is
`splitStatements`. `PgLexis` defines each kind of token by what it is (a dollar-quoted
string ends at the first place its tag stands again, a comment where its depth is
zero, an operator where its symbols end or a comment opens in them, less a trailing sign
that no mark allows) and not by how it is scanned; `PgTokens` is what they make of a
whole text. The code has a table of operators instead (`MultiOps`, lex.go:39-44): those
it knows it reads whole, the others in parts, and `#--`, an operator of the table into
which a comment runs, it reads past the comment's start. `TokensRight` (`agrees`) says so
of every token: it is PostgreSQL's, or part of an operator that is not `known`, or starts
one that is `torn`.
`UidType` is `uidComparedColumns` on the tokens read. `DefinerBody` is
`isSecurityDefiner`, `routineBody` and the scan of `writeTargets`; which of the targets
found are kept is `Routines!writeTargets`.

What these two should find is said of the text itself, on PostgreSQL's tokens and by the
grammar: `besideUser` is the columns that are compared with the user id. A comparison
has a column reference (`reference`) on one side and the call, alone or as a scalar
subquery (`user`), on the other (`compared`), and no operator or cast around it binds
tighter (`whole`), so that `owner_id = auth.uid()::uuid` and `a || owner_id = auth.uid()`
compare neither the column nor the id; `written` is the table that a statement names, by the
synopses of `INSERT`, `UPDATE`, `DELETE` and `MERGE` (`statement`), where a statement
can start (`begins`). The code has no notion of where statements start: it goes by the
words around an `INSERT` or `UPDATE`. That it finds the same tables is the property.
`MCText` builds each expression, body and definition together with what it says, and its
assumptions make TLC compare that with these definitions, so the grammar is itself
tested against several thousand texts whose meaning is known.

The grammar has its limits, and the properties state them as their conditions.
`readable`: quotes close, `E'...'` escapes only quotes and backslashes, and the operators
are ones the code knows, none of them torn. `understood`:
each word that could start a write does, or belongs to a lock, an `ON CONFLICT`, an
action of `MERGE`, or is a text of its own; a column called `delete` is none of these.
`oneSecurity`: a definition has one `SECURITY` clause, PostgreSQL's rule. And
`direct`: no operand goes on beyond what touches the comparison. Only the second half of
`UuidColumnsNamed` asks for that: a column that is compared is warned of in every
expression, but the code does not look past the call or before the column, so that no
other column is holds of direct comparisons only (section 5 shows the false alarm).
Operands in parentheses, `IS DISTINCT FROM`, lists of `IN`, calls around a column and an
alias without `AS` are comparisons the grammar, like the code, does not count.

## 3. Runs

| run | bounds | shows |
|---|---|---|
| `access` | one policy of any of 5 commands, 2 modes, 35 `TO` lists and the clause combinations PostgreSQL accepts, with any row-security flags, or two policies on one table; all option sets (own app role only where it matters); names of length at most 2, so that truncation happens | the seven properties of `ConversionAccess` and the types |
| `recursion` | three policies on two tables, each scanning, naming or merely resembling itself or the other | `NoNewRecursion` |
| `rewriter` | two items of up to two references, twelve claims among which some collide, are reserved or cannot be names | the properties of `Rewriter` and its types |
| `history` | histories of one theme each: six statements about two policies, and six about flags, under three spellings of two tables; five about two columns, four where statements on them go unread; six about flags and two routine names with two argument lists and three bodies, five about one routine, flags and policies, four about a schema Supabase manages (about 160,000 states) | the catalog tracks PostgreSQL's, raises no false alarm, implements it; definers and reviewed routines are right |
| `deployment` | four catalogs with a split, a restrictive, a mixed and a custom-role policy, in sequence; both grains; two interruptions, two deployments (about 270,000 states) | exposure, convergence, reapplication, liveness |
| `commandline` | four catalogs, one migration during a load, two runs with any flags and role models, killed or failing anywhere (about 500,000 states) | torn loads, exit status, report and directory, termination |
| `text` | every text of up to 7 or 8 symbols over three alphabets (quotes and escapes; dollars; comments and line ends) and of up to 4 over a fourth (operators), some 2,000 policy expressions and 1,500 routines and bodies (about 1.7 million states) | tokens, values, statements, columns, writes |

Why the bounds are enough. Access is decided per table, command, side and caller, and
a property of the conversion can be broken by one policy alone, or by two that share
a table (namesakes, permissive against restrictive); four callers cover each role of
Supabase and one of the project's own. A recursion of length two is the shortest that
is not a self reference, and a sibling is the third policy. Two claims decide a
collision, and a third reference comes after both. Six statements are two
creates, a flag or rename and three changes, enough to rename a policy away and
another into its place under another spelling of the table; themes keep statements
apart that touch different variables. One interruption leaves a deployment half done
and a second interrupts its retry; two deployments are one over another. One
migration tears a load; two runs put two generations of files into a directory. Eight
symbols hold a dollar quote with another's opening inside it and a semicolon after.

No run checks for deadlock: a conversion, a history, a rewrite, a text and a sequence
of runs or deployments up to their bound all end, and stopping there is right. That
deployments and runs do not stop *earlier* is what their liveness properties say.

**Fairness.** Two specifications state it. `Deployment`: weakly fair are the steps of
whoever deploys (the conversion, starting an attempt, each statement, providing the
roles the bundle's own error message asks for); interruptions and later deployments
just happen and are finite. `CommandLine`: weakly fair are the steps of the process
alone, the deadline of a minute around the load among them (`main.go:226`); the
database owes no answer, and failures and signals just happen. The other modules
describe one terminating loop and have no liveness properties.

What the properties say:

* `WebAccessPreserved`: on a table whose policies all port mechanically, web callers
  keep exactly their access, per command and side. `mechanical` spells out what
  "mechanically" leaves out: blocked policies, lists mixing roles of the project's
  own with Supabase's, name clashes, role predicates over absent clauses, restrictive
  policies for half of the callers. The last three are the divergences of section 5.
* `NoWidening`: with blocked, skipped or scoped policies too, no web caller gains a row.
* `CompatKeepsAccess`: where the `TO` lists stay, the runtime role is a member of both
  roles, so callers may gain access by design, but none loses it.
* `ServicePathSurvives`, `BundleApplies`, `ContextComplete`, `ReportMatchesBundle`: see
  the comments in the module.
* `NoNewRecursion`: PostgreSQL rejects no statement on a converted table that it
  accepted before, as long as loops of policies are spelled-out self references.
* `PoliciesTracked`, `FlagsTracked`, `NoFalseAlarm`, `Refines`: every settled policy
  is there exactly once with its last name and clauses, each flag is the last one set,
  notes are about objects out of the parser's sight, and the view of the catalog
  takes PostgreSQL's own steps. In the view, objects displaced or unseen are taken from
  PostgreSQL, all others from the catalog alone.
* `TypesTracked`, `AuthDefaultsCovered`: the columns that are `uuid` in the end are the
  ones warned about, and each default that calls `auth.*` in the end is ported last.
* `RoutinesReported`: a definer's write to a table that ends up FORCEd, because the source
  enabled it or because the bundle creates a policy on it, is listed wherever its
  `search_path` leads, under either role model; a name that is no definer is not
  listed; whatever mentions `auth.*` is reviewed. The first two are about names
  without overloads, the first about bodies that spell each table one way and about
  tables the source did not FORCE without enabling them (`idle`): section 5 shows what
  happens otherwise.
* `NoExposure`: at no moment of a deployment does a web caller reach a row it reached
  neither before nor is meant to reach after. Statement by statement that is true of
  tables without restrictive policies only, since one of those is missing between
  `DROP` and `CREATE`; file by file it is true of every table whose old policies go
  by names the bundle uses.
* `AppliedAsConverted`, `ReapplySafe`, `EventuallyApplied`: after any failed attempts and
  over any earlier bundle it covers, a deployment ends with exactly the converted
  access; applied over itself file by file a bundle changes nobody's access at any
  moment; every deployment ends.
* `NoTornWidening`, `UntouchedTablesExact`: what a torn load lets a caller do was permitted
  at some moment of the load, and a table no migration touched is converted as it
  stands, unless Supabase manages it.
* `ExitTruthful`, `ReportNotAhead`, `OneBundle`, `RunsEnd`: an exit status says what is in
  the directory; a report is never newer than the files beside it; a run that ended
  well leaves one bundle as long as the role model stays; every run ends.
* `TokensRight`, `ValuesRight`, `StatementsWhole`, `UuidColumnsNamed`, `DefinersRead`:
  tokens, their values, statements, compared columns and written tables are those of
  the text by PostgreSQL's rules; tokens and statements of unterminated texts too.
* `MeaningKept`, `ContextDefined`, `ContractConsistent`, `RoleNoteTruthful`: see
  section 4 and the comments.

## 4. Proofs

TLAPS proves, for every value of the constants that meets the named assumptions:

| theorem | says |
|---|---|
| `ConversionProofs!TypeOKTheorem` | types; nothing is rendered for tables Supabase manages |
| `ConversionProofs!ContextCompleteTheorem` | prelude and contract cover every policy and escape |
| `ConversionProofs!ReportMatchesBundleTheorem` | report, bundle and stubs agree, and what is emitted is in force |
| `ConversionProofs!BundleAppliesTheorem` | PostgreSQL accepts every policy of the bundle |
| `AccessProofs!NoWideningTheorem` | no web caller gains a row |
| `AccessProofs!WebAccessPreservedTheorem` | on mechanical tables web access is exactly kept |
| `AccessProofs!CompatKeepsAccessTheorem` | with `TO` lists kept, none is lost |
| `AccessProofs!ServicePathSurvivesTheorem` | the service caller passes everywhere it is promised to |
| `RewriterProofs!MeaningKeptTheorem` | each reference reads what the source's did |
| `RewriterProofs!ContextDefinedTheorem` | every accessor written is defined |
| `RewriterProofs!ContractConsistentTheorem` | no setting is asked for twice |
| `RewriterProofs!RoleNoteTruthfulTheorem` | what rewrite says of the roles is so |
| `RewriterProofs!TypeOKTheorem` | types; a promoted name is one of letters, digits and underscores, whatever the claim |
| `HistoryProofs!TypeCorrect` | types of both catalogs |
| `HistoryProofs!FlagsCorrect`, `PoliciesCorrect`, `TypesCorrect`, `AuthDefaultsCorrect`, `NoFalseAlarmCorrect`, `RoutinesCorrect` | the properties of `History`, for histories of any length |
| `HistoryProofs!CatalogImplements` | the parser's catalog implements PostgreSQL's (`Spec => View!Spec`) |
| `AccessProofs!NoNewRecursionTheorem` | the converter adds no recursion, for any number of tables and policies |
| `DeploymentProofs!DeployTypeOKTheorem` | types and positions of a deployment |
| `DeploymentProofs!AppliedAsConvertedTheorem`, `ReapplySafeTheorem`, `NoExposureTheorem` | what a deployment leaves and shows, for any number of failures, retries and earlier bundles |
| `CommandLineProofs!NoTornWideningTheorem`, `UntouchedTablesExactTheorem` | a torn load opens nothing, and leaves what did not move as it is, for any number of migrations |
| `CommandLineProofs!CLITypeOKTheorem` | types of the whole command line |
| `CommandLineProofs!ReportNotAheadTheorem`, `OneBundleTheorem` | the output directory, for any number of runs |
| `CommandLineProofs!ExitTruthfulTheorem` | an exit status says what is in it |
| `LexerProofs!TokensRightTheorem` | the tokens are PostgreSQL's, or parts of operators the code does not know, for every text, complete or not |
| `LexerProofs!ValuesRightTheorem` | the value of each token is what PostgreSQL reads, if its quotes close |
| `LexerProofs!TextReadTheorem` | the tokens of a `readable` text are `PgTokens`, to the last field |
| `LexerProofs!StatementsWholeTheorem` | statements are the tokens between two semicolons, none lost, with their lines |
| `LexerProofs!LexTypeOKTheorem` | types of tokens and statements |
| `TextProofs!UuidColumnsNamedTheorem` | every column the expression compares with the user id is warned of, and no other one if its comparisons are direct |
| `TextProofs!DefinersReadTheorem` | the tables found are those a body's statements write; a definition's attribute and body are those it states |

**Conversion.** The properties speak of the end of the loop, so none of them is
inductive. The invariant says what each turn leaves behind: a converted policy has its
table registered, its accessors counted, its roles asked for and its names taken
(`Accounted`); nothing is emitted that no converted policy asked for (`Grounded`); a
policy is skipped for its roles or not at all, with exactly the stubs due (`Excused`);
tables with row security are registered (`Registered`); and once the files are
assembled they are the function of the loop's maps that `assembled` is (`Finished`).
The delicate step is `Convert`: it *removes* policies from the bundle, and `Accounted`
survives only because each one removed has a namesake among those added
(`ConvertAccounted`). Lemmas on the expression helpers (`RewriteClause`,
`CombineClause`, `EscapeClause`, `MkShape`) say what a rendered clause may hold.

**Access** adds no invariant: it reasons about the finished bundle, policy by policy.
A rendered clause says what its source clause says under the role predicate
(`BaseSays`); the rendering for a command has exactly the qualifiers of its source
(`OwnQual`, `OwnServes`), since four suffixes never share a name (`OwnNames`), truncated
or not. A caller the policy names passes the predicate and the membership
(`NamedPass`, `TargetsReach`); one it does not name fails one of them
(`StrangersKeptOut`). From these, a permissive policy that admits a caller afterwards
admitted it before (`BackToSource`), one that admitted it before still does
(`ForthToTarget`), and the two theorems are the OR and the AND of that over a table
(`ByPolicies`, `WebKeeps`). The escape says nothing to web callers (`EscapeSilent`) and is in
every restrictive clause (`RestrictiveEscape`).

**Rewriter.** `MeaningKept` is not inductive: a later promotion could redefine
what an earlier reference reads. `Inv` adds why it cannot: promoted names are never
those of the code (`ClaimsFresh`), and every accessor rendered is promoted or built in
and will be defined (`Known`). `PromotionKeeps` is the heart of it. The types say more than
sorts: whatever a claim is spelled with, the name promoted for it is a sequence of
letters, digits and underscores (`Char`), since sanitizing replaces every other
character and the names it must avoid are spelled in those as well.

**History.** Every statement is a step of `PgCatalog` (`StatementOfPg`); the parser's
side follows it object by object. Flags: `FlagsInv` distinguishes a table nobody flagged
from one flagged off. Policies: `PoliciesInv` says that PostgreSQL's definition is at
one position of the catalog's list and no other (`Agrees`), which is what survives
append, replace and remove, and what makes "the first entry that matches"
(`LeastPosition`) the only one. `TypesTracked`, `NoFalseAlarm` and `AuthDefaultsCovered`
are inductive with the types. Routines: `DefinersUnique` and `Records` keep one entry
per name; a plain name has one argument list, so the entry is its definition, and
`TargetsComplete` says that nothing is lost of a body that spells each table one way.
Refinement: `ViewInv` says that view and catalog are equal, so each step of one is a
step of the other.

**Command line.** What a bundle says does not matter, only the order its files are
written in: this run has written a prefix of its list (`Prefix`), nothing is from the
future (`Ages`), and as long as the role model stays the runs write over the same three
names (`SameFiles`). `ExitTruthful` needs two facts more: the verdict on each
policy the loop has passed is right (`Judged`), and a run that exits well had passed
them all, with its status following from what was blocked (`Verdict`).

**Recursion.** No invariant is added: the finished bundle is compared with its source,
edge by edge. A clause that PostgreSQL consults after the conversion renders one that
it consulted before, on the same table and for the same command (`Consulted`), so it
scans nothing new (`ScansKept`), and what can be reached through policies is not more
than it was (`ReachKept`). What is new is the sublink of a wrap, which arms the check:
but under `selfContained` a table that its policies lead back to spells itself, is
therefore in `selfRefTables`, and gets no wrap (`LoopSpelled`).

**Deployment.** `DInv` follows the program. Both databases, the committed and the
session's, are `Sound`: one policy per name and table, the escape's name belongs to the
escape, and whoever a policy names has been created and granted (`Backed`). `Progress`
says what the stages passed have done, a stage at a time, and what of the stage at hand
is done and what is left; it is what makes the end of the program the target. `Added`
says that flags and roles only grow, `ByFile` that file by file the policies change all
at once with the last file, `Again` that a bundle over itself replaces each policy by
its equal. `AdmitsBy` reduces who is admitted to policies and flags alone, so that the
access theorems compare two sets of policies and nothing else. `NoExposure` holds
statement by statement because permissive policies only add up, so each one there is
of before or after, and file by file because there are only those two moments.

**Live load.** Any mixture of states is a catalog a database could hold: the lemmas of
`ConversionProofs` and `AccessProofs` ask of a catalog only that it is `WellFormed` and
holds one policy per name (`Distinct`), and so apply to it as they are. `LoadInv` says
where its parts come from: while loading, nothing of the conversion has happened yet
(`Loading`); after it, the flags are those of one moment and the policies those of
another (`Mixed`). A table is open in the mixture only if its flag was off, and then
it was open at that moment; otherwise its policies are of one moment, and with its
flag on or off they let through no less at that moment (`MixedPermits`). Parsing and
lower-casing change no web caller's access (`ParsedAdmits`).

**Text.** What a recursive function computes is shown by induction over positions. The
library's induction theorems take the statement to be proved as a parameter, which no
backend here can instantiate; stated of a set of positions it needs none: a set that
holds each position all of whose predecessors it holds, holds them all (`Upward`, and
`Downward` from the end), since the naturals are well-founded (`LeastNatural`).
`Recursion` shows once that a function defined from its values at smaller arguments
exists, and each recursive definition cites it (`ScanDefined`, `NestingDefined`,
`DropsDefined`, `LoopDefined`).

*Tokens.* `LexInv` adds to `TokensRight` that the tokens so far lie next to each other
from the first position to `i`, each with the line it starts on (`LexShape`,
`TokenSound`), and does not wait for the end of the scan. A token of `PgLexis` is
defined by what it is, and each case of the switch by a scan, so each has a lemma that
brings them together. `scanString` is inside the text at a position it comes to exactly
where an odd number of quotes, none escaped, lies behind it (`Within`), so it stops at
the first place of `closings` (`ScanRight`), or at the end of the text if there is none.
The depth that `CommentRight` follows is the nesting of the definition. A dollar quote
ends where its delimiter first stands again (`DollarRight`). An operator of the table that
stands in the text is PostgreSQL's or its start (`StandsWithin`): its symbols take the
same course there as alone, where they are all of it, until a comment could tear it; so
the longest one that stands is PostgreSQL's when that is in the table (`OperatorRight`). `LexemeCases` then
shows that the cases of the switch, in their order, choose the token PostgreSQL does.

*Values.* `decodeString` replaces pairs of symbols from left to right, `meant` reads a
body unit by unit. Both keep some symbols and drop others, and are determined by the set
they drop (`Drops`, `DropsUnique`); where the body is cut into units, these sets agree
(`MeantPlain`, `MeantEscaped`). `ClosedText` shows that a text that closes can be cut
that way. For `E'...'` the code decodes in three passes; `UnescapedOnce` and
`QuoteBefore` say why their order is right: pairs of quotes become one whether or not
`ReplaceAll` pairs them up as PostgreSQL does, and pairs of backslashes go last, so that
no backslash which is left of one is taken for an escape. As the property says, an
escape of anything but a quote or a backslash is outside it.

*Statements.* `StatementsWhole` speaks of the end of the loop of `splitStatements`; its
invariant says of each turn which tokens read are in a finished statement, which are
pending since the last semicolon, and that one lies between any two statements
(`Pending`, `LoopPending`, `FlushWhole`).

*The whole text.* `TextReadTheorem` puts tokens and values together: `PgTokens` cuts a
text from its first symbol on, the lexer appends, and as each of PostgreSQL's tokens says
what it means, the next one starts where the lexer's does (`ReadableTokens`), so the
sequences are equal. What scans tokens may from here on be compared
with the text (`TextRead`).

*Comparisons.* The scan goes from a call outwards, the grammar from an operator to both
sides, so the proof matches calls with operators. The widened call is the one operand
of its shape that ends, or starts, next to the operator (`UserFound`): the call inside a
subquery has `select` on one side and a parenthesis on the other, so no operator is next
to it, and no two calls overlap (`Apart`). The chain the code collects one name at a time is the longest one,
and it is kept exactly when it is a reference (`ChainEnding`, `ChainStarting`):
a shorter chain that stops at a dot is none. `Resolved` shows that the defaults `appendRef`
fills in give the column whose full name ends in the chain; `ColumnsFound` combines them: the
code finds the columns `adjacent` to a comparison with the user id. The ones compared
are among them, and are all of them where each comparison is `direct`.

*Writes.* For each position, the code finds a table there exactly when a statement that
writes starts there, and the same one (`WrittenFound`). If a statement does start, the word
before it is none of those that rule out an `UPDATE` (`BeginsApart`), and its synopsis leaves
one place for the table's name, so `spans` has one element (`StatementFound`). If none
does, `understood` says which clause the word belongs to, and the code passes over each of
them (`ClauseEmpty`). `WritesFound` joins the positions in order.

*Definitions.* With one `SECURITY` clause, the last wins because it is the only one
(`SecurityFound`). `routineBody` joins literals, so the body of the routine stands in it
between the beginning or a separator and a separator (`BodyHolds`); the pieces of a
concatenation lie where the lengths before them add up to (`Joined`, `JoinedInTurn`).

**Assumptions used.** All are named, stated next to the constants, and evaluated by the
runs: names are sequences and limits positive, managed tables are tables, catalogs,
options, expressions and inputs have their types, a catalog holds one policy per name
and table and each is one PostgreSQL accepts (`NameAssumption`, `TableAssumption`,
`ExprAssumption`, `OptionsAssumption`, `CatalogAssumption`, `SourcePoliciesAssumption`);
the project's own roles are none of the code's (`RoleAssumption`); the application sets
the user for exactly the callers that have one (`CallerAssumption`); the six names the
code itself spells differ and are spelled in letters, digits and underscores
(`SpellingAssumption`, by inspection of `rewrite.go` and `emit.go`); claims are strings
(`ClaimAssumption`); words and punctuation are different symbols (`TextAssumption`); each
operator of the code's table is one operator to PostgreSQL (`OperatorsAssumption`, which
TLC evaluates for the table of lex.go:39-44); texts are sequences of
symbols (`SourcesAssumption`); uuid columns are triples of names (`UuidColumnsAssumption`); sentinels are not data (`NoneAssumption`,
`AbsentAssumption`, `RoutineAssumption`, `ClaimAssumption`); two argument lists exist
(`SignatureAssumption`); themes and names have their types (`ThemeAssumption`,
`QNameAssumption`, `DefaultAssumption`); lower-casing leaves the project's own roles its
own, and `pg_policies` never lists `public` next to a role (`LiveAssumption`); no policy
of the source is called `capyrls_service_escape` (`DeploymentAssumption`).

**Only model-checked**: the liveness properties `EventuallyApplied` and `RunsEnd`, which
are out of the prover's reach, as are fairness and `ENABLED`. The assumptions of `MCText`
on its own data are checked by TLC alone, as tests of the grammar are meant to be. Every
invariant and every action property a passing run checks is proved. No module here
declares a `RECURSIVE` operator: recursion is over positions, by recursive functions.

## 5. Where the code and its documentation part ways

Five runs check a statement of the repository that the code does not meet, and show
the shortest run that refutes it:

| run | statement | what happens |
|---|---|---|
| `overwritten` | nothing is silently dropped (`README.md:178`) | `FOR ALL` policy `p` and a policy `p_select` of the same table: the later drops the earlier, both are reported converted |
| `absent_clause` | nothing is silently mistranslated (same line) | a permissive policy `TO authenticated` without `USING` admits nothing; converted, it admits every signed-in caller |
| `restrictive_scope` | the same | a restrictive policy `TO authenticated` leaves anon alone; converted, it shuts anon out |
| `cast_counted` | a cast on either side of a comparison is skipped (`uidtype.go:152`) | `owner_id = auth.uid()::uuid` is reported, because what follows the call is not looked at |
| `definer_overload` | every definer that writes a FORCEd table is named (`definer.go:21`) | creating or dropping an overload forgets the definer; `ALTER FUNCTION ... SECURITY DEFINER` is not seen |

Noticed while modelling, without a run of their own:

* parser and catalog: the policies of a dropped table stay, although the catalog is said
  to be the final state of every policy (`parse.go:9`, `parse.go:210`); a default dropped or replaced later is set again by the bundle
  (`parse.go:378`); `IF NOT EXISTS` on what exists overwrites a column's type, and
  `DROP c` or `RENAME c TO d` without `COLUMN` leaves the old one (`parse.go:383-413`);
  `ALTER TABLE ... RENAME TO` leaves policies and flags under the old name; a policy
  created in a DO block leaves neither policy nor note, because the body is one string
  to `tokensReferenceAuth` (`parse.go:681`);
* conversion: a self reference under a quoted name is not seen (`emit.go:192`); two
  tables whose policies scan each other keep the wrap and recurse, since only self
  references are looked for (`capyrls.go:257`); a table FORCEd but not enabled in the
  source is enabled by the bundle because of a policy, and is FORCEd without being
  among the tables that warnings and definers are held against (`capyrls.go:546`);
* the commented-out stub of a denied service path has a `USING` clause for every
  command (`emit.go:318`), which `CREATE POLICY ... FOR INSERT` refuses, and calls
  `<prefix>.role()`, which the prelude of that configuration defines only if some
  policy called `auth.role()`;
* `rewrite` under the single role model defines `is_service()` and puts it in the
  contract, but emits neither FORCE nor the policy that would use it
  (`capyrls.go:777`); two input files of one base name overwrite each other's output
  (`cmd/capyrls/main.go:264`);
* live load: role names are lower-cased (`live/live.go:187`), so a policy for a
  mixed-case role comes out for another one, and one for a role called `"Anon"` for
  every anonymous caller, which `LiveAssumption` sets aside; overloads are read together
  (`live/live.go:48`), so writes of one are attributed to the name;
* deployment: policies of an earlier bundle that the new one does not name stay
  (`emit.go:698`): those of a policy since dropped, the escape after
  `--no-service-escape`, the unsuffixed name after a change of `--keep-for-all`. After
  a change of role model both second files stay in the output directory
  (`capyrls.go:517`);
* definers: of a body that writes `public.t` and then `t`, which its `search_path` leads
  to another schema, the second is taken for the first and not listed
  (`definer.go:132`); `DELETE FROM ONLY (t)`, `UPDATE t * AS a SET` and names that spell
  the database are not seen (`definer.go:114-157`), while a column called `delete` before
  a `FROM` is taken for a write;
* uid check: a column at the end of a longer operand is reported as if it were compared
  itself (`a || owner_id = auth.uid()`, `uidtype.go:179`), for the same reason as a cast;
* lexer: `#--` reads as the operator `#-` and a minus, where PostgreSQL starts a comment
  (`lex.go:39`); a lone carriage return does not end a `--` comment; escapes other than
  those of quote and backslash are left as written in `E'...'` strings; the body of a
  `BEGIN ATOMIC` function is split at its semicolons, and `routineBody` reads only
  strings, so its writes are not seen (`definer.go:86`).

## 6. Not modelled, and why

* **WASM front end**: maps strings to options and calls `Convert`; no state.
* **Report**: sorting, counting and wording; the outcomes themselves are in
  `Conversion`.
* Within the lexer: numbers, positional parameters and bit strings, inside which nothing
  else can start, and the backquote, an operator symbol TLA+ has no string of. Within the parser: the grammar below the statement, and statements it
  fails to read (each becomes a note).
* Within the definer analysis: dynamic SQL and writes of functions called, which the
  code declares it does not see, and the wording of the fix. In histories the writes are
  given with the body. Within the uid
  check: columns that take the user id as default, which come straight from
  `Defaults`.
* Within the conversion: linkage of policies to reviewed routines and uid notes, which
  only word the report; schema grants and default privileges, which follow the tables.
* Within the command line: `--stdout`, validation of flag values, file names of
  `rewrite`. The order in which source files are read (`main.go:284`) is taken as the
  order the statements ran in: the files do not say otherwise.
* What PostgreSQL does is modelled in `RowSecurity`, `PgCatalog`, `PgRoutines`, `PgLexis`
  and the first half of `ConversionAccess`, from how the code relies on it; it is not
  verified here.

## 7. Plan

Done: the conversion, the rewriter, the parser with its routines, the deployment, the
live load, the command line, the text; proofs of every safety property
and of the refinement. What would come next:

1. The fix the report prints for a definer, as a session that raises the escape and
   restores it, also when the routine fails in between.
2. A wider grammar of expressions: operands in parentheses, `IS DISTINCT FROM`, `IN`.

## 8. Running it

`tlc -config <run>.cfg <module>` for each run of `PROJECT.json`, `tlapm <module>.tla`
for the eight proof modules (`LexerProofs` takes about four minutes, `TextProofs` and
`DeploymentProofs` about two each, the others less).
Definitions whose comment says "Mutated form" are never
used by the specifications; each is a bug a change to the code could introduce, and
replacing the definition that follows it breaks the property `PROJECT.json` names.
