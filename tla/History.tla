------------------------------ MODULE History ------------------------------
(***************************************************************************)
(* A migration history as PostgreSQL executed it on the source project,    *)
(* and as ParseSQL replays it: statement by statement both catalogs move,  *)
(* and the properties say what they still agree on.                        *)
(***************************************************************************)
EXTENDS Routines

CONSTANTS
  Signature,    \* argument lists of routines
  Themes        \* what a history is about: its kinds of statements, and
                \* the names, columns, definitions, routines and length it has

ASSUME ThemeAssumption ==
  Themes \subseteq [kinds : SUBSET STRING, names : SUBSET QName,
                    columns : SUBSET Column, typed : SUBSET [type : Type, default : Default],
                    routines : SUBSET RoutineName, length : Nat]

\* Without two argument lists no name could be overloaded.
ASSUME SignatureAssumption == \E s, t \in Signature : s # t

VARIABLES
  theme,        \* the one of this history
  pgTables, pgPolicies, pgColumns, pgRoutines,
  displaced,    \* tables dropped or renamed so far
  renamed,      \* columns renamed so far
  unseen,       \* policies a function body or DO block had a hand in
  muddled,      \* columns declared again or changed without the word COLUMN
  signatures,   \* argument lists each routine name was seen with
  length        \* statements so far

pgVars == <<pgTables, pgPolicies, pgColumns>>
asides == <<displaced, renamed, unseen, muddled>>
routineSide == <<routineVars, pgRoutines, signatures>>
vars   == <<theme, catalogVars, pgVars, asides, routineSide, length>>

Pg == INSTANCE PgCatalog WITH TableKey <- Keys, tables <- pgTables,
        policies <- pgPolicies, columns <- pgColumns
PgR == INSTANCE PgRoutines WITH routines <- pgRoutines, NoRoutine <- None

Init == /\ theme \in Themes /\ length = 0
        /\ NewCatalog /\ NewRoutines /\ Pg!Init /\ PgR!Init
        /\ displaced = {} /\ renamed = {} /\ unseen = {} /\ muddled = {}
        /\ signatures = {}

Keep == UNCHANGED asides

\* One more statement.
Statement == /\ length < theme.length /\ length' = length + 1
             /\ UNCHANGED theme

About(kind) == kind \in theme.kinds

CreateTable(q, c, typed) ==
  /\ Pg!CreateTable(Key(q), c, typed)
  /\ parseColumn(q, c, typed) /\ Keep

DropTable(q) ==
  /\ Pg!DropTable(Key(q)) /\ parseIgnored
  /\ displaced' = displaced \cup {Key(q)} /\ UNCHANGED <<renamed, unseen, muddled>>

RenameTable(q, r) ==
  /\ Pg!RenameTable(Key(q), Key(r)) /\ parseIgnored
  /\ displaced' = displaced \cup {Key(q), Key(r)}
  /\ UNCHANGED <<renamed, unseen, muddled>>

RowSecurity(q, flag, on) ==
  Pg!SetRowSecurity(Key(q), flag, on) /\ parseRowSecurity(q, flag, on) /\ Keep

CreatePolicy(q, n, d) ==
  /\ Pg!CreatePolicy(Key(q), n, d) /\ parseCreatePolicy(q, n, d) /\ Keep

AlterPolicy(q, n, changes) ==
  Pg!AlterPolicy(Key(q), n, changes) /\ parseAlterPolicy(q, n, changes) /\ Keep

RenamePolicy(q, n, m) ==
  /\ Pg!RenamePolicy(Key(q), n, m) /\ parseRenamePolicy(q, n, m)
  /\ unseen' = IF <<Key(q), n>> \in unseen THEN unseen \cup {<<Key(q), m>>} ELSE unseen
  /\ UNCHANGED <<displaced, renamed, muddled>>

DropPolicy(q, n, ifExists) ==
  Pg!DropPolicy(Key(q), n, ifExists) /\ parseDropPolicy(q, n, ifExists) /\ Keep

\* A policy created by a DO block or a function: one string to the parser,
\* which looks for auth.* in identifiers only.
CreatePolicyInBody(q, n, d) ==
  /\ Pg!CreatePolicy(Key(q), n, d) /\ noteAuthRefs(FALSE)
  /\ unseen' = unseen \cup {<<Key(q), n>>}
  /\ UNCHANGED <<displaced, renamed, muddled>>

AddColumn(q, c, typed) ==
  Pg!AddColumn(Key(q), c, typed) /\ parseColumn(q, c, typed) /\ Keep

DropColumn(q, c) == Pg!DropColumn(Key(q), c) /\ parseDropColumn(q, c) /\ Keep

RenameColumn(q, c, d) ==
  /\ Pg!RenameColumn(Key(q), c, d) /\ parseRenameColumn(q, c, d)
  /\ renamed' = renamed \cup {<<Key(q), c>>, <<Key(q), d>>}
  /\ muddled' = IF <<Key(q), c>> \in muddled THEN muddled \cup {<<Key(q), d>>}
                ELSE muddled
  /\ UNCHANGED <<displaced, unseen>>

\* CREATE TABLE or ADD COLUMN with IF NOT EXISTS, when it does.
DeclareAgain(q, c, typed) ==
  /\ Pg!exists(Key(q)) /\ UNCHANGED pgVars
  /\ parseColumn(q, c, typed)
  /\ muddled' = muddled \cup {<<Key(q), c>>}
  /\ UNCHANGED <<displaced, renamed, unseen>>

\* ALTER TABLE ... DROP c and ... RENAME c TO d: COLUMN is optional.
BareColumn(q, cs) ==
  /\ parseIgnored
  /\ muddled' = muddled \cup {<<Key(q), c>> : c \in cs}
  /\ UNCHANGED <<displaced, renamed, unseen>>
BareDropColumn(q, c)      == Pg!DropColumn(Key(q), c) /\ BareColumn(q, {c})
BareRenameColumn(q, c, d) == Pg!RenameColumn(Key(q), c, d) /\ BareColumn(q, {c, d})

AlterType(q, c, type) ==
  Pg!SetColumnType(Key(q), c, type) /\ parseAlterType(q, c, type) /\ Keep

SetDefault(q, c, default) ==
  /\ Pg!SetDefault(Key(q), c, default)
  /\ parseSetDefault(q, c, default) /\ Keep

\* A name is distinguished by its arguments here, and only here.
CreateRoutine(f, s, d, orReplace) ==
  /\ PgR!Create(Key(f), s, d, orReplace)
  /\ parseCreateRoutine(f, d)
  /\ signatures' = signatures \cup {<<Key(f), s>>}

DropRoutine(f, s, ifExists) ==
  /\ PgR!Drop(Key(f), s, ifExists)
  /\ parseDropRoutine(f)
  /\ signatures' = signatures \cup {<<Key(f), s>>}

\* DROP ROUTINE, and the second name of a DROP FUNCTION, reach no case; ALTER
\* FUNCTION is only searched for auth.*.  The name counts as overloaded.
outOfSight(f) ==
  /\ UNCHANGED <<catalogVars, routineVars>>
  /\ signatures' = signatures \cup ({Key(f)} \X Signature)
DropRoutineUnseen(f, s)      == PgR!Drop(Key(f), s, FALSE) /\ outOfSight(f)
AlterSecurity(f, s, definer) == PgR!SetSecurity(Key(f), s, definer) /\ outOfSight(f)

OtherStatement(auth) == noteAuthRefs(auth) /\ UNCHANGED pgVars /\ Keep

\* Statements about tables, policies and columns.
TableStatement == \E q \in theme.names :
    \/ \E c \in theme.columns, typed \in theme.typed :
         \/ About("table") /\ CreateTable(q, c, typed)
         \/ About("column") /\ AddColumn(q, c, typed)
         \/ About("if not exists") /\ DeclareAgain(q, c, typed)
    \/ About("drop table") /\ DropTable(q)
    \/ About("rename table") /\ \E r \in theme.names : RenameTable(q, r)
    \/ About("flags") /\ \E flag \in {"enabled", "forced"}, on \in BOOLEAN :
         RowSecurity(q, flag, on)
    \/ \E n \in PolicyName :
         \/ About("body") /\ \E d \in Pg!Definition : CreatePolicyInBody(q, n, d)
         \/ About("policy") /\
            \/ \E d \in Pg!Definition : CreatePolicy(q, n, d)
            \/ \E S \in SUBSET Clause : \E changes \in [S -> Value] :
                 AlterPolicy(q, n, changes)
            \/ \E m \in PolicyName : RenamePolicy(q, n, m)
            \/ \E ifExists \in BOOLEAN : DropPolicy(q, n, ifExists)
    \/ \E c \in theme.columns :
         \/ About("column") /\ DropColumn(q, c)
         \/ About("rename column") /\ \E d \in theme.columns : RenameColumn(q, c, d)
         \/ About("bare column") /\
              (BareDropColumn(q, c) \/ \E d \in theme.columns : BareRenameColumn(q, c, d))
         \/ About("column") /\ \E type \in Type : AlterType(q, c, type)
         \/ About("column") /\ \E default \in Default : SetDefault(q, c, default)
    \/ \E auth \in BOOLEAN : About("other") /\ OtherStatement(auth)

RoutineStatement == About("routine") /\
  \E f \in theme.routines, s \in Signature :
    \/ \E d \in PgR!Definition, orReplace \in BOOLEAN : CreateRoutine(f, s, d, orReplace)
    \/ \E ifExists \in BOOLEAN : DropRoutine(f, s, ifExists)
    \/ DropRoutineUnseen(f, s)
    \/ \E definer \in BOOLEAN : AlterSecurity(f, s, definer)

Next == Statement /\ (\/ TableStatement /\ UNCHANGED routineSide
                      \/ RoutineStatement /\ UNCHANGED <<pgVars, asides>>)

Spec == Init /\ [][Next]_vars

-----------------------------------------------------------------------------
\* The catalog, read the way PostgreSQL's would be.

\* Positions of the policies of a (key, name) pair.
entries(x) == {i \in 1..Len(Policies) :
                 Key(Policies[i].table) = x[1] /\ Policies[i].name = x[2]}

recorded == [x \in Keys \X PolicyName |->
  IF entries(x) = {} THEN None ELSE Policies[first(entries(x))].def]

Settled == Keys \ displaced

\* What left the parser's sight, a displaced table or a policy of a body, is
\* taken from PostgreSQL; all the rest from the catalog.  A table no statement
\* flagged has the flags CREATE TABLE gives it.
viewPolicies == [x \in Keys \X PolicyName |->
  IF x[1] \in displaced \/ x \in unseen THEN pgPolicies[x] ELSE recorded[x]]

viewTables == [t \in Keys |->
  CASE t \in displaced \/ pgTables[t] = None -> pgTables[t]
    [] t \in Settled /\ pgTables[t] # None /\ Tables[t] = None ->
         [enabled |-> FALSE, forced |-> FALSE]
    [] OTHER -> Tables[t]]

View == INSTANCE PgCatalog WITH TableKey <- Keys, tables <- viewTables,
          policies <- viewPolicies, columns <- pgColumns

-----------------------------------------------------------------------------
\* Properties.

TypeOK ==
  /\ Pg!TypeOK
  /\ Tables \in [Keys -> Pg!Flags \cup {None}]
  /\ Policies \in Seq([name : PolicyName, table : QName, def : Pg!Definition])
  /\ Defaults \in Seq([table : QName, column : Column, expr : AuthDefault])
  /\ ColumnTypes \in [Keys \X Column -> Type \cup {None}]
  /\ displaced \subseteq Keys /\ unseen \subseteq Keys \X PolicyName
  /\ renamed \cup muddled \subseteq Keys \X Column
  /\ PgR!TypeOK
  /\ Definers \in Seq([name : RoutineName, writes : SUBSET QName])
  /\ Reviewed \subseteq RoutineKey
  /\ signatures \subseteq RoutineKey \X Signature
  /\ theme \in Themes /\ length \in 0..theme.length

\* However its table was spelled, statement by statement, every policy of a
\* table that was never dropped or renamed is in the catalog once, under its
\* last name and with its last clauses, and nothing else is.  A policy made
\* out of the parser's sight loses no other one.
PoliciesTracked ==
  \A x \in (Settled \X PolicyName) \ unseen :
    /\ recorded[x] = pgPolicies[x]
    /\ \A i, j \in entries(x) : i = j

\* The flags of such a table are those the last ALTER TABLE left.
FlagsTracked == \A t \in Settled : viewTables[t] = pgTables[t]

\* Its column types follow every definition, drop, rename and change of type:
\* --uid-type text warns about exactly the columns that are uuid in the end.
TypesTracked ==
  \A x \in (Settled \X Column) \ muddled :
    ColumnTypes[x] = IF pgColumns[x] = None THEN None ELSE pgColumns[x].type

\* The last default the bundle sets on a column.
lastDefault(x) ==
  {i \in 1..Len(Defaults) :
     /\ <<Key(Defaults[i].table), Defaults[i].column>> = x
     /\ \A j \in (i + 1)..Len(Defaults) :
          <<Key(Defaults[j].table), Defaults[j].column>> # x}

\* No default that calls auth.* is left unported: the last ALTER the bundle
\* emits for its column rewrites exactly that expression.
AuthDefaultsCovered ==
  \A x \in (Settled \X Column) \ (renamed \cup muddled) :
    pgColumns[x] # None /\ pgColumns[x].default \in AuthDefault =>
      \E i \in lastDefault(x) : Defaults[i].expr = pgColumns[x].default

\* A complete history raises no alarm about a policy that is not there.
NoFalseAlarm ==
  \A n \in Notes : \/ n = <<"scope">>
                   \/ n[2] \in displaced
                   \/ <<n[2], n[3]>> \in unseen

\* capyrls.go: the tables the report takes to be FORCEd once the bundle is
\* applied, if every policy is converted.
forced(roleModel) ==
  LET enabled   == {t \in Keys : Tables[t] # None /\ Tables[t].enabled}
      rlsTables == enabled \cup {Key(Policies[i].table) : i \in 1..Len(Policies)}
      source    == {t \in enabled : Tables[t].forced}
  IN  {t \in source \cup (IF roleModel = "single" THEN rlsTables ELSE {}) :
         t[1] \notin ManagedSchema}

\* Those that are: the bundle enables row security where it creates a policy,
\* and under the single role model FORCEs it there and where it was enabled.
policied(t) == \E n \in PolicyName : <<t, n>> \notin unseen /\ pgPolicies[<<t, n>>] # None

pgForced(roleModel) ==
  {t \in Keys : /\ t[1] \notin ManagedSchema /\ pgTables[t] # None
                /\ pgTables[t].enabled \/ policied(t)
                /\ roleModel = "single" \/ pgTables[t].forced}

\* A table FORCEd in the source is usually enabled there.
idle == {t \in Keys : pgTables[t] # None /\ pgTables[t].forced /\ ~pgTables[t].enabled}

\* The tables a routine writes, its unqualified names resolved by its path.
written(d) == {Key([d.body.writes[i] EXCEPT !.schema = IF @ = "" THEN d.body.path ELSE @]) :
                 i \in 1..Len(d.body.writes)}

\* The FORCEd tables the definers called f write, in PostgreSQL.
affected(f, roleModel) ==
  LET definers == {d \in {pgRoutines[<<f, s>>] : s \in Signature} :
                     d # None /\ d.definer}
  IN  (UNION {written(d) : d \in definers}) \cap pgForced(roleModel)

listed(f, roleModel) ==
  UNION {e.tables : e \in {x \in definerWrites(forced(roleModel)) : x.function = f}}

\* Names with one argument list, never changed out of sight.
plain == {f \in RoutineKey :
            \A s, t \in Signature : {<<f, s>>, <<f, t>>} \subseteq signatures => s = t}

\* Every table is written under one spelling: a name that stands with and
\* without public is kept under the first alone, and that may be the one that
\* says less.
uniform(d) == \A i, j \in 1..Len(d.body.writes) :
                Key(d.body.writes[i]) = Key(d.body.writes[j])
                  => d.body.writes[i] = d.body.writes[j]

\* What the report says of routines, under either role model and after every
\* redefinition.  A definer's write to a table that ends up FORCEd, because of
\* its flags or of a policy, is listed wherever the search_path leads, if the body
\* spells it one way and the source did not FORCE it without enabling it; a name
\* that is no definer in the end is not; and whatever mentions auth.* is handed to
\* the reader, overloads included: ALTER FUNCTION cannot bring one in.
RoutinesReported ==
  /\ \A f \in plain, roleModel \in {"single", "split"} :
       f[1] \notin ManagedSchema =>
       /\ (\A s \in Signature : pgRoutines[<<f, s>>] = None
                                 \/ uniform(pgRoutines[<<f, s>>]))
            => (affected(f, roleModel) \cap Settled) \ idle \subseteq listed(f, roleModel)
       /\ (\A s \in Signature : pgRoutines[<<f, s>>] = None
                                 \/ ~pgRoutines[<<f, s>>].definer)
            => listed(f, roleModel) = {}
  /\ \A x \in RoutineKey \X Signature :
       pgRoutines[x] # None /\ pgRoutines[x].body.auth => x[1] \in Reviewed

\* The catalog implements PostgreSQL's, one statement of the history for one
\* step there, whatever becomes of the tables and policies out of its sight.
Refines == View!Spec

-----------------------------------------------------------------------------
\* Claims of the documentation that the code does not meet.

\* definer.go: "The report names every definer whose body writes a table that
\* ends up FORCEd".
EveryDefinerListed ==
  \A f \in RoutineKey, roleModel \in {"single", "split"} :
    f[1] \notin ManagedSchema => affected(f, roleModel) \cap Settled \subseteq listed(f, roleModel)

=============================================================================
