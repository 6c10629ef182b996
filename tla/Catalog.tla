------------------------------ MODULE Catalog ------------------------------
(***************************************************************************)
(* The catalog capyrls reduces a migration history to (model.go) and the   *)
(* handlers that apply one statement to it (parse.go).  One operator per   *)
(* handler; History decides which statements arrive.                       *)
(*                                                                         *)
(* A table is named in the text as a QName, with or without its schema;    *)
(* everything is looked up by Key.                                         *)
(***************************************************************************)
EXTENDS Integers, Sequences

CONSTANTS
  QName,        \* spellings of table names, [schema, name] records
  PolicyName,
  Clause,
  Value,
  Column,
  Type,
  Default,
  NoDefault,
  AuthDefault,  \* the defaults that reference auth.*
  None

ASSUME QNameAssumption == QName \subseteq [schema : STRING, name : STRING]
ASSUME DefaultAssumption ==
  AuthDefault \subseteq Default /\ NoDefault \in Default \ AuthDefault
ASSUME NoneAssumption ==
  /\ None \notin [Clause -> Value]
  /\ None \notin [enabled : BOOLEAN, forced : BOOLEAN]
  /\ None \notin [type : Type, default : Default]
  /\ None \notin Type

VARIABLES
  Tables,       \* flags by key; None until a statement sets one
  Policies,     \* in order of first appearance
  Defaults,     \* auth-referencing defaults, in order
  ColumnTypes,  \* by (key, column)
  Notes         \* what the parser had to leave to the reader

catalogVars == <<Tables, Policies, Defaults, ColumnTypes, Notes>>

EffectiveSchema(q) == IF q.schema = "" THEN "public" ELSE q.schema
Key(q) == <<EffectiveSchema(q), q.name>>
Keys   == {Key(q) : q \in QName}

NewCatalog ==
  /\ Tables = [t \in Keys |-> None]
  /\ Policies = <<>>
  /\ Defaults = <<>>
  /\ ColumnTypes = [x \in Keys \X Column |-> None]
  /\ Notes = {}

-----------------------------------------------------------------------------
\* model.go.

\* Mutated forms: tables compared as spelled, or not at all.
matchesAsSpelled(n, q) ==
  {i \in 1..Len(Policies) : Policies[i].name = n /\ Policies[i].table = q}
matchesByName(n, q) == {i \in 1..Len(Policies) : Policies[i].name = n}

\* Positions of the policies a (name, table) pair designates.
matches(n, q) == {i \in 1..Len(Policies) :
                    Policies[i].name = n /\ Key(Policies[i].table) = Key(q)}

\* findPolicy returns the first of them.
first(S) == CHOOSE i \in S : \A j \in S : i <= j

\* Mutated form: off by one.
removeAfter(s, i) == [j \in 1..(Len(s) - 1) |-> IF j <= i THEN s[j] ELSE s[j + 1]]

removeAt(s, i) == [j \in 1..(Len(s) - 1) |-> IF j < i THEN s[j] ELSE s[j + 1]]

upsertPolicy(p) ==
  LET found == matches(p.name, p.table)
  IN  Policies' = IF found = {} THEN Append(Policies, p)
                  ELSE [Policies EXCEPT ![first(found)] = p]

note(what) == Notes' = Notes \cup {what}

-----------------------------------------------------------------------------
\* parse.go.

parseCreatePolicy(q, n, d) ==
  /\ upsertPolicy([name |-> n, table |-> q, def |-> d])
  /\ UNCHANGED <<Tables, Defaults, ColumnTypes, Notes>>

\* Mutated form: the clauses named replace the definition.
amendedAnew(def, changes) == changes

\* ALTER POLICY keeps the clauses it does not name.
amended(def, changes) ==
  [k \in Clause |-> IF k \in DOMAIN changes THEN changes[k] ELSE def[k]]

\* A policy that is not there is noted, once the statement got this far.
parseAlterPolicy(q, n, changes) ==
  LET found == matches(n, q)
  IN  /\ IF found = {} THEN note(<<"alter", Key(q), n>>) /\ UNCHANGED Policies
         ELSE /\ Policies' = [Policies EXCEPT ![first(found)].def =
                                                 amended(@, changes)]
              /\ UNCHANGED Notes
      /\ UNCHANGED <<Tables, Defaults, ColumnTypes>>

parseRenamePolicy(q, n, m) ==
  LET found == matches(n, q)
  IN  /\ IF found = {} THEN note(<<"alter", Key(q), n>>) /\ UNCHANGED Policies
         ELSE /\ Policies' = [Policies EXCEPT ![first(found)].name = m]
              /\ UNCHANGED Notes
      /\ UNCHANGED <<Tables, Defaults, ColumnTypes>>

parseDropPolicy(q, n, ifExists) ==
  LET found == matches(n, q)
  IN  /\ Policies' = IF found = {} THEN Policies
                     ELSE removeAt(Policies, first(found))
      /\ IF found = {} /\ ~ifExists THEN note(<<"drop", Key(q), n>>)
         ELSE UNCHANGED Notes
      /\ UNCHANGED <<Tables, Defaults, ColumnTypes>>

\* Mutated form: every flag statement starts from a fresh entry.
flaggedAfresh(entry, flag, on) ==
  [[enabled |-> FALSE, forced |-> FALSE] EXCEPT ![flag] = on]

\* table() creates the entry the flag goes to.
flagged(entry, flag, on) ==
  [(IF entry = None THEN [enabled |-> FALSE, forced |-> FALSE] ELSE entry)
     EXCEPT ![flag] = on]

\* ENABLE, DISABLE, FORCE and NO FORCE ROW LEVEL SECURITY.
parseRowSecurity(q, flag, on) ==
  /\ Tables' = [Tables EXCEPT ![Key(q)] = flagged(@, flag, on)]
  /\ UNCHANGED <<Policies, Defaults, ColumnTypes, Notes>>

\* Only a default that references auth.* leaves a trace; none is taken back.
noteDefault(q, c, default) ==
  Defaults' = IF default \in AuthDefault
              THEN Append(Defaults, [table |-> q, column |-> c, expr |-> default])
              ELSE Defaults

\* A column definition, in CREATE TABLE (scanColumnDefault) or ADD COLUMN.
parseColumn(q, c, typed) ==
  /\ ColumnTypes' = [ColumnTypes EXCEPT ![<<Key(q), c>>] = typed.type]
  /\ noteDefault(q, c, typed.default)
  /\ UNCHANGED <<Tables, Policies, Notes>>

\* Mutated form: the column is not forgotten.
parseDropColumnIgnored(q, c) == UNCHANGED catalogVars

parseDropColumn(q, c) ==
  /\ ColumnTypes' = [ColumnTypes EXCEPT ![<<Key(q), c>>] = None]
  /\ UNCHANGED <<Tables, Policies, Defaults, Notes>>

parseRenameColumn(q, from, to) ==
  /\ ColumnTypes' = [ColumnTypes EXCEPT ![<<Key(q), from>>] = None,
                                        ![<<Key(q), to>>] = ColumnTypes[<<Key(q), from>>]]
  /\ UNCHANGED <<Tables, Policies, Defaults, Notes>>

parseAlterType(q, c, type) ==
  /\ ColumnTypes' = [ColumnTypes EXCEPT ![<<Key(q), c>>] = type]
  /\ UNCHANGED <<Tables, Policies, Defaults, Notes>>

\* Mutated form: only column definitions are scanned for defaults.
parseSetDefaultIgnored(q, c, default) == UNCHANGED catalogVars

\* SET DEFAULT; DROP DEFAULT, NoDefault here, matches no case of the loop.
parseSetDefault(q, c, default) ==
  /\ noteDefault(q, c, default)
  /\ UNCHANGED <<Tables, Policies, ColumnTypes, Notes>>

\* DROP TABLE and ALTER TABLE ... RENAME TO reach no case at all.
parseIgnored == UNCHANGED catalogVars

\* A statement of another kind is noted when it references auth.*.
noteAuthRefs(auth) ==
  /\ IF auth THEN note(<<"scope">>) ELSE UNCHANGED Notes
  /\ UNCHANGED <<Tables, Policies, Defaults, ColumnTypes>>

=============================================================================
