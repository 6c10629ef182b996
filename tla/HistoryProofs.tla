---------------------------- MODULE HistoryProofs ----------------------------
(***************************************************************************)
(* The parser's catalog against PostgreSQL's, for histories of any length  *)
(* over any tables, policies, columns and routines.                        *)
(*                                                                         *)
(* PostgreSQL's side is easy: a statement of the history is a step of      *)
(* PgCatalog.  The parser's side follows it object by object, on the       *)
(* tables that stayed in its sight; and once flags and policies agree      *)
(* there, the view of the catalog is PostgreSQL's, so that refinement is a *)
(* consequence.                                                            *)
(***************************************************************************)
EXTENDS History, FiniteSetTheorems, WellFoundedInduction, SequenceTheorems, TLAPS

PolicyEntry == [name : PolicyName, table : QName, def : Pg!Definition]

-----------------------------------------------------------------------------
\* Every statement is one of PostgreSQL's, or none of its business.

LEMMA KeyType == ASSUME NEW q \in QName PROVE Key(q) \in Keys
BY DEF Keys

\* A theme speaks of the tables, columns and definitions there are.
LEMMA ThemeType ==
  ASSUME theme \in Themes
  PROVE  /\ theme.names \subseteq QName
         /\ theme.columns \subseteq Column
         /\ theme.typed \subseteq Pg!Typed
         /\ theme.routines \subseteq RoutineName
         /\ theme.length \in Nat
BY ThemeAssumption DEF Pg!Typed

\* What a statement of the history is, its names resolved.
Declaration(q, c, typed) ==
  CreateTable(q, c, typed) \/ AddColumn(q, c, typed) \/ DeclareAgain(q, c, typed)

Displacement(q) == DropTable(q) \/ \E r \in QName : RenameTable(q, r)

Flagging(q) ==
  \E flag \in {"enabled", "forced"}, on \in BOOLEAN : RowSecurity(q, flag, on)

PolicyChange(q, n) ==
  \/ \E d \in Pg!Definition : CreatePolicyInBody(q, n, d) \/ CreatePolicy(q, n, d)
  \/ \E S \in SUBSET Clause : \E changes \in [S -> Value] : AlterPolicy(q, n, changes)
  \/ \E m \in PolicyName : RenamePolicy(q, n, m)
  \/ \E ifExists \in BOOLEAN : DropPolicy(q, n, ifExists)

ColumnChange(q, c) ==
  \/ DropColumn(q, c) \/ BareDropColumn(q, c)
  \/ \E d \in Column : RenameColumn(q, c, d) \/ BareRenameColumn(q, c, d)
  \/ \E type \in Type : AlterType(q, c, type)
  \/ \E default \in Default : SetDefault(q, c, default)

LEMMA StatementKinds ==
  ASSUME theme \in Themes, TableStatement
  PROVE  \/ \E q \in QName, c \in Column, typed \in Pg!Typed : Declaration(q, c, typed)
         \/ \E q \in QName : Displacement(q) \/ Flagging(q)
         \/ \E q \in QName, n \in PolicyName : PolicyChange(q, n)
         \/ \E q \in QName, c \in Column : ColumnChange(q, c)
         \/ \E auth \in BOOLEAN : OtherStatement(auth)
BY ThemeType DEF TableStatement, Declaration, Displacement, Flagging, PolicyChange, ColumnChange

LEMMA StatementOfPg ==
  ASSUME theme \in Themes, TableStatement
  PROVE  Pg!Next \/ UNCHANGED pgVars
<1>1. ASSUME NEW q \in QName, NEW c \in Column, NEW typed \in Pg!Typed, Declaration(q, c, typed)
      PROVE  Pg!Next \/ UNCHANGED pgVars
  BY <1>1, KeyType DEF Declaration, CreateTable, AddColumn, DeclareAgain, Pg!Next
<1>2. ASSUME NEW q \in QName, Displacement(q) \/ Flagging(q)
      PROVE  Pg!Next
  BY <1>2, KeyType DEF Displacement, Flagging, DropTable, RenameTable, RowSecurity, Pg!Next
<1>3. ASSUME NEW q \in QName, NEW n \in PolicyName, PolicyChange(q, n)
      PROVE  Pg!Next
  BY <1>3, KeyType DEF PolicyChange, CreatePolicyInBody, CreatePolicy, AlterPolicy,
                       RenamePolicy, DropPolicy, Pg!Next
<1>4. ASSUME NEW q \in QName, NEW c \in Column, ColumnChange(q, c)
      PROVE  Pg!Next
  BY <1>4, KeyType DEF ColumnChange, DropColumn, BareDropColumn, RenameColumn,
                       BareRenameColumn, AlterType, SetDefault, Pg!Next
<1>5. ASSUME NEW auth \in BOOLEAN, OtherStatement(auth)
      PROVE  UNCHANGED pgVars
  BY <1>5 DEF OtherStatement
<1> QED BY <1>1, <1>2, <1>3, <1>4, <1>5, StatementKinds

-----------------------------------------------------------------------------
\* PostgreSQL's types.

\* Setting one flag leaves flags.
LEMMA FlagSet ==
  ASSUME NEW f \in Pg!Flags, NEW flag \in {"enabled", "forced"}, NEW on \in BOOLEAN
  PROVE  [f EXCEPT ![flag] = on] \in Pg!Flags
<1>1. CASE flag = "enabled"
  BY <1>1 DEF Pg!Flags
<1>2. CASE flag = "forced"
  BY <1>2 DEF Pg!Flags
<1> QED BY <1>1, <1>2

LEMMA PgNextTypes ==
  ASSUME Pg!TypeOK, Pg!Next \/ UNCHANGED pgVars
  PROVE  Pg!TypeOK'
<1> USE DEF Pg!TypeOK
<1>1. CASE UNCHANGED pgVars
  BY <1>1 DEF pgVars
<1>2. ASSUME NEW t \in Keys, NEW c \in Column, NEW typed \in Pg!Typed,
             Pg!CreateTable(t, c, typed) \/ Pg!AddColumn(t, c, typed)
      PROVE  Pg!TypeOK'
  <2>1. [enabled |-> FALSE, forced |-> FALSE] \in Pg!Flags
    BY DEF Pg!Flags
  <2> QED BY <1>2, <2>1 DEF Pg!CreateTable, Pg!AddColumn
<1>3. ASSUME NEW t \in Keys, Pg!DropTable(t)
      PROVE  Pg!TypeOK'
  BY <1>3 DEF Pg!DropTable
<1>4. ASSUME NEW t \in Keys, NEW u \in Keys, Pg!RenameTable(t, u)
      PROVE  Pg!TypeOK'
  BY <1>4 DEF Pg!RenameTable
<1>5. ASSUME NEW t \in Keys, NEW flag \in {"enabled", "forced"}, NEW on \in BOOLEAN,
             Pg!SetRowSecurity(t, flag, on)
      PROVE  Pg!TypeOK'
  <2>1. pgTables[t] \in Pg!Flags
    BY <1>5 DEF Pg!SetRowSecurity, Pg!exists
  <2>2. [pgTables[t] EXCEPT ![flag] = on] \in Pg!Flags
    BY <2>1, FlagSet
  <2> QED BY <1>5, <2>2 DEF Pg!SetRowSecurity
<1>6. ASSUME NEW t \in Keys, NEW n \in PolicyName, NEW d \in Pg!Definition,
             Pg!CreatePolicy(t, n, d)
      PROVE  Pg!TypeOK'
  BY <1>6 DEF Pg!CreatePolicy
<1>7. ASSUME NEW t \in Keys, NEW n \in PolicyName, NEW S \in SUBSET Clause,
             NEW changes \in [S -> Value], Pg!AlterPolicy(t, n, changes)
      PROVE  Pg!TypeOK'
  <2>1. pgPolicies[<<t, n>>] \in Pg!Definition
    BY <1>7 DEF Pg!AlterPolicy, Pg!hasPolicy
  <2>2. [k \in Clause |-> IF k \in DOMAIN changes THEN changes[k]
                          ELSE pgPolicies[<<t, n>>][k]] \in Pg!Definition
    BY <1>7, <2>1 DEF Pg!Definition
  <2> QED BY <1>7, <2>2 DEF Pg!AlterPolicy
<1>8. ASSUME NEW t \in Keys, NEW n \in PolicyName,
             \/ \E m \in PolicyName : Pg!RenamePolicy(t, n, m)
             \/ \E ifExists \in BOOLEAN : Pg!DropPolicy(t, n, ifExists)
      PROVE  Pg!TypeOK'
  BY <1>8 DEF Pg!RenamePolicy, Pg!DropPolicy
<1>9. ASSUME NEW t \in Keys, NEW c \in Column,
             Pg!DropColumn(t, c) \/ \E d \in Column : Pg!RenameColumn(t, c, d)
      PROVE  Pg!TypeOK'
  BY <1>9 DEF Pg!DropColumn, Pg!RenameColumn
<1>10. ASSUME NEW t \in Keys, NEW c \in Column,
              \/ \E type \in Type : Pg!SetColumnType(t, c, type)
              \/ \E default \in Default : Pg!SetDefault(t, c, default)
       PROVE  Pg!TypeOK'
  <2>1. ASSUME NEW type \in Type, Pg!SetColumnType(t, c, type)
        PROVE  Pg!TypeOK'
    <3>1. pgColumns[<<t, c>>] \in Pg!Typed
      BY <2>1 DEF Pg!SetColumnType, Pg!hasColumn
    <3> QED BY <2>1, <3>1 DEF Pg!SetColumnType, Pg!Typed
  <2>2. ASSUME NEW default \in Default, Pg!SetDefault(t, c, default)
        PROVE  Pg!TypeOK'
    <3>1. pgColumns[<<t, c>>] \in Pg!Typed
      BY <2>2 DEF Pg!SetDefault, Pg!hasColumn
    <3> QED BY <2>2, <3>1 DEF Pg!SetDefault, Pg!Typed
  <2> QED BY <1>10, <2>1, <2>2
<1> QED BY <1>1, <1>2, <1>3, <1>4, <1>5, <1>6, <1>7, <1>8, <1>9, <1>10 DEF Pg!Next

-----------------------------------------------------------------------------
\* The policies of the catalog: a sequence that is searched by table and name.

\* A set of positions has a first one.
LEMMA LeastPosition ==
  ASSUME NEW n \in Nat, NEW S \in SUBSET (1..n), S # {}
  PROVE  first(S) \in S /\ \A j \in S : first(S) <= j
<1> DEFINE upto(i) == {j \in S : j <= i}
           T == {upto(i) : i \in S}
<1>1. IsFiniteSet(S)
  BY FS_Interval, FS_Subset, 1 \in Int, n \in Int
<1>2. IsWellFoundedOn(StrictSubsetOrdering(S), FiniteSubsetsOf(S))
  BY FS_StrictSubsetOrderingWellFounded
<1>3. T \subseteq FiniteSubsetsOf(S) /\ T # {}
  <2>1. \A i \in S : upto(i) \in SUBSET S /\ IsFiniteSet(upto(i))
    BY <1>1, FS_Subset
  <2>2. FiniteSubsetsOf(S) = SUBSET S
    BY <1>1, FS_FiniteSubsetsOfFinite
  <2>3. T # {}
    OBVIOUS
  <2> QED BY <2>1, <2>2, <2>3
<1>4. PICK X \in T : \A Y \in T : ~(<<Y, X>> \in StrictSubsetOrdering(S))
  <2> HIDE DEF T
  <2> QED BY <1>2, <1>3, WFMin
<1>5. PICK i \in S : X = upto(i)
  OBVIOUS
<1>6. ASSUME NEW j \in S, j < i
      PROVE  FALSE
  <2>1. i \in Int /\ j \in Int /\ S \subseteq Int
    OBVIOUS
  <2>2. upto(j) \subseteq upto(i)
    <3> SUFFICES ASSUME NEW k \in S, k <= j
                 PROVE  k <= i
      OBVIOUS
    <3>1. k \in Int /\ i \in Int /\ j \in Int /\ j < i
      BY <1>6, <2>1
    <3> HIDE DEF upto, T
    <3> QED BY <3>1
  <2>3. i \in upto(i) /\ i \notin upto(j)
    BY <1>6, <2>1
  <2>4. upto(j) \in T /\ upto(j) \subseteq S /\ upto(i) \subseteq S
    OBVIOUS
  <2>5. <<upto(j), X>> \in StrictSubsetOrdering(S)
    <3> HIDE DEF upto
    <3> QED BY <2>2, <2>3, <2>4, <1>5 DEF StrictSubsetOrdering
  <2> QED BY <1>4, <2>4, <2>5
<1>7. \A j \in S : i <= j
  BY <1>6
<1> HIDE DEF T, upto
<1> QED BY <1>7 DEF first

\* Position k of s is policy x's.
names(s, k, x) == Key(s[k].table) = x[1] /\ s[k].name = x[2]

\* s holds x once, defined as v, or not at all.
Agrees(s, x, v) ==
  /\ \A i, j \in 1..Len(s) : names(s, i, x) /\ names(s, j, x) => i = j
  /\ \A i \in 1..Len(s) : names(s, i, x) => v # None /\ s[i].def = v
  /\ v # None => \E i \in 1..Len(s) : names(s, i, x)

LEMMA MatchesAreEntries ==
  ASSUME NEW q, NEW n
  PROVE  /\ matches(n, q) = entries(<<Key(q), n>>)
         /\ matches(n, q) = {i \in 1..Len(Policies) : names(Policies, i, <<Key(q), n>>)}
BY DEF matches, entries, names

\* The policy the parser finds is one that has the table and the name.
LEMMA Found ==
  ASSUME Policies \in Seq(PolicyEntry), NEW q, NEW n, matches(n, q) # {}
  PROVE  /\ first(matches(n, q)) \in 1..Len(Policies)
         /\ names(Policies, first(matches(n, q)), <<Key(q), n>>)
<1>1. Len(Policies) \in Nat /\ matches(n, q) \in SUBSET (1..Len(Policies))
  BY LenProperties DEF matches
<1>2. first(matches(n, q)) \in matches(n, q)
  BY <1>1, LeastPosition
<1> QED BY <1>2, MatchesAreEntries

LEMMA NotFound ==
  ASSUME NEW q, NEW n, NEW v, Agrees(Policies, <<Key(q), n>>, v), matches(n, q) = {}
  PROVE  v = None
BY MatchesAreEntries DEF Agrees

LEMMA FoundDefined ==
  ASSUME NEW q, NEW n, NEW v, Agrees(Policies, <<Key(q), n>>, v), matches(n, q) # {}
  PROVE  v # None
BY MatchesAreEntries DEF Agrees

LEMMA AppendAgrees ==
  ASSUME NEW s \in Seq(PolicyEntry), NEW p \in PolicyEntry, NEW x, NEW v, Agrees(s, x, v)
  PROVE  /\ ~names(<<p>>, 1, x) => Agrees(Append(s, p), x, v)
         /\ names(<<p>>, 1, x) /\ v = None /\ p.def # None => Agrees(Append(s, p), x, p.def)
<1>1. /\ Len(s) \in Nat /\ Len(Append(s, p)) = Len(s) + 1
      /\ \A k \in 1..Len(s) : Append(s, p)[k] = s[k]
      /\ Append(s, p)[Len(s) + 1] = p
      /\ <<p>>[1] = p
  BY AppendProperties, LenProperties
<1> QED BY <1>1 DEF Agrees, names

LEMMA ReplaceAgrees ==
  ASSUME NEW s \in Seq(PolicyEntry), NEW i \in 1..Len(s), NEW p \in PolicyEntry,
         NEW x, NEW v, Agrees(s, x, v)
  PROVE  LET t == [s EXCEPT ![i] = p]
         IN  /\ ~names(s, i, x) /\ ~names(<<p>>, 1, x) => Agrees(t, x, v)
             /\ names(s, i, x) /\ ~names(<<p>>, 1, x) => Agrees(t, x, None)
             /\ names(<<p>>, 1, x) /\ p.def # None /\ (names(s, i, x) \/ v = None)
                  => Agrees(t, x, p.def)
<1> DEFINE t == [s EXCEPT ![i] = p]
<1>1. /\ Len(s) \in Nat /\ Len(t) = Len(s)
      /\ \A k \in 1..Len(s) : t[k] = IF k = i THEN p ELSE s[k]
      /\ <<p>>[1] = p
  BY LenProperties, ExceptSeq
<1> HIDE DEF t
<1>2. ~names(s, i, x) /\ ~names(<<p>>, 1, x) => Agrees(t, x, v)
  BY <1>1 DEF Agrees, names
<1>3. names(s, i, x) /\ ~names(<<p>>, 1, x) => Agrees(t, x, None)
  BY <1>1 DEF Agrees, names
<1>4. names(<<p>>, 1, x) /\ p.def # None /\ (names(s, i, x) \/ v = None) => Agrees(t, x, p.def)
  BY <1>1 DEF Agrees, names
<1> QED BY <1>2, <1>3, <1>4 DEF t

LEMMA RemoveAtType ==
  ASSUME NEW S, NEW s \in Seq(S), NEW i \in 1..Len(s)
  PROVE  removeAt(s, i) \in Seq(S)
<1>1. Len(s) \in Nat /\ Len(s) - 1 \in Nat /\ \A k \in 1..Len(s) : s[k] \in S
  BY LenProperties, ElementOfSeq
<1>2. \A k \in 1..(Len(s) - 1) : (IF k < i THEN s[k] ELSE s[k + 1]) \in S
  BY <1>1
<1>3. removeAt(s, i) \in [1..(Len(s) - 1) -> S]
  BY <1>1, <1>2 DEF removeAt
<1> QED BY <1>1, <1>3, IsASeq

\* Removing one element keeps the others, each once.
LEMMA RemoveAtElements ==
  ASSUME NEW S, NEW s \in Seq(S), NEW i \in 1..Len(s)
  PROVE  LET t == removeAt(s, i)
         IN  /\ \A k \in 1..Len(s) : k # i => \E m \in 1..Len(t) : t[m] = s[k]
             /\ \E from \in [1..Len(t) -> 1..Len(s)] :
                  /\ \A m \in 1..Len(t) : from[m] # i /\ t[m] = s[from[m]]
                  /\ \A m, l \in 1..Len(t) : from[m] = from[l] => m = l
<1> DEFINE t == removeAt(s, i)
           from == [m \in 1..Len(t) |-> IF m < i THEN m ELSE m + 1]
<1>1. Len(s) \in Nat /\ Len(s) - 1 \in Nat
  BY LenProperties
<1>2. \A k \in 1..(Len(s) - 1) : t[k] = IF k < i THEN s[k] ELSE s[k + 1]
  BY DEF removeAt
<1>3. Len(t) = Len(s) - 1
  <2>1. t \in Seq(S) /\ DOMAIN t = 1..(Len(s) - 1)
    BY RemoveAtType DEF removeAt
  <2> HIDE DEF t
  <2> QED BY <1>1, <2>1, LenProperties
<1> HIDE DEF t
<1>4. ASSUME NEW k \in 1..Len(s), k # i
      PROVE  \E m \in 1..Len(t) : t[m] = s[k]
  <2>1. CASE k < i
    BY <2>1, <1>1, <1>2, <1>3
  <2>2. CASE k > i
    <3>1. k - 1 \in 1..Len(t) /\ ~(k - 1 < i) /\ (k - 1) + 1 = k
      BY <2>2, <1>1, <1>3
    <3> QED BY <3>1, <1>2, <1>3
  <2> QED BY <2>1, <2>2, <1>1, <1>4
<1>5. \A m \in 1..Len(t) : from[m] \in 1..Len(s) /\ from[m] # i /\ t[m] = s[from[m]]
  BY <1>1, <1>2, <1>3
<1>6. \A m, l \in 1..Len(t) : from[m] = from[l] => m = l
  BY <1>1, <1>3
<1>7. from \in [1..Len(t) -> 1..Len(s)]
  BY <1>5
<1> HIDE DEF from
<1> QED BY <1>4, <1>5, <1>6, <1>7 DEF t

LEMMA RemoveAgrees ==
  ASSUME NEW s \in Seq(PolicyEntry), NEW i \in 1..Len(s), NEW x, NEW v, Agrees(s, x, v)
  PROVE  Agrees(removeAt(s, i), x, IF names(s, i, x) THEN None ELSE v)
<1> DEFINE t == removeAt(s, i)
<1>1. PICK from \in [1..Len(t) -> 1..Len(s)] :
        /\ \A m \in 1..Len(t) : from[m] # i /\ t[m] = s[from[m]]
        /\ \A m, l \in 1..Len(t) : from[m] = from[l] => m = l
  BY RemoveAtElements
<1>2. \A k \in 1..Len(s) : k # i => \E m \in 1..Len(t) : t[m] = s[k]
  BY RemoveAtElements
<1> HIDE DEF t
<1>3. \A m \in 1..Len(t) : from[m] \in 1..Len(s) /\ (names(t, m, x) <=> names(s, from[m], x))
  BY <1>1 DEF names
<1>4. CASE names(s, i, x)
  <2>1. \A m \in 1..Len(t) : ~names(t, m, x)
    BY <1>1, <1>3, <1>4 DEF Agrees
  <2>2. Agrees(t, x, None)
    BY <2>1 DEF Agrees
  <2> QED BY <1>4, <2>2 DEF t
<1>5. CASE ~names(s, i, x)
  <2>1. \A m, l \in 1..Len(t) : names(t, m, x) /\ names(t, l, x) => m = l
    BY <1>1, <1>3 DEF Agrees
  <2>2. \A m \in 1..Len(t) : names(t, m, x) => v # None /\ t[m].def = v
    BY <1>1, <1>3 DEF Agrees
  <2>3. ASSUME v # None
        PROVE  \E m \in 1..Len(t) : names(t, m, x)
    <3>1. PICK k \in 1..Len(s) : names(s, k, x)
      BY <2>3 DEF Agrees
    <3>2. PICK m \in 1..Len(t) : t[m] = s[k]
      BY <3>1, <1>2, <1>5
    <3> QED BY <3>1, <3>2 DEF names
  <2>4. Agrees(t, x, v)
    BY <2>1, <2>2, <2>3 DEF Agrees
  <2> QED BY <1>5, <2>4 DEF t
<1> QED BY <1>4, <1>5

-----------------------------------------------------------------------------
\* Type correctness.

DefaultEntry == [table : QName, column : Column, expr : AuthDefault]
DefinerEntry == [name : RoutineName, writes : SUBSET QName]

CatalogTypes ==
  /\ Tables \in [Keys -> Pg!Flags \cup {None}]
  /\ Policies \in Seq(PolicyEntry)
  /\ Defaults \in Seq(DefaultEntry)
  /\ ColumnTypes \in [Keys \X Column -> Type \cup {None}]

AsideTypes ==
  /\ displaced \subseteq Keys /\ unseen \subseteq Keys \X PolicyName
  /\ renamed \cup muddled \subseteq Keys \X Column

LEMMA FlaggedType ==
  ASSUME NEW f \in Pg!Flags \cup {None}, NEW flag \in {"enabled", "forced"}, NEW on \in BOOLEAN
  PROVE  flagged(f, flag, on) \in Pg!Flags
<1>1. [enabled |-> FALSE, forced |-> FALSE] \in Pg!Flags
  BY DEF Pg!Flags
<1> QED BY <1>1, FlagSet DEF flagged

LEMMA DefaultNoted ==
  ASSUME Defaults \in Seq(DefaultEntry), NEW q \in QName, NEW c \in Column, NEW default,
         noteDefault(q, c, default)
  PROVE  Defaults' \in Seq(DefaultEntry)
BY AppendProperties DEF noteDefault, DefaultEntry

\* A change of policy leaves policies.
LEMMA PolicyTypes ==
  ASSUME CatalogTypes, AsideTypes, NEW q \in QName, NEW n \in PolicyName, PolicyChange(q, n)
  PROVE  CatalogTypes' /\ AsideTypes'
<1> DEFINE found == matches(n, q)
           i == first(found)
<1>1. found # {} => i \in 1..Len(Policies) /\ Policies[i] \in PolicyEntry
  BY Found, ElementOfSeq DEF CatalogTypes
<1> HIDE DEF i, found
<1>2. ASSUME NEW d \in Pg!Definition, CreatePolicyInBody(q, n, d)
      PROVE  CatalogTypes' /\ AsideTypes'
  BY <1>2, KeyType DEF CreatePolicyInBody, noteAuthRefs, CatalogTypes, AsideTypes
<1>3. ASSUME NEW d \in Pg!Definition, CreatePolicy(q, n, d)
      PROVE  CatalogTypes' /\ AsideTypes'
  <2> DEFINE p == [name |-> n, table |-> q, def |-> d]
  <2>1. p \in PolicyEntry
    BY DEF PolicyEntry
  <2>2. Policies' = IF found = {} THEN Append(Policies, p) ELSE [Policies EXCEPT ![i] = p]
    BY <1>3 DEF CreatePolicy, parseCreatePolicy, upsertPolicy, found, i
  <2> HIDE DEF p
  <2>3. Policies' \in Seq(PolicyEntry)
    BY <2>1, <2>2, <1>1, AppendProperties, ExceptSeq DEF CatalogTypes
  <2> QED BY <1>3, <2>3 DEF CreatePolicy, parseCreatePolicy, Keep, asides, CatalogTypes, AsideTypes
<1>4. ASSUME NEW S \in SUBSET Clause, NEW changes \in [S -> Value], AlterPolicy(q, n, changes)
      PROVE  CatalogTypes' /\ AsideTypes'
  <2>1. ASSUME found # {}
        PROVE  [Policies EXCEPT ![i].def = amended(@, changes)] \in Seq(PolicyEntry)
    <3>1. Policies[i].def \in Pg!Definition
      BY <1>1, <2>1 DEF PolicyEntry
    <3>2. amended(Policies[i].def, changes) \in Pg!Definition
      BY <3>1 DEF amended, Pg!Definition
    <3>3. [Policies[i] EXCEPT !.def = amended(@, changes)] \in PolicyEntry
      BY <1>1, <2>1, <3>2 DEF PolicyEntry
    <3> QED BY <1>1, <2>1, <3>3, ExceptSeq DEF CatalogTypes
  <2>2. Policies' \in Seq(PolicyEntry)
    BY <1>4, <2>1 DEF AlterPolicy, parseAlterPolicy, CatalogTypes, found, i
  <2> QED BY <1>4, <2>2 DEF AlterPolicy, parseAlterPolicy, Keep, asides, CatalogTypes, AsideTypes
<1>5. ASSUME NEW m \in PolicyName, RenamePolicy(q, n, m)
      PROVE  CatalogTypes' /\ AsideTypes'
  <2>1. ASSUME found # {}
        PROVE  [Policies EXCEPT ![i].name = m] \in Seq(PolicyEntry)
    <3>1. [Policies[i] EXCEPT !.name = m] \in PolicyEntry
      BY <1>1, <2>1 DEF PolicyEntry
    <3> QED BY <1>1, <2>1, <3>1, ExceptSeq DEF CatalogTypes
  <2>2. Policies' \in Seq(PolicyEntry)
    BY <1>5, <2>1 DEF RenamePolicy, parseRenamePolicy, CatalogTypes, found, i
  <2> QED BY <1>5, <2>2, KeyType DEF RenamePolicy, parseRenamePolicy, CatalogTypes, AsideTypes
<1>6. ASSUME NEW ifExists \in BOOLEAN, DropPolicy(q, n, ifExists)
      PROVE  CatalogTypes' /\ AsideTypes'
  <2>1. Policies' \in Seq(PolicyEntry)
    BY <1>6, <1>1, RemoveAtType DEF DropPolicy, parseDropPolicy, CatalogTypes, found, i
  <2> QED BY <1>6, <2>1 DEF DropPolicy, parseDropPolicy, Keep, asides, CatalogTypes, AsideTypes
<1> QED BY <1>2, <1>3, <1>4, <1>5, <1>6 DEF PolicyChange

LEMMA CatalogNextTypes ==
  ASSUME theme \in Themes, CatalogTypes, AsideTypes, TableStatement
  PROVE  CatalogTypes' /\ AsideTypes'
<1>1. ASSUME NEW q \in QName, NEW c \in Column, NEW typed \in Pg!Typed, Declaration(q, c, typed)
      PROVE  CatalogTypes' /\ AsideTypes'
  <2>1. parseColumn(q, c, typed)
    BY <1>1 DEF Declaration, CreateTable, AddColumn, DeclareAgain
  <2>2. typed.type \in Type
    BY DEF Pg!Typed
  <2>3. Defaults' \in Seq(DefaultEntry)
    BY <2>1, DefaultNoted DEF parseColumn, CatalogTypes
  <2>4. CatalogTypes'
    BY <2>1, <2>2, <2>3 DEF parseColumn, CatalogTypes
  <2>5. AsideTypes'
    BY <1>1, KeyType DEF Declaration, CreateTable, AddColumn, DeclareAgain, Keep, asides, AsideTypes
  <2> QED BY <2>4, <2>5
<1>2. ASSUME NEW q \in QName, Displacement(q)
      PROVE  CatalogTypes' /\ AsideTypes'
  BY <1>2, KeyType DEF Displacement, DropTable, RenameTable, parseIgnored, catalogVars,
                       CatalogTypes, AsideTypes
<1>3. ASSUME NEW q \in QName, Flagging(q)
      PROVE  CatalogTypes' /\ AsideTypes'
  BY <1>3, KeyType, FlaggedType DEF Flagging, RowSecurity, parseRowSecurity, Keep, asides,
                                    CatalogTypes, AsideTypes
<1>4. ASSUME NEW q \in QName, NEW c \in Column, ColumnChange(q, c)
      PROVE  CatalogTypes' /\ AsideTypes'
  <2>1. ASSUME NEW default \in Default, SetDefault(q, c, default)
        PROVE  CatalogTypes' /\ AsideTypes'
    BY <2>1, DefaultNoted DEF SetDefault, parseSetDefault, Keep, asides, CatalogTypes, AsideTypes
  <2>2. ASSUME NEW d \in Column, RenameColumn(q, c, d)
        PROVE  CatalogTypes' /\ AsideTypes'
    BY <2>2, KeyType DEF RenameColumn, parseRenameColumn, CatalogTypes, AsideTypes
  <2>3. ASSUME BareDropColumn(q, c) \/ \E d \in Column : BareRenameColumn(q, c, d)
        PROVE  CatalogTypes' /\ AsideTypes'
    BY <2>3, KeyType DEF BareDropColumn, BareRenameColumn, BareColumn, parseIgnored, catalogVars,
                         CatalogTypes, AsideTypes
  <2>4. ASSUME DropColumn(q, c) \/ \E type \in Type : AlterType(q, c, type)
        PROVE  CatalogTypes' /\ AsideTypes'
    <3>1. ASSUME DropColumn(q, c)
          PROVE  CatalogTypes' /\ AsideTypes'
      BY <3>1, KeyType DEF DropColumn, parseDropColumn, Keep, asides, CatalogTypes, AsideTypes
    <3>2. ASSUME NEW type \in Type, AlterType(q, c, type)
          PROVE  CatalogTypes' /\ AsideTypes'
      BY <3>2, KeyType DEF AlterType, parseAlterType, Keep, asides, CatalogTypes, AsideTypes
    <3> QED BY <2>4, <3>1, <3>2
  <2> QED BY <1>4, <2>1, <2>2, <2>3, <2>4 DEF ColumnChange
<1>5. ASSUME NEW auth \in BOOLEAN, OtherStatement(auth)
      PROVE  CatalogTypes' /\ AsideTypes'
  BY <1>5 DEF OtherStatement, noteAuthRefs, Keep, asides, CatalogTypes, AsideTypes
<1> QED BY <1>1, <1>2, <1>3, <1>4, <1>5, PolicyTypes, StatementKinds

RoutineTypes ==
  /\ PgR!TypeOK
  /\ Definers \in Seq(DefinerEntry)
  /\ Reviewed \subseteq RoutineKey
  /\ signatures \subseteq RoutineKey \X Signature

\* What is kept of a body's targets are spellings of tables.
LEMMA TargetsType ==
  ASSUME NEW ws \in Seq(QName)
  PROVE  writeTargets(ws) \in SUBSET QName
BY ElementOfSeq DEF writeTargets

LEMMA WithoutDefinerType ==
  ASSUME Definers \in Seq(DefinerEntry), NEW f
  PROVE  withoutDefiner(f) \in Seq(DefinerEntry)
<1>1. CASE definersNamed(f) = {}
  BY <1>1 DEF withoutDefiner
<1>2. CASE definersNamed(f) # {}
  <2>1. Len(Definers) \in Nat /\ definersNamed(f) \in SUBSET (1..Len(Definers))
    BY LenProperties DEF definersNamed
  <2>2. first(definersNamed(f)) \in definersNamed(f)
    BY <1>2, <2>1, LeastPosition
  <2>3. first(definersNamed(f)) \in 1..Len(Definers)
    BY <2>1, <2>2
  <2> QED BY <1>2, <2>3, RemoveAtType DEF withoutDefiner
<1> QED BY <1>1, <1>2

LEMMA RoutineNextTypes ==
  ASSUME theme \in Themes, RoutineTypes, RoutineStatement
  PROVE  RoutineTypes'
<1>1. PICK f \in RoutineName, s \in Signature :
        \/ \E d \in PgR!Definition, orReplace \in BOOLEAN : CreateRoutine(f, s, d, orReplace)
        \/ \E ifExists \in BOOLEAN : DropRoutine(f, s, ifExists)
        \/ DropRoutineUnseen(f, s)
        \/ \E definer \in BOOLEAN : AlterSecurity(f, s, definer)
  BY ThemeType DEF RoutineStatement
<1>2. Key(f) \in RoutineKey
  BY DEF RoutineKey
<1>3. withoutDefiner(f) \in Seq(DefinerEntry)
  BY WithoutDefinerType DEF RoutineTypes
<1>4. ASSUME NEW d \in PgR!Definition, NEW orReplace \in BOOLEAN, CreateRoutine(f, s, d, orReplace)
      PROVE  RoutineTypes'
  <2>1. [name |-> f, writes |-> writeTargets(d.body.writes)] \in DefinerEntry
    <3>1. d.body.writes \in Seq(QName)
      BY RoutineAssumption DEF PgR!Definition
    <3> QED BY <3>1, TargetsType DEF DefinerEntry
  <2>2. Definers' \in Seq(DefinerEntry)
    BY <1>3, <1>4, <2>1, AppendProperties
       DEF CreateRoutine, parseCreateRoutine, AddSecurityDefiner, dropSecurityDefiner
  <2> QED BY <1>2, <1>4, <2>2
          DEF CreateRoutine, parseCreateRoutine, PgR!Create, PgR!TypeOK, RoutineTypes
<1>5. ASSUME NEW ifExists \in BOOLEAN, DropRoutine(f, s, ifExists)
      PROVE  RoutineTypes'
  BY <1>2, <1>3, <1>5 DEF DropRoutine, parseDropRoutine, dropSecurityDefiner, PgR!Drop, PgR!TypeOK,
                          RoutineTypes
<1>6. CASE DropRoutineUnseen(f, s)
  BY <1>2, <1>6 DEF DropRoutineUnseen, outOfSight, routineVars, PgR!Drop, PgR!TypeOK, RoutineTypes
<1>7. ASSUME NEW definer \in BOOLEAN, AlterSecurity(f, s, definer)
      PROVE  RoutineTypes'
  <2>1. pgRoutines[<<Key(f), s>>] \in PgR!Definition
    BY <1>2, <1>7 DEF AlterSecurity, PgR!SetSecurity, PgR!exists, PgR!TypeOK, RoutineTypes
  <2>2. [pgRoutines[<<Key(f), s>>] EXCEPT !.definer = definer] \in PgR!Definition
    BY <2>1 DEF PgR!Definition
  <2> QED BY <1>2, <1>7, <2>2 DEF AlterSecurity, outOfSight, routineVars, PgR!SetSecurity,
                                  PgR!TypeOK, RoutineTypes
<1> QED BY <1>1, <1>4, <1>5, <1>6, <1>7

LEMMA TypeOKParts ==
  TypeOK <=> /\ Pg!TypeOK /\ CatalogTypes /\ AsideTypes /\ RoutineTypes
             /\ theme \in Themes /\ length \in 0..theme.length
BY DEF TypeOK, CatalogTypes, AsideTypes, RoutineTypes, PolicyEntry, DefaultEntry, DefinerEntry

\* A statement is one about tables, with the routines left alone, or the
\* other way round.
LEMMA NextParts ==
  ASSUME Next
  PROVE  /\ Statement
         /\ \/ TableStatement /\ UNCHANGED routineSide
            \/ RoutineStatement /\ UNCHANGED catalogVars /\ UNCHANGED <<pgVars, asides>>
BY DEF Next, RoutineStatement, CreateRoutine, DropRoutine, parseCreateRoutine, parseDropRoutine,
       DropRoutineUnseen, AlterSecurity, outOfSight

\* Whatever the history, both catalogs hold tables, policies, columns and
\* routines of the right shape: no handler of parse.go or definer.go leaves the
\* sequences it searches, replaces in and deletes from with anything else.
THEOREM TypeCorrect == Spec => []TypeOK
<1>1. Init => TypeOK
  <2> SUFFICES ASSUME Init
               PROVE  TypeOK
    OBVIOUS
  <2>1. Pg!TypeOK /\ PgR!TypeOK
    BY DEF Init, Pg!Init, Pg!TypeOK, PgR!Init, PgR!TypeOK
  <2>2. CatalogTypes /\ AsideTypes
    BY EmptySeq DEF Init, NewCatalog, CatalogTypes, AsideTypes
  <2>3. RoutineTypes
    BY <2>1, EmptySeq DEF Init, NewRoutines, RoutineTypes
  <2>4. theme \in Themes /\ length \in 0..theme.length
    BY ThemeType DEF Init
  <2> QED BY <2>1, <2>2, <2>3, <2>4, TypeOKParts
<1>2. TypeOK /\ [Next]_vars => TypeOK'
  <2> SUFFICES ASSUME TypeOK, [Next]_vars
               PROVE  TypeOK'
    OBVIOUS
  <2>1. CASE UNCHANGED vars
    BY <2>1 DEF TypeOK, Pg!TypeOK, PgR!TypeOK, vars, catalogVars, pgVars, asides, routineSide,
                routineVars
  <2>2. CASE Next
    <3>1. theme' \in Themes /\ length' \in 0..theme'.length
      BY <2>2, ThemeType DEF Next, Statement, TypeOK
    <3>2. CASE TableStatement /\ UNCHANGED routineSide
      <4>1. Pg!TypeOK' /\ CatalogTypes' /\ AsideTypes'
        BY <3>2, TypeOKParts, StatementOfPg, PgNextTypes, CatalogNextTypes
      <4>2. RoutineTypes'
        BY <3>2, TypeOKParts DEF RoutineTypes, routineSide, routineVars, PgR!TypeOK
      <4> QED BY <3>1, <4>1, <4>2 DEF TypeOK, CatalogTypes, AsideTypes, RoutineTypes, PolicyEntry,
                                      DefaultEntry, DefinerEntry
    <3>3. CASE RoutineStatement /\ UNCHANGED catalogVars /\ UNCHANGED <<pgVars, asides>>
      <4>1. Pg!TypeOK' /\ CatalogTypes' /\ AsideTypes'
        BY <3>3, TypeOKParts DEF pgVars, asides, catalogVars, Pg!TypeOK, CatalogTypes, AsideTypes
      <4>2. RoutineTypes'
        BY <3>3, TypeOKParts, RoutineNextTypes
      <4> QED BY <3>1, <4>1, <4>2 DEF TypeOK, CatalogTypes, AsideTypes, RoutineTypes, PolicyEntry,
                                      DefaultEntry, DefinerEntry
    <3> QED BY <2>2, <3>2, <3>3, NextParts
  <2> QED BY <2>1, <2>2
<1> QED BY <1>1, <1>2, PTL DEF Spec

-----------------------------------------------------------------------------
\* Row-security flags.

\* An entry the parser has is PostgreSQL's; one it lacks is that of a table
\* nobody flagged.
FlagsInv ==
  \A t \in Settled :
    IF pgTables[t] = None THEN Tables[t] = None
    ELSE pgTables[t] = IF Tables[t] = None THEN [enabled |-> FALSE, forced |-> FALSE]
                       ELSE Tables[t]

LEMMA FlagsInvNext ==
  ASSUME theme \in Themes, Pg!TypeOK, CatalogTypes, FlagsInv, TableStatement
  PROVE  FlagsInv'
<1>1. ASSUME UNCHANGED <<pgTables, Tables, displaced>>
      PROVE  FlagsInv'
  BY <1>1 DEF FlagsInv, Settled
<1>2. ASSUME NEW q \in QName, NEW c \in Column, NEW typed \in Pg!Typed, Declaration(q, c, typed)
      PROVE  FlagsInv'
  <2>1. CASE CreateTable(q, c, typed)
    <3>1. /\ pgTables[Key(q)] = None
          /\ pgTables' = [pgTables EXCEPT ![Key(q)] = [enabled |-> FALSE, forced |-> FALSE]]
          /\ UNCHANGED <<Tables, displaced>>
      BY <2>1 DEF CreateTable, Pg!CreateTable, Pg!exists, parseColumn, Keep, asides
    <3>2. None # [enabled |-> FALSE, forced |-> FALSE]
      <4>1. [enabled |-> FALSE, forced |-> FALSE] \in [enabled : BOOLEAN, forced : BOOLEAN]
        OBVIOUS
      <4> QED BY <4>1, NoneAssumption
    <3> QED BY <3>1, <3>2, KeyType DEF FlagsInv, Settled, Pg!TypeOK
  <2>2. CASE AddColumn(q, c, typed) \/ DeclareAgain(q, c, typed)
    BY <1>1, <2>2 DEF AddColumn, DeclareAgain, Pg!AddColumn, parseColumn, pgVars, Keep, asides
  <2> QED BY <1>2, <2>1, <2>2 DEF Declaration
<1>3. ASSUME NEW q \in QName, Displacement(q)
      PROVE  FlagsInv'
  <2>1. ASSUME NEW t \in Keys, t \notin displaced'
        PROVE  t \notin displaced /\ pgTables'[t] = pgTables[t] /\ Tables'[t] = Tables[t]
    BY <1>3, <2>1 DEF Displacement, DropTable, RenameTable, parseIgnored, catalogVars,
                      Pg!DropTable, Pg!RenameTable, Pg!TypeOK
  <2> QED BY <2>1 DEF FlagsInv, Settled
<1>4. ASSUME NEW q \in QName, Flagging(q)
      PROVE  FlagsInv'
  <2>1. PICK flag \in {"enabled", "forced"}, on \in BOOLEAN : RowSecurity(q, flag, on)
    BY <1>4 DEF Flagging
  <2> DEFINE k == Key(q)
             base(f) == IF f = None THEN [enabled |-> FALSE, forced |-> FALSE] ELSE f
  <2>2. k \in Keys
    BY KeyType
  <2>3. /\ pgTables[k] # None
        /\ pgTables' = [pgTables EXCEPT ![k] = [pgTables[k] EXCEPT ![flag] = on]]
        /\ Tables' = [Tables EXCEPT ![k] = [base(Tables[k]) EXCEPT ![flag] = on]]
        /\ UNCHANGED displaced
    BY <2>1 DEF RowSecurity, Pg!SetRowSecurity, Pg!exists, parseRowSecurity, flagged, Keep, asides
  <2>4. [base(Tables[k]) EXCEPT ![flag] = on] \in Pg!Flags
    <3>1. [enabled |-> FALSE, forced |-> FALSE] \in Pg!Flags
      BY DEF Pg!Flags
    <3>2. base(Tables[k]) \in Pg!Flags
      BY <2>2, <3>1 DEF CatalogTypes
    <3> QED BY <3>2, FlagSet
  <2>5. None \notin Pg!Flags
    BY NoneAssumption DEF Pg!Flags
  <2>6. k \in Settled => pgTables[k] = base(Tables[k])
    BY <2>3 DEF FlagsInv
  <2>7. Tables'[k] # None /\ (k \in Settled => pgTables'[k] = Tables'[k])
    BY <2>2, <2>3, <2>4, <2>5, <2>6 DEF Pg!TypeOK, CatalogTypes
  <2>8. pgTables'[k] # None
    <3>1. pgTables[k] \in Pg!Flags
      BY <2>2, <2>3 DEF Pg!TypeOK
    <3>2. [pgTables[k] EXCEPT ![flag] = on] \in Pg!Flags
      BY <3>1, FlagSet
    <3> QED BY <2>2, <2>3, <2>5, <3>2 DEF Pg!TypeOK
  <2>9. \A t \in Keys \ {k} : pgTables'[t] = pgTables[t] /\ Tables'[t] = Tables[t]
    BY <2>3 DEF Pg!TypeOK, CatalogTypes
  <2> HIDE DEF k, base
  <2> QED BY <2>3, <2>7, <2>8, <2>9 DEF FlagsInv, Settled
<1>5. ASSUME NEW q \in QName, NEW n \in PolicyName, PolicyChange(q, n)
      PROVE  FlagsInv'
  BY <1>1, <1>5 DEF PolicyChange, CreatePolicyInBody, CreatePolicy, AlterPolicy, RenamePolicy,
       DropPolicy, Pg!CreatePolicy, Pg!AlterPolicy, Pg!RenamePolicy, Pg!DropPolicy, noteAuthRefs,
       parseCreatePolicy, parseAlterPolicy, parseRenamePolicy, parseDropPolicy, Keep, asides
<1>6. ASSUME NEW q \in QName, NEW c \in Column, ColumnChange(q, c)
      PROVE  FlagsInv'
  BY <1>1, <1>6 DEF ColumnChange, DropColumn, BareDropColumn, RenameColumn, BareRenameColumn,
       AlterType, SetDefault, Pg!DropColumn, Pg!RenameColumn, Pg!SetColumnType, Pg!SetDefault,
       BareColumn, parseIgnored, catalogVars, parseDropColumn, parseRenameColumn, parseAlterType,
       parseSetDefault, Keep, asides
<1>7. ASSUME NEW auth \in BOOLEAN, OtherStatement(auth)
      PROVE  FlagsInv'
  BY <1>1, <1>7 DEF OtherStatement, noteAuthRefs, pgVars, Keep, asides
<1> QED BY <1>2, <1>3, <1>4, <1>5, <1>6, <1>7, StatementKinds

LEMMA FlagsInvSuffices ==
  ASSUME FlagsInv
  PROVE  FlagsTracked
BY DEF FlagsInv, FlagsTracked, viewTables, Settled

LEMMA FlagsInvStep == TypeOK /\ FlagsInv /\ [Next]_vars => FlagsInv'
<1> SUFFICES ASSUME TypeOK, FlagsInv, [Next]_vars
             PROVE  FlagsInv'
  OBVIOUS
<1>1. CASE UNCHANGED <<pgTables, Tables, displaced>>
  BY <1>1 DEF FlagsInv, Settled
<1>2. CASE TableStatement
  BY <1>2, TypeOKParts, FlagsInvNext
<1>3. UNCHANGED vars => UNCHANGED <<pgTables, Tables, displaced>>
  BY DEF vars, catalogVars, pgVars, asides
<1>4. Next => TableStatement \/ UNCHANGED <<pgTables, Tables, displaced>>
  BY NextParts DEF catalogVars, pgVars, asides
<1> QED BY <1>1, <1>2, <1>3, <1>4

\* However long the history, ENABLE, DISABLE, FORCE and NO FORCE leave the
\* catalog with the flags PostgreSQL has, on every table that was never dropped
\* or renamed: which tables the bundle converts and FORCEs is right.
THEOREM FlagsCorrect == Spec => []FlagsTracked
<1>1. Init => FlagsInv
  BY DEF Init, Pg!Init, NewCatalog, FlagsInv, Settled
<1>2. TypeOK /\ FlagsInv /\ [Next]_vars => FlagsInv'
  BY FlagsInvStep
<1>3. FlagsInv => FlagsTracked
  BY FlagsInvSuffices
<1> QED BY <1>1, <1>2, <1>3, TypeCorrect, PTL DEF Spec

-----------------------------------------------------------------------------
\* Column types.

typeOf(column) == IF column = None THEN None ELSE column.type

LEMMA TypedNotNone == None \notin Pg!Typed
BY NoneAssumption DEF Pg!Typed

LEMMA TypesTrackedNext ==
  ASSUME theme \in Themes, Pg!TypeOK, CatalogTypes, AsideTypes, TypesTracked, TableStatement
  PROVE  TypesTracked'
<1> DEFINE inSight(x) == x \in (Settled \X Column) \ muddled
<1>1. \A x : inSight(x) => /\ x \in Keys \X Column /\ x = <<x[1], x[2]>>
                           /\ ColumnTypes[x] = typeOf(pgColumns[x])
  BY DEF TypesTracked, Settled, typeOf
<1>2. ASSUME \A x \in Keys \X Column : inSight(x)' =>
               \/ ColumnTypes'[x] = typeOf(pgColumns'[x])
               \/ inSight(x) /\ ColumnTypes'[x] = ColumnTypes[x] /\ pgColumns'[x] = pgColumns[x]
      PROVE  TypesTracked'
  BY <1>1, <1>2 DEF TypesTracked, Settled, typeOf
<1>3. ASSUME UNCHANGED <<pgColumns, ColumnTypes, displaced, muddled>>
      PROVE  TypesTracked'
  BY <1>2, <1>3 DEF Settled
<1>4. ASSUME NEW q \in QName, NEW c \in Column, NEW typed \in Pg!Typed, Declaration(q, c, typed)
      PROVE  TypesTracked'
  <2> DEFINE k == <<Key(q), c>>
  <2>1. k \in Keys \X Column
    BY KeyType
  <2>2. ColumnTypes' = [ColumnTypes EXCEPT ![k] = typed.type] /\ displaced' = displaced
    BY <1>4 DEF Declaration, CreateTable, AddColumn, DeclareAgain, parseColumn, Keep, asides
  <2>3. CASE DeclareAgain(q, c, typed)
    BY <1>2, <2>1, <2>2, <2>3 DEF DeclareAgain, pgVars, Settled, CatalogTypes
  <2>4. CASE CreateTable(q, c, typed) \/ AddColumn(q, c, typed)
    <3>1. pgColumns' = [pgColumns EXCEPT ![k] = typed] /\ muddled' = muddled
      BY <2>4 DEF CreateTable, AddColumn, Pg!CreateTable, Pg!AddColumn, Keep, asides
    <3>2. ColumnTypes'[k] = typeOf(pgColumns'[k])
      BY <2>1, <2>2, <3>1, TypedNotNone DEF typeOf, Pg!TypeOK, CatalogTypes
    <3> QED BY <1>2, <2>1, <2>2, <3>1, <3>2 DEF Settled, Pg!TypeOK, CatalogTypes
  <2> QED BY <1>4, <2>3, <2>4 DEF Declaration
<1>5. ASSUME NEW q \in QName, Displacement(q)
      PROVE  TypesTracked'
  <2>1. ColumnTypes' = ColumnTypes /\ muddled' = muddled /\ displaced \subseteq displaced'
    BY <1>5 DEF Displacement, DropTable, RenameTable, parseIgnored, catalogVars
  <2>2. ASSUME NEW x \in Keys \X Column, x[1] \notin displaced'
        PROVE  pgColumns'[x] = pgColumns[x]
    <3>1. DOMAIN pgColumns = Keys \X Column
      BY DEF Pg!TypeOK
    <3>2. CASE DropTable(q)
      BY <2>2, <3>1, <3>2 DEF DropTable, Pg!DropTable
    <3>3. ASSUME NEW r \in QName, RenameTable(q, r)
          PROVE  pgColumns'[x] = pgColumns[x]
      BY <2>2, <3>1, <3>3 DEF RenameTable, Pg!RenameTable
    <3> QED BY <1>5, <3>2, <3>3 DEF Displacement
  <2> QED BY <1>2, <2>1, <2>2 DEF Settled
<1>6. ASSUME NEW q \in QName, Flagging(q)
      PROVE  TypesTracked'
  BY <1>3, <1>6 DEF Flagging, RowSecurity, Pg!SetRowSecurity, parseRowSecurity, Keep, asides
<1>7. ASSUME NEW q \in QName, NEW n \in PolicyName, PolicyChange(q, n)
      PROVE  TypesTracked'
  BY <1>3, <1>7 DEF PolicyChange, CreatePolicyInBody, CreatePolicy, AlterPolicy, RenamePolicy,
       DropPolicy, Pg!CreatePolicy, Pg!AlterPolicy, Pg!RenamePolicy, Pg!DropPolicy, noteAuthRefs,
       parseCreatePolicy, parseAlterPolicy, parseRenamePolicy, parseDropPolicy, Keep, asides
<1>8. ASSUME NEW q \in QName, NEW c \in Column, ColumnChange(q, c)
      PROVE  TypesTracked'
  <2> DEFINE k == <<Key(q), c>>
  <2>1. k \in Keys \X Column
    BY KeyType
  <2>2. ASSUME DropColumn(q, c)
        PROVE  TypesTracked'
    <3>1. /\ pgColumns' = [pgColumns EXCEPT ![k] = None]
          /\ ColumnTypes' = [ColumnTypes EXCEPT ![k] = None]
          /\ UNCHANGED <<displaced, muddled>>
      BY <2>2 DEF DropColumn, Pg!DropColumn, parseDropColumn, Keep, asides
    <3>2. ColumnTypes'[k] = typeOf(pgColumns'[k])
      BY <2>1, <3>1 DEF typeOf, Pg!TypeOK, CatalogTypes
    <3> QED BY <1>2, <2>1, <3>1, <3>2 DEF Settled, Pg!TypeOK, CatalogTypes
  <2>3. ASSUME NEW d \in Column, RenameColumn(q, c, d)
        PROVE  TypesTracked'
    <3> DEFINE l == <<Key(q), d>>
    <3>1. /\ pgColumns[k] # None /\ pgColumns[l] = None
          /\ pgColumns' = [pgColumns EXCEPT ![k] = None, ![l] = pgColumns[k]]
          /\ ColumnTypes' = [ColumnTypes EXCEPT ![k] = None, ![l] = ColumnTypes[k]]
          /\ displaced' = displaced
          /\ muddled' = IF k \in muddled THEN muddled \cup {l} ELSE muddled
      BY <2>3 DEF RenameColumn, Pg!RenameColumn, Pg!hasColumn, parseRenameColumn
    <3>2. k # l /\ l \in Keys \X Column
      BY <3>1, KeyType
    <3>3. ColumnTypes'[k] = typeOf(pgColumns'[k])
      BY <2>1, <3>1, <3>2 DEF typeOf, Pg!TypeOK, CatalogTypes
    <3>4. inSight(l)' => ColumnTypes'[l] = typeOf(pgColumns'[l])
      <4>1. inSight(l)' => inSight(k)
        BY <2>1, <3>1 DEF Settled
      <4>2. ColumnTypes'[l] = ColumnTypes[k] /\ pgColumns'[l] = pgColumns[k]
        BY <2>1, <3>1, <3>2 DEF Pg!TypeOK, CatalogTypes
      <4> QED BY <1>1, <4>1, <4>2
    <3>5. \A x \in (Keys \X Column) \ {k, l} :
            ColumnTypes'[x] = ColumnTypes[x] /\ pgColumns'[x] = pgColumns[x]
      BY <3>1 DEF Pg!TypeOK, CatalogTypes
    <3>6. \A x : inSight(x)' => inSight(x) \/ x = l
      BY <3>1 DEF Settled
    <3> HIDE DEF inSight, k, l
    <3> QED BY <1>2, <3>3, <3>4, <3>5, <3>6
  <2>4. ASSUME \/ BareDropColumn(q, c)
               \/ \E d \in Column : BareRenameColumn(q, c, d)
        PROVE  TypesTracked'
    <3>1. PICK d \in Column :
            /\ \/ pgColumns' = [pgColumns EXCEPT ![k] = None] /\ muddled' = muddled \cup {k}
               \/ /\ pgColumns' = [pgColumns EXCEPT ![k] = None, ![<<Key(q), d>>] = pgColumns[k]]
                  /\ muddled' = muddled \cup {k, <<Key(q), d>>}
            /\ UNCHANGED <<ColumnTypes, displaced>>
      <4>1. CASE BareDropColumn(q, c)
        BY <4>1 DEF BareDropColumn, BareColumn, Pg!DropColumn, parseIgnored, catalogVars
      <4>2. ASSUME NEW d \in Column, BareRenameColumn(q, c, d)
            PROVE  /\ pgColumns' = [pgColumns EXCEPT ![k] = None, ![<<Key(q), d>>] = pgColumns[k]]
                   /\ muddled' = muddled \cup {k, <<Key(q), d>>}
                   /\ UNCHANGED <<ColumnTypes, displaced>>
        BY <4>2 DEF BareRenameColumn, BareColumn, Pg!RenameColumn, parseIgnored, catalogVars
      <4> QED BY <2>4, <4>1, <4>2
    <3> QED BY <1>2, <2>1, <3>1 DEF Settled, Pg!TypeOK
  <2>5. ASSUME NEW type \in Type, AlterType(q, c, type)
        PROVE  TypesTracked'
    <3>1. /\ pgColumns[k] # None
          /\ pgColumns' = [pgColumns EXCEPT ![k].type = type]
          /\ ColumnTypes' = [ColumnTypes EXCEPT ![k] = type]
          /\ UNCHANGED <<displaced, muddled>>
      BY <2>5 DEF AlterType, Pg!SetColumnType, Pg!hasColumn, parseAlterType, Keep, asides
    <3>2. pgColumns'[k] = [pgColumns[k] EXCEPT !.type = type] /\ pgColumns[k] \in Pg!Typed
      BY <2>1, <3>1 DEF Pg!TypeOK
    <3>3. pgColumns'[k] \in Pg!Typed /\ pgColumns'[k].type = type
      BY <3>2 DEF Pg!Typed
    <3>4. ColumnTypes'[k] = typeOf(pgColumns'[k])
      BY <2>1, <3>1, <3>3, TypedNotNone DEF typeOf, CatalogTypes
    <3> QED BY <1>2, <2>1, <3>1, <3>4 DEF Settled, Pg!TypeOK, CatalogTypes
  <2>6. ASSUME NEW default \in Default, SetDefault(q, c, default)
        PROVE  TypesTracked'
    <3>1. /\ pgColumns[k] # None
          /\ pgColumns' = [pgColumns EXCEPT ![k].default = default]
          /\ UNCHANGED <<ColumnTypes, displaced, muddled>>
      BY <2>6 DEF SetDefault, Pg!SetDefault, Pg!hasColumn, parseSetDefault, Keep, asides
    <3>2. pgColumns'[k] = [pgColumns[k] EXCEPT !.default = default] /\ pgColumns[k] \in Pg!Typed
      BY <2>1, <3>1 DEF Pg!TypeOK
    <3>3. pgColumns'[k] \in Pg!Typed /\ pgColumns'[k].type = pgColumns[k].type
      BY <3>2 DEF Pg!Typed
    <3>4. inSight(k) => ColumnTypes'[k] = typeOf(pgColumns'[k])
      BY <1>1, <3>1, <3>3, TypedNotNone DEF typeOf
    <3> QED BY <1>2, <2>1, <3>1, <3>4 DEF Settled, Pg!TypeOK
  <2> QED BY <1>8, <2>2, <2>3, <2>4, <2>5, <2>6 DEF ColumnChange
<1>9. ASSUME NEW auth \in BOOLEAN, OtherStatement(auth)
      PROVE  TypesTracked'
  BY <1>3, <1>9 DEF OtherStatement, noteAuthRefs, pgVars, Keep, asides
<1> QED BY <1>4, <1>5, <1>6, <1>7, <1>8, <1>9, StatementKinds

\* The column types --uid-type text reads follow every definition, drop, rename
\* and change of type, whatever the statements in between and however many.
THEOREM TypesCorrect == Spec => []TypesTracked
<1>1. Init => TypesTracked
  BY DEF Init, Pg!Init, NewCatalog, TypesTracked, Settled
<1>2. TypeOK /\ TypesTracked /\ [Next]_vars => TypesTracked'
  <2> SUFFICES ASSUME TypeOK, TypesTracked, [Next]_vars
               PROVE  TypesTracked'
    OBVIOUS
  <2>1. CASE UNCHANGED <<pgColumns, ColumnTypes, displaced, muddled>>
    BY <2>1 DEF TypesTracked, Settled
  <2>2. CASE TableStatement
    BY <2>2, TypeOKParts, TypesTrackedNext
  <2>3. UNCHANGED vars => UNCHANGED <<pgColumns, ColumnTypes, displaced, muddled>>
    BY DEF vars, catalogVars, pgVars, asides
  <2>4. Next => TableStatement \/ UNCHANGED <<pgColumns, ColumnTypes, displaced, muddled>>
    BY NextParts DEF catalogVars, pgVars, asides
  <2> QED BY <2>1, <2>2, <2>3, <2>4
<1> QED BY <1>1, <1>2, TypeCorrect, PTL DEF Spec

-----------------------------------------------------------------------------
\* Policies.

InSight == (Settled \X PolicyName) \ unseen

PoliciesInv == \A x \in InSight : Agrees(Policies, x, pgPolicies[x])

LEMMA DefinitionNotNone == None \notin Pg!Definition
BY NoneAssumption DEF Pg!Definition

\* What the statement says of policy <<Key(q), n>> in PostgreSQL is what its
\* handler says in the catalog; the other policies stay.
LEMMA PolicyChangeTracked ==
  ASSUME Pg!TypeOK, CatalogTypes, AsideTypes, PoliciesInv,
         NEW q \in QName, NEW n \in PolicyName, PolicyChange(q, n)
  PROVE  PoliciesInv'
<1> DEFINE y == <<Key(q), n>>
           found == matches(n, q)
           i == first(found)
<1>1. y \in Keys \X PolicyName /\ y[1] = Key(q) /\ y[2] = n
  BY KeyType
<1>2. \A x \in Keys \X PolicyName : x = <<x[1], x[2]>>
  OBVIOUS
<1>3. InSight \subseteq Keys \X PolicyName
  BY DEF InSight, Settled
<1>4. /\ Policies \in Seq(PolicyEntry)
      /\ DOMAIN pgPolicies = Keys \X PolicyName
      /\ pgPolicies \in [Keys \X PolicyName -> Pg!Definition \cup {None}]
  BY DEF CatalogTypes, Pg!TypeOK
<1>5. ASSUME found # {}
      PROVE  /\ i \in 1..Len(Policies) /\ Policies[i] \in PolicyEntry
             /\ \A x \in Keys \X PolicyName : names(Policies, i, x) <=> x = y
             /\ y \in InSight => pgPolicies[y] # None /\ Policies[i].def = pgPolicies[y]
  <2>1. i \in 1..Len(Policies) /\ names(Policies, i, y)
    BY <1>4, <1>5, Found
  <2>2. Policies[i] \in PolicyEntry
    BY <1>4, <2>1, ElementOfSeq
  <2>3. \A x \in Keys \X PolicyName : names(Policies, i, x) <=> x = y
    BY <1>1, <1>2, <2>1 DEF names
  <2>4. y \in InSight => pgPolicies[y] # None /\ Policies[i].def = pgPolicies[y]
    BY <2>1 DEF PoliciesInv, Agrees
  <2> QED BY <2>1, <2>2, <2>3, <2>4
<1>6. ASSUME found = {}, y \in InSight
      PROVE  pgPolicies[y] = None
  BY <1>6, NotFound DEF PoliciesInv
<1> HIDE DEF i, found
<1>7. ASSUME NEW d \in Pg!Definition, CreatePolicyInBody(q, n, d)
      PROVE  PoliciesInv'
  <2>1. /\ pgPolicies' = [pgPolicies EXCEPT ![y] = d]
        /\ Policies' = Policies /\ InSight' = InSight \ {y}
    BY <1>7 DEF CreatePolicyInBody, Pg!CreatePolicy, noteAuthRefs, InSight, Settled
  <2>2. \A x \in InSight' : pgPolicies'[x] = pgPolicies[x] /\ x \in InSight
    BY <2>1, <1>3, <1>4
  <2> QED BY <2>1, <2>2 DEF PoliciesInv
<1>8. ASSUME NEW d \in Pg!Definition, CreatePolicy(q, n, d)
      PROVE  PoliciesInv'
  <2> DEFINE p == [name |-> n, table |-> q, def |-> d]
  <2>1. /\ pgPolicies[y] = None
        /\ pgPolicies' = [pgPolicies EXCEPT ![y] = d]
        /\ Policies' = IF found = {} THEN Append(Policies, p) ELSE [Policies EXCEPT ![i] = p]
        /\ InSight' = InSight
    BY <1>8 DEF CreatePolicy, Pg!CreatePolicy, Pg!hasPolicy, parseCreatePolicy, upsertPolicy,
                found, i, Keep, asides, InSight, Settled
  <2>2. p \in PolicyEntry /\ p.def = d /\ d # None
    BY DefinitionNotNone DEF PolicyEntry
  <2>3. \A x \in Keys \X PolicyName : names(<<p>>, 1, x) <=> x = y
    BY <1>1, <1>2 DEF names
  <2> HIDE DEF p
  <2> SUFFICES ASSUME NEW x \in InSight
               PROVE  Agrees(Policies', x, pgPolicies'[x])
    BY <2>1 DEF PoliciesInv
  <2>4. Agrees(Policies, x, pgPolicies[x]) /\ x \in Keys \X PolicyName
    BY <1>3 DEF PoliciesInv
  <2>5. pgPolicies'[x] = IF x = y THEN d ELSE pgPolicies[x]
    BY <2>1, <2>4, <1>4
  <2>6. CASE found = {}
    BY <1>4, <2>1, <2>2, <2>3, <2>4, <2>5, <2>6, AppendAgrees
  <2>7. CASE found # {}
    <3>1. x # y
      BY <1>5, <2>1, <2>7
    <3> QED BY <1>4, <1>5, <2>1, <2>2, <2>3, <2>4, <2>5, <2>7, <3>1, ReplaceAgrees
  <2> QED BY <2>6, <2>7
<1>9. ASSUME NEW S \in SUBSET Clause, NEW changes \in [S -> Value], AlterPolicy(q, n, changes)
      PROVE  PoliciesInv'
  <2> DEFINE p == [Policies[i] EXCEPT !.def = amended(@, changes)]
  <2>1. /\ pgPolicies[y] # None
        /\ pgPolicies' = [pgPolicies EXCEPT ![y] = amended(@, changes)]
        /\ Policies' = IF found = {} THEN Policies
                       ELSE [Policies EXCEPT ![i].def = amended(@, changes)]
        /\ InSight' = InSight
    BY <1>9 DEF AlterPolicy, Pg!AlterPolicy, Pg!hasPolicy, parseAlterPolicy, amended,
                found, i, Keep, asides, InSight, Settled
  <2> SUFFICES ASSUME NEW x \in InSight
               PROVE  Agrees(Policies', x, pgPolicies'[x])
    BY <2>1 DEF PoliciesInv
  <2>2. Agrees(Policies, x, pgPolicies[x]) /\ x \in Keys \X PolicyName
    BY <1>3 DEF PoliciesInv
  <2>3. pgPolicies'[x] = IF x = y THEN amended(pgPolicies[y], changes) ELSE pgPolicies[x]
    BY <2>1, <2>2, <1>4
  <2>4. CASE found = {}
    BY <1>6, <2>1, <2>2, <2>3, <2>4
  <2>5. CASE found # {}
    <3>1. Policies[i] \in PolicyEntry /\ Policies[i].def \in Pg!Definition
      BY <1>5, <2>5 DEF PolicyEntry
    <3>2. amended(Policies[i].def, changes) \in Pg!Definition
      BY <3>1 DEF amended, Pg!Definition
    <3>3. /\ p \in PolicyEntry /\ p.def = amended(Policies[i].def, changes) /\ p.def # None
          /\ p.name = Policies[i].name /\ p.table = Policies[i].table
      BY <3>1, <3>2, DefinitionNotNone DEF PolicyEntry
    <3>4. names(<<p>>, 1, x) <=> names(Policies, i, x)
      BY <3>3 DEF names
    <3>5. Policies' = [Policies EXCEPT ![i] = p]
      BY <2>1, <2>5
    <3> HIDE DEF p
    <3>6. CASE x = y
      <4>1. p.def = pgPolicies'[x]
        BY <1>5, <2>3, <2>5, <3>3, <3>6
      <4> QED BY <1>4, <1>5, <2>2, <2>5, <3>3, <3>4, <3>5, <3>6, <4>1, ReplaceAgrees
    <3>7. CASE x # y
      BY <1>4, <1>5, <2>2, <2>3, <2>5, <3>3, <3>4, <3>5, <3>7, ReplaceAgrees
    <3> QED BY <3>6, <3>7
  <2> QED BY <2>4, <2>5
<1>10. ASSUME NEW m \in PolicyName, RenamePolicy(q, n, m)
       PROVE  PoliciesInv'
  <2> DEFINE z == <<Key(q), m>>
             p == [Policies[i] EXCEPT !.name = m]
  <2>1. /\ pgPolicies[y] # None /\ pgPolicies[z] = None
        /\ pgPolicies' = [pgPolicies EXCEPT ![y] = None, ![z] = pgPolicies[y]]
        /\ Policies' = IF found = {} THEN Policies ELSE [Policies EXCEPT ![i].name = m]
        /\ displaced' = displaced
        /\ unseen' = IF y \in unseen THEN unseen \cup {z} ELSE unseen
    BY <1>10 DEF RenamePolicy, Pg!RenamePolicy, Pg!hasPolicy, parseRenamePolicy, found, i
  <2>2. z \in Keys \X PolicyName /\ z # y /\ z[1] = Key(q) /\ z[2] = m
    BY <2>1, KeyType
  <2>3. InSight' \subseteq InSight /\ (z \in InSight' => y \in InSight)
    BY <1>1, <2>1, <2>2 DEF InSight, Settled
  <2> SUFFICES ASSUME NEW x \in InSight'
               PROVE  Agrees(Policies', x, pgPolicies'[x])
    BY DEF PoliciesInv
  <2>4. Agrees(Policies, x, pgPolicies[x]) /\ x \in Keys \X PolicyName /\ x \in InSight
    BY <1>3, <2>3 DEF PoliciesInv
  <2>5. pgPolicies'[x] = IF x = z THEN pgPolicies[y] ELSE IF x = y THEN None ELSE pgPolicies[x]
    BY <2>1, <2>2, <2>4, <1>1, <1>4
  <2> HIDE DEF y, z
  <2>6. CASE found = {}
    BY <1>6, <2>1, <2>3, <2>4, <2>5, <2>6
  <2>7. CASE found # {}
    <3>1. Policies[i] \in PolicyEntry /\ Policies[i].def \in Pg!Definition
      BY <1>5, <2>7 DEF PolicyEntry
    <3>2. p \in PolicyEntry /\ p.def = Policies[i].def /\ p.def # None /\ p.name = m
          /\ p.table = Policies[i].table
      BY <3>1, DefinitionNotNone DEF PolicyEntry
    <3>3. names(Policies, i, y)
      BY <1>1, <1>5, <2>7
    <3>4. names(<<p>>, 1, x) <=> x = z
      BY <1>1, <1>2, <2>2, <2>4, <3>2, <3>3 DEF names, z
    <3>5. Policies' = [Policies EXCEPT ![i] = p]
      BY <2>1, <2>7
    <3>6. i \in 1..Len(Policies) /\ (names(Policies, i, x) <=> x = y)
      BY <1>5, <2>4, <2>7
    <3> HIDE DEF p
    <3>7. CASE x = z
      <4>1. pgPolicies[x] = None /\ pgPolicies'[x] = p.def
        BY <1>5, <2>1, <2>3, <2>5, <2>7, <3>2, <3>7
      <4> QED BY <1>4, <2>4, <3>2, <3>4, <3>5, <3>6, <3>7, <4>1, ReplaceAgrees
    <3>8. CASE x # z
      BY <1>4, <2>4, <2>5, <3>2, <3>4, <3>5, <3>6, <3>8, ReplaceAgrees
    <3> QED BY <3>7, <3>8
  <2> QED BY <2>6, <2>7
<1>11. ASSUME NEW ifExists \in BOOLEAN, DropPolicy(q, n, ifExists)
       PROVE  PoliciesInv'
  <2>1. /\ pgPolicies' = [pgPolicies EXCEPT ![y] = None]
        /\ Policies' = IF found = {} THEN Policies ELSE removeAt(Policies, i)
        /\ InSight' = InSight
    BY <1>11 DEF DropPolicy, Pg!DropPolicy, parseDropPolicy, found, i, Keep, asides,
                 InSight, Settled
  <2> SUFFICES ASSUME NEW x \in InSight
               PROVE  Agrees(Policies', x, pgPolicies'[x])
    BY <2>1 DEF PoliciesInv
  <2>2. Agrees(Policies, x, pgPolicies[x]) /\ x \in Keys \X PolicyName
    BY <1>3 DEF PoliciesInv
  <2>3. pgPolicies'[x] = IF x = y THEN None ELSE pgPolicies[x]
    BY <2>1, <2>2, <1>4
  <2>4. CASE found = {}
    BY <1>6, <2>1, <2>2, <2>3, <2>4
  <2>5. CASE found # {}
    <3>1. i \in 1..Len(Policies) /\ (names(Policies, i, x) <=> x = y)
      BY <1>5, <2>2, <2>5
    <3>2. Agrees(removeAt(Policies, i), x, IF names(Policies, i, x) THEN None ELSE pgPolicies[x])
      BY <1>4, <2>2, <3>1, RemoveAgrees
    <3> QED BY <2>1, <2>3, <2>5, <3>1, <3>2
  <2> QED BY <2>4, <2>5
<1> QED BY <1>7, <1>8, <1>9, <1>10, <1>11 DEF PolicyChange

LEMMA PoliciesInvNext ==
  ASSUME theme \in Themes, Pg!TypeOK, CatalogTypes, AsideTypes, PoliciesInv, TableStatement
  PROVE  PoliciesInv'
<1>1. ASSUME Policies' = Policies, InSight' \subseteq InSight,
             \A x \in InSight' : pgPolicies'[x] = pgPolicies[x]
      PROVE  PoliciesInv'
  BY <1>1 DEF PoliciesInv
<1>2. ASSUME UNCHANGED <<pgPolicies, Policies, displaced, unseen>>
      PROVE  PoliciesInv'
  BY <1>1, <1>2 DEF InSight, Settled
<1>3. ASSUME NEW q \in QName, NEW c \in Column, NEW typed \in Pg!Typed, Declaration(q, c, typed)
      PROVE  PoliciesInv'
  BY <1>2, <1>3 DEF Declaration, CreateTable, AddColumn, DeclareAgain, Pg!CreateTable,
                    Pg!AddColumn, parseColumn, pgVars, Keep, asides
<1>4. ASSUME NEW q \in QName, Displacement(q)
      PROVE  PoliciesInv'
  <2>1. Policies' = Policies /\ unseen' = unseen /\ displaced \subseteq displaced'
    BY <1>4 DEF Displacement, DropTable, RenameTable, parseIgnored, catalogVars
  <2>2. ASSUME NEW x \in Keys \X PolicyName, x[1] \notin displaced'
        PROVE  pgPolicies'[x] = pgPolicies[x]
    <3>1. DOMAIN pgPolicies = Keys \X PolicyName
      BY DEF Pg!TypeOK
    <3>2. CASE DropTable(q)
      BY <2>2, <3>1, <3>2 DEF DropTable, Pg!DropTable
    <3>3. ASSUME NEW r \in QName, RenameTable(q, r)
          PROVE  pgPolicies'[x] = pgPolicies[x]
      BY <2>2, <3>1, <3>3 DEF RenameTable, Pg!RenameTable
    <3> QED BY <1>4, <3>2, <3>3 DEF Displacement
  <2>3. InSight' \subseteq InSight
    BY <2>1 DEF InSight, Settled
  <2>4. \A x \in InSight' : x \in Keys \X PolicyName /\ x[1] \notin displaced'
    BY DEF InSight, Settled
  <2> QED BY <1>1, <2>1, <2>2, <2>3, <2>4
<1>5. ASSUME NEW q \in QName, Flagging(q)
      PROVE  PoliciesInv'
  BY <1>2, <1>5 DEF Flagging, RowSecurity, Pg!SetRowSecurity, parseRowSecurity, Keep, asides
<1>6. ASSUME NEW q \in QName, NEW c \in Column, ColumnChange(q, c)
      PROVE  PoliciesInv'
  BY <1>2, <1>6 DEF ColumnChange, DropColumn, BareDropColumn, RenameColumn, BareRenameColumn,
       AlterType, SetDefault, Pg!DropColumn, Pg!RenameColumn, Pg!SetColumnType, Pg!SetDefault,
       BareColumn, parseIgnored, catalogVars, parseDropColumn, parseRenameColumn, parseAlterType,
       parseSetDefault, Keep, asides
<1>7. ASSUME NEW auth \in BOOLEAN, OtherStatement(auth)
      PROVE  PoliciesInv'
  BY <1>2, <1>7 DEF OtherStatement, noteAuthRefs, pgVars, Keep, asides
<1> QED BY <1>3, <1>4, <1>5, <1>6, <1>7, PolicyChangeTracked, StatementKinds

LEMMA PoliciesInvInit == Init => PoliciesInv
<1> SUFFICES ASSUME Init
             PROVE  PoliciesInv
  OBVIOUS
<1>1. Policies = <<>> /\ pgPolicies = [x \in Keys \X PolicyName |-> None]
  BY DEF Init, NewCatalog, Pg!Init
<1>2. InSight \subseteq Keys \X PolicyName
  BY DEF InSight, Settled
<1> QED BY <1>1, <1>2, EmptySeq DEF PoliciesInv, Agrees

LEMMA PoliciesInvSuffices ==
  ASSUME CatalogTypes, PoliciesInv
  PROVE  PoliciesTracked
<1> SUFFICES ASSUME NEW x \in InSight
             PROVE  recorded[x] = pgPolicies[x] /\ \A i, j \in entries(x) : i = j
  BY DEF PoliciesTracked, InSight
<1>1. Agrees(Policies, x, pgPolicies[x])
  BY DEF PoliciesInv
<1>2. entries(x) = {i \in 1..Len(Policies) : names(Policies, i, x)}
  BY DEF entries, names
<1>3. \A i, j \in entries(x) : i = j
  BY <1>1, <1>2 DEF Agrees
<1>4. recorded[x] = IF entries(x) = {} THEN None ELSE Policies[first(entries(x))].def
  BY DEF recorded, InSight, Settled
<1>5. CASE entries(x) = {}
  BY <1>1, <1>2, <1>4, <1>5 DEF Agrees
<1>6. CASE entries(x) # {}
  <2>1. Len(Policies) \in Nat /\ entries(x) \in SUBSET (1..Len(Policies))
    BY <1>2, LenProperties DEF CatalogTypes
  <2>2. first(entries(x)) \in entries(x)
    BY <1>6, <2>1, LeastPosition
  <2> QED BY <1>1, <1>2, <1>3, <1>4, <1>6, <2>2 DEF Agrees
<1> QED BY <1>3, <1>5, <1>6

LEMMA PoliciesInvStep == TypeOK /\ PoliciesInv /\ [Next]_vars => PoliciesInv'
<1> SUFFICES ASSUME TypeOK, PoliciesInv, [Next]_vars
             PROVE  PoliciesInv'
  OBVIOUS
<1>1. CASE UNCHANGED <<pgPolicies, Policies, displaced, unseen>>
  BY <1>1 DEF PoliciesInv, InSight, Settled
<1>2. CASE TableStatement
  BY <1>2, TypeOKParts, PoliciesInvNext
<1>3. UNCHANGED vars => UNCHANGED <<pgPolicies, Policies, displaced, unseen>>
  BY DEF vars, catalogVars, pgVars, asides
<1>4. Next => TableStatement \/ UNCHANGED <<pgPolicies, Policies, displaced, unseen>>
  BY NextParts DEF catalogVars, pgVars, asides
<1> QED BY <1>1, <1>2, <1>3, <1>4

\* However many statements, and however each spelled its table, a policy of a
\* table that was never dropped or renamed is in the catalog once, with its last
\* name and clauses, exactly when PostgreSQL has it.
THEOREM PoliciesCorrect == Spec => []PoliciesTracked
<1>1. TypeOK /\ PoliciesInv /\ [Next]_vars => PoliciesInv'
  BY PoliciesInvStep
<1>2. TypeOK /\ PoliciesInv => PoliciesTracked
  BY TypeOKParts, PoliciesInvSuffices
<1> QED BY <1>1, <1>2, PoliciesInvInit, TypeCorrect, PTL DEF Spec

-----------------------------------------------------------------------------
\* The catalog implements PostgreSQL's.

\* What the view takes from the catalog agrees, and the rest it takes from
\* PostgreSQL.
ViewInv == viewTables = pgTables /\ viewPolicies = pgPolicies

LEMMA ViewIsPg ==
  ASSUME TypeOK, FlagsTracked, PoliciesTracked
  PROVE  ViewInv
<1>1. /\ pgTables = [t \in Keys |-> pgTables[t]]
      /\ pgPolicies = [x \in Keys \X PolicyName |-> pgPolicies[x]]
  BY DEF TypeOK, Pg!TypeOK
<1>2. ASSUME NEW t \in Keys
      PROVE  viewTables[t] = pgTables[t]
  <2>1. CASE t \in displaced
    BY <2>1 DEF viewTables, Settled
  <2>2. CASE t \notin displaced
    BY <2>2 DEF FlagsTracked, Settled
  <2> QED BY <2>1, <2>2
<1>3. ASSUME NEW x \in Keys \X PolicyName
      PROVE  viewPolicies[x] = pgPolicies[x]
  <2>1. CASE x[1] \in displaced \/ x \in unseen
    BY <2>1 DEF viewPolicies
  <2>2. CASE x[1] \notin displaced /\ x \notin unseen
    <3>1. x \in (Settled \X PolicyName) \ unseen
      BY <2>2 DEF Settled
    <3> QED BY <2>2, <3>1 DEF PoliciesTracked, viewPolicies
  <2> QED BY <2>1, <2>2
<1>4. viewTables = [t \in Keys |-> viewTables[t]]
  BY DEF viewTables
<1>5. viewPolicies = [x \in Keys \X PolicyName |-> viewPolicies[x]]
  BY DEF viewPolicies
<1> QED BY <1>1, <1>2, <1>3, <1>4, <1>5 DEF ViewInv

\* A step of PostgreSQL's is one of the view's.
LEMMA ViewFollows ==
  ASSUME viewTables = pgTables, viewPolicies = pgPolicies,
         viewTables' = pgTables', viewPolicies' = pgPolicies', Pg!Next
  PROVE  View!Next
<1>1. PICK t \in Keys :
    \/ \E c \in Column, typed \in Pg!Typed : Pg!CreateTable(t, c, typed) \/ Pg!AddColumn(t, c, typed)
    \/ Pg!DropTable(t)
    \/ \E u \in Keys : Pg!RenameTable(t, u)
    \/ \E flag \in {"enabled", "forced"}, on \in BOOLEAN : Pg!SetRowSecurity(t, flag, on)
    \/ \E n \in PolicyName :
         \/ \E d \in Pg!Definition : Pg!CreatePolicy(t, n, d)
         \/ \E S \in SUBSET Clause : \E changes \in [S -> Value] : Pg!AlterPolicy(t, n, changes)
         \/ \E m \in PolicyName : Pg!RenamePolicy(t, n, m)
         \/ \E ifExists \in BOOLEAN : Pg!DropPolicy(t, n, ifExists)
    \/ \E c \in Column :
         \/ Pg!DropColumn(t, c)
         \/ \E d \in Column : Pg!RenameColumn(t, c, d)
         \/ \E type \in Type : Pg!SetColumnType(t, c, type)
         \/ \E default \in Default : Pg!SetDefault(t, c, default)
  BY DEF Pg!Next
<1> USE DEF Pg!exists, View!exists, Pg!hasPolicy, View!hasPolicy, Pg!hasColumn, View!hasColumn
<1>2. ASSUME NEW c \in Column, NEW typed \in Pg!Typed,
             Pg!CreateTable(t, c, typed) \/ Pg!AddColumn(t, c, typed)
      PROVE  View!Next
  BY <1>2 DEF View!Next, Pg!Typed, View!Typed, Pg!CreateTable, View!CreateTable, Pg!AddColumn,
              View!AddColumn
<1>3. CASE Pg!DropTable(t)
  BY <1>3 DEF View!Next, Pg!DropTable, View!DropTable
<1>4. ASSUME NEW u \in Keys, Pg!RenameTable(t, u)
      PROVE  View!Next
  BY <1>4 DEF View!Next, Pg!RenameTable, View!RenameTable
<1>5. ASSUME NEW flag \in {"enabled", "forced"}, NEW on \in BOOLEAN, Pg!SetRowSecurity(t, flag, on)
      PROVE  View!Next
  BY <1>5 DEF View!Next, Pg!SetRowSecurity, View!SetRowSecurity
<1>6. ASSUME NEW n \in PolicyName, NEW d \in Pg!Definition, Pg!CreatePolicy(t, n, d)
      PROVE  View!Next
  BY <1>6 DEF View!Next, Pg!Definition, View!Definition, Pg!CreatePolicy, View!CreatePolicy
<1>7. ASSUME NEW n \in PolicyName, NEW S \in SUBSET Clause, NEW changes \in [S -> Value],
             Pg!AlterPolicy(t, n, changes)
      PROVE  View!Next
  <2>1. View!AlterPolicy(t, n, changes)
    BY <1>7 DEF Pg!AlterPolicy, View!AlterPolicy
  <2> QED BY <2>1 DEF View!Next
<1>8. ASSUME NEW n \in PolicyName,
             \/ \E m \in PolicyName : Pg!RenamePolicy(t, n, m)
             \/ \E ifExists \in BOOLEAN : Pg!DropPolicy(t, n, ifExists)
      PROVE  View!Next
  BY <1>8 DEF View!Next, Pg!RenamePolicy, View!RenamePolicy, Pg!DropPolicy, View!DropPolicy
<1>9. ASSUME NEW c \in Column, Pg!DropColumn(t, c) \/ \E d \in Column : Pg!RenameColumn(t, c, d)
      PROVE  View!Next
  BY <1>9 DEF View!Next, Pg!DropColumn, View!DropColumn, Pg!RenameColumn, View!RenameColumn
<1>10. ASSUME NEW c \in Column,
              \/ \E type \in Type : Pg!SetColumnType(t, c, type)
              \/ \E default \in Default : Pg!SetDefault(t, c, default)
       PROVE  View!Next
  BY <1>10 DEF View!Next, Pg!SetColumnType, View!SetColumnType, Pg!SetDefault, View!SetDefault
<1> QED BY <1>1, <1>2, <1>3, <1>4, <1>5, <1>6, <1>7, <1>8, <1>9, <1>10

\* Statement by statement the catalog, completed by what it could not see, goes
\* through exactly the states PostgreSQL's catalog goes through, for histories
\* of any length over any names.
THEOREM CatalogImplements == Spec => Refines
<1>1. Init => View!Init
  <2> SUFFICES ASSUME Init
               PROVE  View!Init
    OBVIOUS
  <2>1. pgTables = [t \in Keys |-> None] /\ pgPolicies = [x \in Keys \X PolicyName |-> None]
        /\ pgColumns = [x \in Keys \X Column |-> None]
    BY DEF Init, Pg!Init
  <2>2. Policies = <<>> /\ displaced = {} /\ unseen = {}
    BY DEF Init, NewCatalog
  <2>3. viewTables = [t \in Keys |-> None]
    BY <2>1, <2>2 DEF viewTables
  <2>4. \A x \in Keys \X PolicyName : entries(x) = {}
    BY <2>2, EmptySeq DEF entries
  <2>5. viewPolicies = [x \in Keys \X PolicyName |-> None]
    BY <2>2, <2>4 DEF viewPolicies, recorded
  <2> QED BY <2>1, <2>3, <2>5 DEF View!Init
<1>2. TypeOK /\ FlagsTracked /\ PoliciesTracked => ViewInv
  BY ViewIsPg
<1>3. TypeOK /\ ViewInv /\ ViewInv' /\ [Next]_vars => [View!Next]_(View!vars)
  <2> SUFFICES ASSUME TypeOK, ViewInv, ViewInv', [Next]_vars
               PROVE  View!Next \/ UNCHANGED View!vars
    OBVIOUS
  <2>1. viewTables = pgTables /\ viewPolicies = pgPolicies
    BY DEF ViewInv
  <2>2. viewTables' = pgTables' /\ viewPolicies' = pgPolicies'
    BY DEF ViewInv
  <2>3. Pg!Next \/ UNCHANGED pgVars
    <3>1. CASE Next
      BY <3>1, NextParts, StatementOfPg DEF TypeOK, pgVars
    <3>2. CASE UNCHANGED vars
      BY <3>2 DEF vars, pgVars
    <3> QED BY <3>1, <3>2
  <2>4. CASE Pg!Next
    BY <2>1, <2>2, <2>4, ViewFollows
  <2>5. CASE UNCHANGED pgVars
    BY <2>1, <2>2, <2>5 DEF pgVars, View!vars
  <2> QED BY <2>3, <2>4, <2>5
<1> QED BY <1>1, <1>2, <1>3, TypeCorrect, FlagsCorrect, PoliciesCorrect, PTL DEF Spec, Refines, View!Spec

-----------------------------------------------------------------------------
\* Notes about policies.

LEMMA NoFalseAlarmNext ==
  ASSUME theme \in Themes, Pg!TypeOK, CatalogTypes, PoliciesInv, NoFalseAlarm, TableStatement
  PROVE  NoFalseAlarm'
<1>1. ASSUME displaced \subseteq displaced', unseen \subseteq unseen',
             \A a \in Notes' \ Notes : \/ a = <<"scope">>
                                       \/ a[2] \in displaced
                                       \/ <<a[2], a[3]>> \in unseen
      PROVE  NoFalseAlarm'
  BY <1>1 DEF NoFalseAlarm
<1>2. ASSUME NEW q \in QName, NEW c \in Column, NEW typed \in Pg!Typed, Declaration(q, c, typed)
      PROVE  NoFalseAlarm'
  BY <1>1, <1>2 DEF Declaration, CreateTable, AddColumn, DeclareAgain, parseColumn, Keep, asides
<1>3. ASSUME NEW q \in QName, Displacement(q) \/ Flagging(q)
      PROVE  NoFalseAlarm'
  BY <1>1, <1>3 DEF Displacement, DropTable, RenameTable, parseIgnored, catalogVars, Flagging,
                    RowSecurity, parseRowSecurity, Keep, asides
<1>4. ASSUME NEW q \in QName, NEW n \in PolicyName, PolicyChange(q, n)
      PROVE  NoFalseAlarm'
  <2> DEFINE y == <<Key(q), n>>
             outOfView == Key(q) \in displaced \/ y \in unseen
  <2>1. ASSUME matches(n, q) = {}, pgPolicies[y] # None
        PROVE  outOfView
    <3>1. y \notin InSight
      BY <2>1, NotFound DEF PoliciesInv
    <3> QED BY <3>1, KeyType DEF InSight, Settled
  <2>2. displaced' = displaced /\ unseen \subseteq unseen'
    BY <1>4 DEF PolicyChange, CreatePolicyInBody, CreatePolicy, AlterPolicy, RenamePolicy,
                DropPolicy, Keep, asides
  <2>3. CASE \E d \in Pg!Definition : CreatePolicyInBody(q, n, d) \/ CreatePolicy(q, n, d)
    BY <1>1, <2>2, <2>3 DEF CreatePolicyInBody, CreatePolicy, noteAuthRefs, parseCreatePolicy
  <2>4. CASE \/ \E S \in SUBSET Clause : \E changes \in [S -> Value] : AlterPolicy(q, n, changes)
             \/ \E m \in PolicyName : RenamePolicy(q, n, m)
    <3>1. pgPolicies[y] # None
      BY <2>4 DEF AlterPolicy, RenamePolicy, Pg!AlterPolicy, Pg!RenamePolicy, Pg!hasPolicy
    <3>2. \/ Notes' = Notes
          \/ matches(n, q) = {} /\ Notes' = Notes \cup {<<"alter", Key(q), n>>}
      BY <2>4 DEF AlterPolicy, RenamePolicy, parseAlterPolicy, parseRenamePolicy, note
    <3> QED BY <1>1, <2>1, <2>2, <3>1, <3>2
  <2>5. ASSUME NEW ifExists \in BOOLEAN, DropPolicy(q, n, ifExists)
        PROVE  NoFalseAlarm'
    <3>1. ifExists \/ pgPolicies[y] # None
      BY <2>5 DEF DropPolicy, Pg!DropPolicy, Pg!hasPolicy
    <3>2. \/ Notes' = Notes
          \/ ~ifExists /\ matches(n, q) = {} /\ Notes' = Notes \cup {<<"drop", Key(q), n>>}
      BY <2>5 DEF DropPolicy, parseDropPolicy, note
    <3> QED BY <1>1, <2>1, <2>2, <3>1, <3>2
  <2> QED BY <1>4, <2>3, <2>4, <2>5 DEF PolicyChange
<1>5. ASSUME NEW q \in QName, NEW c \in Column, ColumnChange(q, c)
      PROVE  NoFalseAlarm'
  BY <1>1, <1>5 DEF ColumnChange, DropColumn, BareDropColumn, RenameColumn, BareRenameColumn,
       AlterType, SetDefault, BareColumn, parseIgnored, catalogVars, parseDropColumn,
       parseRenameColumn, parseAlterType, parseSetDefault, Keep, asides
<1>6. ASSUME NEW auth \in BOOLEAN, OtherStatement(auth)
      PROVE  NoFalseAlarm'
  BY <1>1, <1>6 DEF OtherStatement, noteAuthRefs, note, Keep, asides
<1> QED BY <1>2, <1>3, <1>4, <1>5, <1>6, StatementKinds

\* A history PostgreSQL accepted never makes the parser report an ALTER or DROP
\* of a policy it does not know, unless the table was dropped or renamed or the
\* policy was made in a function body or DO block.
THEOREM NoFalseAlarmCorrect == Spec => []NoFalseAlarm
<1>1. Init => NoFalseAlarm
  BY DEF Init, NewCatalog, NoFalseAlarm
<1>2. TypeOK /\ PoliciesInv /\ [Next]_vars => PoliciesInv'
  BY PoliciesInvStep
<1>3. TypeOK /\ PoliciesInv /\ NoFalseAlarm /\ [Next]_vars => NoFalseAlarm'
  <2> SUFFICES ASSUME TypeOK, PoliciesInv, NoFalseAlarm, [Next]_vars
               PROVE  NoFalseAlarm'
    OBVIOUS
  <2>1. CASE UNCHANGED <<Notes, displaced, unseen>>
    BY <2>1 DEF NoFalseAlarm
  <2>2. CASE TableStatement
    BY <2>2, TypeOKParts, NoFalseAlarmNext
  <2>3. UNCHANGED vars => UNCHANGED <<Notes, displaced, unseen>>
    BY DEF vars, catalogVars, asides
  <2>4. Next => TableStatement \/ UNCHANGED <<Notes, displaced, unseen>>
    BY NextParts DEF catalogVars, asides
  <2> QED BY <2>1, <2>2, <2>3, <2>4
<1> QED BY <1>1, <1>2, <1>3, PoliciesInvInit, TypeCorrect, PTL DEF Spec

-----------------------------------------------------------------------------
\* Defaults.

ofColumn(entry) == <<Key(entry.table), entry.column>>

\* A default of another column displaces none.
LEMMA LastDefaultKept ==
  ASSUME Defaults \in Seq(DefaultEntry), NEW e \in DefaultEntry, NEW x, ofColumn(e) # x,
         Defaults' = Append(Defaults, e), NEW i \in lastDefault(x)
  PROVE  i \in lastDefault(x)' /\ Defaults'[i] = Defaults[i]
<1>1. /\ Len(Defaults) \in Nat /\ Len(Defaults') = Len(Defaults) + 1
      /\ \A k \in 1..Len(Defaults) : Defaults'[k] = Defaults[k]
      /\ Defaults'[Len(Defaults) + 1] = e
  BY AppendProperties, LenProperties
<1>2. i \in 1..Len(Defaults)
  BY DEF lastDefault
<1> QED BY <1>1, <1>2 DEF lastDefault, ofColumn

\* The one just noted is the last of its column.
LEMMA LastDefaultNew ==
  ASSUME Defaults \in Seq(DefaultEntry), NEW e \in DefaultEntry, Defaults' = Append(Defaults, e)
  PROVE  \E i \in lastDefault(ofColumn(e))' : Defaults'[i] = e
<1>1. /\ Len(Defaults) \in Nat /\ Len(Defaults') = Len(Defaults) + 1
      /\ Defaults'[Len(Defaults) + 1] = e
  BY AppendProperties, LenProperties
<1>2. Len(Defaults) + 1 \in lastDefault(ofColumn(e))'
  BY <1>1 DEF lastDefault, ofColumn
<1> QED BY <1>1, <1>2

\* x has a default that calls auth.*, and the bundle rewrites it.
Covered(x) ==
  pgColumns[x] # None /\ pgColumns[x].default \in AuthDefault =>
    \E i \in lastDefault(x) : Defaults[i].expr = pgColumns[x].default

PlainColumn == (Settled \X Column) \ (renamed \cup muddled)

\* Setting a column's default, as one of its definition or later.
LEMMA DefaultTracked ==
  ASSUME Pg!TypeOK, CatalogTypes, AuthDefaultsCovered, NEW q \in QName, NEW c \in Column,
         NEW default \in Default, noteDefault(q, c, default), PlainColumn' \subseteq PlainColumn,
         \A x \in PlainColumn' \ {<<Key(q), c>>} : pgColumns'[x] = pgColumns[x],
         <<Key(q), c>> \in PlainColumn' => pgColumns'[<<Key(q), c>>].default = default
  PROVE  AuthDefaultsCovered'
<1> DEFINE e == [table |-> q, column |-> c, expr |-> default]
<1>1. Defaults \in Seq(DefaultEntry)
  BY DEF CatalogTypes
<1>2. \A x \in PlainColumn : Covered(x)
  BY DEF AuthDefaultsCovered, PlainColumn, Covered
<1> SUFFICES ASSUME NEW x \in PlainColumn'
             PROVE  Covered(x)'
  BY DEF AuthDefaultsCovered, PlainColumn, Covered
<1>3. CASE default \notin AuthDefault
  <2>1. Defaults' = Defaults
    BY <1>3 DEF noteDefault
  <2>2. CASE x = <<Key(q), c>>
    BY <1>3, <2>2 DEF Covered
  <2>3. CASE x # <<Key(q), c>>
    BY <1>2, <2>1, <2>3 DEF Covered, lastDefault
  <2> QED BY <2>2, <2>3
<1>4. CASE default \in AuthDefault
  <2>1. Defaults' = Append(Defaults, e) /\ e \in DefaultEntry /\ ofColumn(e) = <<Key(q), c>>
    BY <1>4 DEF noteDefault, DefaultEntry, ofColumn
  <2>2. CASE x = <<Key(q), c>>
    <3>1. PICK i \in lastDefault(ofColumn(e))' : Defaults'[i] = e
      BY <1>1, <2>1, LastDefaultNew
    <3>2. lastDefault(ofColumn(e))' = lastDefault(x)'
      BY <2>1, <2>2 DEF lastDefault
    <3> QED BY <2>2, <3>1, <3>2 DEF Covered
  <2>3. CASE x # <<Key(q), c>>
    <3> HIDE DEF e
    <3>1. \A i \in lastDefault(x) : i \in lastDefault(x)' /\ Defaults'[i] = Defaults[i]
      BY <1>1, <2>1, <2>3, LastDefaultKept
    <3> QED BY <1>2, <2>3, <3>1 DEF Covered
  <2> QED BY <2>2, <2>3
<1> QED BY <1>3, <1>4

LEMMA AuthDefaultsNext ==
  ASSUME theme \in Themes, Pg!TypeOK, CatalogTypes, AsideTypes, AuthDefaultsCovered,
         TableStatement
  PROVE  AuthDefaultsCovered'
<1>1. ASSUME Defaults' = Defaults, PlainColumn' \subseteq PlainColumn,
             \A x \in PlainColumn' : \/ pgColumns'[x] = pgColumns[x]
                                     \/ pgColumns'[x] = None
                                     \/ /\ pgColumns[x] # None
                                        /\ pgColumns'[x].default = pgColumns[x].default
      PROVE  AuthDefaultsCovered'
  BY <1>1 DEF AuthDefaultsCovered, PlainColumn, lastDefault
<1>2. ASSUME UNCHANGED <<pgColumns, Defaults, displaced, renamed, muddled>>
      PROVE  AuthDefaultsCovered'
  BY <1>1, <1>2 DEF PlainColumn, Settled
<1>3. PlainColumn \subseteq Keys \X Column
  BY DEF PlainColumn, Settled
<1>4. ASSUME NEW q \in QName, NEW c \in Column, NEW typed \in Pg!Typed, Declaration(q, c, typed)
      PROVE  AuthDefaultsCovered'
  <2> DEFINE k == <<Key(q), c>>
  <2>1. k \in Keys \X Column /\ typed.default \in Default
    BY KeyType DEF Pg!Typed
  <2>2. noteDefault(q, c, typed.default)
    BY <1>4 DEF Declaration, CreateTable, AddColumn, DeclareAgain, parseColumn
  <2>3. /\ displaced' = displaced /\ renamed' = renamed
        /\ \/ pgColumns' = [pgColumns EXCEPT ![k] = typed] /\ muddled' = muddled
           \/ pgColumns' = pgColumns /\ muddled' = muddled \cup {k}
    BY <1>4 DEF Declaration, CreateTable, AddColumn, DeclareAgain, Pg!CreateTable, Pg!AddColumn,
                pgVars, Keep, asides
  <2>4. PlainColumn' \subseteq PlainColumn
    BY <2>3 DEF PlainColumn, Settled
  <2>5. \A x \in PlainColumn' \ {k} : pgColumns'[x] = pgColumns[x]
    BY <1>3, <2>1, <2>3, <2>4 DEF Pg!TypeOK
  <2>6. k \in PlainColumn' => pgColumns'[k].default = typed.default
    BY <2>1, <2>3 DEF PlainColumn, Pg!TypeOK
  <2> HIDE DEF k
  <2> QED BY <2>1, <2>2, <2>4, <2>5, <2>6, DefaultTracked DEF k
<1>5. ASSUME NEW q \in QName, Displacement(q)
      PROVE  AuthDefaultsCovered'
  <2>1. /\ Defaults' = Defaults /\ UNCHANGED <<renamed, muddled>>
        /\ displaced \subseteq displaced'
    BY <1>5 DEF Displacement, DropTable, RenameTable, parseIgnored, catalogVars
  <2>2. ASSUME NEW x \in Keys \X Column, x[1] \notin displaced'
        PROVE  pgColumns'[x] = pgColumns[x]
    <3>1. DOMAIN pgColumns = Keys \X Column
      BY DEF Pg!TypeOK
    <3>2. CASE DropTable(q)
      BY <2>2, <3>1, <3>2 DEF DropTable, Pg!DropTable
    <3>3. ASSUME NEW r \in QName, RenameTable(q, r)
          PROVE  pgColumns'[x] = pgColumns[x]
      BY <2>2, <3>1, <3>3 DEF RenameTable, Pg!RenameTable
    <3> QED BY <1>5, <3>2, <3>3 DEF Displacement
  <2>3. /\ PlainColumn' \subseteq PlainColumn
        /\ \A x \in PlainColumn' : x \in Keys \X Column /\ x[1] \notin displaced'
    BY <2>1 DEF PlainColumn, Settled
  <2> QED BY <1>1, <2>1, <2>2, <2>3
<1>6. ASSUME NEW q \in QName, Flagging(q)
      PROVE  AuthDefaultsCovered'
  BY <1>2, <1>6 DEF Flagging, RowSecurity, Pg!SetRowSecurity, parseRowSecurity, Keep, asides
<1>7. ASSUME NEW q \in QName, NEW n \in PolicyName, PolicyChange(q, n)
      PROVE  AuthDefaultsCovered'
  BY <1>2, <1>7 DEF PolicyChange, CreatePolicyInBody, CreatePolicy, AlterPolicy, RenamePolicy,
       DropPolicy, Pg!CreatePolicy, Pg!AlterPolicy, Pg!RenamePolicy, Pg!DropPolicy, noteAuthRefs,
       parseCreatePolicy, parseAlterPolicy, parseRenamePolicy, parseDropPolicy, Keep, asides
<1>8. ASSUME NEW q \in QName, NEW c \in Column, ColumnChange(q, c)
      PROVE  AuthDefaultsCovered'
  <2> DEFINE k == <<Key(q), c>>
  <2>1. k \in Keys \X Column
    BY KeyType
  <2>2. ASSUME \/ DropColumn(q, c)
               \/ BareDropColumn(q, c)
               \/ \E d \in Column : RenameColumn(q, c, d) \/ BareRenameColumn(q, c, d)
        PROVE  AuthDefaultsCovered'
    <3>1. /\ Defaults' = Defaults /\ displaced' = displaced
          /\ renamed \subseteq renamed' /\ muddled \subseteq muddled'
      BY <2>2 DEF DropColumn, BareDropColumn, RenameColumn, BareRenameColumn, BareColumn,
                  parseIgnored, catalogVars, parseDropColumn, parseRenameColumn, Keep, asides
    <3>2. \E d \in Column :
            \/ pgColumns' = [pgColumns EXCEPT ![k] = None]
            \/ /\ pgColumns' = [pgColumns EXCEPT ![k] = None, ![<<Key(q), d>>] = pgColumns[k]]
               /\ {k, <<Key(q), d>>} \subseteq renamed' \cup muddled'
      BY <2>2 DEF DropColumn, BareDropColumn, RenameColumn, BareRenameColumn, BareColumn,
                  Pg!DropColumn, Pg!RenameColumn
    <3>3. PlainColumn' \subseteq PlainColumn
      BY <3>1 DEF PlainColumn, Settled
    <3>4. \A x \in PlainColumn' : pgColumns'[x] = pgColumns[x] \/ pgColumns'[x] = None
      BY <1>3, <2>1, <3>2, <3>3 DEF PlainColumn, Pg!TypeOK
    <3> QED BY <1>1, <3>1, <3>3, <3>4
  <2>3. ASSUME NEW type \in Type, AlterType(q, c, type)
        PROVE  AuthDefaultsCovered'
    <3>1. /\ pgColumns[k] # None
          /\ pgColumns' = [pgColumns EXCEPT ![k].type = type]
          /\ UNCHANGED <<Defaults, displaced, renamed, muddled>>
      BY <2>3 DEF AlterType, Pg!SetColumnType, Pg!hasColumn, parseAlterType, Keep, asides
    <3>2. pgColumns'[k] = [pgColumns[k] EXCEPT !.type = type] /\ pgColumns[k] \in Pg!Typed
      BY <2>1, <3>1 DEF Pg!TypeOK
    <3>3. pgColumns'[k].default = pgColumns[k].default
      BY <3>2 DEF Pg!Typed
    <3>4. PlainColumn' = PlainColumn
      BY <3>1 DEF PlainColumn, Settled
    <3>5. \A x \in PlainColumn' \ {k} : pgColumns'[x] = pgColumns[x]
      BY <1>3, <2>1, <3>1, <3>4 DEF Pg!TypeOK
    <3> HIDE DEF k
    <3> QED BY <1>1, <3>1, <3>3, <3>4, <3>5
  <2>4. ASSUME NEW default \in Default, SetDefault(q, c, default)
        PROVE  AuthDefaultsCovered'
    <3>1. /\ pgColumns[k] # None
          /\ pgColumns' = [pgColumns EXCEPT ![k].default = default]
          /\ noteDefault(q, c, default)
          /\ UNCHANGED <<displaced, renamed, muddled>>
      BY <2>4 DEF SetDefault, Pg!SetDefault, Pg!hasColumn, parseSetDefault, Keep, asides
    <3>2. pgColumns'[k] = [pgColumns[k] EXCEPT !.default = default] /\ pgColumns[k] \in Pg!Typed
      BY <2>1, <3>1 DEF Pg!TypeOK
    <3>3. pgColumns'[k].default = default
      BY <3>2 DEF Pg!Typed
    <3>4. PlainColumn' = PlainColumn
      BY <3>1 DEF PlainColumn, Settled
    <3>5. \A x \in PlainColumn' \ {k} : pgColumns'[x] = pgColumns[x]
      BY <1>3, <2>1, <3>1, <3>4 DEF Pg!TypeOK
    <3> QED BY <3>1, <3>3, <3>4, <3>5, DefaultTracked
  <2> QED BY <1>8, <2>2, <2>3, <2>4 DEF ColumnChange
<1>9. ASSUME NEW auth \in BOOLEAN, OtherStatement(auth)
      PROVE  AuthDefaultsCovered'
  BY <1>2, <1>9 DEF OtherStatement, noteAuthRefs, pgVars, Keep, asides
<1> QED BY <1>4, <1>5, <1>6, <1>7, <1>8, <1>9, StatementKinds

\* Whatever the order of CREATE TABLE, ADD COLUMN, SET DEFAULT and DROP COLUMN,
\* the last default the bundle sets on a column whose default calls auth.* is
\* that very default, ported.
THEOREM AuthDefaultsCorrect == Spec => []AuthDefaultsCovered
<1>1. Init => AuthDefaultsCovered
  BY DEF Init, Pg!Init, AuthDefaultsCovered, Settled
<1>2. TypeOK /\ AuthDefaultsCovered /\ [Next]_vars => AuthDefaultsCovered'
  <2> SUFFICES ASSUME TypeOK, AuthDefaultsCovered, [Next]_vars
               PROVE  AuthDefaultsCovered'
    OBVIOUS
  <2>1. CASE UNCHANGED <<pgColumns, Defaults, displaced, renamed, muddled>>
    BY <2>1 DEF AuthDefaultsCovered, Settled, lastDefault
  <2>2. CASE TableStatement
    BY <2>2, TypeOKParts, AuthDefaultsNext
  <2>3. UNCHANGED vars => UNCHANGED <<pgColumns, Defaults, displaced, renamed, muddled>>
    BY DEF vars, catalogVars, pgVars, asides
  <2>4. Next => TableStatement \/ UNCHANGED <<pgColumns, Defaults, displaced, renamed, muddled>>
    BY NextParts DEF catalogVars, pgVars, asides
  <2> QED BY <2>1, <2>2, <2>3, <2>4
<1> QED BY <1>1, <1>2, TypeCorrect, PTL DEF Spec

-----------------------------------------------------------------------------
\* Routines.

\* Entry k is that of the routine called g.
called(s, k, g) == Key(s[k].name) = g

DefinersUnique ==
  \A g : \A i, j \in 1..Len(Definers) : called(Definers, i, g) /\ called(Definers, j, g) => i = j

\* A definer of that name and with those writes is recorded in s.
Records(s, g, writes) == \E i \in 1..Len(s) : called(s, i, g) /\ s[i].writes = writes

\* Forgetting a name forgets that one only.
LEMMA WithoutDefiner ==
  ASSUME Definers \in Seq(DefinerEntry), DefinersUnique, NEW f
  PROVE  LET t == withoutDefiner(f)
         IN  /\ \A g : \A i, j \in 1..Len(t) : called(t, i, g) /\ called(t, j, g) => i = j
             /\ \A i \in 1..Len(t) : ~called(t, i, Key(f))
             /\ \A g, writes : g # Key(f) => (Records(t, g, writes) <=> Records(Definers, g, writes))
<1> DEFINE t == withoutDefiner(f)
           D == definersNamed(f)
           d == first(D)
<1>1. D = {i \in 1..Len(Definers) : called(Definers, i, Key(f))}
  BY DEF definersNamed, called
<1>2. CASE D = {}
  <2>1. t = Definers
    BY <1>2 DEF withoutDefiner
  <2> HIDE DEF t, D, d
  <2> QED BY <1>1, <1>2, <2>1 DEF DefinersUnique, t
<1>3. CASE D # {}
  <2>1. d \in D
    <3>1. Len(Definers) \in Nat /\ D \in SUBSET (1..Len(Definers))
      BY <1>1, LenProperties
    <3> QED BY <1>3, <3>1, LeastPosition
  <2>2. d \in 1..Len(Definers) /\ called(Definers, d, Key(f)) /\ t = removeAt(Definers, d)
    BY <1>1, <1>3, <2>1 DEF withoutDefiner
  <2> HIDE DEF d, D
  <2>3. PICK from \in [1..Len(t) -> 1..Len(Definers)] :
          /\ \A m \in 1..Len(t) : from[m] # d /\ t[m] = Definers[from[m]]
          /\ \A m, l \in 1..Len(t) : from[m] = from[l] => m = l
    BY <2>2, RemoveAtElements
  <2>4. \A k \in 1..Len(Definers) : k # d => \E m \in 1..Len(t) : t[m] = Definers[k]
    BY <2>2, RemoveAtElements
  <2> HIDE DEF t
  <2>5. \A m \in 1..Len(t) : /\ from[m] \in 1..Len(Definers)
                             /\ \A g : called(t, m, g) <=> called(Definers, from[m], g)
    BY <2>3 DEF called
  <2>6. \A g : \A i, j \in 1..Len(t) : called(t, i, g) /\ called(t, j, g) => i = j
    BY <2>3, <2>5 DEF DefinersUnique
  <2>7. \A i \in 1..Len(t) : ~called(t, i, Key(f))
    BY <2>2, <2>3, <2>5 DEF DefinersUnique
  <2>8. ASSUME NEW g, NEW writes, g # Key(f)
        PROVE  Records(t, g, writes) <=> Records(Definers, g, writes)
    <3>1. ASSUME Records(t, g, writes)
          PROVE  Records(Definers, g, writes)
      BY <3>1, <2>3, <2>5 DEF Records
    <3>2. ASSUME Records(Definers, g, writes)
          PROVE  Records(t, g, writes)
      <4>1. PICK k \in 1..Len(Definers) : called(Definers, k, g) /\ Definers[k].writes = writes
        BY <3>2 DEF Records
      <4>2. k # d
        BY <2>2, <2>8, <4>1 DEF called
      <4>3. PICK m \in 1..Len(t) : t[m] = Definers[k]
        BY <2>4, <4>2
      <4> QED BY <4>1, <4>3 DEF Records, called
    <3> QED BY <3>1, <3>2
  <2> QED BY <2>6, <2>7, <2>8 DEF t
<1> QED BY <1>2, <1>3

\* AddSecurityDefiner: the name is recorded, once, with these writes.
LEMMA AddedDefiner ==
  ASSUME Definers \in Seq(DefinerEntry), DefinersUnique, NEW f \in RoutineName,
         NEW body, body.writes \in Seq(QName), AddSecurityDefiner(f, body)
  PROVE  /\ DefinersUnique'
         /\ \A writes : Records(Definers', Key(f), writes)
                          <=> writes = writeTargets(body.writes)
         /\ \A g, writes : g # Key(f) =>
              (Records(Definers', g, writes) <=> Records(Definers, g, writes))
<1> DEFINE t == withoutDefiner(f)
           w == writeTargets(body.writes)
           e == [name |-> f, writes |-> w]
<1>1. t \in Seq(DefinerEntry) /\ e \in DefinerEntry /\ Definers' = Append(t, e)
  BY WithoutDefinerType, TargetsType DEF AddSecurityDefiner, DefinerEntry
<1> HIDE DEF w
<1>2. /\ \A g : \A i, j \in 1..Len(t) : called(t, i, g) /\ called(t, j, g) => i = j
      /\ \A i \in 1..Len(t) : ~called(t, i, Key(f))
      /\ \A g, writes : g # Key(f) => (Records(t, g, writes) <=> Records(Definers, g, writes))
  BY WithoutDefiner
<1> HIDE DEF t
<1>3. /\ Len(t) \in Nat /\ Len(Definers') = Len(t) + 1
      /\ \A k \in 1..Len(t) : Definers'[k] = t[k]
      /\ Definers'[Len(t) + 1] = e
  BY <1>1, AppendProperties, LenProperties
<1>4. \A k \in 1..Len(Definers') : k \in 1..Len(t) \/ k = Len(t) + 1
  BY <1>3
<1>5. /\ \A k \in 1..Len(t) : \A g : called(Definers', k, g) <=> called(t, k, g)
      /\ \A g : called(Definers', Len(t) + 1, g) <=> g = Key(f)
  BY <1>3 DEF called
<1>6. DefinersUnique'
  <2> SUFFICES ASSUME NEW g, NEW i \in 1..Len(Definers'), NEW j \in 1..Len(Definers'),
                      called(Definers', i, g), called(Definers', j, g)
               PROVE  i = j
    BY DEF DefinersUnique
  <2> QED BY <1>2, <1>4, <1>5
<1>7. \A writes : Records(Definers', Key(f), writes) <=> writes = w
  <2>1. Len(t) + 1 \in 1..Len(Definers')
    BY <1>3
  <2> QED BY <1>2, <1>3, <1>4, <1>5, <2>1 DEF Records
<1>8. ASSUME NEW g, NEW writes, g # Key(f)
      PROVE  Records(Definers', g, writes) <=> Records(Definers, g, writes)
  <2>1. \A k \in 1..Len(t) : k \in 1..Len(Definers')
    BY <1>3
  <2>2. Records(Definers', g, writes) <=> Records(t, g, writes)
    BY <1>3, <1>4, <1>5, <1>8, <2>1 DEF Records
  <2> QED BY <1>2, <1>8, <2>2
<1> QED BY <1>6, <1>7, <1>8 DEF w

LEMMA DroppedDefiner ==
  ASSUME Definers \in Seq(DefinerEntry), DefinersUnique, NEW f, dropSecurityDefiner(f)
  PROVE  /\ DefinersUnique'
         /\ \A writes : ~Records(Definers', Key(f), writes)
         /\ \A g, writes : g # Key(f) =>
              (Records(Definers', g, writes) <=> Records(Definers, g, writes))
<1> DEFINE t == withoutDefiner(f)
<1>1. Definers' = t
  BY DEF dropSecurityDefiner
<1>2. /\ \A g : \A i, j \in 1..Len(t) : called(t, i, g) /\ called(t, j, g) => i = j
      /\ \A i \in 1..Len(t) : ~called(t, i, Key(f))
      /\ \A g, writes : g # Key(f) => (Records(t, g, writes) <=> Records(Definers, g, writes))
  BY WithoutDefiner
<1> HIDE DEF t
<1>3. DefinersUnique'
  BY <1>1, <1>2 DEF DefinersUnique
<1>4. \A writes : ~Records(Definers', Key(f), writes)
  BY <1>1, <1>2 DEF Records
<1> QED BY <1>1, <1>2, <1>3, <1>4

isDefiner(x) == pgRoutines[x] # None /\ pgRoutines[x].definer

\* Of a plain name the parser records a definer exactly when PostgreSQL has
\* one, with what its body writes.
RoutinesInv ==
  /\ DefinersUnique
  /\ \A x \in RoutineKey \X Signature : pgRoutines[x] # None => x \in signatures
  /\ \A f \in plain : \A writes : Records(Definers, f, writes) <=>
       \E s \in Signature : isDefiner(<<f, s>>) /\ writeTargets(pgRoutines[<<f, s>>].body.writes) = writes
  /\ \A x \in RoutineKey \X Signature :
       pgRoutines[x] # None /\ pgRoutines[x].body.auth => x[1] \in Reviewed

\* A statement about f touches no other name's routines.
LEMMA OtherRoutines ==
  ASSUME RoutineTypes, RoutinesInv, NEW f \in RoutineKey,
         \A g \in RoutineKey \ {f}, s \in Signature : pgRoutines'[<<g, s>>] = pgRoutines[<<g, s>>],
         \A g \in RoutineKey \ {f}, s \in Signature :
           <<g, s>> \in signatures' <=> <<g, s>> \in signatures,
         \A g \in RoutineKey \ {f} : \A writes :
           Records(Definers', g, writes) <=> Records(Definers, g, writes)
  PROVE  \A g \in plain' \ {f} : \A writes : Records(Definers', g, writes) <=>
           \E s \in Signature : isDefiner(<<g, s>>)' /\ writeTargets(pgRoutines'[<<g, s>>].body.writes) = writes
<1> SUFFICES ASSUME NEW g \in plain' \ {f}
             PROVE  \A writes : Records(Definers', g, writes) <=>
               \E s \in Signature : isDefiner(<<g, s>>)' /\ writeTargets(pgRoutines'[<<g, s>>].body.writes) = writes
  OBVIOUS
<1>1. g \in plain /\ g \in RoutineKey \ {f}
  BY DEF plain
<1> QED BY <1>1 DEF RoutinesInv, isDefiner

LEMMA RoutinesInvNext ==
  ASSUME theme \in Themes, RoutineTypes, RoutinesInv, RoutineStatement
  PROVE  RoutinesInv'
<1>1. PICK n \in RoutineName, s \in Signature :
        \/ \E d \in PgR!Definition, orReplace \in BOOLEAN : CreateRoutine(n, s, d, orReplace)
        \/ \E ifExists \in BOOLEAN : DropRoutine(n, s, ifExists)
        \/ DropRoutineUnseen(n, s)
        \/ \E definer \in BOOLEAN : AlterSecurity(n, s, definer)
  BY ThemeType DEF RoutineStatement
<1> DEFINE f == Key(n)
           x == <<f, s>>
           Recorded(g) == \A writes : Records(Definers', g, writes) <=>
             \E t \in Signature : isDefiner(<<g, t>>)' /\ writeTargets(pgRoutines'[<<g, t>>].body.writes) = writes
<1>2. f \in RoutineKey /\ x \in RoutineKey \X Signature
  BY DEF RoutineKey
<1>3. /\ Definers \in Seq(DefinerEntry) /\ DefinersUnique
      /\ DOMAIN pgRoutines = RoutineKey \X Signature
      /\ pgRoutines \in [RoutineKey \X Signature -> PgR!Definition \cup {None}]
      /\ \A g \in RoutineKey, t \in Signature : pgRoutines[<<g, t>>] # None => <<g, t>> \in signatures
      /\ \A g \in RoutineKey, t \in Signature :
           pgRoutines[<<g, t>>] # None /\ pgRoutines[<<g, t>>].body.auth => g \in Reviewed
  BY DEF RoutineTypes, RoutinesInv, PgR!TypeOK
<1>4. None \notin PgR!Definition
  BY RoutineAssumption DEF PgR!Definition
<1> HIDE DEF f, x
<1>5. ASSUME DefinersUnique', \A g \in plain' : Recorded(g),
             \A g \in RoutineKey, t \in Signature :
               pgRoutines'[<<g, t>>] # None => <<g, t>> \in signatures',
             \A g \in RoutineKey, t \in Signature :
               pgRoutines'[<<g, t>>] # None /\ pgRoutines'[<<g, t>>].body.auth => g \in Reviewed'
      PROVE  RoutinesInv'
  <2>1. \A y \in RoutineKey \X Signature : y = <<y[1], y[2]>>
    OBVIOUS
  <2> QED BY <1>5, <2>1, SMTT(30) DEF RoutinesInv
<1>6. ASSUME f \in plain', x \in signatures',
             \A t \in Signature : pgRoutines'[<<f, t>>] # None => <<f, t>> \in signatures'
      PROVE  \A t \in Signature : t # s => pgRoutines'[<<f, t>>] = None
  BY <1>6 DEF plain, x
<1>7. ASSUME NEW d \in PgR!Definition, NEW orReplace \in BOOLEAN, CreateRoutine(n, s, d, orReplace)
      PROVE  RoutinesInv'
  <2>1. /\ pgRoutines' = [pgRoutines EXCEPT ![x] = d]
        /\ signatures' = signatures \cup {x}
        /\ Reviewed' = IF d.body.auth THEN Reviewed \cup {f} ELSE Reviewed
        /\ IF d.definer THEN AddSecurityDefiner(n, d.body) ELSE dropSecurityDefiner(n)
    BY <1>7 DEF CreateRoutine, parseCreateRoutine, PgR!Create, f, x
  <2>2. d.body.writes \in Seq(QName) /\ d # None
    BY RoutineAssumption, <1>4 DEF PgR!Definition
  <2>3. \A g \in RoutineKey, t \in Signature :
          pgRoutines'[<<g, t>>] = IF <<g, t>> = x THEN d ELSE pgRoutines[<<g, t>>]
    BY <1>3, <2>1
  <2>4. /\ \A g \in RoutineKey, t \in Signature :
             pgRoutines'[<<g, t>>] # None => <<g, t>> \in signatures'
        /\ \A g \in RoutineKey, t \in Signature :
             pgRoutines'[<<g, t>>] # None /\ pgRoutines'[<<g, t>>].body.auth => g \in Reviewed'
    BY <1>3, <2>1, <2>3 DEF x
  <2>5. /\ DefinersUnique'
        /\ \A writes : Records(Definers', f, writes) <=> d.definer /\ writes = writeTargets(d.body.writes)
        /\ \A g, writes : g # f => (Records(Definers', g, writes) <=> Records(Definers, g, writes))
    <3>1. CASE d.definer
      BY <1>3, <2>1, <2>2, <3>1, AddedDefiner DEF f
    <3>2. CASE ~d.definer
      BY <1>3, <2>1, <3>2, DroppedDefiner DEF f
    <3> QED BY <3>1, <3>2
  <2>6. \A g \in plain' \ {f} : Recorded(g)
    BY <1>2, <2>1, <2>3, <2>5, OtherRoutines DEF x
  <2>7. f \in plain' => Recorded(f)
    <3> SUFFICES ASSUME f \in plain'
                 PROVE  Recorded(f)
      OBVIOUS
    <3>1. \A t \in Signature : t # s => pgRoutines'[<<f, t>>] = None
      BY <1>2, <1>6, <2>1, <2>4
    <3>2. pgRoutines'[<<f, s>>] = d
      BY <1>2, <2>3 DEF x
    <3> QED BY <2>2, <2>5, <3>1, <3>2 DEF isDefiner
  <2> HIDE DEF Recorded
  <2> QED BY <1>5, <2>4, <2>5, <2>6, <2>7
<1>8. ASSUME NEW ifExists \in BOOLEAN, DropRoutine(n, s, ifExists)
      PROVE  RoutinesInv'
  <2>1. /\ pgRoutines' = [pgRoutines EXCEPT ![x] = None]
        /\ signatures' = signatures \cup {x}
        /\ Reviewed' = Reviewed
        /\ dropSecurityDefiner(n)
    BY <1>8 DEF DropRoutine, parseDropRoutine, PgR!Drop, f, x
  <2>2. \A g \in RoutineKey, t \in Signature :
          pgRoutines'[<<g, t>>] = IF <<g, t>> = x THEN None ELSE pgRoutines[<<g, t>>]
    BY <1>3, <2>1
  <2>3. /\ \A g \in RoutineKey, t \in Signature :
             pgRoutines'[<<g, t>>] # None => <<g, t>> \in signatures'
        /\ \A g \in RoutineKey, t \in Signature :
             pgRoutines'[<<g, t>>] # None /\ pgRoutines'[<<g, t>>].body.auth => g \in Reviewed'
    BY <1>3, <2>1, <2>2
  <2>4. /\ DefinersUnique'
        /\ \A writes : ~Records(Definers', f, writes)
        /\ \A g, writes : g # f => (Records(Definers', g, writes) <=> Records(Definers, g, writes))
    BY <1>3, <2>1, DroppedDefiner DEF f
  <2>5. \A g \in plain' \ {f} : Recorded(g)
    BY <1>2, <2>1, <2>2, <2>4, OtherRoutines DEF x
  <2>6. f \in plain' => Recorded(f)
    <3> SUFFICES ASSUME f \in plain'
                 PROVE  Recorded(f)
      OBVIOUS
    <3>1. \A t \in Signature : pgRoutines'[<<f, t>>] = None
      BY <1>2, <1>6, <2>1, <2>2, <2>3 DEF x
    <3> QED BY <2>4, <3>1 DEF isDefiner
  <2> HIDE DEF Recorded
  <2> QED BY <1>5, <2>3, <2>4, <2>5, <2>6
<1>9. ASSUME DropRoutineUnseen(n, s) \/ \E definer \in BOOLEAN : AlterSecurity(n, s, definer)
      PROVE  RoutinesInv'
  <2>1. PICK r : /\ pgRoutines' = [pgRoutines EXCEPT ![x] = r]
                 /\ r # None => pgRoutines[x] # None /\ r.body = pgRoutines[x].body
    <3>1. CASE DropRoutineUnseen(n, s)
      BY <3>1 DEF DropRoutineUnseen, PgR!Drop, f, x
    <3>2. ASSUME NEW definer \in BOOLEAN, AlterSecurity(n, s, definer)
          PROVE  /\ pgRoutines' = [pgRoutines EXCEPT ![x] = [@ EXCEPT !.definer = definer]]
                 /\ pgRoutines[x] # None
                 /\ [pgRoutines[x] EXCEPT !.definer = definer].body = pgRoutines[x].body
      <4>1. pgRoutines[x] # None /\ pgRoutines' = [pgRoutines EXCEPT ![x].definer = definer]
        BY <3>2 DEF AlterSecurity, PgR!SetSecurity, PgR!exists, f, x
      <4>2. pgRoutines[x] \in PgR!Definition
        BY <1>2, <1>3, <4>1
      <4> QED BY <4>1, <4>2 DEF PgR!Definition
    <3> QED BY <1>9, <3>1, <3>2
  <2>2. /\ signatures' = signatures \cup ({f} \X Signature)
        /\ UNCHANGED <<Definers, Reviewed>>
    BY <1>9 DEF DropRoutineUnseen, AlterSecurity, outOfSight, routineVars, f
  <2>3. \A g \in RoutineKey, t \in Signature :
          pgRoutines'[<<g, t>>] = IF <<g, t>> = x THEN r ELSE pgRoutines[<<g, t>>]
    BY <1>3, <2>1
  <2>4. /\ \A g \in RoutineKey, t \in Signature :
             pgRoutines'[<<g, t>>] # None => <<g, t>> \in signatures'
        /\ \A g \in RoutineKey, t \in Signature :
             pgRoutines'[<<g, t>>] # None /\ pgRoutines'[<<g, t>>].body.auth => g \in Reviewed'
    BY <1>3, <2>1, <2>2, <2>3 DEF x
  <2>5. f \notin plain'
    <3>1. PICK t \in Signature, u \in Signature : t # u
      BY SignatureAssumption
    <3>2. {<<f, t>>, <<f, u>>} \subseteq signatures'
      BY <2>2
    <3> QED BY <3>1, <3>2 DEF plain
  <2>6. \A g \in plain' \ {f} : Recorded(g)
    BY <1>2, <2>2, <2>3, OtherRoutines DEF x
  <2>7. DefinersUnique'
    BY <1>3, <2>2 DEF DefinersUnique, called
  <2> HIDE DEF Recorded
  <2> QED BY <1>5, <2>4, <2>5, <2>6, <2>7
<1> QED BY <1>1, <1>7, <1>8, <1>9

\* The catalog's flags and policies FORCE what PostgreSQL's do.
LEMMA ForcedAlike ==
  ASSUME TypeOK, FlagsInv, PoliciesTracked, NEW roleModel \in {"single", "split"}
  PROVE  (pgForced(roleModel) \cap Settled) \ idle \subseteq forced(roleModel)
<1> SUFFICES ASSUME NEW t \in Settled, t \in pgForced(roleModel), t \notin idle
             PROVE  t \in forced(roleModel)
  OBVIOUS
<1>1. /\ t \in Keys /\ t[1] \notin ManagedSchema /\ pgTables[t] # None
      /\ pgTables[t].enabled \/ policied(t)
      /\ roleModel = "single" \/ pgTables[t].forced
  BY DEF pgForced
<1>2. pgTables[t].enabled => Tables[t] # None /\ Tables[t] = pgTables[t]
  BY <1>1 DEF FlagsInv
<1>3. CASE roleModel = "single"
  <2>1. CASE pgTables[t].enabled
    BY <1>1, <1>2, <1>3, <2>1 DEF forced
  <2>2. CASE policied(t)
    <3>1. PICK n \in PolicyName : <<t, n>> \notin unseen /\ pgPolicies[<<t, n>>] # None
      BY <2>2 DEF policied
    <3>2. recorded[<<t, n>>] # None
      BY <3>1 DEF PoliciesTracked
    <3>3. recorded[<<t, n>>] = IF entries(<<t, n>>) = {} THEN None
                               ELSE Policies[first(entries(<<t, n>>))].def
      BY <1>1 DEF recorded
    <3>4. PICK k \in entries(<<t, n>>) : TRUE
      BY <3>2, <3>3
    <3>5. k \in 1..Len(Policies) /\ Key(Policies[k].table) = t
      BY <3>4 DEF entries
    <3> QED BY <1>1, <1>3, <3>5 DEF forced
  <2> QED BY <1>1, <2>1, <2>2
<1>4. CASE pgTables[t].forced
  <2>1. pgTables[t].enabled
    BY <1>1, <1>4 DEF idle
  <2>2. Tables[t].enabled /\ Tables[t].forced /\ Tables[t] # None
    BY <1>2, <1>4, <2>1
  <2> QED BY <1>1, <2>2 DEF forced
<1> QED BY <1>1, <1>3, <1>4

\* Where every table is spelled one way, the targets kept are all there are.
LEMMA TargetsComplete ==
  ASSUME NEW ws \in Seq(QName),
         \A i, j \in 1..Len(ws) : Key(ws[i]) = Key(ws[j]) => ws[i] = ws[j],
         NEW k \in 1..Len(ws)
  PROVE  ws[k] \in writeTargets(ws)
<1> DEFINE same == {j \in 1..Len(ws) : Key(ws[j]) = Key(ws[k])}
<1>1. Len(ws) \in Nat
  BY LenProperties
<1>2. same \in SUBSET (1..Len(ws)) /\ same # {}
  OBVIOUS
<1> HIDE DEF same
<1>3. PICK i \in same : \A j \in same : i <= j
  <2> DEFINE n == Len(ws)
  <2> HIDE DEF n
  <2>1. n \in Nat /\ same \in SUBSET (1..n) /\ same # {}
    BY <1>1, <1>2 DEF n
  <2>2. first(same) \in same /\ \A j \in same : first(same) <= j
    BY <2>1, LeastPosition
  <2> QED BY <2>2
<1>4. /\ i \in 1..Len(ws) /\ ws[i] = ws[k]
      /\ \A j \in 1..(i - 1) : Key(ws[j]) # Key(ws[i])
  BY <1>1, <1>3 DEF same
<1> QED BY <1>4 DEF writeTargets

\* A table a body writes is hit by the name it is written under.
LEMMA WrittenHit ==
  ASSUME NEW path \in STRING, NEW w \in QName, NEW F,
         NEW t, t = Key([w EXCEPT !.schema = IF @ = "" THEN path ELSE @]), t \in F
  PROVE  t \in hits(w, F)
<1>1. w \in [schema : STRING, name : STRING]
  BY QNameAssumption
<1>2. CASE w.schema = ""
  <2>1. t[2] = w.name
    BY <1>1, <1>2 DEF Key
  <2> QED BY <1>2, <2>1 DEF hits
<1>3. CASE w.schema # ""
  <2>1. [w EXCEPT !.schema = IF @ = "" THEN path ELSE @] = w
    BY <1>1, <1>3
  <2>2. t = Key(w)
    BY <2>1
  <2> QED BY <1>3, <2>2 DEF hits
<1> QED BY <1>2, <1>3

LEMMA RoutinesInvSuffices ==
  ASSUME TypeOK, FlagsInv, PoliciesTracked, RoutinesInv
  PROVE  RoutinesReported
<1>1. \A x \in RoutineKey \X Signature :
        pgRoutines[x] # None /\ pgRoutines[x].body.auth => x[1] \in Reviewed
  BY DEF RoutinesInv
<1>2. ASSUME NEW f \in plain, NEW roleModel \in {"single", "split"}, f[1] \notin ManagedSchema,
             \A s \in Signature : pgRoutines[<<f, s>>] = None \/ uniform(pgRoutines[<<f, s>>])
      PROVE  (affected(f, roleModel) \cap Settled) \ idle \subseteq listed(f, roleModel)
  <2> DEFINE F == forced(roleModel)
  <2> SUFFICES ASSUME NEW t \in Settled, t \in affected(f, roleModel), t \notin idle
               PROVE  t \in listed(f, roleModel)
    OBVIOUS
  <2>1. f \in RoutineKey
    BY DEF plain
  <2>2. PICK s \in Signature : isDefiner(<<f, s>>) /\ t \in written(pgRoutines[<<f, s>>])
    BY DEF affected, isDefiner
  <2>3. t \in F
    <3>1. t \in pgForced(roleModel)
      BY DEF affected
    <3> HIDE DEF F
    <3> QED BY <3>1, ForcedAlike DEF F
  <2>4. pgRoutines[<<f, s>>] \in PgR!Definition
    BY <2>1, <2>2 DEF isDefiner, TypeOK, PgR!TypeOK
  <2> DEFINE body == pgRoutines[<<f, s>>].body
  <2>5. body.path \in STRING /\ body.writes \in Seq(QName)
    BY <2>4, RoutineAssumption DEF PgR!Definition
  <2>6. PICK w \in writeTargets(body.writes) :
          w \in QName /\ t = Key([w EXCEPT !.schema = IF @ = "" THEN body.path ELSE @])
    <3>1. PICK k \in 1..Len(body.writes) :
            t = Key([body.writes[k] EXCEPT !.schema = IF @ = "" THEN body.path ELSE @])
      BY <2>2 DEF written
    <3>2. \A i, j \in 1..Len(body.writes) : Key(body.writes[i]) = Key(body.writes[j])
                                             => body.writes[i] = body.writes[j]
      BY <1>2, <2>2 DEF uniform, isDefiner
    <3> HIDE DEF body
    <3>3. body.writes[k] \in writeTargets(body.writes)
      BY <2>5, <3>2, TargetsComplete
    <3> QED BY <2>5, <3>1, <3>3, ElementOfSeq
  <2>7. t \in hits(w, F)
    BY <2>3, <2>5, <2>6, WrittenHit
  <2>8. Records(Definers, f, writeTargets(body.writes))
    BY <2>2 DEF RoutinesInv
  <2>9. PICK i \in 1..Len(Definers) :
          Key(Definers[i].name) = f /\ Definers[i].writes = writeTargets(body.writes)
    BY <2>8 DEF Records, called
  <2> HIDE DEF F, body
  <2> DEFINE entry == [function |-> Key(Definers[i].name),
                       tables |-> UNION {hits(v, F) : v \in Definers[i].writes}]
  <2>10. entry.function = f /\ t \in entry.tables
    BY <2>6, <2>7, <2>9
  <2>11. entry \in definerWrites(F)
    <3>1. entry.tables # {} /\ entry.function[1] \notin ManagedSchema
      BY <1>2, <2>10
    <3> QED BY <3>1 DEF definerWrites
  <2> HIDE DEF entry
  <2> QED BY <2>10, <2>11 DEF listed, F
<1>3. ASSUME NEW f \in plain, NEW roleModel \in {"single", "split"},
             \A s \in Signature : pgRoutines[<<f, s>>] = None \/ ~pgRoutines[<<f, s>>].definer
      PROVE  listed(f, roleModel) = {}
  <2>1. \A writes : ~Records(Definers, f, writes)
    BY <1>3 DEF RoutinesInv, isDefiner
  <2>2. \A i \in 1..Len(Definers) : Key(Definers[i].name) # f
    BY <2>1 DEF Records, called
  <2>3. \A entry \in definerWrites(forced(roleModel)) : entry.function # f
    BY <2>2 DEF definerWrites
  <2> QED BY <2>3 DEF listed
<1> QED BY <1>1, <1>2, <1>3 DEF RoutinesReported

\* Through any sequence of CREATE, CREATE OR REPLACE and DROP, over any bodies
\* and search paths: every SECURITY DEFINER routine known by one argument list
\* is listed with the FORCEd tables it writes, one that is no definer in the end
\* is not, and whatever mentions auth.* is handed to the reader.
THEOREM RoutinesCorrect == Spec => []RoutinesReported
<1>1. Init => FlagsInv /\ RoutinesInv
  <2>1. Init => FlagsInv
    BY DEF Init, Pg!Init, NewCatalog, FlagsInv, Settled
  <2> SUFFICES ASSUME Init
               PROVE  RoutinesInv
    BY <2>1
  <2>2. /\ Definers = <<>> /\ Len(Definers) = 0
        /\ \A x \in RoutineKey \X Signature : pgRoutines[x] = None
    BY EmptySeq DEF Init, NewRoutines, PgR!Init
  <2>3. \A f \in plain, s \in Signature : <<f, s>> \in RoutineKey \X Signature
    BY DEF plain
  <2>4. DefinersUnique /\ \A f, writes : ~Records(Definers, f, writes)
    BY <2>2 DEF DefinersUnique, Records
  <2>5. \A f \in plain, s \in Signature : ~isDefiner(<<f, s>>)
    BY <2>2, <2>3 DEF isDefiner
  <2> QED BY <2>2, <2>4, <2>5 DEF RoutinesInv
<1>2. TypeOK /\ FlagsInv /\ [Next]_vars => FlagsInv'
  BY FlagsInvStep
<1>3. TypeOK /\ RoutinesInv /\ [Next]_vars => RoutinesInv'
  <2> SUFFICES ASSUME TypeOK, RoutinesInv, [Next]_vars
               PROVE  RoutinesInv'
    OBVIOUS
  <2>1. CASE UNCHANGED routineSide
    <3>1. /\ pgRoutines' = pgRoutines /\ Definers' = Definers /\ signatures' = signatures
          /\ Reviewed' = Reviewed
      BY <2>1 DEF routineSide, routineVars
    <3>2. DefinersUnique' /\ plain' = plain
      BY <3>1 DEF RoutinesInv, DefinersUnique, called, plain
    <3>3. \A f, writes : Records(Definers, f, writes)' <=> Records(Definers, f, writes)
      BY <3>1 DEF Records, called
    <3>4. \A x : isDefiner(x)' <=> isDefiner(x)
      BY <3>1 DEF isDefiner
    <3> QED BY <3>1, <3>2, <3>3, <3>4 DEF RoutinesInv
  <2>2. CASE RoutineStatement
    BY <2>2, TypeOKParts, RoutinesInvNext
  <2>3. UNCHANGED vars => UNCHANGED routineSide
    BY DEF vars
  <2> QED BY <2>1, <2>2, <2>3, NextParts
<1>4. TypeOK /\ FlagsInv /\ PoliciesTracked /\ RoutinesInv => RoutinesReported
  BY RoutinesInvSuffices
<1> QED BY <1>1, <1>2, <1>3, <1>4, TypeCorrect, PoliciesCorrect, PTL DEF Spec

=============================================================================
