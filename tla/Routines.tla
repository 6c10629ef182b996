------------------------------ MODULE Routines ------------------------------
(***************************************************************************)
(* The routines of the catalog (definer.go, parse.go): the SECURITY        *)
(* DEFINER ones with the tables their bodies write, and the ones whose     *)
(* text mentions auth.*.  Both are known by name alone, whatever their     *)
(* arguments.  At the end the definers are held against the tables FORCEd  *)
(* once the bundle is applied.                                             *)
(***************************************************************************)
EXTENDS Catalog, FiniteSets

CONSTANTS
  RoutineName,  \* spellings of routine names, [schema, name] records
  Body,         \* what routines do: [path, writes, auth] records, the writes in order
  ManagedSchema \* supabaseManagedSchemas

ASSUME RoutineAssumption ==
  /\ RoutineName \subseteq [schema : STRING, name : STRING]
  /\ Body \subseteq [path : STRING, writes : Seq(QName), auth : BOOLEAN]
  /\ None \notin [definer : BOOLEAN, body : Body]

VARIABLES
  Definers,     \* in the order they were recorded
  Reviewed      \* names of routines whose text mentions auth.*

routineVars == <<Definers, Reviewed>>

RoutineKey == {Key(f) : f \in RoutineName}

NewRoutines == Definers = <<>> /\ Reviewed = {}

-----------------------------------------------------------------------------
\* definer.go.

definersNamed(f) == {i \in 1..Len(Definers) : Key(Definers[i].name) = Key(f)}

withoutDefiner(f) ==
  IF definersNamed(f) = {} THEN Definers
  ELSE removeAt(Definers, first(definersNamed(f)))

dropSecurityDefiner(f) == Definers' = withoutDefiner(f)

\* The targets of a body's writes; of those with one Key the first is kept,
\* with or without its schema.
writeTargets(ws) ==
  {ws[i] : i \in {k \in 1..Len(ws) : \A j \in 1..(k - 1) : Key(ws[j]) # Key(ws[k])}}

\* Replaces an earlier definition of the same name.
AddSecurityDefiner(f, body) ==
  Definers' = Append(withoutDefiner(f), [name |-> f, writes |-> writeTargets(body.writes)])

\* Mutated form: a write that names no schema goes to public.
hitsInPublic(w, forced) == {t \in forced : t = Key(w)}

\* A write that names no schema may go to any table of that name.
hits(w, forced) ==
  {t \in forced : IF w.schema = "" THEN t[2] = w.name ELSE t = Key(w)}

\* The report's entries, given the tables that end up FORCEd.
definerWrites(forced) ==
  {entry \in {[function |-> Key(d.name),
               tables |-> UNION {hits(w, forced) : w \in d.writes}] :
                d \in {Definers[i] : i \in 1..Len(Definers)}}
     : entry.tables # {} /\ entry.function[1] \notin ManagedSchema}

-----------------------------------------------------------------------------
\* parse.go.

parseCreateRoutine(f, d) ==
  /\ IF d.definer THEN AddSecurityDefiner(f, d.body) ELSE dropSecurityDefiner(f)
  /\ Reviewed' = IF d.body.auth THEN Reviewed \cup {Key(f)} ELSE Reviewed
  /\ UNCHANGED catalogVars

\* DROP FUNCTION and DROP PROCEDURE: the first name, without its arguments.
parseDropRoutine(f) ==
  /\ dropSecurityDefiner(f)
  /\ UNCHANGED <<Reviewed, catalogVars>>

=============================================================================
