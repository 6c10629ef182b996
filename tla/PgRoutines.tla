----------------------------- MODULE PgRoutines -----------------------------
(***************************************************************************)
(* PostgreSQL's functions and procedures, as far as row security goes: one *)
(* for each name and argument list, run as its caller or as its owner.     *)
(* External, like PgCatalog, and what Routines is measured against.        *)
(***************************************************************************)
CONSTANTS
  RoutineKey,   \* schema-qualified names
  Signature,    \* argument lists
  Body,         \* what a routine does
  NoRoutine

VARIABLE routines

Definition == [definer : BOOLEAN, body : Body]

TypeOK == routines \in [RoutineKey \X Signature -> Definition \cup {NoRoutine}]

Init == routines = [x \in RoutineKey \X Signature |-> NoRoutine]

exists(f, s) == routines[<<f, s>>] # NoRoutine

\* Without OR REPLACE the name and argument list must be new.
Create(f, s, d, orReplace) ==
  /\ orReplace \/ ~exists(f, s)
  /\ routines' = [routines EXCEPT ![<<f, s>>] = d]

Drop(f, s, ifExists) ==
  /\ ifExists \/ exists(f, s)
  /\ routines' = [routines EXCEPT ![<<f, s>>] = NoRoutine]

\* ALTER FUNCTION ... SECURITY DEFINER or INVOKER.
SetSecurity(f, s, definer) ==
  /\ exists(f, s)
  /\ routines' = [routines EXCEPT ![<<f, s>>].definer = definer]

=============================================================================
