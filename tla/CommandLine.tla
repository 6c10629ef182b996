----------------------------- MODULE CommandLine -----------------------------
(***************************************************************************)
(* capyrls convert, run after run into one output directory                *)
(* (cmd/capyrls/main.go): each run loads a catalog, from SQL files or from  *)
(* a database, converts it and writes the bundle and its report file by    *)
(* file, over whatever an earlier run left, killed or not.                 *)
(***************************************************************************)
EXTENDS LiveLoad

CONSTANT MaxRuns   \* bound on the runs into one directory

VARIABLES
  flags,     \* --strict, --json
  exit,      \* "running", or how the run ended
  written,   \* files of this run that are complete
  open,      \* files being written: created or truncated, not complete
  disk,      \* the run each file of the directory is from; 0 for a torn file
  run,       \* number of the run
  models     \* role models of the runs so far

cliVars == <<flags, exit, written, open, disk, run, models>>

-----------------------------------------------------------------------------

\* The files of a bundle, in the order they are applied in.
SQLFile == {"capyrls_01_prelude.sql", "capyrls_02_roles.sql",
            "capyrls_02_force_rls.sql", "capyrls_03_policies.sql"}
Report == "capyrls_report.md"
JSON   == "capyrls_report.json"
File   == SQLFile \cup {Report, JSON}

\* Mutated form: the roles file has a name of its own on CapyDB.
filesOfTarget(o) ==
  <<"capyrls_01_prelude.sql",
    IF o.target = "postgres" THEN "capyrls_02_roles.sql"
                             ELSE "capyrls_02_force_rls.sql",
    "capyrls_03_policies.sql">>

files(o) ==
  <<"capyrls_01_prelude.sql",
    IF o.roleModel = "split" THEN "capyrls_02_roles.sql"
                             ELSE "capyrls_02_force_rls.sql",
    "capyrls_03_policies.sql">>

reportFiles == <<Report>> \o (IF flags.json THEN <<JSON>> ELSE <<>>)

\* Mutated form: the report first.
writesReportFirst == reportFiles \o files(opts)

\* What emit writes, in order.
writes == files(opts) \o reportFiles

blocked == {p \in cat.policies : outcome[p] = "blocked"}

-----------------------------------------------------------------------------

Flags == [strict : BOOLEAN, json : BOOLEAN]

CLIInit ==
  /\ LiveInit
  /\ flags \in Flags
  /\ exit = "running" /\ written = {} /\ open = {}
  /\ disk = [f \in {} |-> 0]
  /\ run = 1 /\ models = {opts.roleModel}

running == exit = "running"

\* --db: the load and its conversion.
Load == running /\ LiveNext /\ UNCHANGED cliVars

\* A directory or files: all of them are read before the first is parsed.
readSources ==
  /\ running /\ pc = "loading" /\ query = 1
  /\ cat' = source
  /\ pc' = "check"
  /\ outcome' = [p \in source.policies |-> "pending"]
  /\ rlsTables' = source.enabled \ ManagedTable
  /\ UNCHANGED <<converting, liveVars, cliVars>>

\* Nothing is written unless there is a result.
ExitWithoutResult ==
  /\ running /\ pc \in {"failed", "refused"}
  /\ exit' = "error"
  /\ UNCHANGED <<vars, liveVars, flags, written, open, disk, run, models>>

due == writes[Cardinality(written) + 1]

emitting == running /\ pc = "done" /\ Cardinality(written) < Len(writes)

\* os.WriteFile truncates, then writes.
Truncate ==
  /\ emitting /\ open = {}
  /\ open' = {due}
  /\ disk' = [f \in DOMAIN disk \cup {due} |-> IF f = due THEN 0 ELSE disk[f]]
  /\ UNCHANGED <<vars, liveVars, flags, exit, written, run, models>>

WriteFile ==
  /\ emitting /\ open # {}
  /\ disk' = [disk EXCEPT ![due] = run]
  /\ written' = written \cup open
  /\ open' = {}
  /\ UNCHANGED <<vars, liveVars, flags, exit, run, models>>

\* The disk is full, or the file cannot be opened.
WriteError ==
  /\ emitting
  /\ exit' = "error"
  /\ UNCHANGED <<vars, liveVars, flags, written, open, disk, run, models>>

\* Mutated form: --strict fails before anything is written.
ExitStrictFirst ==
  /\ running /\ pc = "done" /\ open = {}
  /\ \/ Cardinality(written) = Len(writes)
     \/ flags.strict /\ blocked # {}
  /\ exit' = IF flags.strict /\ blocked # {} THEN "attention" ELSE "success"
  /\ UNCHANGED <<vars, liveVars, flags, written, open, disk, run, models>>

\* --strict turns a bundle with blocked policies into exit status 1.
Exit ==
  /\ running /\ pc = "done" /\ Cardinality(written) = Len(writes)
  /\ exit' = IF flags.strict /\ blocked # {} THEN "attention" ELSE "success"
  /\ UNCHANGED <<vars, liveVars, flags, written, open, disk, run, models>>

\* A signal; before the first file it leaves what an error leaves.
Kill ==
  /\ emitting
  /\ exit' = "killed"
  /\ UNCHANGED <<vars, liveVars, flags, written, open, disk, run, models>>

\* The next run, under whatever options.
Rerun ==
  /\ ~running /\ run < MaxRuns
  /\ run' = run + 1
  /\ exit' = "running" /\ written' = {} /\ open' = {}
  /\ flags' \in Flags
  /\ opts' \in OptionSets
  /\ models' = models \cup {opts'.roleModel}
  /\ pc' = "loading" /\ query' = 1 /\ seen' = {source}
  /\ cat' = NewCatalog /\ outcome' = [p \in {} |-> "pending"]
  /\ emitted' = {} /\ stubs' = {} /\ rlsTables' = {} /\ compatRoles' = {}
  /\ used' = {} /\ warnings' = {} /\ bundle' = noBundle
  /\ UNCHANGED <<source, migrations, disk>>

\* The process itself goes on: the answers of the database, failures and
\* signals just happen.
Proceed == \/ running /\ Next /\ UNCHANGED <<liveVars, cliVars>>
           \/ running /\ GiveUp /\ UNCHANGED cliVars
           \/ Truncate \/ WriteFile \/ Exit \/ ExitWithoutResult

CLINext ==
  \/ Load
  \/ readSources
  \/ ExitWithoutResult
  \/ Truncate
  \/ WriteFile
  \/ WriteError
  \/ Exit
  \/ Kill
  \/ Rerun

allVars == <<vars, liveVars, cliVars>>

CLISpec == CLIInit /\ [][CLINext]_allVars /\ WF_allVars(Proceed)

-----------------------------------------------------------------------------
\* Properties.

CLITypeOK ==
  /\ LiveTypeOK
  /\ flags \in Flags
  /\ exit \in {"running", "success", "attention", "error", "killed"}
  /\ written \cup open \cup DOMAIN disk \subseteq File /\ Cardinality(open) <= 1
  /\ \A f \in DOMAIN disk : disk[f] \in 0..run

\* Exit status 0, or 1 for --strict, means the whole bundle and its report are
\* there and are of this run; and under --strict 0 means that no policy the
\* load saw is left to a human.
ExitTruthful ==
  exit \in {"success", "attention"} =>
    /\ \A i \in DOMAIN writes : /\ writes[i] \in DOMAIN disk
                                /\ disk[writes[i]] = run
    /\ flags.strict => (exit = "success" <=> \A p \in cat.policies :
                                               ~(blockers(p.using) \/ blockers(p.check))
                                               \/ outcome[p] = "skipped")

\* The report never describes a bundle that is not there yet: when it is of
\* run n, no file of the same directory is older, whatever was killed when.
ReportNotAhead ==
  Report \in DOMAIN disk /\ models = {opts.roleModel} =>
    \A i \in DOMAIN files(opts) :
      /\ files(opts)[i] \in DOMAIN disk
      /\ disk[files(opts)[i]] # 0 => disk[files(opts)[i]] >= disk[Report]

\* As long as the role model stays, a directory holds one bundle after a run
\* that ended well: every SQL file in it is of that run.
OneBundle ==
  exit \in {"success", "attention"} /\ models = {opts.roleModel} =>
    \A f \in DOMAIN disk \cap SQLFile : disk[f] = run

\* Every run ends, whether the database answers or not.
RunsEnd == <>[](exit # "running")

=============================================================================
