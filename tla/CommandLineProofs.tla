-------------------------- MODULE CommandLineProofs --------------------------
(***************************************************************************)
(* What the output directory holds after any number of runs, each killed,  *)
(* failed or finished at any point: nothing of that depends on what a      *)
(* bundle says, only on the order its files are written in.                *)
(*                                                                         *)
(* And a catalog read by six queries from a database that migrates         *)
(* meanwhile, for any number of migrations and catalogs: tables are from   *)
(* one moment of the load and policies from another.  What such a mixture  *)
(* permits was permitted at the one or the other, and its conversion       *)
(* widens nothing (AccessProofs).                                          *)
(***************************************************************************)
EXTENDS AccessProofs, CommandLine, FiniteSetTheorems

\* What emit writes: the three files of the bundle, its report, and the JSON
\* report when asked for, each once.
LEMMA Writes ==
  /\ DOMAIN files(opts) = 1..3 /\ DOMAIN writes = 1..Len(writes)
  /\ Len(writes) \in {4, 5}
  /\ \A i \in 1..3 : writes[i] = files(opts)[i] /\ files(opts)[i] \in SQLFile
  /\ writes[4] = Report
  /\ Len(writes) = 5 => writes[5] = JSON
  /\ \A i, j \in 1..Len(writes) : writes[i] = writes[j] => i = j
<1> DEFINE two == IF opts.roleModel = "split" THEN "capyrls_02_roles.sql"
                                              ELSE "capyrls_02_force_rls.sql"
           f == <<"capyrls_01_prelude.sql", two, "capyrls_03_policies.sql">>
<1>1. two \in {"capyrls_02_roles.sql", "capyrls_02_force_rls.sql"}
  OBVIOUS
<1>2. files(opts) = f
  BY DEF files
<1> HIDE DEF two
<1>3. f \in Seq(File) /\ Len(f) = 3 /\ DOMAIN f = 1..3
  BY <1>1 DEF File, SQLFile
<1>4. /\ reportFiles \in Seq(File) /\ Len(reportFiles) \in {1, 2}
      /\ reportFiles[1] = Report
      /\ Len(reportFiles) = 2 => reportFiles[2] = JSON
  <2> DEFINE more == IF flags.json THEN <<JSON>> ELSE <<>>
  <2>1. /\ <<Report>> \in Seq(File) /\ Len(<<Report>>) = 1
        /\ <<Report>>[1] = Report
    BY DEF File
  <2>2. /\ more \in Seq(File) /\ Len(more) \in {0, 1}
        /\ Len(more) = 1 => more[1] = JSON
    <3>1. <<JSON>> \in Seq(File) /\ Len(<<JSON>>) = 1 /\ <<JSON>>[1] = JSON
      BY DEF File
    <3>2. << >> \in Seq(File) /\ Len(<< >>) = 0
      OBVIOUS
    <3>3. CASE flags.json
      <4>1. more = <<JSON>>
        BY <3>3
      <4> QED BY <3>1, <4>1
    <3>4. CASE ~flags.json
      <4>1. more = << >>
        BY <3>4
      <4> QED BY <3>2, <4>1
    <3> QED BY <3>3, <3>4
  <2>3. reportFiles = <<Report>> \o more
    BY DEF reportFiles
  <2> HIDE DEF more
  <2>4. /\ <<Report>> \o more \in Seq(File)
        /\ Len(<<Report>> \o more) = 1 + Len(more)
        /\ \A i \in 1..1 + Len(more) :
             (<<Report>> \o more)[i] = IF i <= 1 THEN <<Report>>[i] ELSE more[i - 1]
    BY <2>1, <2>2, ConcatProperties
  <2>5. (<<Report>> \o more)[1] = Report
    <3>1. 1 \in 1..1 + Len(more)
      BY <2>2
    <3>2. (<<Report>> \o more)[1] = <<Report>>[1]
      BY <2>4, <3>1
    <3> QED BY <2>1, <3>2
  <2>6. Len(more) = 1 => (<<Report>> \o more)[2] = JSON
    BY <2>2, <2>4
  <2> QED BY <2>2, <2>3, <2>4, <2>5, <2>6
<1>5. /\ writes \in Seq(File)
      /\ Len(writes) = 3 + Len(reportFiles)
      /\ \A i \in 1..3 + Len(reportFiles) :
           writes[i] = IF i <= 3 THEN f[i] ELSE reportFiles[i - 3]
  BY <1>2, <1>3, <1>4, ConcatProperties DEF writes
<1>6. DOMAIN writes = 1..Len(writes) /\ Len(writes) \in {4, 5}
  BY <1>4, <1>5
<1>7. /\ writes[1] = "capyrls_01_prelude.sql" /\ writes[2] = two
      /\ writes[3] = "capyrls_03_policies.sql"
  BY <1>4, <1>5
<1>8. writes[4] = Report /\ (Len(writes) = 5 => writes[5] = JSON)
  BY <1>4, <1>5
<1>9. \A i, j \in 1..Len(writes) : writes[i] = writes[j] => i = j
  BY <1>1, <1>6, <1>7, <1>8 DEF Report, JSON
<1>10. \A i \in 1..3 : writes[i] = files(opts)[i] /\ files(opts)[i] \in SQLFile
  BY <1>1, <1>2, <1>7 DEF SQLFile
<1> QED BY <1>2, <1>3, <1>6, <1>8, <1>9, <1>10

\* The file that is due, by how many are written.
LEMMA Due ==
  ASSUME Cardinality(written) \in Nat, Cardinality(written) < Len(writes)
  PROVE  /\ Cardinality(written) + 1 \in 1..Len(writes)
         /\ \/ /\ Cardinality(written) < 3
               /\ due = files(opts)[Cardinality(written) + 1] /\ due \in SQLFile
            \/ Cardinality(written) = 3 /\ due = Report
            \/ Cardinality(written) = 4 /\ due = JSON
         /\ Report \notin SQLFile /\ JSON \notin SQLFile /\ Report # JSON
<1>1. Cardinality(written) \in 0..4 /\ Cardinality(written) + 1 \in 1..Len(writes)
  BY Writes
<1>2. CASE Cardinality(written) < 3
  BY <1>1, <1>2, Writes DEF due, SQLFile, Report, JSON
<1>3. CASE Cardinality(written) = 3
  BY <1>1, <1>3, Writes DEF due, SQLFile, Report, JSON
<1>4. CASE Cardinality(written) = 4
  BY <1>1, <1>4, Writes DEF due, SQLFile, Report, JSON
<1> QED BY <1>1, <1>2, <1>3, <1>4

-----------------------------------------------------------------------------
\* The inductive invariant.

\* What this run has written is a prefix of what it writes, and is there.
Prefix ==
  /\ IsFiniteSet(written) /\ Cardinality(written) \in Nat
  /\ written = {writes[i] : i \in 1..Cardinality(written)}
  /\ open # {} => /\ open = {due} /\ due \in DOMAIN disk
                  /\ Cardinality(written) < Len(writes)
  /\ \A f \in written : f \in DOMAIN disk /\ disk[f] = run
  /\ exit \in {"success", "attention"} => Cardinality(written) = Len(writes)

\* What is on the disk is from a run so far.
Ages == /\ run \in Nat \ {0}
        /\ \A f \in DOMAIN disk : disk[f] \in 0..run

\* While the role model stays, the runs write over the same three SQL files.
SameFiles ==
  /\ opts.roleModel \in models
  /\ models = {opts.roleModel} =>
       DOMAIN disk \cap SQLFile \subseteq {files(opts)[i] : i \in 1..3}

DirInv == Prefix /\ Ages /\ SameFiles /\ ReportNotAhead

LEMMA DirInit == CLIInit => DirInv
<1> SUFFICES ASSUME CLIInit PROVE DirInv
  OBVIOUS
<1>1. /\ written = {} /\ open = {} /\ DOMAIN disk = {} /\ run = 1
      /\ models = {opts.roleModel} /\ exit = "running"
  BY DEF CLIInit
<1>2. IsFiniteSet({}) /\ Cardinality({}) = 0
  BY FS_EmptySet
<1>3. Prefix
  BY <1>1, <1>2 DEF Prefix
<1>4. Ages /\ SameFiles /\ ReportNotAhead
  BY <1>1 DEF Ages, SameFiles, ReportNotAhead
<1> QED BY <1>3, <1>4 DEF DirInv

\* Loading and converting do not touch the directory, and a run that ends well
\* has written all.
LEMMA Frame ==
  ASSUME DirInv, UNCHANGED <<opts, flags, written, open, disk, run, models>>,
         exit' \in {"success", "attention"} => Cardinality(written) = Len(writes)
  PROVE  DirInv'
<1>1. writes' = writes /\ files(opts)' = files(opts) /\ due' = due
  BY DEF writes, files, reportFiles, due
<1>2. Prefix'
  BY <1>1 DEF DirInv, Prefix
<1>3. Ages' /\ SameFiles' /\ ReportNotAhead'
  BY <1>1 DEF DirInv, Ages, SameFiles, ReportNotAhead
<1> QED BY <1>2, <1>3 DEF DirInv

LEMMA OptionsKept == LiveNext => opts' = opts
BY DEF LiveNext, Answer, GiveUp, Migrate, converting, vars, Next, Refuse, Accept,
       SkipManaged, SkipForRoles, Block, Convert, Assemble

LEMMA TruncateDirInv == DirInv /\ Truncate => DirInv'
<1> SUFFICES ASSUME DirInv, Truncate PROVE DirInv'
  OBVIOUS
<1> DEFINE k == Cardinality(written)
<1>1. /\ open' = {due} /\ exit = "running" /\ k \in Nat /\ k < Len(writes)
      /\ UNCHANGED <<opts, flags, exit, written, run, models>>
      /\ disk' = [f \in DOMAIN disk \cup {due} |-> IF f = due THEN 0 ELSE disk[f]]
  BY DEF Truncate, emitting, running, DirInv, Prefix, vars
<1>2. writes' = writes /\ files(opts)' = files(opts) /\ due' = due
  BY <1>1 DEF writes, files, reportFiles, due
<1>3. due \notin written
  BY <1>1, Due, Writes DEF due, DirInv, Prefix
<1>4. Prefix'
  BY <1>1, <1>2, <1>3 DEF DirInv, Prefix
<1>5. Ages'
  BY <1>1 DEF DirInv, Ages
<1>6. SameFiles'
  <2> SUFFICES ASSUME models = {opts.roleModel}
               PROVE  DOMAIN disk' \cap SQLFile \subseteq {files(opts)[i] : i \in 1..3}
    BY <1>1, <1>2 DEF DirInv, SameFiles
  <2>1. due \in SQLFile => due \in {files(opts)[i] : i \in 1..3}
    BY <1>1, Due
  <2> QED BY <1>1, <2>1 DEF DirInv, SameFiles
<1>7. ReportNotAhead'
  <2> SUFFICES ASSUME Report \in DOMAIN disk', models = {opts.roleModel},
                      NEW i \in 1..3
               PROVE  /\ files(opts)[i] \in DOMAIN disk'
                      /\ disk'[files(opts)[i]] # 0 => disk'[files(opts)[i]] >= disk'[Report]
    BY <1>1, <1>2, Writes DEF ReportNotAhead
  <2>1. CASE due = Report
    <3>1. k = 3
      BY <1>1, <2>1, Due
    <3>2. files(opts)[i] \in written /\ files(opts)[i] # Report
      BY <3>1, Due, <1>1, Writes DEF DirInv, Prefix
    <3>3. files(opts)[i] \in DOMAIN disk /\ disk[files(opts)[i]] = run
      BY <3>2 DEF DirInv, Prefix
    <3> QED BY <1>1, <2>1, <3>2, <3>3 DEF DirInv, Ages
  <2>2. CASE due # Report
    <3>1. Report \in DOMAIN disk /\ disk'[Report] = disk[Report]
      BY <1>1, <2>2
    <3>2. /\ files(opts)[i] \in DOMAIN disk
          /\ disk[files(opts)[i]] # 0 => disk[files(opts)[i]] >= disk[Report]
      BY <3>1, Writes DEF DirInv, ReportNotAhead
    <3> QED BY <1>1, <3>1, <3>2
  <2> QED BY <2>1, <2>2
<1> QED BY <1>4, <1>5, <1>6, <1>7 DEF DirInv

LEMMA WriteFileDirInv == DirInv /\ WriteFile => DirInv'
<1> SUFFICES ASSUME DirInv, WriteFile PROVE DirInv'
  OBVIOUS
<1> DEFINE k == Cardinality(written)
<1>1. /\ open = {due} /\ due \in DOMAIN disk /\ exit = "running"
      /\ k \in Nat /\ k < Len(writes)
      /\ UNCHANGED <<opts, flags, exit, run, models>>
      /\ written' = written \cup {due} /\ open' = {}
      /\ disk' = [disk EXCEPT ![due] = run]
  BY DEF WriteFile, emitting, running, DirInv, Prefix, vars
<1>2. writes' = writes /\ files(opts)' = files(opts)
  BY <1>1 DEF writes, files, reportFiles
<1>3. due \notin written
  BY <1>1, Due, Writes DEF due, DirInv, Prefix
<1>4. Prefix'
  <2>1. IsFiniteSet(written') /\ Cardinality(written') = k + 1
    BY <1>1, <1>3, FS_AddElement DEF DirInv, Prefix
  <2>2. written' = {writes[i] : i \in 1..k + 1}
    <3>1. 1..k + 1 = (1..k) \cup {k + 1}
      BY <1>1
    <3>2. {writes[i] : i \in 1..k + 1} = {writes[i] : i \in 1..k} \cup {writes[k + 1]}
      BY <3>1
    <3>3. written = {writes[i] : i \in 1..k} /\ due = writes[k + 1]
      BY DEF due, DirInv, Prefix
    <3> HIDE DEF k
    <3> QED BY <1>1, <3>2, <3>3
  <2>3. \A f \in written' : f \in DOMAIN disk' /\ disk'[f] = run
    BY <1>1 DEF DirInv, Prefix
  <2>4. (written = {writes[i] : i \in 1..Cardinality(written)})'
    BY <1>2, <2>1, <2>2
  <2>5. Cardinality(written') \in Nat
    BY <1>1, <2>1
  <2> HIDE DEF k
  <2> QED BY <1>1, <2>1, <2>3, <2>4, <2>5 DEF Prefix
<1>5. Ages'
  BY <1>1 DEF DirInv, Ages
<1>6. SameFiles'
  BY <1>1, <1>2 DEF DirInv, SameFiles
<1>7. ReportNotAhead'
  <2> SUFFICES ASSUME Report \in DOMAIN disk', models = {opts.roleModel},
                      NEW i \in 1..3
               PROVE  /\ files(opts)[i] \in DOMAIN disk'
                      /\ disk'[files(opts)[i]] # 0 => disk'[files(opts)[i]] >= disk'[Report]
    BY <1>1, <1>2, Writes DEF ReportNotAhead
  <2>1. /\ files(opts)[i] \in DOMAIN disk
        /\ disk[files(opts)[i]] # 0 => disk[files(opts)[i]] >= disk[Report]
    BY <1>1, Writes DEF DirInv, ReportNotAhead
  <2>2. disk[Report] \in 0..run /\ run \in Nat
    BY <1>1 DEF DirInv, Ages
  <2>3. CASE due = Report
    <3>1. k = 3
      BY <1>1, <2>3, Due
    <3>2. files(opts)[i] \in written /\ files(opts)[i] # Report
      BY <3>1, Due, <1>1, Writes DEF DirInv, Prefix
    <3>3. disk[files(opts)[i]] = run
      BY <3>2 DEF DirInv, Prefix
    <3> QED BY <1>1, <2>1, <2>2, <2>3, <3>2, <3>3
  <2>4. CASE due # Report
    BY <1>1, <2>1, <2>2, <2>4
  <2> QED BY <2>3, <2>4
<1> QED BY <1>4, <1>5, <1>6, <1>7 DEF DirInv

LEMMA RerunDirInv == DirInv /\ Rerun => DirInv'
<1> SUFFICES ASSUME DirInv, Rerun PROVE DirInv'
  OBVIOUS
<1>1. /\ run' = run + 1 /\ exit' = "running" /\ written' = {} /\ open' = {}
      /\ models' = models \cup {opts'.roleModel} /\ disk' = disk
  BY DEF Rerun
<1>2. Prefix'
  <2>1. IsFiniteSet(written') /\ Cardinality(written') = 0
    BY <1>1, FS_EmptySet
  <2> QED BY <1>1, <2>1 DEF Prefix
<1>3. Ages'
  BY <1>1 DEF DirInv, Ages
<1>4. models' = {opts'.roleModel} =>
        models = {opts.roleModel} /\ files(opts') = files(opts)
  <2> SUFFICES ASSUME models' = {opts'.roleModel}
               PROVE  models = {opts.roleModel} /\ files(opts') = files(opts)
    OBVIOUS
  <2>1. opts.roleModel = opts'.roleModel /\ models = {opts.roleModel}
    BY <1>1 DEF DirInv, SameFiles
  <2> QED BY <2>1 DEF files
<1>5. SameFiles'
  BY <1>1, <1>4 DEF DirInv, SameFiles
<1>6. ReportNotAhead'
  BY <1>1, <1>4 DEF DirInv, ReportNotAhead
<1> QED BY <1>2, <1>3, <1>5, <1>6 DEF DirInv

LEMMA DirInvStep == DirInv /\ [CLINext]_allVars => DirInv'
<1> SUFFICES ASSUME DirInv, [CLINext]_allVars PROVE DirInv'
  OBVIOUS
<1>1. CASE Load
  BY <1>1, OptionsKept, Frame DEF Load, cliVars, running
<1>2. CASE readSources
  BY <1>2, Frame DEF readSources, converting, cliVars, running
<1>3. CASE ExitWithoutResult
  BY <1>3, Frame DEF ExitWithoutResult, vars
<1>4. CASE Truncate
  BY <1>4, TruncateDirInv
<1>5. CASE WriteFile
  BY <1>5, WriteFileDirInv
<1>6. CASE WriteError
  BY <1>6, Frame DEF WriteError, vars
<1>7. CASE Exit
  BY <1>7, Frame DEF Exit, vars
<1>8. CASE Kill
  BY <1>8, Frame DEF Kill, vars
<1>9. CASE Rerun
  BY <1>9, RerunDirInv
<1>10. CASE UNCHANGED allVars
  BY <1>10, Frame DEF allVars, vars, cliVars, DirInv, Prefix
<1> QED BY <1>1, <1>2, <1>3, <1>4, <1>5, <1>6, <1>7, <1>8, <1>9, <1>10 DEF CLINext

-----------------------------------------------------------------------------
\* The theorems.

\* However many runs the directory has seen, and wherever each was stopped, no
\* file of a bundle is older than the report beside it (emit in main.go).
THEOREM ReportNotAheadTheorem == CLISpec => []ReportNotAhead
<1>1. DirInv => ReportNotAhead
  BY DEF DirInv
<1> QED BY <1>1, DirInit, DirInvStep, PTL DEF CLISpec

\* While the role model stays, a run that ends well leaves one bundle: every
\* SQL file of the directory is its own.
THEOREM OneBundleTheorem == CLISpec => []OneBundle
<1>1. DirInv => OneBundle
  <2> SUFFICES ASSUME DirInv, exit \in {"success", "attention"},
                      models = {opts.roleModel}, NEW f \in DOMAIN disk \cap SQLFile
               PROVE  disk[f] = run
    BY DEF OneBundle
  <2>1. PICK i \in 1..3 : f = files(opts)[i]
    BY DEF DirInv, SameFiles
  <2>2. f = writes[i] /\ i \in 1..Cardinality(written)
    BY <2>1, Writes DEF DirInv, Prefix
  <2>3. f \in written
    BY <2>2 DEF DirInv, Prefix
  <2> QED BY <2>3 DEF DirInv, Prefix
<1> QED BY <1>1, DirInit, DirInvStep, PTL DEF CLISpec

-----------------------------------------------------------------------------
\* Exit statuses.

hasBlocker(p) == blockers(p.using) \/ blockers(p.check)

Converting == {"check", "loop", "done"}

\* The verdict on each policy the loop has passed.
Judged ==
  pc \in Converting =>
    /\ outcome \in [cat.policies -> {"pending", "skipped", "blocked", "converted"}]
    /\ \A p \in cat.policies : /\ outcome[p] = "blocked" => hasBlocker(p)
                               /\ outcome[p] = "converted" => ~hasBlocker(p)

\* What a run that ended well knew when it did.
Verdict ==
  /\ pc = "done" => \A p \in cat.policies : outcome[p] # "pending"
  /\ exit \in {"success", "attention"} =>
       /\ pc = "done"
       /\ flags.strict => (exit = "success" <=> blocked = {})

LEMMA ConversionJudges == Judged /\ Next => Judged'
<1> SUFFICES ASSUME Judged, Next PROVE Judged'
  OBVIOUS
<1>1. ASSUME NEW p \in cat.policies, NEW v \in {"skipped", "blocked", "converted"},
             pc = "loop", UNCHANGED <<pc, cat>>, outcome' = [outcome EXCEPT ![p] = v],
             v = "blocked" => hasBlocker(p), v = "converted" => ~hasBlocker(p)
      PROVE  Judged'
  BY <1>1 DEF Judged, Converting, hasBlocker
<1>2. CASE Refuse
  BY <1>2 DEF Refuse, Judged, Converting
<1>3. CASE Accept
  BY <1>3 DEF Accept, Judged, Converting, hasBlocker
<1>4. ASSUME NEW p \in cat.policies, SkipManaged(p) PROVE Judged'
  BY <1>1, <1>4 DEF SkipManaged, At
<1>5. ASSUME NEW p \in cat.policies, SkipForRoles(p) PROVE Judged'
  BY <1>1, <1>5 DEF SkipForRoles, At
<1>6. ASSUME NEW p \in cat.policies, Block(p) PROVE Judged'
  BY <1>1, <1>6 DEF Block, At, hasBlocker
<1>7. ASSUME NEW p \in cat.policies, Convert(p) PROVE Judged'
  BY <1>1, <1>7 DEF Convert, At, hasBlocker
<1>8. CASE Assemble
  BY <1>8 DEF Assemble, Judged, Converting, hasBlocker
<1> QED BY <1>2, <1>3, <1>4, <1>5, <1>6, <1>7, <1>8 DEF Next

\* The loop ends when no policy is left.
LEMMA ConversionEnds ==
  ASSUME Next
  PROVE  /\ pc # "done"
         /\ pc' = "done" => \A p \in cat'.policies : outcome'[p] # "pending"
BY DEF Next, Refuse, Accept, SkipManaged, SkipForRoles, Block, Convert, Assemble, At, pending

\* A catalog is handed to the conversion with every policy pending.
LEMMA LoadJudges ==
  ASSUME Judged, Verdict, LiveNext, running
  PROVE  Judged' /\ (pc' = "done" => \A p \in cat'.policies : outcome'[p] # "pending")
<1>1. CASE Answer
  BY <1>1 DEF Answer, Judged, Converting, converting
<1>2. CASE GiveUp
  BY <1>2 DEF GiveUp, Judged, Converting
<1>3. CASE Migrate
  BY <1>3 DEF Migrate, vars, Judged, Converting, hasBlocker
<1>4. CASE Next
  BY <1>4, ConversionJudges, ConversionEnds
<1> QED BY <1>1, <1>2, <1>3, <1>4 DEF LiveNext

LEMMA VerdictStep == Judged /\ Verdict /\ [CLINext]_allVars => Judged' /\ Verdict'
<1> SUFFICES ASSUME Judged, Verdict, [CLINext]_allVars PROVE Judged' /\ Verdict'
  OBVIOUS
<1>1. CASE Load
  <2>1. exit' = "running" /\ LiveNext /\ running
    BY <1>1 DEF Load, running, cliVars
  <2> QED BY <2>1, LoadJudges DEF Verdict
<1>2. CASE readSources
  <2>1. /\ pc' = "check" /\ exit' = "running" /\ cat' = source
        /\ outcome' = [p \in source.policies |-> "pending"]
    BY <1>2 DEF readSources, running, cliVars
  <2> QED BY <2>1 DEF Judged, Verdict, Converting
<1>3. CASE UNCHANGED vars /\ exit' \notin {"success", "attention"}
  BY <1>3 DEF vars, Judged, Verdict, Converting, hasBlocker
<1>4. CASE Exit
  <2>1. Judged'
    BY <1>4 DEF Exit, vars, Judged, Converting, hasBlocker
  <2>2. blocked' = blocked
    BY <1>4 DEF Exit, vars, blocked
  <2> QED BY <1>4, <2>1, <2>2 DEF Exit, vars, Verdict
<1>5. CASE Rerun
  <2>1. pc' = "loading" /\ exit' = "running"
    BY <1>5 DEF Rerun
  <2> QED BY <2>1 DEF Judged, Verdict, Converting
<1>6. CASE UNCHANGED allVars
  <2>1. blocked' = blocked
    BY <1>6 DEF allVars, vars, blocked
  <2> QED BY <1>6, <2>1 DEF allVars, vars, cliVars, Judged, Verdict, Converting, hasBlocker
<1>7. ExitWithoutResult \/ Truncate \/ WriteFile \/ WriteError \/ Kill
        => UNCHANGED vars /\ exit' \notin {"success", "attention"}
  BY DEF ExitWithoutResult, Truncate, WriteFile, WriteError, Kill, emitting, running
<1> QED BY <1>1, <1>2, <1>3, <1>4, <1>5, <1>6, <1>7 DEF CLINext

\* The exit status tells the truth, however the runs before this one ended:
\* all that is written is there and of this run, and under --strict 0 means
\* that no policy of the catalog is left to a human (runConvert in main.go).
THEOREM ExitTruthfulTheorem == CLISpec => []ExitTruthful
<1>1. CLIInit => Judged /\ Verdict
  BY DEF CLIInit, LiveInit, Judged, Verdict, Converting
<1>2. DirInv /\ Judged /\ Verdict => ExitTruthful
  <2> SUFFICES ASSUME DirInv, Judged, Verdict, exit \in {"success", "attention"}
               PROVE  /\ \A i \in DOMAIN writes : /\ writes[i] \in DOMAIN disk
                                                  /\ disk[writes[i]] = run
                      /\ flags.strict => (exit = "success" <=> \A p \in cat.policies :
                                             ~hasBlocker(p) \/ outcome[p] = "skipped")
    BY DEF ExitTruthful, hasBlocker
  <2>1. ASSUME NEW i \in DOMAIN writes
        PROVE  writes[i] \in DOMAIN disk /\ disk[writes[i]] = run
    <3>1. writes[i] \in written
      BY <2>1, Writes DEF DirInv, Prefix
    <3> QED BY <3>1 DEF DirInv, Prefix
  <2>2. \A p \in cat.policies : outcome[p] = "blocked" <=>
                                  ~(~hasBlocker(p) \/ outcome[p] = "skipped")
    BY DEF Judged, Verdict, Converting
  <2>3. blocked = {} <=> \A p \in cat.policies : ~hasBlocker(p) \/ outcome[p] = "skipped"
    BY <2>2 DEF blocked
  <2> QED BY <2>1, <2>3 DEF Verdict
<1> QED BY <1>1, <1>2, VerdictStep, DirInit, DirInvStep, PTL DEF CLISpec

-----------------------------------------------------------------------------
\* The load.

parsed(d) == {parsePolicy(p) : p \in d.policies}

Distinct(k) == \A p, q \in k.policies : p.name = q.name /\ p.table = q.table => p = q

-----------------------------------------------------------------------------
\* What parsing keeps of a policy.

LEMMA ParsedPolicy ==
  ASSUME NEW p \in Policy
  PROVE  LET q == parsePolicy(p)
         IN  /\ q \in Policy
             /\ q.name = p.name /\ q.table = p.table /\ q.permissive = p.permissive
             /\ q.cmd = p.cmd /\ q.using = p.using /\ q.check = p.check
             /\ q.roles = parseRoles(p.roles)
<1>1. parseCmd(p.cmd) = p.cmd
  BY DEF parseCmd, Policy, PolicyCmd
<1>2. parseRoles(p.roles) \in SUBSET SourceRole
  BY LiveAssumption DEF parseRoles, Policy
<1> QED BY <1>1, <1>2 DEF parsePolicy, Policy

LEMMA ParsedWellFormed ==
  ASSUME NEW k \in CatalogType, WellFormed(k), Distinct(k)
  PROVE  /\ parsed(k) \subseteq Policy
         /\ \A p \in parsed(k) : Creatable(p)
         /\ \A p, q \in parsed(k) : p.name = q.name /\ p.table = q.table => p = q
<1>1. k.policies \subseteq Policy
  BY DEF CatalogType
<1> QED BY <1>1, ParsedPolicy DEF parsed, WellFormed, Distinct, Creatable

\* A web caller is in the parsed TO list if it was in the list.
LEMMA ParsedTargets ==
  ASSUME NEW d \in Catalogs, NEW p \in d.policies, NEW c, Web(c), NEW cmd, NEW side
  PROVE  LET a == asWritten(p)
             b == asWritten(parsePolicy(p))
         IN  /\ AppliesTo(a, cmd, {roleOf[c]}) <=> AppliesTo(b, cmd, {roleOf[c]})
             /\ Qual(a, side) = Qual(b, side) /\ a.permissive = b.permissive
<1> DEFINE q == parsePolicy(p)
<1>1. p \in Policy
  BY CatalogAssumption DEF CatalogType
<1>2. /\ q.table = p.table /\ q.permissive = p.permissive /\ q.cmd = p.cmd
      /\ q.using = p.using /\ q.check = p.check /\ q.roles = parseRoles(p.roles)
  BY <1>1, ParsedPolicy
<1>3. p.roles \subseteq SourceRole
  BY <1>1 DEF Policy
<1>4. hasPublic(q) <=> hasPublic(p)
  <2>1. CASE "public" \in p.roles
    <3>1. p.roles = {"public"}
      BY <2>1, LiveAssumption
    <3> QED BY <1>2, <3>1 DEF parseRoles, hasPublic
  <2>2. CASE "public" \notin p.roles
    <3>1. q.roles = {lower[r] : r \in p.roles}
      BY <1>2, <2>2 DEF parseRoles
    <3>2. \A r \in p.roles : lower[r] # "public"
      BY <1>3, <2>2, LiveAssumption, RoleAssumption
    <3> QED BY <2>2, <3>1, <3>2 DEF hasPublic
  <2> QED BY <2>1, <2>2
<1>5. ~hasPublic(p) => (roleOf[c] \in q.roles <=> roleOf[c] \in p.roles)
  <2> SUFFICES ASSUME ~hasPublic(p)
               PROVE  roleOf[c] \in q.roles <=> roleOf[c] \in p.roles
    OBVIOUS
  <2>1. q.roles = {lower[r] : r \in p.roles}
    BY <1>2 DEF parseRoles, hasPublic
  <2>2. roleOf[c] \in SourceRole \ CustomRole
    BY RoleAssumption DEF Web, SourceRole, PseudoRole
  <2>3. \A r \in p.roles : lower[r] = roleOf[c] <=> r = roleOf[c]
    BY <1>3, <2>2, LiveAssumption
  <2> QED BY <2>1, <2>3
<1>6. p.roles # {} => q.roles # {} \/ hasPublic(p)
  BY <1>2, <1>3 DEF parseRoles, hasPublic
<1> DEFINE a == asWritten(p)
           b == asWritten(q)
<1>7. /\ a.permissive = p.permissive /\ a.cmd = p.cmd
      /\ a.using = p.using /\ a.check = p.check
      /\ a.targets = IF hasPublic(p) THEN {} ELSE p.roles
  BY DEF asWritten
<1>8. /\ b.permissive = p.permissive /\ b.cmd = p.cmd
      /\ b.using = p.using /\ b.check = p.check
      /\ b.targets = IF hasPublic(p) THEN {} ELSE q.roles
  <2> HIDE DEF q
  <2> QED BY <1>2, <1>4 DEF asWritten
<1> HIDE DEF a, b, q
<1>9. Qual(a, side) = Qual(b, side)
  BY <1>7, <1>8 DEF Qual
<1>10. ~hasPublic(p) => p.roles # {} /\ q.roles # {}
  BY <1>4 DEF hasPublic
<1>11. AppliesTo(a, cmd, {roleOf[c]}) <=> AppliesTo(b, cmd, {roleOf[c]})
  BY <1>5, <1>7, <1>8, <1>10 DEF AppliesTo
<1> QED BY <1>7, <1>8, <1>9, <1>11 DEF a, b, q

\* Parsing changes nobody's access: the expressions that hold for c admit it
\* under the parsed policies of a table as under the ones in the database.
LEMMA ParsedAdmits ==
  ASSUME NEW d \in Catalogs, NEW k, k.policies \in {d.policies, parsed(d)},
         NEW t, NEW c, Web(c), NEW cmd, NEW side, NEW holding
  PROVE  Admits(sourceOn(k, t), cmd, side, {roleOf[c]}, holding)
           <=> Admits(sourceOn(d, t), cmd, side, {roleOf[c]}, holding)
<1>1. CASE k.policies = d.policies
  BY <1>1 DEF sourceOn
<1>2. CASE k.policies = parsed(d)
  <2> DEFINE R == {roleOf[c]}
             A == sourceOn(d, t)
             B == sourceOn(k, t)
             vA == Voices(A, cmd, side, R)
             vB == Voices(B, cmd, side, R)
  <2>1. d.policies \subseteq Policy
    BY CatalogAssumption DEF CatalogType
  <2>2. ASSUME NEW a \in vA
        PROVE  \E b \in vB : b.permissive = a.permissive /\ Qual(b, side) = Qual(a, side)
    <3>1. PICK p \in d.policies : p.table = t /\ a = asWritten(p)
      BY DEF Voices, sourceOn
    <3>2. asWritten(parsePolicy(p)) \in B
      BY <1>2, <2>1, <3>1, ParsedPolicy DEF sourceOn, parsed
    <3> QED BY <3>1, <3>2, ParsedTargets DEF Voices
  <2>3. ASSUME NEW b \in vB
        PROVE  \E a \in vA : b.permissive = a.permissive /\ Qual(b, side) = Qual(a, side)
    <3>1. PICK p \in d.policies : p.table = t /\ b = asWritten(parsePolicy(p))
      BY <1>2, <2>1, ParsedPolicy DEF Voices, sourceOn, parsed
    <3>2. asWritten(p) \in A
      BY <3>1 DEF sourceOn
    <3> QED BY <3>1, <3>2, ParsedTargets DEF Voices
  <2> HIDE DEF vA, vB
  <2>4. /\ (\E b \in vB : b.permissive /\ Qual(b, side) \in holding)
             <=> (\E a \in vA : a.permissive /\ Qual(a, side) \in holding)
        /\ (\A b \in vB : ~b.permissive => Qual(b, side) \in holding)
             <=> (\A a \in vA : ~a.permissive => Qual(a, side) \in holding)
    BY <2>2, <2>3
  <2> QED BY <2>4 DEF Admits, vA, vB
<1> QED BY <1>1, <1>2

-----------------------------------------------------------------------------
\* The inductive invariant.

\* Nothing of the conversion has begun, and the catalog holds the answers so
\* far, each from one state of the database.
Loading ==
  /\ query \in 1..Queries
  /\ emitted = {} /\ stubs = {} /\ compatRoles = {} /\ used = {}
  /\ bundle = noBundle
  /\ IF query = 1 THEN cat.enabled = {} ELSE \E d \in seen : cat.enabled = d.enabled
  /\ IF query <= 2 THEN cat.policies = {} ELSE \E d \in seen : cat.policies = parsed(d)

\* The tables that are on are those of one moment, the policies of another.
Mixed ==
  /\ \E d \in seen : cat.enabled = d.enabled
  /\ \E d \in seen : cat.policies \in {d.policies, parsed(d)}

Sources == source \in seen /\ seen \subseteq Catalogs /\ query \in 1..Queries + 1

LoadInv ==
  /\ Sources
  /\ pc \in {"loading", "check", "loop", "done", "refused", "failed"}
  /\ WellFormed(cat) /\ Distinct(cat) /\ opts \in OptionSets
  /\ pc = "loading" => Loading
  /\ pc \notin {"loading", "failed"} => Inv /\ Mixed

LEMMA NewCatalogFine == WellFormed(NewCatalog) /\ Distinct(NewCatalog)
BY DEF NewCatalog, WellFormed, Distinct, CatalogType

\* What a database can hold can be converted.
LEMMA SourceFine ==
  ASSUME NEW d \in Catalogs PROVE WellFormed(d) /\ Distinct(d)
BY CatalogAssumption, SourcePoliciesAssumption DEF WellFormed, Distinct

\* An answer leaves a catalog a database could hold.
LEMMA AnsweredFine ==
  ASSUME NEW k, WellFormed(k), Distinct(k), NEW q, NEW d \in Catalogs
  PROVE  LET a == answered(k, q, d)
         IN  /\ WellFormed(a) /\ Distinct(a)
             /\ a.enabled = IF q = 1 THEN d.enabled ELSE k.enabled
             /\ a.policies = IF q = 2 THEN parsed(d) ELSE k.policies
<1> DEFINE a == answered(k, q, d)
<1>1. /\ k \in CatalogType /\ d \in CatalogType
      /\ WellFormed(d) /\ Distinct(d)
  BY SourceFine DEF WellFormed
<1>2. CASE q = 1
  <2>1. a = [k EXCEPT !.enabled = d.enabled, !.forced = d.forced]
    BY <1>2 DEF answered
  <2> HIDE DEF a
  <2>2. a \in CatalogType /\ a.enabled = d.enabled /\ a.policies = k.policies
    BY <1>1, <2>1 DEF CatalogType
  <2>3. WellFormed(a) /\ Distinct(a)
    BY <2>2 DEF WellFormed, Distinct
  <2> QED BY <1>2, <2>2, <2>3 DEF a
<1>3. CASE q = 2
  <2>1. /\ parsed(d) \subseteq Policy
        /\ \A p \in parsed(d) : Creatable(p)
        /\ \A x, y \in parsed(d) : x.name = y.name /\ x.table = y.table => x = y
    BY <1>1, ParsedWellFormed
  <2>2. a = [k EXCEPT !.policies = parsed(d)]
    BY <1>3 DEF answered, parsed
  <2> HIDE DEF a
  <2>3. a \in CatalogType /\ a.enabled = k.enabled /\ a.policies = parsed(d)
    BY <1>1, <2>1, <2>2 DEF CatalogType
  <2>4. WellFormed(a) /\ Distinct(a)
    BY <2>1, <2>3 DEF WellFormed, Distinct
  <2> QED BY <1>3, <2>3, <2>4 DEF a
<1>4. CASE q \notin {1, 2}
  BY <1>4 DEF answered
<1> QED BY <1>2, <1>3, <1>4

LEMMA LoadInvInit == CLIInit => LoadInv
<1> SUFFICES ASSUME CLIInit PROVE LoadInv
  OBVIOUS
<1>1. /\ Sources /\ pc = "loading" /\ cat = NewCatalog /\ opts \in OptionSets
      /\ query = 1
  BY DEF CLIInit, LiveInit, Sources, Queries
<1>2. Loading
  BY <1>1 DEF CLIInit, LiveInit, Loading, NewCatalog, Queries
<1> QED BY <1>1, <1>2, NewCatalogFine DEF LoadInv

LEMMA AnswerLoadInv == LoadInv /\ Answer => LoadInv'
<1> SUFFICES ASSUME LoadInv, Answer PROVE LoadInv'
  OBVIOUS
<1>1. /\ pc = "loading" /\ Loading /\ cat' = answered(cat, query, source)
      /\ query' = query + 1 /\ source' = source /\ seen' = seen
      /\ source \in seen /\ source \in Catalogs /\ seen \subseteq Catalogs
      /\ query \in 1..Queries + 1 /\ opts' = opts
      /\ UNCHANGED <<emitted, stubs, compatRoles, used, bundle>>
  BY DEF LoadInv, Sources, Answer, converting
<1>2. /\ WellFormed(cat') /\ Distinct(cat')
      /\ cat'.enabled = IF query = 1 THEN source.enabled ELSE cat.enabled
      /\ cat'.policies = IF query = 2 THEN parsed(source) ELSE cat.policies
  BY <1>1, AnsweredFine DEF LoadInv
<1>3. \E d \in seen : cat'.enabled = d.enabled
  BY <1>1, <1>2 DEF Loading
<1>4. IF query + 1 <= 2 THEN cat'.policies = {}
      ELSE \E d \in seen : cat'.policies = parsed(d)
  BY <1>1, <1>2 DEF Loading, Queries
<1>5. CASE query = Queries
  <2>1. /\ pc' = "check" /\ outcome' = [p \in cat'.policies |-> "pending"]
        /\ rlsTables' = cat'.enabled \ ManagedTable
    BY <1>5 DEF Answer
  <2>2. Fresh'
    BY <1>1, <1>2, <2>1 DEF Fresh, Loading, LoadInv
  <2>3. Inv'
    BY <2>2, FreshInv, PTL
  <2>4. Mixed'
    BY <1>1, <1>3, <1>4, <1>5 DEF Mixed, Queries, parsed
  <2>5. Sources'
    BY <1>1, <1>5 DEF Sources, Queries
  <2> QED BY <1>1, <1>2, <2>1, <2>3, <2>4, <2>5 DEF LoadInv
<1>6. CASE query # Queries
  <2>1. pc' = pc
    BY <1>6 DEF Answer
  <2>2. query' \in 1..Queries
    BY <1>1, <1>6 DEF Loading, Queries
  <2>3. Loading'
    BY <1>1, <1>3, <1>4, <2>2 DEF Loading, Queries, parsed
  <2>4. Sources'
    BY <1>1, <2>2 DEF Sources, Queries
  <2> QED BY <1>1, <1>2, <2>1, <2>3, <2>4 DEF LoadInv
<1> QED BY <1>5, <1>6

LEMMA ReadLoadInv == LoadInv /\ readSources => LoadInv'
<1> SUFFICES ASSUME LoadInv, readSources PROVE LoadInv'
  OBVIOUS
<1>1. /\ pc = "loading" /\ pc' = "check" /\ cat' = source /\ Loading /\ Sources
      /\ outcome' = [p \in cat'.policies |-> "pending"]
      /\ rlsTables' = cat'.enabled \ ManagedTable
      /\ UNCHANGED <<opts, emitted, stubs, compatRoles, used, bundle>>
      /\ UNCHANGED <<source, seen, query>>
  BY DEF LoadInv, readSources, converting, liveVars
<1>2. WellFormed(cat') /\ Distinct(cat')
  BY <1>1, SourceFine DEF Sources
<1>3. Fresh'
  BY <1>1, <1>2 DEF Fresh, Loading, LoadInv
<1>4. Inv'
  BY <1>3, FreshInv, PTL
<1>5. Mixed' /\ Sources'
  BY <1>1 DEF Mixed, Sources
<1> QED BY <1>1, <1>2, <1>4, <1>5 DEF LoadInv

LEMMA GiveUpLoadInv == LoadInv /\ GiveUp => LoadInv'
<1> SUFFICES ASSUME LoadInv, GiveUp PROVE LoadInv'
  OBVIOUS
<1>1. /\ pc' = "failed" /\ cat' = NewCatalog /\ opts' = opts
      /\ UNCHANGED <<source, seen, query>>
  BY DEF GiveUp, converting, liveVars
<1>2. Sources'
  BY <1>1 DEF LoadInv, Sources
<1> QED BY <1>1, <1>2, NewCatalogFine DEF LoadInv

LEMMA MigrateLoadInv == LoadInv /\ Migrate => LoadInv'
<1> SUFFICES ASSUME LoadInv, Migrate PROVE LoadInv'
  OBVIOUS
<1>1. /\ pc = "loading" /\ Loading /\ source' \in seen' /\ seen \subseteq seen'
      /\ seen' \subseteq Catalogs
      /\ UNCHANGED <<pc, cat, opts, emitted, stubs, compatRoles, used, bundle, query>>
  BY DEF LoadInv, Sources, Migrate, vars
<1>2. Loading'
  BY <1>1 DEF Loading, parsed
<1>3. Sources'
  BY <1>1 DEF LoadInv, Sources
<1> QED BY <1>1, <1>2, <1>3 DEF LoadInv, WellFormed, Distinct

\* The conversion knows nothing of where its catalog is from.
LEMMA ConvertLoadInv ==
  ASSUME LoadInv, Next \/ UNCHANGED vars, UNCHANGED <<source, seen, query>>
  PROVE  LoadInv'
<1>1. Sources'
  BY DEF LoadInv, Sources
<1>2. cat' = cat /\ opts' = opts
  BY DEF Next, Refuse, Accept, SkipManaged, SkipForRoles, Block, Convert, Assemble, vars
<1>3. WellFormed(cat') /\ Distinct(cat') /\ opts' \in OptionSets
  BY <1>2 DEF LoadInv
<1>4. CASE UNCHANGED vars
  <2>1. Loading => Loading'
    BY <1>4 DEF Loading, vars, parsed
  <2>2. Inv /\ Mixed => Inv' /\ Mixed'
    <3>1. Inv => Inv'
      BY <1>4, StepInv
    <3>2. Mixed => Mixed'
      BY <1>2 DEF Mixed, parsed
    <3> QED BY <3>1, <3>2
  <2> QED BY <1>1, <1>3, <1>4, <2>1, <2>2 DEF LoadInv, vars
<1>5. CASE Next
  <2>1. pc \in {"check", "loop"} /\ pc' \in {"loop", "done", "refused"}
    BY <1>5 DEF Next, Refuse, Accept, SkipManaged, SkipForRoles, Block, Convert, Assemble, At
  <2>2. Inv' /\ Mixed'
    <3>1. Inv'
      BY <1>5, <2>1, StepInv DEF LoadInv
    <3>2. Mixed'
      BY <1>2, <2>1 DEF LoadInv, Mixed, parsed
    <3> QED BY <3>1, <3>2
  <2> QED BY <1>1, <1>3, <2>1, <2>2 DEF LoadInv
<1> QED BY <1>4, <1>5

LEMMA RerunLoadInv == LoadInv /\ Rerun => LoadInv'
<1> SUFFICES ASSUME LoadInv, Rerun PROVE LoadInv'
  OBVIOUS
<1>1. /\ pc' = "loading" /\ query' = 1 /\ seen' = {source} /\ source' = source
      /\ cat' = NewCatalog /\ opts' \in OptionSets
      /\ emitted' = {} /\ stubs' = {} /\ compatRoles' = {} /\ used' = {}
      /\ bundle' = noBundle
  BY DEF Rerun
<1>2. Loading'
  BY <1>1 DEF Loading, NewCatalog, Queries
<1>3. Sources'
  BY <1>1 DEF LoadInv, Sources, Queries
<1> QED BY <1>1, <1>2, <1>3, NewCatalogFine DEF LoadInv

LEMMA LoadInvStep == LoadInv /\ [CLINext]_allVars => LoadInv'
<1> SUFFICES ASSUME LoadInv, [CLINext]_allVars PROVE LoadInv'
  OBVIOUS
<1>1. CASE Load
  <2>1. LiveNext
    BY <1>1 DEF Load
  <2>2. CASE Next /\ UNCHANGED liveVars
    BY <2>2, ConvertLoadInv DEF liveVars
  <2> QED BY <2>1, <2>2, AnswerLoadInv, GiveUpLoadInv, MigrateLoadInv DEF LiveNext
<1>2. CASE readSources
  BY <1>2, ReadLoadInv
<1>3. CASE Rerun
  BY <1>3, RerunLoadInv
<1>4. CASE UNCHANGED vars /\ UNCHANGED liveVars
  BY <1>4, ConvertLoadInv DEF liveVars
<1>5. ExitWithoutResult \/ Truncate \/ WriteFile \/ WriteError \/ Exit \/ Kill
        => UNCHANGED vars /\ UNCHANGED liveVars
  BY DEF ExitWithoutResult, Truncate, WriteFile, WriteError, Exit, Kill
<1>6. CASE UNCHANGED allVars
  <2>1. UNCHANGED vars /\ UNCHANGED liveVars
    BY <1>6 DEF allVars
  <2> QED BY <1>4, <2>1
<1> QED BY <1>1, <1>2, <1>3, <1>4, <1>5, <1>6 DEF CLINext

LEMMA LoadInvariance == CLISpec => []LoadInv
BY LoadInvInit, LoadInvStep, PTL DEF CLISpec

-----------------------------------------------------------------------------
\* Theorems.

\* Whatever migrates while the six queries run, what they leave is a catalog a
\* database could hold: typed, one policy per name, each with clauses that fit
\* its command (model.go, live/live.go).
THEOREM LiveTypeOKTheorem == CLISpec => []LiveTypeOK
<1>1. LoadInv => LiveTypeOK
  BY DEF LoadInv, Sources, LiveTypeOK, WellFormed, Distinct
<1> QED BY <1>1, LoadInvariance, PTL

\* On a table with row security on, a mixture permits a web caller what the
\* moment its policies are from permitted.
LEMMA MixedPermits ==
  ASSUME NEW d \in Catalogs, cat.policies \in {d.policies, parsed(d)},
         NEW t \in cat.enabled, NEW c \in Caller, Web(c), NEW cmd, NEW side
  PROVE  SourceAdmits(c, t, cmd, side) <=>
           Admits(sourceOn(d, t), cmd, side, {roleOf[c]}, {e \in Expr : c \in e.truth})
<1>1. ~Service(c)
  BY DEF Web, Service
<1> QED BY <1>1, ParsedAdmits DEF SourceAdmits, Permits

\* A torn load never opens a table: whatever a web caller may do after the
\* conversion, some state the database was in during the load permitted.
THEOREM NoTornWideningTheorem == CLISpec => []NoTornWidening
<1>1. LoadInv => NoTornWidening
  <2> SUFFICES ASSUME LoadInv, converted, ~keepsRoles(opts), NEW t \in Table,
                      narrowing(t) \/ (t \notin cat.enabled /\ on(t) = {}),
                      NEW c \in Caller, NEW cmd \in Cmds, Web(c),
                      NEW side \in SidesOf(cmd), TargetAdmits(c, t, cmd, side)
               PROVE  \E d \in seen : Permits(d, c, t, cmd, side)
    BY DEF NoTornWidening
  <2>1. Inv /\ Mixed /\ seen \subseteq Catalogs
    BY DEF LoadInv, Sources, converted
  <2>2. CASE t \notin cat.enabled
    BY <2>1, <2>2 DEF Mixed, Permits
  <2>3. CASE t \in cat.enabled
    <3>1. SourceAdmits(c, t, cmd, side)
      BY <2>1, <2>3, Narrows DEF NoWidening
    <3>2. PICK d \in seen : cat.policies \in {d.policies, parsed(d)}
      BY <2>1 DEF Mixed
    <3> QED BY <2>1, <2>3, <3>1, <3>2, MixedPermits DEF Permits
  <2> QED BY <2>2, <2>3
<1> QED BY <1>1, LoadInvariance, PTL

\* And a table that no migration touched meanwhile is converted as it stands,
\* even when the mixture is torn elsewhere.
THEOREM UntouchedTablesExactTheorem == CLISpec => []UntouchedTablesExact
<1>1. LoadInv => UntouchedTablesExact
  <2> SUFFICES ASSUME LoadInv, converted, ~keepsRoles(opts),
                      NEW t \in Table \ ManagedTable,
                      mechanical(t) \/ \E d \in seen : t \in d.enabled /\ sourceOn(d, t) = {},
                      \A d \in seen : /\ sourceOn(d, t) = sourceOn(source, t)
                                      /\ t \in d.enabled <=> t \in source.enabled,
                      NEW c \in Caller, NEW cmd \in Cmds, Web(c),
                      NEW side \in SidesOf(cmd)
               PROVE  TargetAdmits(c, t, cmd, side) <=> Permits(source, c, t, cmd, side)
    BY DEF UntouchedTablesExact
  <2>1. Inv /\ Mixed /\ seen \subseteq Catalogs
    BY DEF LoadInv, Sources, converted
  <2>2. PICK d \in seen : cat.policies \in {d.policies, parsed(d)}
    BY <2>1 DEF Mixed
  <2>3. t \in cat.enabled <=> t \in source.enabled
    BY <2>1 DEF Mixed
  <2>4. mechanical(t)
    <3> SUFFICES ASSUME t \in source.enabled, sourceOn(d, t) = {}
                 PROVE  mechanical(t)
      OBVIOUS
    <3>1. \A p \in d.policies : p.table # t
      BY DEF sourceOn
    <3>2. on(t) = {}
      <4>1. \A p \in parsed(d) : p.table # t
        <5>1. d.policies \subseteq Policy
          BY <2>1, CatalogAssumption DEF CatalogType
        <5>2. \A p \in d.policies : parsePolicy(p).table = p.table
          BY <5>1, ParsedPolicy
        <5> QED BY <3>1, <5>2 DEF parsed
      <4> QED BY <2>2, <3>1, <4>1 DEF on
    <3> QED BY <2>3, <3>2 DEF mechanical, convertible, clashOn
  <2>5. t \in cat.enabled
    BY <2>4 DEF mechanical, convertible
  <2>6. TargetAdmits(c, t, cmd, side) <=> SourceAdmits(c, t, cmd, side)
    BY <2>1, <2>4, Narrows, Preserves DEF WebAccessPreserved
  <2>7. sourceOn(d, t) = sourceOn(source, t) /\ ~Service(c)
    BY <2>2 DEF Web, Service
  <2> QED BY <2>1, <2>2, <2>3, <2>5, <2>6, <2>7, MixedPermits DEF Permits
<1> QED BY <1>1, LoadInvariance, PTL

\* Flags, exit status and the names in the directory.
Shape ==
  /\ flags \in Flags
  /\ exit \in {"running", "success", "attention", "error", "killed"}
  /\ DOMAIN disk \subseteq File

LEMMA ShapeStep == DirInv /\ Shape /\ [CLINext]_allVars => Shape'
<1> SUFFICES ASSUME DirInv, Shape, [CLINext]_allVars PROVE Shape'
  OBVIOUS
<1>1. CASE UNCHANGED <<flags, exit, disk>>
  BY <1>1 DEF Shape
<1>2. Load \/ readSources \/ UNCHANGED allVars => UNCHANGED <<flags, exit, disk>>
  BY DEF Load, readSources, allVars, cliVars
<1>3. ExitWithoutResult \/ WriteError \/ Exit \/ Kill => Shape'
  BY DEF ExitWithoutResult, WriteError, Exit, Kill, Shape
<1>4. CASE Truncate
  <2>1. due \in File
    <3>1. Cardinality(written) \in Nat /\ Cardinality(written) < Len(writes)
      BY <1>4 DEF Truncate, emitting, DirInv, Prefix
    <3> QED BY <3>1, Due DEF File
  <2>2. DOMAIN disk' = DOMAIN disk \cup {due} /\ UNCHANGED <<flags, exit>>
    BY <1>4 DEF Truncate
  <2> QED BY <2>1, <2>2 DEF Shape
<1>5. CASE WriteFile
  BY <1>5 DEF WriteFile, Shape
<1>6. CASE Rerun
  BY <1>6 DEF Rerun, Shape
<1> QED BY <1>1, <1>2, <1>3, <1>4, <1>5, <1>6 DEF CLINext

\* The whole of the command line is typed, and it writes one file at a time,
\* of the six it knows.
THEOREM CLITypeOKTheorem == CLISpec => []CLITypeOK
<1>1. CLIInit => Shape
  BY DEF CLIInit, Shape
<1>2. LiveTypeOK /\ DirInv /\ Shape => CLITypeOK
  <2> SUFFICES ASSUME DirInv, Shape
               PROVE  /\ written \cup open \subseteq File
                      /\ Cardinality(open) <= 1
    BY DEF CLITypeOK, Shape, DirInv, Ages
  <2>1. written \subseteq DOMAIN disk /\ open \subseteq DOMAIN disk
    BY DEF DirInv, Prefix
  <2>2. open = {} \/ open = {due}
    BY DEF DirInv, Prefix
  <2>3. Cardinality(open) <= 1
    <3>1. CASE open = {}
      BY <3>1, FS_EmptySet
    <3>2. CASE open = {due}
      <4>1. Cardinality({due}) = 1
        BY FS_Singleton
      <4> QED BY <3>2, <4>1
    <3> QED BY <2>2, <3>1, <3>2
  <2> QED BY <2>1, <2>3 DEF Shape
<1> QED BY <1>1, <1>2, ShapeStep, DirInit, DirInvStep, LiveTypeOKTheorem, PTL DEF CLISpec

=============================================================================
