------------------------------- MODULE Corpus -------------------------------
(***************************************************************************)
(* internal/verify: RunCorpus with the native suite runner (RunWithInputs) *)
(* and Freeze.  A corpus runs one suite over cases that differ in their    *)
(* input files; its summary, corpus.json, is saved after every step, and a *)
(* later corpus may reuse the frozen evidence of an earlier one.           *)
(*                                                                         *)
(* Users change the artifact and the inputs, and damage evidence, at any   *)
(* moment, and replace the file of the executable while a process of it    *)
(* runs.  One corpus runs at a time, and Engine has what it does with the  *)
(* host: here a case passes or fails.  Contents are abstract, a hash is    *)
(* what it is a hash of, and there is one suite.  All executables have the *)
(* same project.Version, the weakest case: neither the key nor the report  *)
(* of a case matches across versions.                                      *)
(***************************************************************************)
EXTENDS Naturals

CONSTANTS
  Case, Content, None,
  Run,    \* the directories corpora allocate: a bound of the model
  Runner, \* executables: contents of the file
  MaxEdits, MaxCrashes \* bounds of the model

\* What a report or a key is about; a report; a frozen bundle; a summary.
Abouts == [artifact : Content, case : Case, input : Content \cup {None}]
Reports == [of : Abouts, whole : BOOLEAN]
Bundles == [of : Abouts, by : Run, whole : BOOLEAN]
CaseResults == [status : {"pending", "running", "passed", "failed"}, key : Abouts, bundle : Run \cup {None}]
Summaries == [status : {"incomplete", "passed", "failed"}, runner : Runner, cases : [Case -> CaseResults]]

Executions == [of : Abouts, by : Runner, named : Runner, replaced : BOOLEAN]

ASSUME CorpusAssumption ==
  /\ None \notin Content \cup Run \cup Case \cup Runner
  /\ None \notin Reports \cup Bundles \cup CaseResults \cup Summaries
ASSUME CorpusBounds == MaxEdits \in Nat /\ MaxCrashes \in Nat

VARIABLES
  artifact, input,  \* the files
  exe, runner,      \* the executable at os.Executable(), and the one that runs
  saved,            \* corpus.json of each run, or None
  bundle,           \* case-<ID> of each run, or None
  pc,               \* the place of the corpus that runs
  run, case,        \* its directory, and the case it is at
  identity, keys,   \* the artifact and the inputs it was asked about
  runnerHash,       \* the executable it names
  previous,         \* the results it may reuse
  report,           \* of the case: what Word ran, and whether its files are whole
  edits, crashes,
  replaced,          \* history: exe was replaced under the process that runs
  executed, tampered \* history: what passed in Word; bundles changed since

files == <<artifact, input>>
disk == <<saved, bundle>>
program == <<exe, runner, replaced>>
request == <<runnerHash, keys, previous>>
bounds == <<edits, crashes>>
history == <<executed, tampered>>
vars == <<files, program, disk, pc, run, case, identity, request, report, bounds, history>>

NoCases == [c \in Case |-> None]

Init ==
  /\ artifact \in Content /\ input = [c \in Case |-> artifact]
  /\ runner \in Runner /\ exe = runner /\ replaced = FALSE
  /\ saved = [r \in Run |-> None] /\ bundle = [r \in Run |-> NoCases]
  /\ pc = "idle" /\ run = None /\ case = None /\ identity = None /\ keys = NoCases
  /\ runnerHash = None /\ previous = NoCases /\ report = None
  /\ edits = 0 /\ crashes = 0 /\ executed = {} /\ tampered = {}

\* What a report, and the bundle frozen from it, is about; the key of a case.
About(v, c, i) == [artifact |-> v, case |-> c, input |-> i]
Key(c) == About(identity, c, keys[c])

Goto(from, to) == pc = from /\ pc' = to

\* RunCorpus returns.
Return ==
  /\ pc' = "idle" /\ run' = None /\ case' = None /\ identity' = None
  /\ runnerHash' = None /\ keys' = NoCases /\ previous' = NoCases /\ report' = None

SaveCase(result) == saved' = [saved EXCEPT ![run].cases[case] = result] /\ case' = None

-----------------------------------------------------------------------------
\* The artifact is read and the file of the executable hashed, then the inputs of
\* each case are.
RunCorpus ==
  /\ Goto("idle", "keys")
  /\ identity' = artifact /\ runnerHash' = exe
  /\ UNCHANGED <<files, program, disk, run, case, keys, previous, report, bounds, history>>

ReadKey(c) ==
  /\ pc = "keys" /\ keys[c] = None
  /\ keys' = [keys EXCEPT ![c] = input[c]]
  /\ UNCHANGED <<files, program, disk, pc, run, case, identity, runnerHash, previous, report, bounds, history>>

\* The reference, if any, is the summary of a run that names the same executable;
\* a new directory gets the summary of a corpus that is incomplete.
Allocate == \E r \in Run, reference \in {None} \cup {q \in Run : saved[q] # None} :
  /\ Goto("keys", "next") /\ \A c \in Case : keys[c] # None
  /\ saved[r] = None
  /\ previous' = IF reference # None /\ saved[reference].runner = runnerHash
                 THEN saved[reference].cases ELSE NoCases
  /\ run' = r
  /\ saved' = [saved EXCEPT ![r] = [status |-> "incomplete", runner |-> runnerHash,
       cases |-> [c \in Case |-> [status |-> "pending", key |-> Key(c), bundle |-> None]]]]
  /\ UNCHANGED <<files, program, bundle, case, identity, runnerHash, keys, report, bounds, history>>

\* A passed result of the same key whose bundle still has the recorded hash,
\* loads, and is about this artifact and these inputs.
Reusable(c) ==
  /\ previous[c] # None /\ previous[c].status = "passed" /\ previous[c].key = Key(c)
  /\ bundle[previous[c].bundle][c] = [of |-> Key(c), by |-> previous[c].bundle, whole |-> TRUE]

NextCase(c) ==
  /\ pc = "next" /\ saved[run].cases[c].status = "pending"
  /\ case' = c
  /\ pc' = IF Reusable(c) THEN "reuse" ELSE "begin"
  /\ UNCHANGED <<files, program, disk, run, identity, request, report, bounds, history>>

Reuse ==
  /\ Goto("reuse", "next")
  /\ SaveCase(previous[case])
  /\ UNCHANGED <<files, program, bundle, run, identity, request, report, bounds, history>>

Begin ==
  /\ Goto("begin", "run")
  /\ saved' = [saved EXCEPT ![run].cases[case].status = "running"]
  /\ UNCHANGED <<files, program, bundle, run, case, identity, request, report, bounds, history>>

\* RunWithInputs reads the artifact and the inputs again, and keeps copies of the
\* bytes it reports on and Word opens.
RunWithInputs ==
  /\ Goto("run", "inputs")
  /\ report' = [of |-> About(artifact, case, None), whole |-> TRUE]
  /\ UNCHANGED <<files, program, disk, run, case, identity, request, bounds, history>>

ReadInputs ==
  /\ Goto("inputs", "steps")
  /\ report' = [report EXCEPT !.of.input = input[case]]
  /\ UNCHANGED <<files, program, disk, run, case, identity, request, bounds, history>>

\* Every step and assertion held in Word, and the report is saved.
RunPasses ==
  /\ Goto("steps", "check")
  /\ executed' = executed \cup
       {[of |-> report.of, by |-> runner, named |-> runnerHash, replaced |-> replaced]}
  /\ UNCHANGED <<files, program, disk, run, case, identity, request, report, bounds, tampered>>

\* No host, a read or a step that fails, or the request is cancelled.
RunFails ==
  /\ pc \in {"run", "inputs", "steps"} /\ pc' = "record"
  /\ report' = None
  /\ UNCHANGED <<files, program, disk, run, case, identity, request, bounds, history>>

\* Mutant: the report is not compared with what the corpus was asked about.
CheckWholeness ==
  /\ pc = "check"
  /\ IF report.whole THEN pc' = "freeze" /\ UNCHANGED report ELSE pc' = "record" /\ report' = None
  /\ UNCHANGED <<files, program, disk, run, case, identity, request, bounds, history>>

\* checkedReport, corpusReportMatches: the artifact or an input may have changed
\* since its key was taken.
Check ==
  /\ pc = "check"
  /\ IF report = [of |-> Key(case), whole |-> TRUE]
     THEN pc' = "freeze" /\ UNCHANGED report ELSE pc' = "record" /\ report' = None
  /\ UNCHANGED <<files, program, disk, run, case, identity, request, bounds, history>>

\* Mutant: the error of Freeze is not looked at.
FreezeAnyway == \E ok \in BOOLEAN :
  /\ Goto("freeze", "record")
  /\ ok => report.whole
  /\ IF ok THEN bundle' = [bundle EXCEPT ![run][case] = [of |-> report.of, by |-> run, whole |-> TRUE]]
     ELSE UNCHANGED bundle
  /\ UNCHANGED <<files, program, saved, run, case, identity, request, report, bounds, history>>

\* Freeze copies the evidence aside, verifies the copy, and renames it.
Freeze == \E ok \in BOOLEAN :
  /\ Goto("freeze", "record")
  /\ ok => report.whole
  /\ IF ok THEN bundle' = [bundle EXCEPT ![run][case] = [of |-> report.of, by |-> run, whole |-> TRUE]]
     ELSE UNCHANGED bundle
  /\ report' = IF ok THEN report ELSE None
  /\ UNCHANGED <<files, program, saved, run, case, identity, request, bounds, history>>

\* Mutant: the report outlives its case.
RecordKeepingReport ==
  /\ Goto("record", "next")
  /\ SaveCase([status |-> IF report = None THEN "failed" ELSE "passed",
               key |-> Key(case), bundle |-> IF report = None THEN None ELSE run])
  /\ UNCHANGED <<files, program, bundle, run, identity, request, report, bounds, history>>

Record ==
  /\ Goto("record", "next")
  /\ SaveCase([status |-> IF report = None THEN "failed" ELSE "passed",
               key |-> Key(case), bundle |-> IF report = None THEN None ELSE run])
  /\ report' = None
  /\ UNCHANGED <<files, program, bundle, run, identity, request, bounds, history>>

Finish ==
  /\ pc = "next" /\ \A c \in Case : saved[run].cases[c].status # "pending"
  /\ saved' = [saved EXCEPT ![run].status =
       IF \A c \in Case : saved[run].cases[c].status = "passed" THEN "passed" ELSE "failed"]
  /\ Return
  /\ UNCHANGED <<files, program, bundle, bounds, history>>

\* The request is cancelled between two cases, or a read or a save fails.
Abort ==
  /\ pc \in {"keys", "next", "reuse", "begin", "record"}
  /\ Return
  /\ UNCHANGED <<files, program, disk, bounds, history>>

Corpus ==
  \/ RunCorpus \/ (\E c \in Case : ReadKey(c) \/ NextCase(c)) \/ Allocate
  \/ Reuse \/ Begin \/ RunWithInputs \/ ReadInputs \/ RunPasses \/ RunFails
  \/ Check \/ Freeze \/ Record \/ Finish \/ Abort

-----------------------------------------------------------------------------
Edit == \E v \in Content :
  /\ edits < MaxEdits
  /\ edits' = edits + 1
  /\ \/ v # artifact /\ artifact' = v /\ UNCHANGED input
     \/ \E c \in Case : v # input[c] /\ input' = [input EXCEPT ![c] = v] /\ UNCHANGED artifact
  /\ UNCHANGED <<program, disk, pc, run, case, identity, request, report, crashes, history>>

\* A bundle is removed, damaged, or replaced by another run's; so may be the
\* files the report of the moment refers to.
Damage == \E r, q \in Run, c \in Case :
  /\ edits < MaxEdits /\ bundle[r][c] # None
  /\ edits' = edits + 1
  /\ \E b \in {None, [bundle[r][c] EXCEPT !.whole = FALSE], bundle[q][c]} \ {bundle[r][c]} :
       bundle' = [bundle EXCEPT ![r][c] = b]
  /\ tampered' = tampered \cup {<<r, c>>}
  /\ UNCHANGED <<files, program, saved, pc, run, case, identity, request, report, crashes, executed>>

DamageReport ==
  /\ edits < MaxEdits /\ report # None /\ report.whole
  /\ edits' = edits + 1
  /\ report' = [report EXCEPT !.whole = FALSE]
  /\ UNCHANGED <<files, program, disk, pc, run, case, identity, request, crashes, history>>

\* The file of the executable is replaced while the process runs on.
Replace == \E e \in Runner \ {exe} :
  /\ edits < MaxEdits
  /\ edits' = edits + 1
  /\ exe' = e /\ replaced' = TRUE
  /\ UNCHANGED <<files, runner, disk, pc, run, case, identity, request, report, crashes, history>>

\* The process dies; the next is of the file as it is then.
Crash ==
  /\ crashes < MaxCrashes
  /\ crashes' = crashes + 1
  /\ runner' = exe /\ replaced' = FALSE
  /\ Return
  /\ UNCHANGED <<files, exe, disk, edits, history>>

Next == Corpus \/ Edit \/ Damage \/ DamageReport \/ Replace \/ Crash

Spec == Init /\ [][Next]_vars

-----------------------------------------------------------------------------
\* Properties.

\* Every variable has its type; a corpus that runs has a place in memory and a
\* summary on disk, and a report only while its case runs.
TypeOK ==
  /\ artifact \in Content /\ input \in [Case -> Content]
  /\ exe \in Runner /\ runner \in Runner /\ replaced \in BOOLEAN /\ runnerHash \in Runner \cup {None}
  /\ saved \in [Run -> Summaries \cup {None}]
  /\ bundle \in [Run -> [Case -> Bundles \cup {None}]]
  /\ run \in Run \cup {None} /\ case \in Case \cup {None} /\ identity \in Content \cup {None}
  /\ keys \in [Case -> Content \cup {None}] /\ previous \in [Case -> CaseResults \cup {None}]
  /\ report \in Reports \cup {None}
  /\ pc \in {"idle", "keys", "next", "reuse", "begin", "run", "inputs", "steps", "check", "freeze", "record"}
  /\ run = None <=> pc \in {"idle", "keys"}
  /\ case = None <=> pc \in {"idle", "keys", "next"}
  /\ run # None => saved[run] # None /\ saved[run].status = "incomplete"
  /\ pc \in {"inputs", "steps", "check", "freeze"} => report # None
  /\ report # None => pc \in {"inputs", "steps", "check", "freeze", "record"}
  /\ executed \subseteq Executions /\ tampered \subseteq Run \X Case
  /\ edits \in 0..MaxEdits /\ crashes \in 0..MaxCrashes

\* One of these executions passed what the key is about, for a corpus that named
\* this executable: the one that ran, unless its file was replaced while it ran.
Passes(executions, key, hash) ==
  \E e \in executions : e.of = key /\ e.named = hash /\ (e.by = hash \/ e.replaced)

\* CORPUS.md: "Only matching artifact, runner executable hash, suite and input
\* bytes can reuse a case", and "any failed or unfinished case prevents aggregate
\* success".  Whatever was edited, damaged, interrupted or reused in between, a
\* saved summary that passed means that Word passed every case with the one
\* artifact and the input it names, for a corpus that named the same executable.
\* The executable that ran is another only where its file had been replaced under
\* the session.
PassIsEvidence ==
  \A r \in Run : saved[r] # None /\ saved[r].status = "passed" =>
    /\ \A c \in Case : Passes(executed, saved[r].cases[c].key, saved[r].runner)
    /\ \A c, d \in Case : saved[r].cases[c].key.artifact = saved[r].cases[d].key.artifact

\* A case a summary calls passed has its frozen evidence, about the bytes of its
\* key, unless somebody changed the bundle: no crash, error or reuse leaves a pass
\* whose evidence is another's or not there.
PassKeepsItsEvidence ==
  \A r \in Run, c \in Case : saved[r] # None /\ saved[r].cases[c].status = "passed" =>
    LET q == saved[r].cases[c].bundle IN
      <<q, c>> \in tampered \/ bundle[q][c] = [of |-> saved[r].cases[c].key, by |-> q, whole |-> TRUE]
=============================================================================
