---------------------------- MODULE CorpusProofs ----------------------------
(***************************************************************************)
(* A corpus that passed is evidence: for any number of cases, runs, edits, *)
(* crashes and executables.                                                *)
(***************************************************************************)
EXTENDS Corpus, TLAPS

Passed(r, c) == saved[r] # None /\ saved[r].cases[c].status = "passed"
Kept(key, q, c) == <<q, c>> \in tampered \/ bundle[q][c] = [of |-> key, by |-> q, whole |-> TRUE]

\* What a passed result of a case stands on.
Earned(result, c, by) ==
  /\ Passes(executed, result.key, by)
  /\ result.bundle \in Run /\ Passed(result.bundle, c)
  /\ Kept(result.key, result.bundle, c)

\* Every pass on disk was earned, and a summary is about one artifact.
SavedEarned ==
  \A r \in Run : saved[r] # None =>
    /\ \A c \in Case : Passed(r, c) => Earned(saved[r].cases[c], c, saved[r].runner)
    /\ \A c, d \in Case : saved[r].cases[c].key.artifact = saved[r].cases[d].key.artifact
    /\ saved[r].status = "passed" => \A c \in Case : Passed(r, c)

\* So was every pass a corpus may reuse, for the executable it names.
PreviousEarned ==
  \A c \in Case : previous[c] # None /\ previous[c].status = "passed" => Earned(previous[c], c, runnerHash)

\* The executable a corpus names is the one that runs it, unless its file was
\* replaced; a corpus without a directory has nothing to reuse.
Named ==
  /\ replaced \/ runner = exe
  /\ pc # "idle" => runnerHash \in Runner /\ (replaced \/ runner = runnerHash)
  /\ run = None => previous = NoCases

\* The corpus that runs has the summary of what it was asked about, and replaces
\* only what has not passed.
Running ==
  /\ pc # "idle" => identity \in Content
  /\ run # None => saved[run].runner = runnerHash /\ \A c \in Case : saved[run].cases[c].key = Key(c)
  /\ pc \in {"reuse", "begin"} => saved[run].cases[case].status = "pending"
  /\ pc \in {"run", "inputs", "steps", "check", "freeze", "record"} => saved[run].cases[case].status = "running"
  /\ pc = "reuse" => /\ previous[case] # None
                     /\ previous[case].status = "passed" /\ previous[case].key = Key(case)

\* A report that is checked is of what Word ran; one to be recorded is frozen.
Reported ==
  report # None =>
    /\ pc \in {"check", "freeze", "record"} => Passes(executed, report.of, runnerHash)
    /\ pc \in {"freeze", "record"} => report.of = Key(case)
    /\ pc = "record" => Kept(report.of, run, case)

IInv == TypeOK /\ Named /\ SavedEarned /\ PreviousEarned /\ Running /\ Reported

-----------------------------------------------------------------------------
LEMMA Initially == Init => IInv
  <1> SUFFICES ASSUME Init PROVE IInv
    OBVIOUS
  <1>1. TypeOK
    <2>1. NoCases \in [Case -> Content \cup {None}] /\ NoCases \in [Case -> CaseResults \cup {None}]
      BY DEF NoCases
    <2>2. /\ saved \in [Run -> Summaries \cup {None}]
          /\ bundle \in [Run -> [Case -> Bundles \cup {None}]]
          /\ input \in [Case -> Content]
      BY DEF Init, NoCases
    <2>3. replaced \in BOOLEAN
      BY Zenon DEF Init
    <2> QED BY <2>1, <2>2, <2>3, CorpusBounds DEF Init, TypeOK
  <1>2. Named /\ SavedEarned /\ PreviousEarned /\ Running /\ Reported
    BY DEF Init, Named, SavedEarned, PreviousEarned, Running, Reported, NoCases
  <1> QED BY <1>1, <1>2 DEF IInv

\* What the corpus that runs saves, its directory gets.
LEMMA Places ==
  ASSUME TypeOK
  PROVE  /\ pc \notin {"idle", "keys"} => /\ run \in Run /\ saved[run] \in Summaries
                                        /\ saved[run].status = "incomplete"
         /\ pc \notin {"idle", "keys", "next"} => case \in Case
         /\ pc \in {"inputs", "steps", "check", "freeze"} => report \in Reports
  BY DEF TypeOK

LEMMA Keyed ==
  ASSUME TypeOK, Running, pc # "idle", NEW c \in Case
  PROVE  Key(c) \in Abouts
  BY DEF TypeOK, Running, Key, About, Abouts

LEMMA PassesGrow ==
  ASSUME NEW some, NEW more, some \subseteq more, NEW key, NEW hash, Passes(some, key, hash)
  PROVE  Passes(more, key, hash)
  BY DEF Passes

\* Passes that stay, with their bundles, stay earned.
LEMMA EarnedStays ==
  ASSUME executed \subseteq executed', tampered \subseteq tampered',
         \A q \in Run, c \in Case : Passed(q, c) =>
           Passed(q, c)' /\ (<<q, c>> \in tampered' \/ bundle'[q][c] = bundle[q][c]),
         NEW result, NEW c \in Case, NEW by, Earned(result, c, by)
  PROVE  /\ Passes(executed', result.key, by)
         /\ result.bundle \in Run /\ Passed(result.bundle, c)'
         /\ <<result.bundle, c>> \in tampered' \/ bundle'[result.bundle][c] = [of |-> result.key, by |-> result.bundle, whole |-> TRUE]
  <1>1. result.bundle \in Run /\ Passed(result.bundle, c) /\ Kept(result.key, result.bundle, c)
    BY DEF Earned
  <1>2. Passed(result.bundle, c)' /\ (<<result.bundle, c>> \in tampered' \/ bundle'[result.bundle][c] = bundle[result.bundle][c])
    BY <1>1
  <1>3. Passes(executed', result.key, by)
    BY PassesGrow DEF Earned
  <1> QED BY <1>1, <1>2, <1>3 DEF Kept

LEMMA Saves ==
  ASSUME TypeOK, pc \notin {"idle", "keys", "next"}, NEW result \in CaseResults,
         saved' = [saved EXCEPT ![run].cases[case] = result]
  PROVE  /\ saved' \in [Run -> Summaries \cup {None}]
         /\ saved'[run] \in Summaries /\ saved'[run].status = "incomplete"
         /\ saved'[run].runner = saved[run].runner
         /\ saved'[run].cases[case] = result
         /\ \A c \in Case \ {case} : saved'[run].cases[c] = saved[run].cases[c]
         /\ \A r \in Run \ {run} : saved'[r] = saved[r]
  <1>1. /\ run \in Run /\ saved[run] \in Summaries /\ saved[run].status = "incomplete" /\ case \in Case
        /\ saved \in [Run -> Summaries \cup {None}]
    BY Places DEF TypeOK
  <1>2. saved[run].cases \in [Case -> CaseResults] /\ saved[run].runner \in Runner
    BY <1>1 DEF Summaries
  <1> DEFINE new == [saved[run] EXCEPT !.cases = [saved[run].cases EXCEPT ![case] = result]]
  <1>3. saved' = [saved EXCEPT ![run] = new]
    BY <1>1
  <1>4. [saved[run].cases EXCEPT ![case] = result] \in [Case -> CaseResults]
    BY <1>2
  <1>5. /\ new \in Summaries /\ new.status = "incomplete" /\ new.runner = saved[run].runner
        /\ new.cases = [saved[run].cases EXCEPT ![case] = result]
    BY <1>1, <1>4 DEF Summaries
  <1>6. saved'[run] = new
    BY <1>1, <1>3
  <1>7. new.cases[case] = result /\ \A c \in Case \ {case} : new.cases[c] = saved[run].cases[c]
    BY <1>1, <1>2, <1>5
  <1>8. saved' \in [Run -> Summaries \cup {None}] /\ \A r \in Run \ {run} : saved'[r] = saved[r]
    BY <1>1, <1>3, <1>5
  <1> HIDE DEF new
  <1> QED BY <1>5, <1>6, <1>7, <1>8

\* What Begin saves.
LEMMA BeginSaves ==
  ASSUME TypeOK, Begin
  PROVE  /\ [saved[run].cases[case] EXCEPT !.status = "running"] \in CaseResults
         /\ saved' = [saved EXCEPT ![run].cases[case] = [saved[run].cases[case] EXCEPT !.status = "running"]]
  <1>1. /\ run \in Run /\ saved[run] \in Summaries /\ case \in Case
        /\ saved \in [Run -> Summaries \cup {None}]
    BY Places DEF TypeOK, Begin, Goto
  <1>2. saved[run].cases[case] \in CaseResults
    BY <1>1 DEF Summaries
  <1>3. [saved[run].cases[case] EXCEPT !.status = "running"] \in CaseResults
    BY <1>2 DEF CaseResults
  <1> QED BY <1>1, <1>3 DEF Begin

\* What Record saves.
Result == [status |-> IF report = None THEN "failed" ELSE "passed",
           key |-> Key(case), bundle |-> IF report = None THEN None ELSE run]

LEMMA RecordSaves ==
  ASSUME TypeOK, Running, Record
  PROVE  Result \in CaseResults /\ saved' = [saved EXCEPT ![run].cases[case] = Result]
  <1>1. run \in Run /\ case \in Case
    BY Places DEF Record, Goto
  <1>2. Key(case) \in Abouts
    BY <1>1, Keyed DEF Record, Goto
  <1>3. Result \in CaseResults
    BY <1>1, <1>2 DEF Result, CaseResults
  <1> QED BY <1>3 DEF Record, SaveCase, Result

LEMMA ReuseSaves ==
  ASSUME TypeOK, Running, Reuse
  PROVE  previous[case] \in CaseResults /\ saved' = [saved EXCEPT ![run].cases[case] = previous[case]]
  <1>1. case \in Case /\ previous[case] # None
    BY Places DEF Reuse, Goto, Running
  <1> QED BY <1>1 DEF Reuse, SaveCase, TypeOK

\* What Allocate saves.
LEMMA Allocates ==
  ASSUME TypeOK, Named, Running, Allocate
  PROVE  \E r \in Run, reference \in Run \cup {None} :
           /\ pc = "keys" /\ pc' = "next" /\ run' = r
           /\ saved[r] = None /\ \A q \in Run \ {r} : saved'[q] = saved[q]
           /\ saved' \in [Run -> Summaries \cup {None}]
           /\ saved'[r] \in Summaries /\ saved'[r].status = "incomplete" /\ saved'[r].runner = runnerHash
           /\ \A c \in Case : saved'[r].cases[c] = [status |-> "pending", key |-> Key(c), bundle |-> None]
           /\ previous' \in [Case -> CaseResults \cup {None}]
           /\ \/ previous' = NoCases
              \/ /\ reference \in Run /\ saved[reference] # None /\ saved[reference].runner = runnerHash
                 /\ previous' = saved[reference].cases
  <1>1. PICK r \in Run, reference \in {None} \cup {q \in Run : saved[q] # None} :
          /\ Goto("keys", "next") /\ saved[r] = None
          /\ previous' = IF reference # None /\ saved[reference].runner = runnerHash
                         THEN saved[reference].cases ELSE NoCases
          /\ run' = r
          /\ saved' = [saved EXCEPT ![r] = [status |-> "incomplete", runner |-> runnerHash,
               cases |-> [c \in Case |-> [status |-> "pending", key |-> Key(c), bundle |-> None]]]]
    BY DEF Allocate
  <1>2. \A c \in Case : [status |-> "pending", key |-> Key(c), bundle |-> None] \in CaseResults
    BY <1>1, Keyed DEF Goto, CaseResults
  <1> DEFINE new == [status |-> "incomplete", runner |-> runnerHash,
               cases |-> [c \in Case |-> [status |-> "pending", key |-> Key(c), bundle |-> None]]]
  <1>3. runnerHash \in Runner /\ saved \in [Run -> Summaries \cup {None}]
    BY <1>1 DEF TypeOK, Named, Goto
  <1>4. [c \in Case |-> [status |-> "pending", key |-> Key(c), bundle |-> None]] \in [Case -> CaseResults]
    BY <1>2
  <1>5. new \in Summaries
    BY <1>3, <1>4 DEF Summaries
  <1>6. saved' = [saved EXCEPT ![r] = new]
    BY <1>1
  <1>7. \A c \in Case : new.cases[c] = [status |-> "pending", key |-> Key(c), bundle |-> None]
    OBVIOUS
  <1>8. new.status = "incomplete" /\ new.runner = runnerHash
    OBVIOUS
  <1> HIDE DEF new
  <1>9. /\ saved' \in [Run -> Summaries \cup {None}] /\ saved'[r] = new
        /\ \A q \in Run \ {r} : saved'[q] = saved[q]
    BY <1>3, <1>5, <1>6
  <1>10. previous' = NoCases \/ (/\ reference \in Run /\ saved[reference] # None
                                /\ saved[reference].runner = runnerHash /\ previous' = saved[reference].cases)
    BY <1>1
  <1>11. previous' \in [Case -> CaseResults \cup {None}]
    <2>1. NoCases \in [Case -> CaseResults \cup {None}]
      BY DEF NoCases
    <2>2. \A q \in Run : saved[q] # None => saved[q].cases \in [Case -> CaseResults]
      BY <1>3 DEF Summaries
    <2>3. \A f \in [Case -> CaseResults] : f \in [Case -> CaseResults \cup {None}]
      OBVIOUS
    <2> QED BY <1>10, <2>1, <2>2, <2>3
  <1> QED BY <1>1, <1>5, <1>7, <1>8, <1>9, <1>10, <1>11 DEF Goto

\* A finished summary differs in its status alone.
LEMMA Finishes ==
  ASSUME TypeOK, Finish
  PROVE  /\ saved' \in [Run -> Summaries \cup {None}]
         /\ saved'[run] \in Summaries /\ saved'[run].runner = saved[run].runner
         /\ saved'[run].cases = saved[run].cases
         /\ saved'[run].status = "passed" => \A c \in Case : saved[run].cases[c].status = "passed"
         /\ \A r \in Run \ {run} : saved'[r] = saved[r]
  <1>1. /\ run \in Run /\ saved[run] \in Summaries /\ saved \in [Run -> Summaries \cup {None}]
    BY Places DEF TypeOK, Finish
  <1> DEFINE end == IF \A c \in Case : saved[run].cases[c].status = "passed" THEN "passed" ELSE "failed"
  <1>2. end \in {"passed", "failed"} /\ (end = "passed" => \A c \in Case : saved[run].cases[c].status = "passed")
    OBVIOUS
  <1>3. saved' = [saved EXCEPT ![run].status = end]
    BY DEF Finish
  <1> HIDE DEF end
  <1>4. /\ [saved[run] EXCEPT !.status = end] \in Summaries
        /\ [saved[run] EXCEPT !.status = end].runner = saved[run].runner
        /\ [saved[run] EXCEPT !.status = end].cases = saved[run].cases
        /\ [saved[run] EXCEPT !.status = end].status = end
    BY <1>1, <1>2 DEF Summaries
  <1> QED BY <1>1, <1>2, <1>3, <1>4

-----------------------------------------------------------------------------
LEMMA TypeReturn ==
  ASSUME TypeOK, Return, UNCHANGED <<artifact, input, bundle, edits, executed, tampered>>,
         saved' \in [Run -> Summaries \cup {None}], crashes' \in 0..MaxCrashes,
         exe' \in Runner, runner' \in Runner, replaced' \in BOOLEAN
  PROVE  TypeOK'
  <1>1. /\ pc' = "idle" /\ run' = None /\ case' = None /\ identity' = None /\ runnerHash' = None
        /\ keys' = NoCases /\ previous' = NoCases /\ report' = None
    BY DEF Return
  <1>2. keys' \in [Case -> Content \cup {None}] /\ previous' \in [Case -> CaseResults \cup {None}]
    BY <1>1 DEF NoCases
  <1> QED BY <1>1, <1>2 DEF TypeOK

LEMMA Damages ==
  ASSUME TypeOK, Damage
  PROVE  \E r \in Run, c \in Case, b \in Bundles \cup {None} :
           tampered' = tampered \cup {<<r, c>>} /\ bundle' = [bundle EXCEPT ![r][c] = b]
  <1>1. PICK r \in Run, q \in Run, c \in Case :
          /\ bundle[r][c] # None /\ tampered' = tampered \cup {<<r, c>>}
          /\ \E b \in {None, [bundle[r][c] EXCEPT !.whole = FALSE], bundle[q][c]} \ {bundle[r][c]} :
               bundle' = [bundle EXCEPT ![r][c] = b]
    BY Zenon DEF Damage
  <1>2. PICK b \in {None, [bundle[r][c] EXCEPT !.whole = FALSE], bundle[q][c]} :
          bundle' = [bundle EXCEPT ![r][c] = b]
    BY <1>1
  <1>3. bundle[r][c] \in Bundles /\ bundle[q][c] \in Bundles \cup {None}
    BY <1>1 DEF TypeOK
  <1>4. [bundle[r][c] EXCEPT !.whole = FALSE] \in Bundles
    BY <1>3 DEF Bundles
  <1>5. b \in Bundles \cup {None}
    BY <1>3, <1>4
  <1> QED BY <1>1, <1>2, <1>5

LEMMA BundlePut ==
  ASSUME bundle \in [Run -> [Case -> Bundles \cup {None}]],
         NEW r \in Run, NEW c \in Case, NEW b \in Bundles \cup {None}
  PROVE  [bundle EXCEPT ![r][c] = b] \in [Run -> [Case -> Bundles \cup {None}]]
  <1>1. [bundle[r] EXCEPT ![c] = b] \in [Case -> Bundles \cup {None}]
    OBVIOUS
  <1> QED BY <1>1

LEMMA TypeStep ==
  ASSUME TypeOK, Named, Running, Next
  PROVE  TypeOK'
  <1> USE CorpusAssumption DEF Goto
  <1>1. CASE RunCorpus
    BY <1>1 DEF RunCorpus, files, program, disk, request, bounds, history, TypeOK
  <1>2. ASSUME NEW c \in Case, ReadKey(c) PROVE TypeOK'
    BY <1>2 DEF ReadKey, files, program, disk, bounds, history, TypeOK
  <1>3. CASE Allocate
    <2>1. PICK r \in Run : /\ pc' = "next" /\ run' = r /\ saved' \in [Run -> Summaries \cup {None}]
                           /\ saved'[r] \in Summaries /\ saved'[r].status = "incomplete"
                           /\ previous' \in [Case -> CaseResults \cup {None}]
      BY <1>3, Allocates
    <2>2. /\ pc = "keys" /\ UNCHANGED <<artifact, input, exe, runner, replaced, runnerHash, bundle, case,
                                        identity, keys, report, edits, crashes, executed, tampered>>
      BY <1>3 DEF Allocate, files, program, bounds, history
    <2>3. None \notin Run
      OBVIOUS
    <2>4. saved'[r] # None
      BY <2>1
    <2> QED BY <2>1, <2>2, <2>3, <2>4 DEF TypeOK
  <1>4. ASSUME NEW c \in Case, NextCase(c) PROVE TypeOK'
    BY <1>4 DEF NextCase, files, program, disk, request, bounds, history, TypeOK
  <1>5. ASSUME NEW result \in CaseResults, saved' = [saved EXCEPT ![run].cases[case] = result],
               pc \notin {"idle", "keys", "next"}
        PROVE  saved' \in [Run -> Summaries \cup {None}] /\ saved'[run] # None /\ saved'[run].status = "incomplete"
    BY <1>5, Saves
  <1>6. CASE Reuse
    <2>1. saved' \in [Run -> Summaries \cup {None}] /\ saved'[run] # None /\ saved'[run].status = "incomplete"
      BY <1>5, <1>6, ReuseSaves DEF Reuse
    <2>2. /\ pc = "reuse" /\ pc' = "next" /\ case' = None
          /\ UNCHANGED <<artifact, input, exe, runner, replaced, runnerHash, bundle, run, identity, keys,
                         previous, report, edits, crashes, executed, tampered>>
      BY <1>6 DEF Reuse, SaveCase, files, program, request, bounds, history
    <2> QED BY <2>1, <2>2 DEF TypeOK
  <1>7. CASE Begin
    <2>1. saved' \in [Run -> Summaries \cup {None}] /\ saved'[run] # None /\ saved'[run].status = "incomplete"
      BY <1>5, <1>7, BeginSaves DEF Begin
    <2>2. /\ pc = "begin" /\ pc' = "run"
          /\ UNCHANGED <<artifact, input, exe, runner, replaced, runnerHash, bundle, run, case, identity, keys,
                         previous, report, edits, crashes, executed, tampered>>
      BY <1>7 DEF Begin, files, program, request, bounds, history
    <2> QED BY <2>1, <2>2 DEF TypeOK
  <1>8. CASE RunWithInputs
    <2>1. case \in Case /\ artifact \in Content
      BY <1>8, Places DEF RunWithInputs, TypeOK
    <2>2. report' \in Reports /\ report' # None
      <3>1. About(artifact, case, None) \in Abouts
        BY <2>1 DEF About, Abouts
      <3>2. report' \in Reports
        BY <1>8, <3>1 DEF RunWithInputs, Reports
      <3> QED BY <3>2
    <2>3. /\ pc = "run" /\ pc' = "inputs"
          /\ UNCHANGED <<artifact, input, exe, runner, replaced, runnerHash, saved, bundle, run, case, identity,
                         keys, previous, edits, crashes, executed, tampered>>
      BY <1>8 DEF RunWithInputs, files, program, disk, request, bounds, history
    <2> QED BY <2>2, <2>3 DEF TypeOK
  <1>9. CASE ReadInputs
    <2>1. case \in Case /\ input[case] \in Content /\ report \in Reports
      BY <1>9, Places DEF ReadInputs, TypeOK
    <2>2. report' \in Reports /\ report' # None
      <3>1. [report.of EXCEPT !.input = input[case]] \in Abouts
        BY <2>1 DEF Abouts, Reports
      <3>2. report' = [report EXCEPT !.of = [report.of EXCEPT !.input = input[case]]]
        BY <1>9 DEF ReadInputs
      <3>3. report' \in Reports
        BY <2>1, <3>1, <3>2 DEF Reports
      <3> QED BY <3>3
    <2>3. /\ pc = "inputs" /\ pc' = "steps"
          /\ UNCHANGED <<artifact, input, exe, runner, replaced, runnerHash, saved, bundle, run, case, identity,
                         keys, previous, edits, crashes, executed, tampered>>
      BY <1>9 DEF ReadInputs, files, program, disk, request, bounds, history
    <2> QED BY <2>2, <2>3 DEF TypeOK
  <1>10. CASE RunPasses
    <2>1. [of |-> report.of, by |-> runner, named |-> runnerHash, replaced |-> replaced] \in Executions
      BY <1>10, Places DEF RunPasses, TypeOK, Named, Reports, Executions
    <2>2. executed' \subseteq Executions
      BY <1>10, <2>1 DEF RunPasses, TypeOK
    <2>3. /\ pc = "steps" /\ pc' = "check"
          /\ UNCHANGED <<artifact, input, exe, runner, replaced, runnerHash, saved, bundle, run, case, identity,
                         keys, previous, report, edits, crashes, tampered>>
      BY <1>10 DEF RunPasses, files, program, disk, request, bounds
    <2> QED BY <2>2, <2>3 DEF TypeOK
  <1>11. CASE RunFails
    BY <1>11 DEF RunFails, files, program, disk, request, bounds, history, TypeOK
  <1>12. CASE Check
    <2>1. /\ pc = "check" /\ \/ pc' = "freeze" /\ report' = report
                             \/ pc' = "record" /\ report' = None
      BY <1>12 DEF Check
    <2>2. UNCHANGED <<artifact, input, exe, runner, replaced, runnerHash, saved, bundle, run, case, identity,
                      keys, previous, edits, crashes, executed, tampered>>
      BY <1>12 DEF Check, files, program, disk, request, bounds, history
    <2> QED BY <2>1, <2>2 DEF TypeOK
  <1>13. CASE Freeze
    <2>1. run \in Run /\ case \in Case /\ report \in Reports
      BY <1>13, Places DEF Freeze
    <2>2. [of |-> report.of, by |-> run, whole |-> TRUE] \in Bundles
      BY <2>1 DEF Bundles, Reports
    <2>3. bundle' \in {bundle, [bundle EXCEPT ![run][case] = [of |-> report.of, by |-> run, whole |-> TRUE]]}
      BY <1>13 DEF Freeze
    <2>4. bundle' \in [Run -> [Case -> Bundles \cup {None}]]
      <3>1. bundle \in [Run -> [Case -> Bundles \cup {None}]]
        BY DEF TypeOK
      <3>2. [bundle EXCEPT ![run][case] = [of |-> report.of, by |-> run, whole |-> TRUE]]
              \in [Run -> [Case -> Bundles \cup {None}]]
        BY <2>1, <2>2, <3>1, BundlePut
      <3> QED BY <2>3, <3>1, <3>2
    <2>5. report' \in {report, None} /\ pc = "freeze" /\ pc' = "record"
      BY <1>13 DEF Freeze
    <2>6. UNCHANGED <<artifact, input, exe, runner, replaced, runnerHash, saved, run, case, identity, keys,
                      previous, edits, crashes, executed, tampered>>
      BY <1>13 DEF Freeze, files, program, request, bounds, history
    <2> QED BY <2>4, <2>5, <2>6 DEF TypeOK
  <1>14. CASE Record
    <2>1. saved' \in [Run -> Summaries \cup {None}] /\ saved'[run] # None /\ saved'[run].status = "incomplete"
      BY <1>5, <1>14, RecordSaves DEF Record
    <2>2. /\ pc = "record" /\ pc' = "next" /\ case' = None /\ report' = None
          /\ UNCHANGED <<artifact, input, exe, runner, replaced, runnerHash, bundle, run, identity, keys,
                         previous, edits, crashes, executed, tampered>>
      BY <1>14 DEF Record, SaveCase, files, program, request, bounds, history
    <2> QED BY <2>1, <2>2 DEF TypeOK
  <1>15. CASE Finish
    <2>1. saved' \in [Run -> Summaries \cup {None}]
      BY <1>15, Finishes
    <2> QED BY <1>15, <2>1, TypeReturn DEF Finish, files, program, bounds, history, TypeOK
  <1>16. CASE Abort
    <2>1. /\ exe \in Runner /\ runner \in Runner /\ replaced \in BOOLEAN /\ crashes \in 0..MaxCrashes
          /\ saved \in [Run -> Summaries \cup {None}]
      BY DEF TypeOK
    <2> QED BY <1>16, <2>1, TypeReturn DEF Abort, files, program, disk, bounds, history
  <1>17. CASE Edit
    <2>1. edits' \in 0..MaxEdits /\ artifact' \in Content /\ input' \in [Case -> Content]
      BY <1>17, CorpusBounds DEF Edit, TypeOK
    <2>2. UNCHANGED <<exe, runner, replaced, runnerHash, saved, bundle, pc, run, case, identity, keys, previous,
                      report, crashes, executed, tampered>>
      BY <1>17 DEF Edit, program, disk, request, history
    <2> QED BY <2>1, <2>2 DEF TypeOK
  <1>18. CASE Damage
    <2>1. PICK r \in Run, c \in Case, b \in Bundles \cup {None} :
            tampered' = tampered \cup {<<r, c>>} /\ bundle' = [bundle EXCEPT ![r][c] = b]
      BY <1>18, Damages
    <2>4. bundle' \in [Run -> [Case -> Bundles \cup {None}]]
      <3>1. bundle \in [Run -> [Case -> Bundles \cup {None}]]
        BY DEF TypeOK
      <3>2. [bundle EXCEPT ![r][c] = b] \in [Run -> [Case -> Bundles \cup {None}]]
        BY <3>1, BundlePut
      <3> QED BY <2>1, <3>2
    <2>5. edits' \in 0..MaxEdits /\ tampered' \subseteq Run \X Case
      BY <1>18, <2>1, CorpusBounds DEF Damage, TypeOK
    <2>6. UNCHANGED <<artifact, input, exe, runner, replaced, runnerHash, saved, pc, run, case, identity, keys,
                      previous, report, crashes, executed>>
      BY <1>18 DEF Damage, files, program, request
    <2> QED BY <2>4, <2>5, <2>6 DEF TypeOK
  <1>19. CASE DamageReport
    <2>1. report # None /\ report' = [report EXCEPT !.whole = FALSE]
      BY <1>19 DEF DamageReport
    <2>2. report' \in Reports /\ report' # None
      <3>1. report \in Reports
        BY <2>1 DEF TypeOK
      <3>2. report' \in Reports
        BY <2>1, <3>1 DEF Reports
      <3> QED BY <3>2
    <2>3. edits' \in 0..MaxEdits
      BY <1>19, CorpusBounds DEF DamageReport, TypeOK
    <2>4. UNCHANGED <<artifact, input, exe, runner, replaced, runnerHash, saved, bundle, pc, run, case,
                      identity, keys, previous, crashes, executed, tampered>>
      BY <1>19 DEF DamageReport, files, program, disk, request, history
    <2> QED BY <2>1, <2>2, <2>3, <2>4 DEF TypeOK
  <1>20. CASE Crash
    <2>1. /\ crashes' \in 0..MaxCrashes /\ saved' \in [Run -> Summaries \cup {None}]
          /\ exe' \in Runner /\ runner' \in Runner
      BY <1>20, CorpusBounds DEF Crash, disk, TypeOK
    <2>2. replaced' \in BOOLEAN
      BY <1>20, Zenon DEF Crash
    <2> QED BY <1>20, <2>1, <2>2, TypeReturn DEF Crash, files, program, disk, history
  <1>21. CASE Replace
    <2>1. edits' \in 0..MaxEdits /\ exe' \in Runner /\ replaced' = TRUE
      BY <1>21, CorpusBounds DEF Replace, TypeOK
    <2>2. UNCHANGED <<artifact, input, runner, runnerHash, saved, bundle, pc, run, case, identity, keys,
                      previous, report, crashes, executed, tampered>>
      BY <1>21 DEF Replace, files, disk, request, history
    <2> QED BY <2>1, <2>2 DEF TypeOK
  <1> QED BY <1>1, <1>2, <1>3, <1>4, <1>6, <1>7, <1>8, <1>9, <1>10, <1>11, <1>12, <1>13, <1>14, <1>15,
             <1>16, <1>17, <1>18, <1>19, <1>20, <1>21 DEF Next, Corpus

LEMMA NamedStep ==
  ASSUME TypeOK, Named, Next
  PROVE  Named'
  <1> USE DEF Goto
  <1>1. CASE RunCorpus
    BY <1>1 DEF RunCorpus, program, TypeOK, Named
  <1>2. CASE Allocate
    <2>1. PICK r \in Run : run' = r /\ pc = "keys" /\ UNCHANGED <<exe, runner, replaced, runnerHash>>
      BY <1>2 DEF Allocate, program
    <2>2. run' # None
      BY <2>1, CorpusAssumption
    <2> QED BY <2>1, <2>2 DEF Named
  <1>3. CASE Finish \/ Abort
    BY <1>3 DEF Finish, Abort, Return, program, Named
  <1>4. CASE Crash
    BY <1>4 DEF Crash, Return, Named
  <1>5. CASE Replace
    BY <1>5 DEF Replace, request, Named
  <1>6. CASE ~(RunCorpus \/ Allocate \/ Finish \/ Abort \/ Crash \/ Replace)
    <2>1. UNCHANGED <<exe, runner, replaced, runnerHash, run, previous>> /\ (pc = "idle" <=> pc' = "idle")
      BY <1>6 DEF Next, Corpus, ReadKey, NextCase, Reuse, Begin, RunWithInputs, ReadInputs, RunPasses,
        RunFails, Check, Freeze, Record, Edit, Damage, DamageReport, program, request
    <2> QED BY <2>1 DEF Named
  <1> QED BY <1>1, <1>2, <1>3, <1>4, <1>5, <1>6

-----------------------------------------------------------------------------
\* A pass on disk stays, and its bundle with it unless it is tampered with.
LEMMA PassesStay ==
  ASSUME TypeOK, Named, Running, Next, NEW q \in Run, NEW c \in Case, Passed(q, c)
  PROVE  Passed(q, c)' /\ (<<q, c>> \in tampered' \/ bundle'[q][c] = bundle[q][c])
  <1> USE DEF Passed, Goto
  <1>1. CASE Allocate
    <2>1. PICK r \in Run : saved[r] = None /\ \A p \in Run \ {r} : saved'[p] = saved[p]
      BY <1>1, Allocates
    <2>2. bundle' = bundle
      BY <1>1 DEF Allocate
    <2> QED BY <2>1, <2>2
  <1>2. ASSUME NEW result \in CaseResults, saved' = [saved EXCEPT ![run].cases[case] = result],
               pc \notin {"idle", "keys", "next"}, result.status = "passed" \/ saved[run].cases[case].status # "passed"
        PROVE  Passed(q, c)'
    <2>1. /\ saved'[run] \in Summaries /\ saved'[run].cases[case] = result
          /\ \A d \in Case \ {case} : saved'[run].cases[d] = saved[run].cases[d]
          /\ \A r \in Run \ {run} : saved'[r] = saved[r]
      BY <1>2, Saves
    <2>2. saved'[run] # None
      BY <2>1, CorpusAssumption
    <2> QED BY <1>2, <2>1, <2>2
  <1>3. CASE Reuse
    <2>1. pc = "reuse" /\ bundle' = bundle
      BY <1>3 DEF Reuse
    <2> QED BY <1>2, <1>3, <2>1, ReuseSaves DEF Running
  <1>4. CASE Begin
    <2>1. pc = "begin" /\ bundle' = bundle
      BY <1>4 DEF Begin
    <2>2. saved[run].cases[case].status # "passed"
      BY <2>1 DEF Running
    <2> QED BY <1>2, <1>4, <2>1, <2>2, BeginSaves
  <1>5. CASE Record
    <2>1. pc = "record" /\ bundle' = bundle
      BY <1>5 DEF Record
    <2>2. saved[run].cases[case].status # "passed"
      BY <2>1 DEF Running
    <2> QED BY <1>2, <1>5, <2>1, <2>2, RecordSaves
  <1>6. CASE Finish
    <2>1. bundle' = bundle
      BY <1>6 DEF Finish
    <2> QED BY <1>6, <2>1, Finishes, CorpusAssumption
  <1>7. CASE Freeze
    <2>1. /\ pc = "freeze" /\ saved' = saved
          /\ bundle' \in {bundle, [bundle EXCEPT ![run][case] = [of |-> report.of, by |-> run, whole |-> TRUE]]}
      BY <1>7 DEF Freeze
    <2>2. run \in Run /\ case \in Case /\ bundle \in [Run -> [Case -> Bundles \cup {None}]]
      BY <2>1, Places DEF TypeOK
    <2>3. q # run \/ c # case
      BY <2>1 DEF Running
    <2>4. bundle'[q][c] = bundle[q][c]
      BY <2>1, <2>2, <2>3
    <2> QED BY <2>1, <2>4
  <1>8. CASE Damage
    <2>1. PICK r \in Run, d \in Case, b \in Bundles \cup {None} :
            tampered' = tampered \cup {<<r, d>>} /\ bundle' = [bundle EXCEPT ![r][d] = b]
      BY <1>8, Damages
    <2>4. saved' = saved
      BY <1>8 DEF Damage
    <2>2. bundle \in [Run -> [Case -> Bundles \cup {None}]]
      BY DEF TypeOK
    <2>5. q # r \/ c # d => bundle'[q][c] = bundle[q][c]
      BY <2>1, <2>2
    <2> QED BY <2>1, <2>4, <2>5
  <1>9. CASE ~(Allocate \/ Reuse \/ Begin \/ Record \/ Finish \/ Freeze \/ Damage)
    <2>1. saved' = saved /\ bundle' = bundle
      BY <1>9 DEF Next, Corpus, RunCorpus, ReadKey, NextCase, RunWithInputs, ReadInputs, RunPasses, RunFails,
        Check, Abort, Edit, DamageReport, Replace, Crash, disk
    <2> QED BY <2>1
  <1> QED BY <1>1, <1>3, <1>4, <1>5, <1>6, <1>7, <1>8, <1>9

LEMMA HistoryGrows ==
  ASSUME Next
  PROVE  executed \subseteq executed' /\ tampered \subseteq tampered'
  BY DEF Next, Corpus, RunCorpus, ReadKey, Allocate, NextCase, Reuse, Begin, RunWithInputs, ReadInputs,
    RunPasses, RunFails, Check, Freeze, Record, Finish, Abort, Edit, Damage, DamageReport, Replace, Crash, history

\* What was earned stays earned.
LEMMA EarnedStep ==
  ASSUME TypeOK, Named, Running, Next, NEW result, NEW c \in Case, NEW by, Earned(result, c, by)
  PROVE  /\ Passes(executed', result.key, by)
         /\ result.bundle \in Run /\ Passed(result.bundle, c)'
         /\ \/ <<result.bundle, c>> \in tampered'
            \/ bundle'[result.bundle][c] = [of |-> result.key, by |-> result.bundle, whole |-> TRUE]
  BY PassesStay, HistoryGrows, EarnedStays

LEMMA PreviousStep ==
  ASSUME TypeOK, Named, Running, SavedEarned, PreviousEarned, Next
  PROVE  PreviousEarned'
  <1> SUFFICES ASSUME NEW c \in Case, previous'[c] # None, previous'[c].status = "passed"
               PROVE  Earned(previous[c], c, runnerHash)'
    BY DEF PreviousEarned
  <1>1. CASE previous'[c] = previous[c] /\ runnerHash' = runnerHash
    <2>1. Earned(previous[c], c, runnerHash)
      BY <1>1 DEF PreviousEarned
    <2> QED BY <1>1, <2>1, EarnedStep DEF Earned, Kept
  <1>2. CASE Allocate
    <2>1. PICK reference \in Run :
            /\ saved[reference] # None /\ saved[reference].runner = runnerHash
            /\ previous' = saved[reference].cases
      BY <1>2, Allocates DEF NoCases
    <2>2. Earned(previous'[c], c, runnerHash)
      BY <2>1 DEF SavedEarned, Passed
    <2>3. runnerHash' = runnerHash
      BY <1>2 DEF Allocate
    <2> QED BY <2>2, <2>3, EarnedStep DEF Earned, Kept
  <1>3. CASE RunCorpus \/ Finish \/ Abort \/ Crash
    <2>1. CASE RunCorpus
      <3>1. pc = "idle" /\ previous' = previous
        BY <2>1 DEF RunCorpus, Goto
      <3> QED BY <3>1 DEF Named, TypeOK, NoCases
    <2>2. CASE Finish \/ Abort \/ Crash
      BY <2>2 DEF Finish, Abort, Crash, Return, NoCases
    <2> QED BY <1>3, <2>1, <2>2
  <1>4. CASE ~(RunCorpus \/ Allocate \/ Finish \/ Abort \/ Crash)
    <2>1. previous' = previous /\ runnerHash' = runnerHash
      BY <1>4 DEF Next, Corpus, ReadKey, NextCase, Reuse, Begin, RunWithInputs, ReadInputs,
        RunPasses, RunFails, Check, Freeze, Record, Edit, Damage, DamageReport, Replace, request
    <2> QED BY <1>1, <2>1
  <1> QED BY <1>2, <1>3, <1>4

\* A result is saved only where it was earned.
LEMMA SavedStep ==
  ASSUME TypeOK, Named, SavedEarned, PreviousEarned, Running, Reported, Next
  PROVE  SavedEarned'
  <1> USE DEF Goto
  <1>1. ASSUME NEW r \in Run, saved[r] # None, saved'[r] = saved[r]
        PROVE  /\ \A c \in Case : Passed(r, c)' => Earned(saved[r].cases[c], c, saved[r].runner)'
               /\ \A c, d \in Case : saved'[r].cases[c].key.artifact = saved'[r].cases[d].key.artifact
               /\ saved'[r].status = "passed" => \A c \in Case : Passed(r, c)'
    <2>1. ASSUME NEW c \in Case, Passed(r, c)' PROVE Earned(saved[r].cases[c], c, saved[r].runner)'
      <3>1. Earned(saved[r].cases[c], c, saved[r].runner)
        BY <1>1, <2>1 DEF SavedEarned, Passed
      <3> QED BY <1>1, <3>1, EarnedStep DEF Earned, Kept
    <2> QED BY <1>1, <2>1 DEF SavedEarned, Passed
  <1>2. CASE saved' = saved
    BY <1>1, <1>2 DEF SavedEarned
  <1>3. CASE Allocate
    <2>1. PICK r \in Run :
            /\ \A q \in Run \ {r} : saved'[q] = saved[q]
            /\ pc = "keys" /\ saved'[r].status = "incomplete"
            /\ \A c \in Case : saved'[r].cases[c] = [status |-> "pending", key |-> Key(c), bundle |-> None]
      BY <1>3, Allocates
    <2>2. \A c \in Case : Key(c).artifact = identity
      BY DEF Key, About
    <2>3. ASSUME NEW c \in Case
          PROVE  saved'[r].cases[c].status = "pending" /\ saved'[r].cases[c].key.artifact = identity
      <3>1. saved'[r].cases[c] = [status |-> "pending", key |-> Key(c), bundle |-> None]
        BY <2>1
      <3>2. saved'[r].cases[c].status = "pending" /\ saved'[r].cases[c].key = Key(c)
        BY <3>1
      <3> QED BY <2>2, <3>2
    <2> QED BY <1>1, <2>1, <2>3 DEF SavedEarned, Passed
  <1>4. ASSUME NEW r \in Run, r = run, NEW d \in Case, d = case, NEW result \in CaseResults,
               saved' = [saved EXCEPT ![run].cases[case] = result],
               pc \notin {"idle", "keys", "next"}, result.key = Key(case), runnerHash' = runnerHash,
               result.status = "passed" => Earned(result, d, runnerHash)'
        PROVE  SavedEarned'
    <2>1. /\ saved'[r] \in Summaries /\ saved'[r].status = "incomplete"
          /\ saved'[r].runner = saved[r].runner /\ saved'[r].cases[d] = result
          /\ \A c \in Case \ {d} : saved'[r].cases[c] = saved[r].cases[c]
          /\ \A q \in Run \ {r} : saved'[q] = saved[q]
      BY <1>4, Saves
    <2>2. saved[r] # None /\ saved[r].runner = runnerHash
      BY <1>4, Places, CorpusAssumption DEF Running
    <2>3. ASSUME NEW c \in Case, Passed(r, c)' PROVE Earned(saved[r].cases[c], c, saved[r].runner)'
      <3>1. CASE c = d
        <4>1. result.status = "passed"
          BY <2>1, <2>3, <3>1 DEF Passed
        <4>2. saved'[r].cases[c] = result /\ saved'[r].runner = runnerHash'
          BY <1>4, <2>1, <2>2, <3>1
        <4> QED BY <1>4, <3>1, <4>1, <4>2 DEF Earned, Kept
      <3>2. CASE c # d
        <4>1. Earned(saved[r].cases[c], c, saved[r].runner)
          BY <2>1, <2>2, <2>3, <3>2 DEF SavedEarned, Passed
        <4> QED BY <2>1, <3>2, <4>1, EarnedStep DEF Earned, Kept
      <3> QED BY <3>1, <3>2
    <2>4. \A c \in Case : saved'[r].cases[c].key = Key(c)
      <3>1. saved'[r].cases[d].key = Key(d)
        BY <1>4, <2>1
      <3>2. \A c \in Case \ {d} : saved[r].cases[c].key = Key(c)
        BY <1>4, CorpusAssumption DEF Running
      <3>3. \A c \in Case \ {d} : saved'[r].cases[c].key = Key(c)
        BY <2>1, <3>2
      <3> QED BY <3>1, <3>3
    <2>5. \A c \in Case : Key(c).artifact = identity
      BY DEF Key, About
    <2>6. \A c, e \in Case : saved'[r].cases[c].key.artifact = saved'[r].cases[e].key.artifact
      BY <2>4, <2>5
    <2> QED BY <1>1, <2>1, <2>3, <2>6 DEF SavedEarned
  <1>5. CASE Reuse
    <2>1. PICK r \in Run, d \in Case : r = run /\ d = case
      BY <1>5, Places DEF Reuse
    <2>2. pc = "reuse" /\ runnerHash' = runnerHash /\ previous' = previous
      BY <1>5 DEF Reuse, request
    <2>3. previous[d] # None /\ previous[d].status = "passed" /\ previous[d].key = Key(d)
      BY <2>1, <2>2 DEF Running
    <2>4. Earned(previous[d], d, runnerHash)
      BY <2>3 DEF PreviousEarned
    <2>5. Earned(previous[d], d, runnerHash)'
      BY <2>2, <2>4, EarnedStep DEF Earned, Kept
    <2>6. PICK result \in CaseResults : result = previous[d] /\ saved' = [saved EXCEPT ![run].cases[case] = result]
      BY <1>5, <2>1, ReuseSaves
    <2>7. Earned(result, d, runnerHash)'
      BY <2>2, <2>5, <2>6 DEF Earned, Kept
    <2> QED BY <1>4, <2>1, <2>2, <2>3, <2>6, <2>7
  <1>6. CASE Begin
    <2>1. PICK r \in Run, d \in Case : r = run /\ d = case
      BY <1>6, Places DEF Begin
    <2>2. pc = "begin" /\ runnerHash' = runnerHash /\ saved[run] \in Summaries
      BY <1>6, Places DEF Begin, request
    <2>3. saved[run].cases[case] \in CaseResults /\ saved[run].cases[case].key = Key(case)
      BY <2>1, <2>2, CorpusAssumption DEF Running, Summaries
    <2>4. PICK result \in CaseResults :
            /\ result = [saved[run].cases[case] EXCEPT !.status = "running"]
            /\ saved' = [saved EXCEPT ![run].cases[case] = result]
      BY <1>6, BeginSaves
    <2>5. result.key = Key(case) /\ result.status = "running"
      BY <2>3, <2>4 DEF CaseResults
    <2> QED BY <1>4, <2>1, <2>2, <2>4, <2>5
  <1>7. CASE Record
    <2>1. PICK r \in Run, d \in Case : r = run /\ d = case
      BY <1>7, Places DEF Record
    <2>2. pc = "record" /\ UNCHANGED <<runnerHash, bundle, executed, tampered>>
      BY <1>7 DEF Record, request, history
    <2>3. PICK result \in CaseResults : result = Result /\ saved' = [saved EXCEPT ![run].cases[case] = result]
      BY <1>7, RecordSaves
    <2>4. result.key = Key(d) /\ (result.status = "passed" => report # None /\ result.bundle = r)
      BY <2>1, <2>3 DEF Result
    <2>5. ASSUME result.status = "passed" PROVE Earned(result, d, runnerHash)'
      <3>1. Passes(executed, Key(d), runnerHash) /\ Kept(Key(d), r, d)
        BY <2>1, <2>2, <2>4, <2>5 DEF Reported
      <3>2. saved'[r] # None /\ saved'[r].cases[d] = result
        BY <2>1, <2>2, <2>3, Saves, CorpusAssumption
      <3>3. Passes(executed', result.key, runnerHash')
        BY <2>2, <2>4, <3>1
      <3>4. result.bundle \in Run /\ Passed(result.bundle, d)'
        BY <2>4, <2>5, <3>2 DEF Passed
      <3>5. Kept(result.key, result.bundle, d)'
        <4>1. \/ <<r, d>> \in tampered'
              \/ bundle'[r][d] = [of |-> result.key, by |-> r, whole |-> TRUE]
          BY <2>2, <2>4, <3>1 DEF Kept
        <4> QED BY <2>4, <2>5, <4>1 DEF Kept
      <3> QED BY <3>3, <3>4, <3>5 DEF Earned
    <2> QED BY <1>4, <2>1, <2>2, <2>3, <2>4, <2>5
  <1>8. CASE Finish
    <2>1. PICK r \in Run : r = run
      BY <1>8, Places DEF Finish
    <2>2. /\ saved'[r] \in Summaries /\ saved'[r].runner = saved[r].runner /\ saved'[r].cases = saved[r].cases
          /\ saved'[r].status = "passed" => \A c \in Case : saved[r].cases[c].status = "passed"
          /\ \A q \in Run \ {r} : saved'[q] = saved[q]
      BY <1>8, <2>1, Finishes
    <2>3. saved[r] # None /\ saved'[r] # None
      BY <1>8, <2>1, <2>2, Places, CorpusAssumption DEF Finish
    <2>4. ASSUME NEW c \in Case, Passed(r, c)' PROVE Earned(saved[r].cases[c], c, saved[r].runner)'
      <3>1. Earned(saved[r].cases[c], c, saved[r].runner)
        BY <2>2, <2>3, <2>4 DEF SavedEarned, Passed
      <3> QED BY <2>2, <3>1, EarnedStep DEF Earned, Kept
    <2>5. \A c, e \in Case : saved'[r].cases[c].key.artifact = saved'[r].cases[e].key.artifact
      BY <2>2, <2>3 DEF SavedEarned
    <2>6. saved'[r].status = "passed" => \A c \in Case : Passed(r, c)'
      BY <2>2, <2>3 DEF Passed
    <2> QED BY <1>1, <2>2, <2>4, <2>5, <2>6 DEF SavedEarned
  <1>9. CASE ~(Allocate \/ Reuse \/ Begin \/ Record \/ Finish)
    <2>1. saved' = saved
      BY <1>9 DEF Next, Corpus, RunCorpus, ReadKey, NextCase, RunWithInputs, ReadInputs, RunPasses, RunFails,
        Check, Freeze, Abort, Edit, Damage, DamageReport, Replace, Crash, disk
    <2> QED BY <1>2, <2>1
  <1> QED BY <1>3, <1>5, <1>6, <1>7, <1>8, <1>9

-----------------------------------------------------------------------------
LEMMA RunningStep ==
  ASSUME TypeOK, Named, Running, Next
  PROVE  Running'
  <1> USE DEF Goto
  <1>1. CASE RunCorpus
    <2>1. /\ pc = "idle" /\ pc' = "keys" /\ identity' = artifact /\ run' = run
      BY <1>1 DEF RunCorpus
    <2>2. artifact \in Content /\ run = None
      BY <2>1 DEF TypeOK
    <2> QED BY <2>1, <2>2 DEF Running
  <1>2. ASSUME NEW c \in Case, ReadKey(c) PROVE Running'
    <2>1. pc = "keys" /\ UNCHANGED <<pc, run, identity>>
      BY <1>2 DEF ReadKey
    <2>2. run = None
      BY <2>1 DEF TypeOK
    <2> QED BY <2>1, <2>2 DEF Running
  <1>3. CASE Allocate
    <2>1. PICK r \in Run :
            /\ pc = "keys" /\ pc' = "next" /\ run' = r /\ saved'[r].runner = runnerHash
            /\ \A c \in Case : saved'[r].cases[c] = [status |-> "pending", key |-> Key(c), bundle |-> None]
      BY <1>3, Allocates
    <2>2. UNCHANGED <<runnerHash, identity, keys>>
      BY <1>3 DEF Allocate
    <2>3. ASSUME NEW c \in Case PROVE saved'[r].cases[c].key = Key(c)
      <3>1. saved'[r].cases[c] = [status |-> "pending", key |-> Key(c), bundle |-> None]
        BY <2>1
      <3> QED BY <3>1
    <2> QED BY <2>1, <2>2, <2>3 DEF Running, Key, About
  <1>4. ASSUME NEW c \in Case, NextCase(c) PROVE Running'
    <2>1. /\ pc = "next" /\ saved[run].cases[c].status = "pending" /\ case' = c
          /\ UNCHANGED <<runnerHash, saved, run, identity, keys, previous>>
          /\ pc' = IF Reusable(c) THEN "reuse" ELSE "begin"
      BY <1>4 DEF NextCase, disk, request
    <2>2. pc' = "reuse" => previous[c] # None /\ previous[c].status = "passed" /\ previous[c].key = Key(c)
      BY <2>1 DEF Reusable
    <2>3. Key(c)' = Key(c) /\ \A d \in Case : Key(d)' = Key(d)
      BY <2>1 DEF Key, About
    <2>4. previous'[case'] = previous[c] /\ Key(case)' = Key(c)
      BY <2>1 DEF Key, About
    <2> QED BY <2>1, <2>2, <2>3, <2>4 DEF Running
  <1>5. ASSUME NEW result \in CaseResults, saved' = [saved EXCEPT ![run].cases[case] = result],
               pc \notin {"idle", "keys", "next"}, result.key = Key(case),
               UNCHANGED <<runnerHash, run, identity, keys>>,
               pc' = "next" \/ (pc' = "run" /\ case' = case /\ result.status = "running")
        PROVE  Running'
    <2>1. /\ saved'[run].runner = saved[run].runner /\ saved'[run].cases[case] = result
          /\ \A c \in Case \ {case} : saved'[run].cases[c] = saved[run].cases[c]
          /\ run \in Run
      BY <1>5, Saves, Places
    <2>2. \A c \in Case : Key(c)' = Key(c)
      BY <1>5 DEF Key, About
    <2>3. run # None /\ saved[run].runner = runnerHash /\ \A c \in Case : saved[run].cases[c].key = Key(c)
      BY <2>1, CorpusAssumption DEF Running
    <2>4. \A c \in Case : saved'[run].cases[c].key = Key(c)
      BY <1>5, <2>1, <2>3
    <2>5. pc' = "run" => saved'[run].cases[case'].status = "running"
      BY <1>5, <2>1
    <2> QED BY <1>5, <2>1, <2>2, <2>3, <2>4, <2>5 DEF Running
  <1>6. CASE Reuse
    <2>1. pc = "reuse" /\ pc' = "next" /\ UNCHANGED <<runnerHash, run, identity, keys>>
      BY <1>6 DEF Reuse, request
    <2>2. previous[case].key = Key(case)
      BY <2>1 DEF Running
    <2>3. PICK result \in CaseResults : result = previous[case] /\ saved' = [saved EXCEPT ![run].cases[case] = result]
      BY <1>6, ReuseSaves
    <2>4. result.key = Key(case) /\ pc \notin {"idle", "keys", "next"}
      BY <2>1, <2>2, <2>3
    <2>5. saved' = [saved EXCEPT ![run].cases[case] = result]
      BY <2>3
    <2> QED BY <1>5, <2>1, <2>4, <2>5
  <1>7. CASE Begin
    <2>1. pc = "begin" /\ pc' = "run" /\ UNCHANGED <<runnerHash, run, case, identity, keys>>
      BY <1>7 DEF Begin, request
    <2>2. run \in Run /\ case \in Case /\ saved[run] \in Summaries
      BY <2>1, Places
    <2>3. saved[run].cases[case] \in CaseResults /\ saved[run].cases[case].key = Key(case)
      BY <2>2, CorpusAssumption DEF Running, Summaries
    <2>4. PICK result \in CaseResults :
            /\ result = [saved[run].cases[case] EXCEPT !.status = "running"]
            /\ saved' = [saved EXCEPT ![run].cases[case] = result]
      BY <1>7, BeginSaves
    <2>5. result.key = Key(case) /\ result.status = "running"
      BY <2>3, <2>4 DEF CaseResults
    <2> QED BY <1>5, <2>1, <2>4, <2>5
  <1>8. CASE Record
    <2>1. pc = "record" /\ pc' = "next" /\ UNCHANGED <<runnerHash, run, identity, keys>>
      BY <1>8 DEF Record, request
    <2>2. Result.key = Key(case)
      BY DEF Result
    <2>3. PICK result \in CaseResults : result = Result /\ saved' = [saved EXCEPT ![run].cases[case] = result]
      BY <1>8, RecordSaves
    <2>4. result.key = Key(case) /\ pc \notin {"idle", "keys", "next"}
      BY <2>1, <2>2, <2>3
    <2>5. saved' = [saved EXCEPT ![run].cases[case] = result]
      BY <2>3
    <2> QED BY <1>5, <2>1, <2>4, <2>5
  <1>9. CASE Finish \/ Abort \/ Crash
    <2>1. pc' = "idle" /\ run' = None
      BY <1>9 DEF Finish, Abort, Crash, Return
    <2> QED BY <2>1 DEF Running
  <1>10. CASE RunWithInputs \/ ReadInputs \/ RunPasses \/ RunFails \/ Check \/ Freeze
    <2>1. /\ pc \in {"run", "inputs", "steps", "check", "freeze"}
          /\ pc' \in {"inputs", "steps", "check", "freeze", "record"}
      BY <1>10 DEF RunWithInputs, ReadInputs, RunPasses, RunFails, Check, Freeze
    <2>2. UNCHANGED <<runnerHash, saved, run, case, identity, keys>>
      BY <1>10 DEF RunWithInputs, ReadInputs, RunPasses, RunFails, Check, Freeze, disk, request
    <2> QED BY <2>1, <2>2 DEF Running, Key, About
  <1>11. CASE Edit \/ Damage \/ DamageReport \/ Replace
    <2>1. UNCHANGED <<runnerHash, saved, pc, run, case, identity, keys, previous>>
      BY <1>11 DEF Edit, Damage, DamageReport, Replace, disk, request
    <2> QED BY <2>1 DEF Running, Key, About
  <1> QED BY <1>1, <1>2, <1>3, <1>4, <1>6, <1>7, <1>8, <1>9, <1>10, <1>11 DEF Next, Corpus

LEMMA ReportedStep ==
  ASSUME TypeOK, Named, Reported, Next
  PROVE  Reported'
  <1> USE DEF Goto
  <1>1. CASE report' = None
    BY <1>1 DEF Reported
  <1>2. CASE RunPasses
    <2>1. /\ pc = "steps" /\ pc' = "check" /\ report' = report /\ runnerHash' = runnerHash
          /\ executed' = executed \cup {[of |-> report.of, by |-> runner, named |-> runnerHash, replaced |-> replaced]}
      BY <1>2 DEF RunPasses, request
    <2>2. Passes(executed', report.of, runnerHash)
      <3>1. [of |-> report.of, by |-> runner, named |-> runnerHash, replaced |-> replaced] \in executed'
        BY <2>1
      <3>2. runner = runnerHash \/ replaced
        BY <2>1 DEF Named
      <3> QED BY <3>1, <3>2 DEF Passes
    <2> QED BY <2>1, <2>2 DEF Reported
  <1>3. CASE Check /\ report' # None
    <2>1. /\ pc = "check" /\ pc' = "freeze" /\ report' = report /\ report = [of |-> Key(case), whole |-> TRUE]
          /\ UNCHANGED <<runnerHash, case, identity, keys, executed>>
      BY <1>3 DEF Check, request, history
    <2>2. report.of = Key(case) /\ Key(case)' = Key(case)
      BY <2>1 DEF Key, About
    <2> QED BY <2>1, <2>2 DEF Reported
  <1>4. CASE Freeze /\ report' # None
    <2>1. /\ pc = "freeze" /\ pc' = "record"
          /\ UNCHANGED <<runnerHash, run, case, identity, keys, executed, tampered>>
          /\ \E ok \in BOOLEAN :
               /\ IF ok THEN bundle' = [bundle EXCEPT ![run][case] = [of |-> report.of, by |-> run, whole |-> TRUE]]
                  ELSE UNCHANGED bundle
               /\ report' = IF ok THEN report ELSE None
      BY <1>4 DEF Freeze, request, history
    <2>2. report' = report /\ bundle' = [bundle EXCEPT ![run][case] = [of |-> report.of, by |-> run, whole |-> TRUE]]
      BY <1>4, <2>1
    <2>3. run \in Run /\ case \in Case /\ bundle \in [Run -> [Case -> Bundles \cup {None}]]
      BY <2>1, Places DEF TypeOK
    <2>4. bundle'[run][case] = [of |-> report.of, by |-> run, whole |-> TRUE]
      BY <2>2, <2>3
    <2>5. Key(case)' = Key(case) /\ report # None
      BY <1>4, <2>1, <2>2 DEF Key, About
    <2> QED BY <2>1, <2>2, <2>4, <2>5 DEF Reported, Kept
  <1>5. CASE RunWithInputs \/ ReadInputs
    <2>1. pc' \in {"inputs", "steps"}
      BY <1>5 DEF RunWithInputs, ReadInputs
    <2> QED BY <2>1 DEF Reported
  <1>6. CASE Damage
    <2>1. PICK r \in Run, c \in Case, b \in Bundles \cup {None} :
            tampered' = tampered \cup {<<r, c>>} /\ bundle' = [bundle EXCEPT ![r][c] = b]
      BY <1>6, Damages
    <2>2. UNCHANGED <<runnerHash, pc, run, case, identity, keys, report, executed>>
      BY <1>6 DEF Damage, request
    <2>3. pc = "record" => run \in Run /\ case \in Case
      BY Places
    <2>4. bundle \in [Run -> [Case -> Bundles \cup {None}]]
      BY DEF TypeOK
    <2>5. run \in Run /\ case \in Case => <<run, case>> \in tampered' \/ bundle'[run][case] = bundle[run][case]
      BY <2>1, <2>4
    <2>6. Key(case)' = Key(case)
      BY <2>2 DEF Key, About
    <2> QED BY <2>1, <2>2, <2>3, <2>5, <2>6 DEF Reported, Kept
  <1>7. CASE DamageReport
    <2>1. report # None /\ report' = [report EXCEPT !.whole = FALSE]
      BY <1>7 DEF DamageReport
    <2>2. report'.of = report.of
      BY <2>1 DEF TypeOK, Reports
    <2>3. UNCHANGED <<runnerHash, bundle, pc, run, case, identity, keys, executed, tampered>>
      BY <1>7 DEF DamageReport, disk, request, history
    <2> QED BY <2>1, <2>2, <2>3 DEF Reported, Kept, Key, About
  <1>8. CASE Edit \/ Replace
    <2>1. UNCHANGED <<runnerHash, bundle, pc, run, case, identity, keys, report, executed, tampered>>
      BY <1>8 DEF Edit, Replace, disk, request, history
    <2> QED BY <2>1 DEF Reported, Kept, Key, About
  <1>9. CASE RunCorpus \/ Allocate \/ Reuse \/ Begin \/ (\E c \in Case : ReadKey(c) \/ NextCase(c))
    <2>1. pc \in {"idle", "keys", "next", "reuse", "begin"} /\ report' = report
      BY <1>9 DEF RunCorpus, Allocate, Reuse, Begin, ReadKey, NextCase
    <2>2. report = None
      BY <2>1 DEF TypeOK
    <2> QED BY <1>1, <2>1, <2>2
  <1>10. CASE RunFails \/ Record \/ Finish \/ Abort \/ Crash
    BY <1>1, <1>10 DEF RunFails, Record, Finish, Abort, Crash, Return
  <1> QED BY <1>1, <1>2, <1>3, <1>4, <1>5, <1>6, <1>7, <1>8, <1>9, <1>10 DEF Next, Corpus

LEMMA Inductive ==
  ASSUME IInv, [Next]_vars
  PROVE  IInv'
  <1>1. CASE Next
    BY <1>1, TypeStep, NamedStep, SavedStep, PreviousStep, RunningStep, ReportedStep DEF IInv
  <1>2. CASE UNCHANGED vars
    <2>1. UNCHANGED <<artifact, input, exe, runner, replaced, runnerHash, saved, bundle, pc, run, case,
                      identity, keys, previous, report, edits, crashes, executed, tampered>>
      BY <1>2 DEF vars, files, program, disk, request, bounds, history
    <2>2. TypeOK' /\ Named'
      BY <2>1 DEF IInv, TypeOK, Named
    <2>3. SavedEarned' /\ PreviousEarned'
      BY <2>1 DEF IInv, SavedEarned, PreviousEarned, Earned, Kept, Passed
    <2>4. Running' /\ Reported'
      BY <2>1 DEF IInv, Running, Reported, Kept, Key, About
    <2> QED BY <2>2, <2>3, <2>4 DEF IInv
  <1> QED BY <1>1, <1>2

LEMMA IInvAlways == Spec => []IInv
  BY Initially, Inductive, PTL DEF Spec

\* Every variable keeps its type, and a corpus its place.
THEOREM TypeCorrect == Spec => []TypeOK
  BY IInvAlways, PTL DEF IInv

\* A saved summary that passed is about one artifact, and inputs, that Word
\* passed every case with.
THEOREM PassIsAlwaysEvidence == Spec => []PassIsEvidence
  <1>1. IInv => PassIsEvidence
    <2> SUFFICES ASSUME IInv, NEW r \in Run, saved[r] # None, saved[r].status = "passed"
                 PROVE  /\ \A c \in Case : Passes(executed, saved[r].cases[c].key, saved[r].runner)
                        /\ \A c, d \in Case : saved[r].cases[c].key.artifact = saved[r].cases[d].key.artifact
      BY DEF PassIsEvidence
    <2>1. SavedEarned
      BY DEF IInv
    <2> QED BY <2>1 DEF SavedEarned, Earned
  <1> QED BY <1>1, IInvAlways, PTL

\* A case that passed has the evidence of its key, unless it was tampered with.
THEOREM PassAlwaysKeepsItsEvidence == Spec => []PassKeepsItsEvidence
  <1>1. IInv => PassKeepsItsEvidence
    BY DEF IInv, SavedEarned, Earned, Kept, Passed, PassKeepsItsEvidence
  <1> QED BY <1>1, IInvAlways, PTL
=============================================================================
