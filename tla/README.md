# WordUp in TLA+

WordUp is one Go executable that imports, edits, builds, tests and deploys Word
templates.  Most of it is sequential transformation of Office files.  The parts
modelled here are those where things happen at the same time, are cut short, or
are remembered for longer than they are true: the deployment of a template into
a user's Word, the processes WordUp keeps warm and the engine that shares them,
the protocol with the worker that owns a Word, the build and its memos, the
installation of components, and the evidence a corpus of tests leaves behind.

Paths below are relative to `src/`; `deploy.go` and the like are in
`src/internal/...`.  `PROJECT.json` gives, for every definition of the modules,
the lines it stands for.

## 1. Inventory

| Component | State it keeps | Operations | Hard behaviour | Status |
|---|---|---|---|---|
| Template deployment, `internal/deploy` | a release directory per plan (`activation.json`, `candidate.dotm`, `previous.dotm`), the installed template, a Run key command, two named mutexes | Prepare, Activate, Restore, Watch, Spawn, RecordFailure | several processes on one target, a crash or an I/O error between any two writes, edits by the user, Word open | modelled |
| Office helpers, `internal/native/office_worker_windows.go` | a helper process per executable, its pipes, generation and idle timer, one gate | callOfficeWorker, StopOfficeTools, the idle function | time-outs that leave a line in a pipe, a timer that lost a race, helpers that die | modelled |
| Local session, `internal/localipc` | the descriptor `session.json`, the lock `session.starting`, a pipe listener, slots, active calls | Start, Call, Serve, closeServer | concurrent starts, shutdown under running calls, the instance limit, killed clients and servers | partly |
| Native Word host, `internal/native` host and process | pending calls, completions, watchdogs; in the worker the lanes, the tasks and their results | Call, WaitTask, watchTask, readResponses, observeWordExit, Close, HostMain | deadlines against late answers, three ways to end a session, Word exits, bounded lanes | partly |
| Engine, `internal/agent/engine.go` | the cached native host and its options, the mutexes `mu` and `fsMu`, the open workspace | Call (one case per method), Host, Close | requests that share, close and replace one host; two mutexes held across work in Word | partly |
| Workspace and build, `internal/project` | what Open read, the source memo and its stamps, the build memo; on disk the artifact and its report | Open, SourceFilesCached, Build, Write, Import | stale stamps, edits during a build, three caches with different keys | partly |
| Template components, `internal/component` | the component lock, the copied files, the lease file | Add, ensureRequirements, install, Diff, Status | one of several writes fails, roll-back under edits, killed installers | partly |
| Verification, `internal/verify` | the summary `corpus.json`, a frozen bundle per case, the report of a run | RunCorpus, RunWithInputs, Freeze, Check, Compare | inputs hashed long before they run, reuse after crashes, damage and upgrades | partly |
| Compile and the stdio protocol, `internal/agent` | two flags of the handshake; the outputs of one compile | Serve, compile | none of its own: one line is answered at a time | not modelled |
| Structure resolution, `internal/structure` | none | Resolve | judgement over arbitrary evidence | not modelled |
| Command line, `cmd/wordup` | none | dispatch | its `__activate` and `session` entries belong to the components above | not modelled |
| Signing, `internal/signing` | a staged copy | Sign | sequential, nothing shared | not modelled |
| Journal templates, `internal/journal` | none | generation of VBA, XML and styles | text only | not modelled |
| ALR map, `internal/alrmap` | none | classification and rewriting of text | regular expressions | not modelled |
| Office formats, `internal/office`, `internal/inspect` | none | parse and write OPC, CFB, VBA, forms | bytes only | not modelled |
| VBA parsing, `internal/vbaparse`, `internal/compat` | none | preprocess, parse, look up | generated parser | not modelled |
| Examples, macOS bridge, tools, scripts | none | sample content, Apple events, builds | I/O | not modelled |

**How they interact.**  The command line runs an `Engine` in its own process,
behind `Serve` on standard input, or behind the local session, whose server
hands each call, on a goroutine of its own, to one shared `Engine`.  The engine
keeps one native host and one open workspace; every request but the `native.*`
ones holds `fsMu` from beginning to end, so that builds, installations and
tests of one engine take turns, while host calls and other processes do not
wait for them.  Tests and corpora run in the engine's host; compile and test
build through the workspace.  Deployment starts `wordup __activate` detached:
from then on the plan's files and the Run key are all that two processes share.
The native host is a parent and a worker joined by pipes, in a job object that
ends both the worker and the Word it owns.

**What makes each part correct.**
Deployment: the user's template is replaced only by the tested artifact and
only over the bytes it was staged against, can be undone, and a plan is not
forgotten.  Helpers: an answer reaches the call that asked, and no process is
left behind.  Session: one reachable server, of the capability asked for, that
stays while used and drains when it stops.  Native host: one response per call,
a known cause for every end, an end for every task.  Engine: no Word without an
owner, no case in a host another case has spoiled, no request that waits for
ever.  Build: the answer of any cache is what a build without caches would
write.  Component: all of an installation or none of it, and a lock that only
grows.  Corpus: a pass means that Word passed those very bytes, and that its
evidence is there.

## 2. Modules

| Module | Models | State and steps |
|---|---|---|
| `Deployment` | what a deployment promises (abstract) | target files, who wrote them, what was staged, what is kept, who has a claim to a target; Stage, ClaimToReplace, ClaimToUndo, Keep, Replace, Undo, Drop, UserEdit |
| `Activation` | `deploy.go`, `spawn.go`, `resume_windows.go` | one `pc` per process, one step per lock, read, write or rename; a failed step goes where the error return goes |
| `OfficeWorkers` | `office_worker_windows.go` | `gate` is the mutex channel, `all` the map, `requests`/`answers` the pipes; a call and its goroutine step separately |
| `LocalSession` | `session.go`, `transport_windows.go` | `spc` is a server's place in `Serve`, `pipe` its unconnected instance, `handler` a connection's goroutine, `cpc` a client's place in `Start`/`Call` |
| `NativeHost` | `process_windows.go`, the request loop and lanes of `host_windows.go` | parent: `phase`, `cause`, `pending`, `ch`, `entry` (h.tasks), `done` (completions); worker: `held`, `queue`, `running`, `finished`, `record`, `busy`; between them `input`, `output` |
| `HostTask` | what a begin promises of its task (abstract) | `task`, `told` (its completion), `word`; Accept, End, Open, Settle, WordEnds, SeeWordEnd |
| `Engine` | `engine.go`: Call, Host, Close | `host` is e.host, `mu` and `fsMu` the mutexes, `pc`, `kind` and `using` a request's place, method and host; a host is live, wordless, given to the user or closed |
| `WorkspaceBuild` | `workspace.go`: Open, sourceStamps, SourceFilesCached, Build | `disk` holds contents and stamps, `sourceMemo`, `sourceStamp` and `buildMemo` are the fields of Workspace, `artifact` and `report` the outputs; a walk stamps one file a step, a read reads one |
| `ComponentRegistry` | what the component lock promises (abstract) | `entry`; Install |
| `ComponentInstall` | `component.go`: AddWith, ensureRequirements, install, rollback | `lease` is `component-install.lock`, `entry` `components.json`, `file` the sources; per installer `queue`, `lock`, `todo`, `created` |
| `Corpus` | `corpus.go`, `freeze.go`, `inputs.go`, the suite runner of `verify.go` | `saved` is `corpus.json` of each run, `bundle` its `case-<ID>`, `keys` and `identity` what was hashed before the first case, `report` what Word ran, `runner` the executable the process runs, `exe` the file under its name and `runnerHash` what was hashed of it |
| `MC*` | instances | who calls what, symmetry |
| `*Proofs` | theorems | section 6 |

The components do not share variables.  Each is checked against an environment
that may do whatever its neighbours can: `Activation` is called by any process
at any time, `OfficeWorkers` and `NativeHost` by callers that come, wait and
give up, `LocalSession` by clients that are killed.  `Engine` has hosts that
die, lose their Word or do not start whenever `NativeHost` says they may, and
ends with the session of `LocalSession`.  `WorkspaceBuild`, `ComponentInstall` and
`Corpus` have users who edit, remove and damage files between any two steps;
the first and the last run one request at a time because `Engine.fsMu`, in
`Engine`, lets no other in, while installers are processes and share only files.

Granularity.  A step is a piece of code nobody else can see the middle of: one
system call, or one critical section of a Go mutex.  Where the code releases a
lock and takes it again (`Call`, which checks `h.closed` in one section and
enters itself in `h.pending` in the next; `breakPending`, which is called after
`h.termination` has been set) the model has two steps.  Where the code compares
and then acts on files (the hash of a template and its rename, the roll-back's
comparison and its removal, the stamp of a source and its read) there are two
steps as well, and an edit fits between them.

Three pieces are coarser than that.  Prepare's read of the target (`deploy.go:75`)
and its writes (89-97) are one step, since activate reads the target again before
it changes anything.  The size and time, change time and hash that make one stamp
(`workspace.go:574-605`) are read in one step: an edit among them leaves a stamp
no file has, which the next walk finds moved.  The name of a build's default output
is taken from the manifest in memory (`workspace.go:849`) before the manifest is
read again: the model has one artifact, and an edit of the manifest that renames
the output is not followed.

Data.  A file's content is a model value that also stands for its SHA-256.  A
request, its answer, and the token of a task are named by the call they come
from.  A package is the baseline, the sources and the Ribbon merges composition
read; a copied component file is the component and the values it was adapted
with, or half a copy.  An executable's hash is not its process: `Corpus` has both.
`project.AtomicWrite` is a rename and hence one step.
Staged candidate and acceptance report are one file: either, changed, refuses
the plan in the same way.  A helper or worker that fails, hangs, dies or says
nonsense is a step that is always possible.

Definitions with names like `LockNoTarget` or `EnterAgain` beside the real ones
are faulty variants: a plausible mistake in that piece of code, each named in
`PROJECT.json` with the property that notices it.  No specification uses them.

## 3. Runs

Bounds are on the model and not on the code: `MaxCalls`, `MaxMishaps`,
`MaxStops`, `MaxCrashes`, `MaxEnds`, `MaxEdits` count calls, failures, shutdowns,
crashes, ends that come from outside, and edits.  `Corpus!Run` bounds the number
of corpora.

| Run | Asks | States |
|---|---|---|
| `Activation` | two processes, two plans, one target, one error, crash, edit or staged-file change at any step: do locks leak (`NoLockLeaks`), can what is installed be undone (`InstalledIsUndoable`), does it implement `Deployment` (`Promised`)? | 1.3 M |
| `ActivationLogin` | one plan, two mishaps of any of these kinds: is a plan with a login command installed or marked blocked once Word stays closed, unless RecordFailure was cut short (`LoginResumes`)? | 172 k |
| `OfficeWorkers` | three calls on two helpers: `AnswersMatch`, `NoOrphans`, `IdleStopSparesTheUsed`, `HelpersStop` | 144 k |
| `LocalSession` | two starts and a call or stop, a server and its successor, two slots and two pipe instances, a crash or failing call: `CapabilityIsRespected`, `NoCallIsCut`, `SessionStaysWarm`, `ShutdownEnds` | 669 k |
| `NativeHost` | a caller that begins a task, under its token or a chosen name, one that calls anything, an end from outside: `SendsNeverBlock`, `CauseIsReported`, `TaskIsWatched`, `SyncNeverWaitsForTasks`, `CompletionIsFinal` | 4.6 M |
| `NativeHostEnds` | with a worker and a Word that owe nothing: `EveryCallReturns`, `EveryTaskEnds`; and is a task a `HostTask` (`TokensAreHostTasks`)? | 320 k |
| `Engine` | two requests of any kind at a time, probes and previews among them, three hosts: `NoStrayHost`, `CaseHostIsClean`, `EveryRequestReturns` | 99 k |
| `WorkspaceBuild` | a source, the manifest, the component lock and the baseline, two edits: `SnapshotIsOfThisCall`, `BuildIsCurrent` | 2.8 M |
| `ComponentInstall` | two installers, three components, an edit, a crash: `RecordedIsWhole`, `LeftoversAreReported`, and the refinement `LockIsRegistry` | 3.1 M |
| `Corpus` | two cases, two runs, two executables, two edits, damages or replacements of the running executable's file, a crash: `PassIsEvidence`, `PassKeepsItsEvidence` | 3.9 M |
| `LocalSessionStart`, `WorkspaceBuildEdits` | two statements of the sources that do not hold, see section 7 | to the counterexample |

**Why these bounds are enough for what they look for.**
*Activation.*  Every conflict of two plans needs two processes, a plan each or
one plan for both, and one target; a third process adds no new pair of steps.
`Content` has the old bytes and the new, and the user may also delete the file.
One mishap falls between any two steps, an edit between the hash check and the
rename included; the proofs drop all of these bounds.  `ActivationLogin` has two
mishaps, so that a failure can be followed by another in RecordFailure.
*OfficeWorkers.*  Two calls of one helper are what a stale answer needs, a
third with another helper is what the shared gate needs; two processes let a
stopped helper be replaced, and calls that find none left fail to start one.
*LocalSession.*  Two starts of either capability race for one descriptor.  As in
the code there are as many pipe instances as slots, two, so that the third client
meets the limit.  A second server follows when the first has gone (`InTurn`, a
bound of this run): a start may then hold, or find, the descriptor of a server
that is no more.  `LocalSessionStart` and the proofs have both at once.
*NativeHost.*  With one place in each queue and two tasks kept, every limit is
reached by two callers except a full lane behind a running task (section 7).  A
caller makes one call, so two callers are a begin and everything that can be
done to it.  In `NativeHost` a task may go by a chosen name; in `NativeHostEnds`,
where liveness is checked, tasks go by their tokens (`Name = {}`).
*Engine.*  The requests come for ever, so nothing bounds their number, only two
are under way at a time: one that fails and one that acts meanwhile.  A third
host is the one that is started while two others still have users.  A host that
nobody knows may be started again, so previews that leave theirs to the user do
not use the hosts up as long as users quit.
*WorkspaceBuild.*  Two edits are one that is remembered wrongly and one that
brings the old state back, at any step of any number of requests, with and
without a restored time stamp and on both kinds of platform; the process
restarts as often as it likes.  All files but one have a special role, so
one source stands for the rest.  They begin alike, since contents of
different files are never compared.
*ComponentInstall.*  Two components that share a requirement are what makes two
installers meet in the middle of a sequence, a component with two files is what
half an installation needs.  Files begin absent; an edit creates one.
*Corpus.*  A second run may reuse the first one's evidence, a second case is the
one that must not get the first one's result, two executables are an upgrade, or
a file replaced under a session that goes on.
Two edits are an input changed and restored, or an input and its evidence.
Symmetry is used only where no liveness is checked.

`CHECK_DEADLOCK FALSE` stands where the bounded callers are used up and nothing
is left to do.  In `Activation`, Word can always be opened and closed, and in
`Engine`, `WorkspaceBuild`, `ComponentInstall` and `Corpus` a request can always
be made or a process restarted, so the check would say nothing there.

## 4. Fairness

- `WatchSpec`: a started process takes its next step.  `LoginSpec`: also, the
  user logs in again.  Nothing makes Word close, an I/O call succeed twice, or a
  crash happen; both properties assume that Word stays closed from some time on.
- `OfficeWorkers!FairSpec`: contexts expire (every call has a deadline), timers
  fire, goroutines run, and so does a timer function that waits for the gate.
  A helper need not answer, nor exit.
- `LocalSession!FairSpec`: the goroutines of a server run, and every connection
  is handled: reading and executing a request have deadlines.  The write of the
  reply has none (`session.go:281`), so `ShutdownEnds` also assumes that a client
  reads its reply or leaves; one that does neither holds up the drain.  No client
  need call, and no session need become idle.  Serve's context is never cancelled
  (`main.go:53` passes the background context), so its end is not a step.
- `NativeHost!FairSpec`: caller goroutines run and their deadlines pass, except
  that polls and forgets have no deadline of their own; watchdogs and Close run.
  Nothing makes the worker read, run, answer or exit, nor a write into its pipe
  succeed.  That is the case the deadlines are for.
- `Engine!FairSpec`: a request that waits for a mutex which is free again and
  again gets it (strong fairness: Go's `sync.Mutex` hands itself to a waiter
  that has starved for a millisecond); a request that holds one goes on, because
  the start of a host and everything done in Word have deadlines; and a corpus or
  a probe, which may go on after any case or launch, does not for ever, because
  its cases are finitely many and its launches at most 50 (strong fairness on
  `SeriesEnds`).  No host need live or die.

`WorkspaceBuild`, `ComponentInstall` and `Corpus` state no liveness: each is a
sequence of steps that ends by itself, and what matters is what it leaves when
it does not.

## 5. The properties, by hazard

`PROJECT.json` lists the hazards with their lines.  The ones that take several
actors or several steps:

- *A crash between the rename and its record* (`deploy.go:183`): the next
  activation finds its own artifact in the target and must adopt the backup.
  `InstalledIsUndoable` and `Promised` say it does.
- *A save between check and rename* (`deploy.go:171`): it is lost, and `Promised`
  says that nothing else is: see below and section 7.
- *A failure or a crash of whoever would record it* (`spawn.go:21`): a pending plan
  is resumed by the next login, `LoginResumes`.
- *A late answer* (`office_worker_windows.go:129`): the helper is stopped before
  the gate is given up, so `AnswersMatch`.
- *A timer that fires while the next call holds the gate*
  (`office_worker_windows.go:139`): the generation decides,
  `IdleStopSparesTheUsed`.
- *A shutdown under calls* (`session.go:231`): `NoCallIsCut`, `ShutdownEnds`; and
  *the listener's closing taken for its failure* (`session.go:230`):
  `SessionStaysWarm`.  *A descriptor of a server that is gone* (`session.go:107`):
  `CapabilityIsRespected`.
- *Two senders to a channel of one slot, one with the lock held*
  (`process_windows.go:574`): `SendsNeverBlock`.
- *Three who end a session* (`process_windows.go:730`): the first cause written
  down is the one every call is told, `CauseIsReported`.
- *Three who settle a completion* (`process_windows.go:527`): a line, a forget
  and the exit of Word close its channel once (`CompletionIsFinal`), and nobody
  hears of an end that has not come (`TokensAreHostTasks`).
- *A begin between the check for tasks and the queue* (`host_windows.go:1100`):
  `SyncNeverWaitsForTasks`.
- *A caller that waits no more* (`process_windows.go:757`): `TaskIsWatched` and
  `EveryTaskEnds`.
- *Two requests that start a host* (`engine.go:93`), cached or for themselves (a
  fresh test, a test whose cached host did not start, a probe, a preview):
  `NoStrayHost`.  *A failing
  request closes whatever host is cached by then* (`engine.go:807`): the code
  compares nothing, which costs another request its host but never leaves a
  case in a spoiled one (`CaseHostIsClean`).  *Two mutexes held across Word*
  (`engine.go:152`): `EveryRequestReturns`.
- *A memo that outlives a change* (`workspace.go:684`, `716`): where the platform
  keeps a change time, `SnapshotIsOfThisCall` bounds what SourceFilesCached may
  return by what the file held during the call, whatever was edited before it.
  `BuildIsCurrent` says that all three answers of Build are current, in a process
  none of whose builds an edit fell into; when one did, see section 7.
- *Lock entries lost or out of order* (`component.go:237`, `528`):
  `LockIsRegistry`.  *A failure between copies* (`component.go:577`) and *a killed
  installer* (`component.go:594`): `RecordedIsWhole` and `LeftoversAreReported`.
- *Keys hashed hours before the bytes are run* (`corpus.go:140`), *an
  interrupted corpus* (`corpus.go:195`) and *evidence that decayed or was another
  executable's* (`corpus.go:183`): `PassIsEvidence` and `PassKeepsItsEvidence`.

Some properties have an exception, because the code does.  Each is part of the
property and of its theorem, and none is an assumption on the environment:

- `Promised`: between a check and the replacement it allows (a *claim*), no other
  plan acts on the target, but the user may save, and that save is overwritten.
  A save before the claim never is.
- `LoginResumes` excepts a plan whose RecordFailure stopped, by a crash or a failed
  write, after it had dropped the Run key and before it wrote the blocked state
  (`cut`): nothing resumes that plan.
- `NoCallIsCut` and `SessionStaysWarm` except the sessions whose Accept failed with
  an open listener (`broken`): at the instance limit, on a client that left before
  ConnectNamedPipe, or by a system error.
- `CauseIsReported` is about sessions that a watchdog or the exit of the worker
  ends.  A `native.stop` and a caller's own deadline close the session without
  a cause of their own, and calls cut by them get whichever is known by then.
- `TaskIsWatched` is about tasks that go by their token, whatever names other tasks
  have.  A task under a name the client chose can lose its watchdog: `begin n`, a
  `forget n` the worker has answered, a second `begin n` it accepts; only then does
  the forgetting call delete `h.tasks[n]`, which by now is the second task's entry,
  and the watchdog of that task finds no completion and stops.  A name can also be
  told of too early: a forget between the end of a task and its completion line
  frees the name, the next task takes it, and the line completes that one
  (`host_windows.go:994`).  Both need three callers.
- `BuildIsCurrent` is about processes none of whose builds a file changed under, and
  under which the baseline did not change between its reload and its first stamp
  (`torn`, which a restart clears).  The fingerprint of a torn build mixes stamps and
  bytes of different moments, so a report it left (`tornReport`) stays wrong for
  later processes and is excepted for as long as it is there, and the fingerprint
  does not cover the baseline (`workspace.go:548`), so the baseline of an answer taken
  from a report is excepted always.
- `PassIsEvidence`: the hash a summary records is that of the file at
  `os.Executable()`.  Where that file was replaced under the running session, the
  executable that ran is another than the one named.
- `LeftoversAreReported` counts as reported what a killed process was copying, since
  nobody is left to report it.

## 6. Proofs

TLAPS checks the eight `*Proofs` modules; the theorems hold for every value of
the constants allowed by the named assumptions, in particular for any number
of processes, calls, plans, servers, callers, hosts, installers, components,
cases and runs, and for bounds of any size.

| Theorem | Says |
|---|---|
| `ActivationProofs!TypeCorrect`, `LocksAreReleased`, `InstalledCanBeUndone` | `TypeOK`, `NoLockLeaks`, `InstalledIsUndoable` |
| `ActivationProofs!DeploymentPromised` | `Spec => Promised`: Activation implements Deployment |
| `OfficeWorkersProofs!TypeCorrect`, `AnswersAlwaysMatch`, `NoHelperIsOrphaned` | `TypeOK`, `AnswersMatch`, `NoOrphans` |
| `OfficeWorkersProofs!IdleStopsSpareTheUsed` | the action property `IdleStopSparesTheUsed` |
| `LocalSessionProofs!TypeCorrect`, `CapabilityAlwaysRespected` | `TypeOK`, `CapabilityIsRespected` |
| `LocalSessionProofs!NoCallIsEverCut`, `SessionAlwaysStaysWarm` | `NoCallIsCut`, `SessionStaysWarm`, for any number of slots and pipe instances |
| `NativeHostProofs!TypeCorrect`, `SendsNeverBlockAnybody`, `CauseIsAlwaysReported` | `TypeOK`, `SendsNeverBlock`, `CauseIsReported` |
| `NativeHostProofs!SyncNeverWaits`, `CompletionsAreFinal` | `SyncNeverWaitsForTasks`, and the action property `CompletionIsFinal` |
| `NativeHostProofs!TasksAreWatched` | `TaskIsWatched`, for any set of chosen names |
| `NativeHostProofs!NativeHostImplementsHostTask` | `Spec => TokensAreHostTasks`: NativeHost implements HostTask |
| `EngineProofs!TypeCorrect`, `NoHostIsStray`, `CaseHostIsAlwaysClean` | `TypeOK`, `NoStrayHost`, `CaseHostIsClean` |
| `WorkspaceBuildProofs!TypeCorrect`, `SnapshotIsAlwaysOfThisCall`, `BuildsAreCurrent` | `TypeOK`, `SnapshotIsOfThisCall`, `BuildIsCurrent` |
| `ComponentInstallProofs!TypeCorrect`, `RecordedIsAlwaysWhole`, `LeftoversAreAlwaysReported` | `TypeOK`, `RecordedIsWhole`, `LeftoversAreReported` |
| `ComponentInstallProofs!LockImplementsRegistry` | `Spec => LockIsRegistry`: the component lock implements ComponentRegistry |
| `CorpusProofs!TypeCorrect`, `PassIsAlwaysEvidence`, `PassAlwaysKeepsItsEvidence` | `TypeOK`, `PassIsEvidence`, `PassKeepsItsEvidence` |

**Activation.**  None of the properties is inductive: that the code may replace a
target, and can undo it, follows from a hash taken and a backup written several
steps before.  `IInv` therefore records, for each process and place, what it knows
(`Sound`): it owns the mutexes it took (`Excludes`), what it remembers of the
plan file agrees with the file on what never changes (`Remembers`), and the
replaced bytes are in `previous.dotm` (`HasKept`).  Nothing is known of the target
itself after the check, since the user may save at any moment.  A step of another
process on the same plan or target would need the same mutex (lemma `Exclusion`).
With `IInv`, a check that succeeds is a `ClaimToReplace` or a `ClaimToUndo` of
`Deployment`, which no other plan has on that target; the rename is a `Replace` or an
`Undo`, the backup's write a `Keep`, staging a `Stage`, an error or crash in between a
`Drop`, and everything else a stutter or a `UserEdit`.

**OfficeWorkers.**  `PInv` says that every helper in the table other than the one
in use is `Idle`: empty pipes, and no goroutine on them.  The call in the
critical section knows that the pipes of its helper hold exactly its request or
exactly its answer (`Served`).  Whoever cannot leave them empty stops the helper
before leaving.  For the idle stop, `Remembered`: a timer function that has
started remembers a generation that is not ahead of its helper's, and equals it
only while the helper has rested since; `Armed` says what a timer will pass on.

**LocalSession.**  A server's capability is fixed at launch and nobody can name
a server before (`Launched`); what a client relies on is in `Knows`.  For
`NoCallIsCut` and `SessionStaysWarm`, `Drained` says that Serve leaves the accept
loop only when the listener was closed by a shutdown, or as one of `broken`; and
that a server outside `broken` which is past its drain serves nobody, because
nothing gives it calls any more.

**NativeHost.**  `OnePlace`: a call is in `pending`, or carried by
`readResponses`, or has its answer, and never two of these, because each step
that takes an answer removes the call from the table.  `Blamed`: who closes the
session for a reason has written `cause` down in an earlier step (`Fired`: so has
a watchdog between its two critical sections), nobody overwrites it, and every
answer that tells of the end, in a channel or returned, tells that cause.

What is proved of tasks is one invariant built in layers, each inductive with
those before it, since the question is always whether two tables on the two sides
of a pipe agree.  `Requests` and `Items`: a request is read once and is then in at
most one place of the worker.  `Tasks`: the item of an unfinished begin has a
record of its own under its key and keeps the object-model lane busy, which is
all `SyncNeverWaits` needs.  `Lines`: one line in the pipe tells of a completion
that does not exist yet; so a completion that is closed is closed for good
(`CompletionsAreFinal`).  `Answers`: a call that is unread, or whose line is in
the pipe, has not heard "ok".  `Overs`: a record that says completed, a completion
line and an agreed forget are about a task the worker has no more.  `Watched`: as
long as the worker has a token's task, either its line is in the pipe or its
completion is open in `h.tasks`, and a begin that returned left a watchdog that
has found it.  `Found`: an open completion is in `h.tasks`, where the exit of Word
finds it.  With these each step of `NativeHost` is one of `HostTask` or moves none
of its variables: the reader's is an Accept or an End, a line an Open or a Settle,
a forget a Settle, and the end of the worker an End of all it had.  A token
is nobody's choice, so its key is only ever its own task's, whatever names other
tasks are given; of chosen names `Overs` and `Watched` say nothing.

**Engine.**  `NoStrayHost` needs what `mu` protects (`Guarded`: while a host is
being started there is none, and the one being closed has ended) and that the
host a request started for itself is nobody else's (`Apart`).  `CaseHostIsClean` needs
`Spoiled`: the host a case failed in is still the cached one, and that case
still holds `fsMu` and has nothing to do but close it.

**WorkspaceBuild.**  A memo is right about the files whose stamps have not moved
(`Remembered`).  During a walk, a file that looked unchanged has in the memo what
it held at that moment or later (`Walked`), and what was read or kept is
something it held during the call (`Collected`).  The edit that could break this
moves the stamp, because the change time is kept.

For `BuildIsCurrent` every stamp that is kept anywhere is `Honest`: where it is
still the file's, its hash is the file's.  In a process that is not torn, a
build has the files, the package and the artifact as they are now (`Current`),
and knows of the baseline what its stamps say (`Based`).  What outlives a request,
the memo, the report and the artifact, agrees with the stamps kept with it and not
with the files (`Together`), so that an edit between two builds breaks nothing:
the next walk finds the stamp moved.  A report agrees with its fingerprint unless
`tornReport` says whose it is.

**ComponentInstall.**  The lease has one holder (`Leased`), so between an
installer's check and its record nobody else's entry appears (`Copying`): writing
back the entries read before loses none.  `Copied` is that what is not left to
copy has been copied; `Required` that what a component requires is installed or
still queued, even though it was read without the lease, because the lock only
grows.

**Corpus.**  What a passed result stands on (`Earned`: executed in a corpus that
named this executable, with a bundle that is intact or was tampered with) holds of
every result on disk and of every result a corpus may reuse, and is stable.  A
report is only recorded when it is about the key (`Reported`) and is frozen.
`Named`: the hash a corpus took is that of its process unless the file had been
replaced.

**Only model-checked:** liveness (`LoginResumes`, `HelpersStop`, `ShutdownEnds`,
`EveryCallReturns`, `EveryTaskEnds`, `EveryRequestReturns`), which is out of the
prover's reach with its fairness, and the counterexamples.  Every other property
of a run is the statement of a theorem.

## 7. Where code and documentation disagree

Two disagreements are runs, with their counterexamples:

- **`LocalSessionStart`.**  Two starts can both find no session; the second
  server's descriptor replaces the first's, which its start has handed out and
  which runs unreachable until idle.
- **`WorkspaceBuildEdits`.**  The comment at `workspace.go:882` has a resident
  agent observe edits just as a fresh process would.  Build takes the stamps of
  its memo after it has composed (`workspace.go:1203`): an edit that falls after
  the read is stamped as if built, and later builds answer from the memo with
  the old package.

More are states the models reach, of promises weaker or bounds further away
than a run should depend on:

- `docs/API.md:197` has restore refuse newer target edits, and the comments at
  `deploy.go:172` and `deploy.go:198` say that newer user changes are not overwritten
  and newer edits preserved.  The hash is compared before the backup is written and
  the target renamed over (`deploy.go:171-182`, `250`): a save by Word or the user in
  between is overwritten, and the backup does not have it either.  Word is not
  running at the check, but nothing keeps it from being started.  This is the
  claim in `Deployment`.
- RecordFailure drops the Run key first (`spawn.go:41`) and writes the blocked state
  last (51-53).  A crash or a failed write between leaves the plan pending with no
  login command.  `docs/API.md:197` has the command removed on completion.  This is
  the exception of `LoginResumes`.
- `deploy.go:154` says an interruption between the replacement and the
  installed-state write is recovered.  If that write *fails* in the detached
  worker, RecordFailure marks the plan blocked, and from then on neither activate
  nor restore accepts it, with the artifact in the target.
- `docs/API.md:197` says a plan activates or waits.  A watcher that meets a held
  mutex returns, and its plan stays pending unwatched until the next login.
- The pipe has as many instances as the server has slots
  (`transport_windows.go:96`), so that with all slots busy the next Accept fails;
  and a client that connects and leaves before ConnectNamedPipe makes it return
  ERROR_NO_DATA, which Accept takes for a failure (`transport_windows.go:114-117`).
  Serve then returns without waiting for its handlers (`session.go:228-235`): the
  session ends and running calls are cut, instead of one call being refused.  No
  document promises otherwise.  These are `broken` sessions.
- `docs/CORPUS.md:48` has only evidence with a matching runner executable hash reused.
  The hash is of the file at the process's path when a corpus starts
  (`corpus.go:41-56`): under a warm session whose executable was replaced, the
  evidence of the old executable is recorded, and later reused, as the new one's.
  This is the exception of `PassIsEvidence`.
- A test whose cached host does not start (`engine.go:871-883`) goes on with none, and
  the runner starts one of its own (`verify.go:440-448`): the failure is not
  reported, and the session stays without a warm host.  It is closed with the test
  (`NoStrayHost`).
- `docs/INFRASTRUCTURE-VALIDATION.md:63` says UI operations and polls remain
  available while tasks are queued.  Once the object-model lane is full the
  worker's only reader waits for it.

## 8. Not modelled

- *Deployment:* the non-Windows `resume_other.go`, whose locks are no-ops; the
  contents of the acceptance report beyond `Passing`.
- *Local session:* the Unix transport (no instance limit, a socket file instead
  of pipe instances); what a call does once accepted, which is `Engine`; the end of
  Serve's context and a client that neither reads its reply nor leaves (section 4);
  authentication tokens beyond naming a server.
- *Native host:* what an operation does in Word; a begin that does not have
  exactly one step and time-outs out of range, which are refused before they
  reach any of this state; `process.dump`; over-long lines; the time-out on the
  end of the job, which only adds an error text; queued and running tasks are
  both "unfinished"; the start of worker and Word; the macOS host.
- *Engine:* requests that only read or write files, which are calls into the
  other components under `fsMu`; decoding and validation of parameters; the values
  of the native options, which `native.probe` reads without `mu` (`engine.go:483`).
- *Workspace:* the guarded write of one source and Import, each one sequential
  write; size and path limits; what composition does to VBA, forms and XML.
- *Components:* bundles: AddBundleWith (`component.go:330-343`) takes the same two
  steps as AddWith with a manifest of the user's, which may require a catalog
  component that has requirements itself, whereas the model's requirements, like
  the catalog's, are one level deep; Diff and Status, which only read; the checks of a manifest (paths,
  forms, identifiers, Ribbon targets), which are functions of text and appear as
  one step that may fail.  The lease of a killed installer is removed by hand,
  when none is at work: removed under a working installer it protects nothing.
- *Verification:* steps and assertions of a suite are one pass or fail; comparison
  and replay of reports are functions of JSON and XML.
- *Protocol and compile:* Serve answers one line at a time, so the requests of one
  stream do not overlap; the concurrency is that of the session's connections.
  compile composes a build, an acceptance run and a signature in a directory of
  its own: the parts are modelled, its cached report is not.
- *Structure resolution:* functions of a document's XML without state.  What could
  be wrong in them is the judgement, not an order of steps, and a reference
  definition would be the same function again.
- *Hazards without a property* have a note in `PROJECT.json`.
- The other components of section 1 are transformations of text and bytes, the
  greater part of the repository's lines (two generated parsers alone are most
  of it): sequential, without shared state, and within reach of unit tests.

## 9. Plan

Done, in this order: Deployment and Activation; OfficeWorkers; LocalSession;
NativeHost; Engine; WorkspaceBuild; ComponentRegistry and ComponentInstall;
Corpus.  No remaining component has behaviour of the kind section 1 calls hard,
and every safety property of the runs is proved.  What is left is to say more:

1. `OfficeWorkers` and `Engine` against abstract specifications of their own: a
   helper per path that answers one call at a time, a host with one owner.
2. The safety half of the liveness properties, that whoever waits waits for
   somebody who does not wait for him: the two mutexes of `Engine`, the gate of
   `OfficeWorkers`, the drain of `LocalSession`.
3. What is left of `HostTask` for tasks with chosen names, if a forget were to
   remove its key together with the worker.
