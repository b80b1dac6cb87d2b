----------------------------- MODULE Activation -----------------------------
(***************************************************************************)
(* internal/deploy: staging, activating, restoring and watching a template *)
(* deployment.  A process is one goroutine or one detached `__activate`    *)
(* worker; each of its reads, writes and lock operations is a step of its  *)
(* own, so that steps of other processes, of Word and of the user fall     *)
(* between them and a crash can separate any two.                          *)
(*                                                                         *)
(* A file's content stands for its SHA-256 (no collisions).  The staged    *)
(* candidate and its acceptance record are one file here: changing either  *)
(* fails the same way.  project.AtomicWrite is a rename, hence one step.   *)
(***************************************************************************)
EXTENDS Naturals

CONSTANTS
  Proc, Plan, Target, Content,
  Passing,     \* contents with fresh, passing native evidence
  UserContent, \* contents the user may save over a target
  TargetOf,    \* [Plan -> Target]
  None,        \* no file, no process, no plan
  Mishaps,     \* which of "error", "crash", "edit", "staged" can happen
  MaxMishaps, MaxCalls \* bounds of the model, not of the code

ASSUME PassingAssumption == Passing \subseteq Content
ASSUME UserContentAssumption == UserContent \subseteq Content \cup {None}
ASSUME TargetOfAssumption == TargetOf \in [Plan -> Target]
ASSUME NoneAssumption ==
  None \notin Plan /\ None \notin Content /\ None \notin Proc
ASSUME LocksAssumption == Plan \cap Target = {}
ASSUME BoundsAssumption == MaxCalls \in Nat /\ MaxMishaps \in Nat

VARIABLES
  file,     \* [Target -> Content or None]
  writer,   \* [Target -> "user" or "wordup"], who last wrote it (history)
  plan,     \* activation.json of every plan
  staged,   \* candidate.dotm of every plan
  previous, \* previous.dotm of every plan
  resume,   \* the plan's command in the user's Run registry key
  word,     \* is a Word process running
  owner,    \* named mutexes, one per plan file and one per target
  pc, op, job, \* a process's next step, what it does, and for which plan
  mem,      \* the plan record a process has read
  cut,      \* plans whose RecordFailure stopped between Run key and state (history)
  calls, mishaps \* what the bounds count

disk == <<file, writer, plan, staged, previous>>
local == <<pc, op, job, mem>>
spent == <<calls, mishaps>>
vars == <<disk, resume, word, owner, local, cut, spent>>

Record == [state: {"none", "pending", "installed", "restored", "blocked"},
           sha: Content \cup {None}, prior: Content \cup {None}, backup: {"", "previous.dotm"}]
NoPlan == [state |-> "none", sha |-> None, prior |-> None, backup |-> ""]
InState(r, s) == [state |-> s, sha |-> r.sha, prior |-> r.prior, backup |-> r.backup]
BackedUp(r, b) == [state |-> r.state, sha |-> r.sha, prior |-> r.prior, backup |-> b]

Ops == {"deploy", "activate", "restore", "watch"}
Unlocked == {"idle", "choose", "register", "spawn", "poll", "lockPlan",
             "dropResume", "readFailed", "writeFailed"}
Locked == {"readPlan", "lockTarget", "checkWord", "source", "target",
           "backup", "write", "record", "clear"}

Of(i) == TargetOf[job[i]]
Activating(i) == op[i] \in {"activate", "watch"}

Init ==
  /\ file \in [Target -> Content \cup {None}]
  /\ writer = [t \in Target |-> "user"]
  /\ plan = [p \in Plan |-> NoPlan]
  /\ staged = [p \in Plan |-> None]
  /\ previous = [p \in Plan |-> None]
  /\ resume = [p \in Plan |-> FALSE]
  /\ word \in BOOLEAN
  /\ owner = [l \in Plan \cup Target |-> None]
  /\ pc = [i \in Proc |-> "idle"]
  /\ op = [i \in Proc |-> "none"]
  /\ job = [i \in Proc |-> None]
  /\ mem = [i \in Proc |-> NoPlan]
  /\ cut = {}
  /\ calls = 0 /\ mishaps = 0

-----------------------------------------------------------------------------
\* Control of one process.

At(i, l) == pc[i] = l

Goto(i, l) ==
  /\ pc' = [pc EXCEPT ![i] = l]
  /\ UNCHANGED <<op, job, mem, owner>>

\* Faulty variants, with the fault in the name, show that a property can fail.
LeaveForgettingThePlan(i, l) ==
  /\ pc' = [pc EXCEPT ![i] = l]
  /\ mem' = [mem EXCEPT ![i] = NoPlan]
  /\ op' = [op EXCEPT ![i] = IF l = "idle" THEN "none" ELSE @]
  /\ job' = [job EXCEPT ![i] = None]
  /\ owner' = [l2 \in Plan \cup Target |-> IF owner[l2] = i THEN None ELSE owner[l2]]

LeaveHoldingTheTarget(i, l) ==
  /\ pc' = [pc EXCEPT ![i] = l]
  /\ mem' = [mem EXCEPT ![i] = NoPlan]
  /\ op' = [op EXCEPT ![i] = IF l = "idle" THEN "none" ELSE @]
  /\ job' = [job EXCEPT ![i] = IF l = "idle" THEN None ELSE @]
  /\ owner' = [l2 \in Plan \cup Target |-> IF owner[l2] = i /\ l2 \in Plan THEN None ELSE owner[l2]]

\* The deferred unlocks run and the process goes on at l.
Leave(i, l) ==
  /\ pc' = [pc EXCEPT ![i] = l]
  /\ mem' = [mem EXCEPT ![i] = NoPlan]
  /\ op' = [op EXCEPT ![i] = IF l = "idle" THEN "none" ELSE @]
  /\ job' = [job EXCEPT ![i] = IF l = "idle" THEN None ELSE @]
  /\ owner' = [l2 \in Plan \cup Target |-> IF owner[l2] = i THEN None ELSE owner[l2]]

\* activate or restore returned an error.  A caller gets it; Watch polls again
\* when Word is running, and otherwise hands it to RecordFailure, which ignores
\* a busy activation.
Fail(i, error) ==
  Leave(i, IF op[i] # "watch" \/ error = "busy" THEN "idle"
           ELSE IF error = "word" THEN "poll" ELSE "dropResume")

Begin(i, o, p, l) ==
  /\ At(i, "idle")
  /\ op' = [op EXCEPT ![i] = o]
  /\ job' = [job EXCEPT ![i] = p]
  /\ pc' = [pc EXCEPT ![i] = l]
  /\ UNCHANGED <<mem, owner>>

-----------------------------------------------------------------------------
\* Prepare, and the engine's deploy operation around it.

\* The evidence check is c \in Passing; the report, suite and observations it
\* inspects are not modelled further.
Deploy(i, p) == \E c \in Passing :
  /\ plan[p] = NoPlan
  /\ Begin(i, "deploy", p, "choose")
  /\ staged' = [staged EXCEPT ![p] = c]
  /\ plan' = [plan EXCEPT ![p] = [state |-> "pending", sha |-> c,
                                  prior |-> file[TargetOf[p]], backup |-> ""]]
  /\ UNCHANGED <<file, writer, previous, resume, word, cut, spent>>

\* deploy activates at once unless Word runs, and else leaves a worker behind.
Choose(i) ==
  /\ At(i, "choose")
  /\ pc' = [pc EXCEPT ![i] = IF word THEN "register" ELSE "lockPlan"]
  /\ op' = [op EXCEPT ![i] = IF word THEN @ ELSE "activate"]
  /\ UNCHANGED <<job, mem, owner, disk, resume, word, cut, spent>>

Register(i) ==
  /\ At(i, "register")
  /\ resume' = [resume EXCEPT ![job[i]] = TRUE]
  /\ Goto(i, "spawn")
  /\ UNCHANGED <<disk, word, cut, spent>>

Spawn(i) ==
  /\ At(i, "spawn")
  /\ pc' = [pc EXCEPT ![i] = "poll"]
  /\ op' = [op EXCEPT ![i] = "watch"]
  /\ UNCHANGED <<job, mem, owner, disk, resume, word, cut, spent>>

\* `call activate` and `call restore` name an existing plan.
Call(i, p) == \E o \in {"activate", "restore"} :
  /\ calls < MaxCalls
  /\ plan[p] # NoPlan
  /\ Begin(i, o, p, "lockPlan")
  /\ calls' = calls + 1
  /\ UNCHANGED <<disk, resume, word, cut, mishaps>>

LoginConsumingTheCommand(i, p) ==
  /\ resume[p]
  /\ Begin(i, "watch", p, "poll")
  /\ resume' = [resume EXCEPT ![p] = FALSE]
  /\ UNCHANGED <<disk, word, cut, spent>>

\* At login Windows runs what the Run key holds.
Login(i, p) ==
  /\ resume[p]
  /\ Begin(i, "watch", p, "poll")
  /\ UNCHANGED <<disk, resume, word, cut, spent>>

Poll(i) ==
  /\ At(i, "poll")
  /\ ~word
  /\ Goto(i, "lockPlan")
  /\ UNCHANGED <<disk, resume, word, cut, spent>>

-----------------------------------------------------------------------------
\* activate and restore, statement by statement.

\* WaitForSingleObject with a zero timeout: taken or refused, never queued.
LockPlan(i) ==
  /\ At(i, "lockPlan")
  /\ IF owner[job[i]] = None
     THEN /\ owner' = [owner EXCEPT ![job[i]] = i]
          /\ pc' = [pc EXCEPT ![i] = "readPlan"]
          /\ UNCHANGED <<op, job, mem>>
     ELSE Fail(i, "busy")
  /\ UNCHANGED <<disk, resume, word, cut, spent>>

ReadPlan(i) ==
  /\ At(i, "readPlan")
  /\ IF op[i] = "restore" /\ plan[job[i]].state \notin {"installed", "restored"}
     THEN Fail(i, "other")
     ELSE /\ mem' = [mem EXCEPT ![i] = plan[job[i]]]
          /\ pc' = [pc EXCEPT ![i] = "lockTarget"]
          /\ UNCHANGED <<op, job, owner>>
  /\ UNCHANGED <<disk, resume, word, cut, spent>>

\* Where a plan goes once its target is locked: an installed one only clears
\* its login command, any other that is not pending is refused; a restore
\* needs a previous template.
Eligible(i) ==
  IF op[i] = "restore" THEN mem[i].prior # None /\ mem[i].backup # ""
  ELSE mem[i].state \in {"pending", "installed"}

LockNoTarget(i) ==
  /\ At(i, "lockTarget")
  /\ \/ ~Eligible(i) /\ Fail(i, "other")
     \/ /\ Eligible(i)
        /\ pc' = [pc EXCEPT ![i] =
             IF Activating(i) /\ mem[i].state = "installed" THEN "clear" ELSE "checkWord"]
        /\ UNCHANGED <<op, job, mem, owner>>
  /\ UNCHANGED <<disk, resume, word, cut, spent>>

LockTarget(i) ==
  /\ At(i, "lockTarget")
  /\ \/ owner[Of(i)] # None /\ Fail(i, "busy")
     \/ owner[Of(i)] = None /\ ~Eligible(i) /\ Fail(i, "other")
     \/ /\ owner[Of(i)] = None
        /\ Eligible(i)
        /\ owner' = [owner EXCEPT ![Of(i)] = i]
        /\ pc' = [pc EXCEPT ![i] =
             IF Activating(i) /\ mem[i].state = "installed" THEN "clear" ELSE "checkWord"]
        /\ UNCHANGED <<op, job, mem>>
  /\ UNCHANGED <<disk, resume, word, cut, spent>>

CheckWord(i) ==
  /\ At(i, "checkWord")
  /\ IF word THEN Fail(i, "word") ELSE Goto(i, "source")
  /\ UNCHANGED <<disk, resume, word, cut, spent>>

\* The bytes to be written are read and hashed before the target is looked at.
ReadSource(i) ==
  /\ At(i, "source")
  /\ IF \/ Activating(i) /\ staged[job[i]] = mem[i].sha
        \/ op[i] = "restore" /\ previous[job[i]] = mem[i].prior
     THEN Goto(i, "target")
     ELSE Fail(i, "other")
  /\ UNCHANGED <<disk, resume, word, cut, spent>>

\* The target already holds the artifact: an interrupted replacement.
Interrupted(i) == file[Of(i)] = mem[i].sha /\ mem[i].prior # mem[i].sha

RecoverWithoutBackup(i) ==
  /\ At(i, "target") /\ Activating(i)
  /\ \/ Interrupted(i) /\ Goto(i, "record")
     \/ ~Interrupted(i) /\ file[Of(i)] # mem[i].prior /\ Fail(i, "other")
     \/ /\ ~Interrupted(i)
        /\ file[Of(i)] = mem[i].prior
        /\ Goto(i, IF mem[i].prior = None THEN "write" ELSE "backup")
  /\ UNCHANGED <<disk, resume, word, cut, spent>>

ReadTargetToActivate(i) ==
  /\ At(i, "target") /\ Activating(i)
  /\ \/ Interrupted(i) /\ mem[i].prior \notin {None, previous[job[i]]} /\ Fail(i, "other")
     \/ /\ Interrupted(i)
        /\ mem[i].prior \in {None, previous[job[i]]}
        /\ mem' = [mem EXCEPT ![i] =
             BackedUp(@, IF @.prior = None THEN @.backup ELSE "previous.dotm")]
        /\ pc' = [pc EXCEPT ![i] = "record"]
        /\ UNCHANGED <<op, job, owner>>
     \/ ~Interrupted(i) /\ file[Of(i)] # mem[i].prior /\ Fail(i, "other")
     \/ /\ ~Interrupted(i)
        /\ file[Of(i)] = mem[i].prior
        /\ Goto(i, IF mem[i].prior = None THEN "write" ELSE "backup")
  /\ UNCHANGED <<disk, resume, word, cut, spent>>

ReadTargetToRestore(i) ==
  LET now == file[Of(i)] IN
  /\ At(i, "target") /\ op[i] = "restore"
  /\ IF \/ now = None
        \/ now \notin {mem[i].sha, mem[i].prior}
        \/ now # mem[i].prior /\ mem[i].state = "restored"
     THEN Fail(i, "other")
     ELSE Goto(i, IF now = mem[i].prior THEN "record" ELSE "write")
  /\ UNCHANGED <<disk, resume, word, cut, spent>>

WriteBackup(i) ==
  /\ At(i, "backup")
  /\ previous' = [previous EXCEPT ![job[i]] = mem[i].prior]
  /\ mem' = [mem EXCEPT ![i] = BackedUp(@, "previous.dotm")]
  /\ pc' = [pc EXCEPT ![i] = "write"]
  /\ UNCHANGED <<op, job, owner, file, writer, plan, staged, resume, word, cut, spent>>

WriteTarget(i) ==
  /\ At(i, "write")
  /\ file' = [file EXCEPT ![Of(i)] = IF op[i] = "restore" THEN mem[i].prior ELSE mem[i].sha]
  /\ writer' = [writer EXCEPT ![Of(i)] = "wordup"]
  /\ Goto(i, "record")
  /\ UNCHANGED <<plan, staged, previous, resume, word, cut, spent>>

WriteRecord(i) ==
  /\ At(i, "record")
  /\ plan' = [plan EXCEPT ![job[i]] =
       InState(mem[i], IF op[i] = "restore" THEN "restored" ELSE "installed")]
  /\ Goto(i, "clear")
  /\ UNCHANGED <<file, writer, staged, previous, resume, word, cut, spent>>

ClearResume(i) ==
  /\ At(i, "clear")
  /\ resume' = [resume EXCEPT ![job[i]] = FALSE]
  /\ Leave(i, "idle")
  /\ UNCHANGED <<disk, word, cut, spent>>

-----------------------------------------------------------------------------
\* RecordFailure, which takes no lock.

DropResume(i) ==
  /\ At(i, "dropResume")
  /\ resume' = [resume EXCEPT ![job[i]] = FALSE]
  /\ Goto(i, "readFailed")
  /\ UNCHANGED <<disk, word, cut, spent>>

ReadFailed(i) ==
  /\ At(i, "readFailed")
  /\ IF plan[job[i]].state = "pending"
     THEN /\ mem' = [mem EXCEPT ![i] = plan[job[i]]]
          /\ pc' = [pc EXCEPT ![i] = "writeFailed"]
          /\ UNCHANGED <<op, job, owner>>
     ELSE Leave(i, "idle")
  /\ UNCHANGED <<disk, resume, word, cut, spent>>

WriteFailed(i) ==
  /\ At(i, "writeFailed")
  /\ plan' = [plan EXCEPT ![job[i]] = InState(mem[i], "blocked")]
  /\ Leave(i, "idle")
  /\ UNCHANGED <<file, writer, staged, previous, resume, word, cut, spent>>

-----------------------------------------------------------------------------
\* What can go wrong, and what the rest of the machine does.

Mishap(kind) ==
  /\ kind \in Mishaps
  /\ mishaps < MaxMishaps
  /\ mishaps' = mishaps + 1

\* RecordFailure has dropped the login command of this plan and not yet said why.
Unrecorded(i) == {job[j] : j \in {i} \cap {k \in Proc : pc[k] \in {"readFailed", "writeFailed"}}}

\* A read, a write, a mutex that cannot be created, a process listing or a registry call returns an error and
\* leaves nothing changed.  The errors RecordFailure meets are ignored; so is
\* a failed clear of a plan that was installed already.
IoError(i) ==
  /\ Mishap("error")
  /\ \/ At(i, "dropResume") /\ Goto(i, "readFailed")
     \/ pc[i] \in {"choose", "register", "spawn", "readFailed", "writeFailed"} /\ Leave(i, "idle")
     \/ pc[i] \in {"poll", "lockPlan"} \cup (Locked \ {"clear"}) /\ Fail(i, "other")
     \/ At(i, "clear") /\ IF Activating(i) /\ mem[i].state = "installed"
                          THEN Leave(i, "idle") ELSE Fail(i, "other")
  /\ cut' = cut \cup Unrecorded(i)
  /\ UNCHANGED <<disk, resume, word, calls>>

\* The process ends anywhere; Windows releases its mutexes as abandoned, and an
\* abandoned mutex is taken like a free one.
Crash(i) ==
  /\ Mishap("crash")
  /\ ~At(i, "idle")
  /\ Leave(i, "idle")
  /\ cut' = cut \cup Unrecorded(i)
  /\ UNCHANGED <<disk, resume, word, calls>>

Word ==
  /\ word' = ~word
  /\ UNCHANGED <<disk, resume, owner, local, cut, spent>>

\* At any moment, the window between a hash check and its rename included.
UserEdit(t) == \E c \in UserContent \ {file[t]} :
  /\ Mishap("edit")
  /\ file' = [file EXCEPT ![t] = c]
  /\ writer' = [writer EXCEPT ![t] = "user"]
  /\ UNCHANGED <<plan, staged, previous, resume, word, owner, local, cut, calls>>

\* Someone deletes or rewrites the staged candidate or its acceptance record.
ChangeStaged(p) ==
  /\ Mishap("staged")
  /\ staged[p] # None
  /\ staged' = [staged EXCEPT ![p] = None]
  /\ UNCHANGED <<file, writer, plan, previous, resume, word, owner, local, cut, calls>>

-----------------------------------------------------------------------------
Activate(i) ==
  \/ LockPlan(i) \/ ReadPlan(i) \/ LockTarget(i) \/ CheckWord(i) \/ ReadSource(i)
  \/ ReadTargetToActivate(i) \/ ReadTargetToRestore(i)
  \/ WriteBackup(i) \/ WriteTarget(i) \/ WriteRecord(i) \/ ClearResume(i)

RecordFailure(i) == DropResume(i) \/ ReadFailed(i) \/ WriteFailed(i)

Work(i) ==
  Choose(i) \/ Register(i) \/ Spawn(i) \/ Poll(i) \/ Activate(i) \/ RecordFailure(i)

Next ==
  \/ \E i \in Proc : Work(i) \/ IoError(i) \/ Crash(i)
  \/ \E i \in Proc, p \in Plan : Deploy(i, p) \/ Call(i, p) \/ Login(i, p)
  \/ \E t \in Target : UserEdit(t)
  \/ \E p \in Plan : ChangeStaged(p)
  \/ Word

Spec == Init /\ [][Next]_vars

\* A started process keeps running unless it crashes; nothing makes the user
\* close Word, log in, or call anything.
WatchSpec == Spec /\ \A i \in Proc : WF_vars(Work(i))

\* The user, moreover, logs in again and again.
LoginSpec == WatchSpec /\ \A p \in Plan : WF_vars(\E i \in Proc : Login(i, p))

-----------------------------------------------------------------------------
\* Properties.

\* No path out of activate or restore leaks a mutex: the owner of a lock is in
\* the locked part, for that very plan or target.
NoLockLeaks ==
  \A l \in Plan \cup Target : owner[l] # None =>
    pc[owner[l]] \in Locked /\ l \in {job[owner[l]], Of(owner[l])}

\* Every variable keeps its type, and a running process is on a plan.
TypeOK ==
  /\ file \in [Target -> Content \cup {None}]
  /\ writer \in [Target -> {"user", "wordup"}]
  /\ plan \in [Plan -> Record]
  /\ staged \in [Plan -> Content \cup {None}]
  /\ previous \in [Plan -> Content \cup {None}]
  /\ resume \in [Plan -> BOOLEAN]
  /\ word \in BOOLEAN
  /\ owner \in [Plan \cup Target -> Proc \cup {None}]
  /\ pc \in [Proc -> Unlocked \cup Locked]
  /\ op \in [Proc -> Ops \cup {"none"}]
  /\ job \in [Proc -> Plan \cup {None}]
  /\ \A i \in Proc : pc[i] # "idle" => job[i] \in Plan
  /\ mem \in [Proc -> Record]
  /\ cut \subseteq Plan
  /\ calls \in Nat /\ mishaps \in Nat

\* Every write of a target is the compare-and-swap Deployment describes: found
\* holding the staged prior, which is kept in previous.dotm, the target gets the
\* tested artifact, or the artifact is replaced by the kept prior; no two plans
\* are between check and replacement of one target; nothing else ever writes
\* one.  A save is lost only if it falls between a check and its replacement.
Claimed(w) == {job[i] : i \in {k \in Proc : pc[k] \in {"backup", "write"} /\ op[k] \in w}}
Promise == INSTANCE Deployment WITH
  origin <- [p \in Plan |-> [staged |-> plan[p].state # "none",
                             sha |-> plan[p].sha, prior |-> plan[p].prior]],
  kept <- previous,
  replacing <- Claimed({"activate", "watch"}),
  undoing <- Claimed({"restore"})
Promised == Promise!Spec

\* A plan recorded as installed over a previous template keeps that template
\* where restore looks for it, through every retry, crash and later plan.
InstalledIsUndoable ==
  \A p \in Plan : plan[p].state \in {"installed", "restored"} /\ plan[p].prior # None
    => plan[p].backup # "" /\ previous[p] = plan[p].prior

Pending(p) == plan[p].state = "pending"

\* Once Word stays closed, a pending plan with a login command is installed or
\* marked blocked, whatever failed or crashed on the way.  The one exception is
\* RecordFailure itself: between dropping the Run key and writing the state it
\* leaves a pending plan that nothing resumes.
LoginResumes ==
  <>[]~word => \A p \in Plan : Pending(p) /\ resume[p] ~> ~Pending(p) \/ p \in cut
=============================================================================
