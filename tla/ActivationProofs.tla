-------------------------- MODULE ActivationProofs --------------------------
(***************************************************************************)
(* Proofs about Activation, for any number of processes, plans, targets    *)
(* and contents, and with no bound on calls or mishaps.                    *)
(*                                                                         *)
(* The promise of Deployment rests on what a process knows while it holds  *)
(* the two mutexes: no other plan is between its check and its replacement *)
(* of the same target, and the bytes to be replaced are kept.  IInv says   *)
(* so, in named parts, from the mutual exclusion of the mutexes down.      *)
(***************************************************************************)
EXTENDS Activation, TLAPS

HoldsTarget == Locked \ {"readPlan", "lockTarget"}

\* What a process can rely on at its place in the program.
Placed(i) ==     \* it has something to do, on a staged plan
  /\ pc[i] # "idle" => op[i] \in Ops /\ plan[job[i]].state # "none"
  /\ op[i] = "deploy" <=> pc[i] \in {"choose", "register", "spawn"}
  /\ pc[i] \in {"poll", "dropResume", "readFailed", "writeFailed"} => op[i] = "watch"
  /\ pc[i] = "backup" => Activating(i)
Excludes(i) ==   \* it owns the mutexes it has taken
  /\ pc[i] \in Locked => owner[job[i]] = i
  /\ pc[i] \in HoldsTarget => owner[Of(i)] = i
Remembers(i) ==  \* its record agrees with the plan file on what never changes
  pc[i] \in (Locked \ {"readPlan"}) \cup {"writeFailed"} =>
    /\ mem[i].state # "none"
    /\ mem[i].sha = plan[job[i]].sha
    /\ mem[i].prior = plan[job[i]].prior
HasKept(i) ==    \* the replaced bytes are kept first, and verified before a restore
  /\ pc[i] \in {"write", "record"} /\ Activating(i) /\ mem[i].prior # None =>
       mem[i].backup # "" /\ previous[job[i]] = mem[i].prior
  /\ pc[i] \in HoldsTarget /\ op[i] = "restore" => mem[i].backup # "" /\ mem[i].prior # None
  /\ pc[i] \in {"target", "write", "record"} /\ op[i] = "restore" =>
       previous[job[i]] = mem[i].prior

Sound(i) == Placed(i) /\ Excludes(i) /\ Remembers(i) /\ HasKept(i)

\* What holds of the files of a plan whatever the processes do.
Files ==
  /\ \A p \in Plan : previous[p] \in {None, plan[p].prior}
  /\ \A p \in Plan : plan[p].state = "none" => plan[p] = NoPlan
  /\ InstalledIsUndoable

IInv == TypeOK /\ NoLockLeaks /\ Files /\ \A i \in Proc : Sound(i)

-----------------------------------------------------------------------------
\* TypeOK is inductive by itself: no action needs more than types to keep them.

\* The program starts in a typed state.
LEMMA TypeInit == Init => TypeOK
  <1>1. NoPlan \in Record
    BY DEF NoPlan, Record
  <1> QED BY <1>1 DEF Init, TypeOK, Unlocked, Ops

\* Where a process goes is a place in the program, whatever made it leave.
LEMMA LeaveTypes ==
  ASSUME TypeOK, NEW i \in Proc, NEW l \in {"idle", "poll", "dropResume"},
         pc[i] # "idle", Leave(i, l)
  PROVE  /\ pc' \in [Proc -> Unlocked \cup Locked]
         /\ op' \in [Proc -> Ops \cup {"none"}]
         /\ job' \in [Proc -> Plan \cup {None}]
         /\ \A j \in Proc : pc'[j] # "idle" => job'[j] \in Plan
         /\ mem' \in [Proc -> Record]
         /\ owner' \in [Plan \cup Target -> Proc \cup {None}]
  BY DEF Leave, TypeOK, NoPlan, Record, Unlocked

\* An error return goes to a place in the program, whichever error it is.
LEMMA FailTypes ==
  ASSUME TypeOK, NEW i \in Proc, NEW error, pc[i] # "idle", Fail(i, error)
  PROVE  /\ pc' \in [Proc -> Unlocked \cup Locked]
         /\ op' \in [Proc -> Ops \cup {"none"}]
         /\ job' \in [Proc -> Plan \cup {None}]
         /\ \A j \in Proc : pc'[j] # "idle" => job'[j] \in Plan
         /\ mem' \in [Proc -> Record]
         /\ owner' \in [Plan \cup Target -> Proc \cup {None}]
  <1>1. PICK l \in {"idle", "poll", "dropResume"} : Leave(i, l)
    BY DEF Fail
  <1> QED BY <1>1, LeaveTypes

\* What RecordFailure leaves unrecorded is a plan.
LEMMA UnrecordedTypes ==
  ASSUME TypeOK, NEW i \in Proc
  PROVE  Unrecorded(i) \subseteq Plan
  BY DEF Unrecorded, TypeOK

\* Every step of activate, restore, Watch, RecordFailure and the rest of the
\* machine keeps the types.
LEMMA TypeStep == TypeOK /\ [Next]_vars => TypeOK'
  <1> SUFFICES ASSUME TypeOK, [Next]_vars PROVE TypeOK'
    OBVIOUS
  <1> USE DEF TypeOK, disk, local, spent, At
  <1>1. ASSUME NEW i \in Proc, Choose(i) \/ Register(i) \/ Spawn(i) \/ Poll(i)
        PROVE  TypeOK'
    BY <1>1 DEF Choose, Register, Spawn, Poll, Goto, Unlocked, Ops
  <1>2. ASSUME NEW i \in Proc, LockPlan(i) PROVE TypeOK'
    BY <1>2, FailTypes DEF LockPlan, Locked
  <1>3. ASSUME NEW i \in Proc, ReadPlan(i) PROVE TypeOK'
    BY <1>3, FailTypes DEF ReadPlan, Locked
  <1>4. ASSUME NEW i \in Proc, LockTarget(i) PROVE TypeOK'
    BY <1>4, FailTypes DEF LockTarget, Locked
  <1>5. ASSUME NEW i \in Proc, CheckWord(i) \/ ReadSource(i) PROVE TypeOK'
    BY <1>5, FailTypes DEF CheckWord, ReadSource, Goto, Locked
  <1>6. ASSUME NEW i \in Proc, ReadTargetToActivate(i) PROVE TypeOK'
    <2>1. CASE Fail(i, "other")
      BY <1>6, <2>1, FailTypes DEF ReadTargetToActivate
    <2>2. CASE Goto(i, IF mem[i].prior = None THEN "write" ELSE "backup")
      BY <1>6, <2>2 DEF ReadTargetToActivate, Goto, Locked
    <2>3. CASE /\ mem' = [mem EXCEPT ![i] =
                    BackedUp(@, IF @.prior = None THEN @.backup ELSE "previous.dotm")]
               /\ pc' = [pc EXCEPT ![i] = "record"]
               /\ UNCHANGED <<op, job, owner>>
      BY <1>6, <2>3 DEF ReadTargetToActivate, BackedUp, Locked, Record
    <2> QED BY <1>6, <2>1, <2>2, <2>3 DEF ReadTargetToActivate
  <1>7. ASSUME NEW i \in Proc, ReadTargetToRestore(i) PROVE TypeOK'
    BY <1>7, FailTypes DEF ReadTargetToRestore, Goto, Locked
  <1>8. ASSUME NEW i \in Proc, WriteBackup(i) PROVE TypeOK'
    BY <1>8 DEF WriteBackup, BackedUp, Locked, Record
  <1>9. ASSUME NEW i \in Proc, WriteTarget(i) PROVE TypeOK'
    BY <1>9 DEF WriteTarget, Goto, Locked, Record
  <1>10. ASSUME NEW i \in Proc, WriteRecord(i) PROVE TypeOK'
    BY <1>10 DEF WriteRecord, InState, Goto, Locked, Record
  <1>11. ASSUME NEW i \in Proc, ClearResume(i) PROVE TypeOK'
    BY <1>11, LeaveTypes DEF ClearResume
  <1>12. ASSUME NEW i \in Proc, RecordFailure(i) PROVE TypeOK'
    <2>1. CASE DropResume(i)
      BY <2>1 DEF DropResume, Goto, Unlocked
    <2>2. CASE ReadFailed(i)
      BY <2>2, LeaveTypes DEF ReadFailed, Unlocked
    <2>3. CASE WriteFailed(i)
      BY <2>3, LeaveTypes DEF WriteFailed, InState, Record
    <2> QED BY <1>12, <2>1, <2>2, <2>3 DEF RecordFailure
  <1>13. ASSUME NEW i \in Proc, IoError(i) PROVE TypeOK'
    <2>1. cut' \subseteq Plan /\ UNCHANGED <<disk, resume, word, calls>> /\ mishaps' \in Nat
      BY <1>13, UnrecordedTypes DEF IoError, Mishap
    <2>2. CASE At(i, "dropResume") /\ Goto(i, "readFailed")
      BY <2>1, <2>2 DEF Goto, Unlocked
    <2>3. CASE Leave(i, "idle") /\ pc[i] # "idle"
      BY <2>1, <2>3, LeaveTypes
    <2>4. CASE Fail(i, "other") /\ pc[i] # "idle"
      BY <2>1, <2>4, FailTypes
    <2> QED BY <1>13, <2>2, <2>3, <2>4 DEF IoError, Locked
  <1>14. ASSUME NEW i \in Proc, Crash(i) PROVE TypeOK'
    <2>1. cut' \subseteq Plan /\ UNCHANGED <<disk, resume, word, calls>> /\ mishaps' \in Nat
      BY <1>14, UnrecordedTypes DEF Crash, Mishap
    <2> QED BY <1>14, <2>1, LeaveTypes DEF Crash
  <1>15. ASSUME NEW i \in Proc, NEW p \in Plan, Deploy(i, p) PROVE TypeOK'
    <2>1. PICK c \in Passing :
            plan' = [plan EXCEPT ![p] = [state |-> "pending", sha |-> c,
                                         prior |-> file[TargetOf[p]], backup |-> ""]]
            /\ staged' = [staged EXCEPT ![p] = c]
            /\ Begin(i, "deploy", p, "choose")
            /\ UNCHANGED <<file, writer, previous, resume, word, cut, calls, mishaps>>
      BY <1>15 DEF Deploy
    <2>2. plan' \in [Plan -> Record] /\ staged' \in [Plan -> Content \cup {None}]
      BY <2>1, PassingAssumption, TargetOfAssumption DEF Record
    <2> QED BY <2>1, <2>2 DEF Begin, Unlocked, Ops
  <1>16. ASSUME NEW i \in Proc, NEW p \in Plan, Call(i, p) \/ Login(i, p) PROVE TypeOK'
    BY <1>16 DEF Call, Login, Begin, Unlocked, Ops
  <1>17. ASSUME NEW t \in Target, UserEdit(t) PROVE TypeOK'
    BY <1>17, UserContentAssumption DEF UserEdit, Mishap
  <1>18. ASSUME NEW p \in Plan, ChangeStaged(p) PROVE TypeOK'
    BY <1>18 DEF ChangeStaged, Mishap
  <1>19. CASE Word
    BY <1>19 DEF Word
  <1>20. CASE UNCHANGED vars
    BY <1>20 DEF vars
  <1> QED
    BY <1>1, <1>2, <1>3, <1>4, <1>5, <1>6, <1>7, <1>8, <1>9, <1>10, <1>11, <1>12, <1>13,
       <1>14, <1>15, <1>16, <1>17, <1>18, <1>19, <1>20 DEF Next, Work, Activate

\* Every variable of Activation keeps its type in every behaviour.
THEOREM TypeCorrect == Spec => []TypeOK
  <1>1. Init => TypeOK
    BY TypeInit
  <1>2. TypeOK /\ [Next]_vars => TypeOK'
    BY TypeStep
  <1> QED BY <1>1, <1>2, PTL DEF Spec

-----------------------------------------------------------------------------
\* The invariant behind the promise.

\* A step that does this to the rest of the system leaves process j sound.
Undisturbed(j) ==
  /\ pc'[j] = pc[j] /\ op'[j] = op[j] /\ job'[j] = job[j] /\ mem'[j] = mem[j]
  /\ \A k \in Plan \cup Target : owner[k] = j => owner'[k] = j
  /\ pc[j] # "idle" =>
       /\ plan'[job[j]].state # "none"
       /\ plan'[job[j]].sha = plan[job[j]].sha
       /\ plan'[job[j]].prior = plan[job[j]].prior
       /\ previous'[job[j]] \in {previous[job[j]], plan[job[j]].prior}

\* What a process knows stays true while nobody disturbs it.
LEMMA UndisturbedIsSound ==
  ASSUME TypeOK, NEW j \in Proc, Sound(j), Undisturbed(j)
  PROVE  Sound(j)'
  <1>1. Placed(j)'
    BY DEF Sound, Placed, Undisturbed, Activating
  <1>2. Excludes(j)'
    BY TargetOfAssumption DEF Sound, Excludes, Undisturbed, HoldsTarget, Locked, Of, TypeOK
  <1>3. Remembers(j)'
    BY DEF Sound, Remembers, Undisturbed, Locked
  <1>4. HasKept(j)'
    BY DEF Sound, Remembers, HasKept, Undisturbed, Activating, HoldsTarget, Locked
  <1> QED BY <1>1, <1>2, <1>3, <1>4 DEF Sound

\* The invariant is kept by a step that disturbs no process but one, leaves
\* that one sound, and keeps the plans' files and the locks in order.
LEMMA OneProcess ==
  ASSUME IInv, TypeOK', NEW i \in Proc, \A j \in Proc \ {i} : Undisturbed(j),
         Sound(i)', Files', NoLockLeaks'
  PROVE  IInv'
  BY UndisturbedIsSound DEF IInv

\* A step of process i that leaves the files of all plans and targets alone
\* and takes no lock of another process disturbs nobody.
Private(i) ==
  /\ UNCHANGED <<file, plan, previous>>
  /\ \A j \in Proc \ {i} :
       pc'[j] = pc[j] /\ op'[j] = op[j] /\ job'[j] = job[j] /\ mem'[j] = mem[j]
  /\ \A k \in Plan \cup Target : owner[k] \notin {i, None} => owner'[k] = owner[k]

\* A step that changes no file preserves IInv if its own process stays sound.
LEMMA PrivateStep ==
  ASSUME IInv, TypeOK', NEW i \in Proc, Private(i), Sound(i)', NoLockLeaks'
  PROVE  IInv'
  <1>1. \A j \in Proc \ {i} : Undisturbed(j)
    BY NoneAssumption DEF Private, Undisturbed, IInv, Sound, Placed
  <1>2. Files'
    BY DEF IInv, Private, Files, InstalledIsUndoable
  <1> QED BY <1>1, <1>2, OneProcess

\* Whoever leaves the locked part gives up its locks and what it knew.
LEMMA LeaveKeeps ==
  ASSUME IInv, TypeOK', NEW i \in Proc, NEW l \in {"idle", "poll", "dropResume"},
         pc[i] # "idle", l = "idle" \/ op[i] = "watch",
         Leave(i, l), UNCHANGED <<file, plan, previous>>
  PROVE  IInv'
  <1>1. pc'[i] = l /\ (l # "idle" => op'[i] = op[i] /\ job'[i] = job[i])
    BY DEF Leave, IInv, TypeOK
  <1>2. l = "idle" => op'[i] = "none"
    BY DEF Leave, IInv, TypeOK
  <1>3. Private(i)
    BY DEF Leave, Private, IInv, TypeOK
  <1>4. Sound(i)'
    BY <1>1, <1>2 DEF IInv, Sound, Placed, Excludes, Remembers, HasKept,
       Activating, Locked, HoldsTarget, Ops
  <1>5. NoLockLeaks'
    BY <1>3, NoneAssumption DEF Private, Leave, IInv, TypeOK, NoLockLeaks, Of
  <1> QED BY <1>3, <1>4, <1>5, PrivateStep

\* An error return of activate or restore preserves IInv.
LEMMA FailKeeps ==
  ASSUME IInv, TypeOK', NEW i \in Proc, NEW error, pc[i] # "idle",
         Fail(i, error), UNCHANGED <<file, plan, previous>>
  PROVE  IInv'
  <1>1. PICK l \in {"idle", "poll", "dropResume"} :
          Leave(i, l) /\ (l = "idle" \/ op[i] = "watch")
    BY DEF Fail
  <1> QED BY <1>1, LeaveKeeps

\* A step that only moves process i on, taking no lock.
LEMMA GotoKeeps ==
  ASSUME IInv, TypeOK', NEW i \in Proc, pc[i] # "idle",
         \A j \in Proc \ {i} :
           pc'[j] = pc[j] /\ op'[j] = op[j] /\ job'[j] = job[j] /\ mem'[j] = mem[j],
         job'[i] = job[i], pc[i] \in Locked => pc'[i] \in Locked,
         UNCHANGED <<owner, file, plan, previous>>, Sound(i)'
  PROVE  IInv'
  <1>1. Private(i)
    BY DEF Private
  <1>2. NoLockLeaks'
    BY NoneAssumption DEF NoLockLeaks, IInv, TypeOK, Of
  <1> QED BY <1>1, <1>2, PrivateStep

\* A call, or a login, that starts on a staged plan preserves IInv.
LEMMA BeginKeeps ==
  ASSUME IInv, TypeOK', NEW i \in Proc, NEW p \in Plan, plan[p].state # "none",
         NEW o \in {"activate", "restore", "watch"}, NEW l \in {"lockPlan", "poll"},
         l = "poll" => o = "watch", Begin(i, o, p, l), UNCHANGED <<file, plan, previous>>
  PROVE  IInv'
  <1>1. pc'[i] = l /\ op'[i] = o /\ job'[i] = p
    BY DEF Begin, IInv, TypeOK
  <1>2. Private(i)
    BY DEF Private, Begin, IInv, TypeOK
  <1>3. Sound(i)'
    BY <1>1 DEF Sound, Placed, Excludes, Remembers, HasKept,
       Activating, Locked, HoldsTarget, Ops, Of
  <1>4. NoLockLeaks'
    BY NoneAssumption DEF NoLockLeaks, Begin, At, IInv, TypeOK, Of, Locked
  <1> QED BY <1>2, <1>3, <1>4, PrivateStep

\* The deploy operation and the watcher's polling, up to the plan's lock,
\* preserve IInv.
LEMMA StartKeeps ==
  ASSUME IInv, TypeOK', NEW i \in Proc, Choose(i) \/ Register(i) \/ Spawn(i) \/ Poll(i)
  PROVE  IInv'
  <1>1. Sound(i)'
    <2>0. /\ pc'[i] \in {"register", "lockPlan", "spawn", "poll"}
          /\ op'[i] \in {"deploy", "activate", "watch"} /\ job'[i] = job[i] /\ job[i] \in Plan
          /\ pc[i] # "idle" /\ mem'[i] = mem[i]
          /\ op'[i] = "deploy" <=> pc'[i] \in {"register", "spawn"}
          /\ pc'[i] = "poll" => op'[i] = "watch"
          /\ UNCHANGED <<owner, file, plan, previous>>
      <3>1. /\ pc[i] \in {"choose", "register", "spawn"} => op[i] = "deploy"
            /\ pc[i] = "poll" => op[i] = "watch"
        BY DEF IInv, Sound, Placed
      <3> QED BY <3>1 DEF Choose, Register, Spawn, Poll, At, Goto, disk, IInv, TypeOK
    <2>1. Placed(i)'
      BY <2>0 DEF IInv, Sound, Placed, Activating, Locked, Ops
    <2>2. Excludes(i)'
      BY <2>0 DEF IInv, Sound, Excludes, HoldsTarget, Locked, Of
    <2>3. Remembers(i)'
      BY <2>0 DEF IInv, Sound, Placed, Remembers, Locked
    <2>4. HasKept(i)'
      BY <2>0 DEF IInv, Sound, Remembers, HasKept, Activating, HoldsTarget, Locked
    <2> QED BY <2>1, <2>2, <2>3, <2>4 DEF Sound
  <1> QED
    BY <1>1, GotoKeeps DEF Choose, Register, Spawn, Poll, At, Goto, disk, IInv, TypeOK, Locked

\* Taking the plan's mutex, or finding it busy, preserves IInv.
LEMMA LockPlanKeeps ==
  ASSUME IInv, TypeOK', NEW i \in Proc, LockPlan(i)
  PROVE  IInv'
  <1>1. CASE owner[job[i]] # None
    BY <1>1, FailKeeps DEF LockPlan, At, disk
  <1>2. CASE owner[job[i]] = None
    <2>1. Private(i)
      BY <1>2 DEF LockPlan, disk, Private, IInv, TypeOK
    <2>2. Sound(i)'
      <3>0. /\ pc'[i] = "readPlan" /\ op'[i] = op[i] /\ job'[i] = job[i] /\ job[i] \in Plan
            /\ pc[i] = "lockPlan" /\ owner'[job[i]] = i
            /\ UNCHANGED <<file, plan, previous>>
        BY <1>2 DEF LockPlan, At, disk, IInv, TypeOK
      <3>1. Placed(i)'
        BY <3>0 DEF IInv, Sound, Placed, Activating, Locked, Ops
      <3>2. Excludes(i)'
        BY <3>0 DEF IInv, Sound, Excludes, HoldsTarget, Locked, Of
      <3>3. Remembers(i)'
        BY <3>0 DEF IInv, Sound, Placed, Remembers, Locked
      <3>4. HasKept(i)'
        BY <3>0 DEF IInv, Sound, Remembers, HasKept, Activating, HoldsTarget, Locked
      <3> QED BY <3>1, <3>2, <3>3, <3>4 DEF Sound
    <2>3. NoLockLeaks'
      BY <1>2, NoneAssumption DEF LockPlan, At, disk, NoLockLeaks, IInv, TypeOK, Of, Locked
    <2> QED BY <2>1, <2>2, <2>3, PrivateStep
  <1> QED BY <1>1, <1>2

\* Reading the plan under its mutex gives a record that agrees with the file.
LEMMA ReadPlanKeeps ==
  ASSUME IInv, TypeOK', NEW i \in Proc, ReadPlan(i)
  PROVE  IInv'
  <1>1. CASE Fail(i, "other")
    BY <1>1, FailKeeps DEF ReadPlan, At, disk
  <1>2. CASE ~Fail(i, "other")
    <2>1. Sound(i)'
      <3>0. /\ pc'[i] = "lockTarget" /\ op'[i] = op[i] /\ job'[i] = job[i] /\ job[i] \in Plan
            /\ pc[i] = "readPlan" /\ mem'[i] = plan[job[i]]
            /\ UNCHANGED <<owner, file, plan, previous>>
        BY <1>2 DEF ReadPlan, At, disk, IInv, TypeOK
      <3>1. Placed(i)'
        BY <3>0 DEF IInv, Sound, Placed, Activating, Locked, Ops
      <3>2. Excludes(i)'
        BY <3>0 DEF IInv, Sound, Excludes, HoldsTarget, Locked, Of
      <3>3. Remembers(i)'
        BY <3>0 DEF IInv, Sound, Placed, Remembers, Locked
      <3>4. HasKept(i)'
        BY <3>0 DEF IInv, Sound, Remembers, HasKept, Activating, HoldsTarget, Locked
      <3> QED BY <3>1, <3>2, <3>3, <3>4 DEF Sound
    <2> QED BY <1>2, <2>1, GotoKeeps DEF ReadPlan, At, disk, IInv, TypeOK, Locked
  <1> QED BY <1>1, <1>2

\* Taking the target's mutex preserves IInv: a process past it owns both.
LEMMA LockTargetKeeps ==
  ASSUME IInv, TypeOK', NEW i \in Proc, LockTarget(i)
  PROVE  IInv'
  <1>1. CASE Fail(i, "busy") \/ Fail(i, "other")
    BY <1>1, FailKeeps DEF LockTarget, At, disk
  <1>2. CASE ~(Fail(i, "busy") \/ Fail(i, "other"))
    <2>1. Private(i)
      BY <1>2 DEF LockTarget, disk, Private, IInv, TypeOK
    <2>2. Sound(i)'
      <3>0. /\ pc'[i] \in {"clear", "checkWord"} /\ op'[i] = op[i] /\ job'[i] = job[i] /\ job[i] \in Plan
            /\ pc[i] = "lockTarget" /\ mem'[i] = mem[i]
            /\ op[i] = "restore" => mem[i].prior # None /\ mem[i].backup # ""
            /\ owner'[Of(i)] = i /\ owner'[job[i]] = owner[job[i]]
            /\ UNCHANGED <<file, plan, previous>>
        <4>1. job[i] \in Plan /\ pc[i] = "lockTarget" /\ Of(i) \in Target /\ Of(i) # job[i]
          BY LocksAssumption, TargetOfAssumption DEF LockTarget, At, IInv, TypeOK, Of
        <4> QED BY <1>2, <4>1 DEF LockTarget, Eligible, disk, IInv, TypeOK
      <3>1. Placed(i)'
        BY <3>0 DEF IInv, Sound, Placed, Activating, Locked, Ops
      <3>2. Excludes(i)'
        BY <3>0 DEF IInv, Sound, Excludes, HoldsTarget, Locked, Of
      <3>3. Remembers(i)'
        BY <3>0 DEF IInv, Sound, Placed, Remembers, Locked
      <3>4. HasKept(i)'
        BY <3>0 DEF IInv, Sound, Remembers, HasKept, Activating, HoldsTarget, Locked
      <3> QED BY <3>1, <3>2, <3>3, <3>4 DEF Sound
    <2>3. NoLockLeaks'
      BY <1>2, NoneAssumption DEF LockTarget, At, disk, NoLockLeaks, IInv, TypeOK, Of, Locked
    <2> QED BY <2>1, <2>2, <2>3, PrivateStep
  <1> QED BY <1>1, <1>2

\* The check that Word is closed preserves IInv.
LEMMA CheckWordKeeps ==
  ASSUME IInv, TypeOK', NEW i \in Proc, CheckWord(i)
  PROVE  IInv'
  <1>1. CASE Fail(i, "word")
    BY <1>1, FailKeeps DEF CheckWord, At, disk
  <1>2. CASE Goto(i, "source")
    <2>1. Sound(i)'
      <3>0. /\ pc'[i] = "source" /\ op'[i] = op[i] /\ job'[i] = job[i] /\ job[i] \in Plan
            /\ pc[i] = "checkWord" /\ mem'[i] = mem[i]
            /\ UNCHANGED <<owner, file, plan, previous>>
        BY <1>2 DEF CheckWord, Goto, At, disk, IInv, TypeOK
      <3>1. Placed(i)'
        BY <3>0 DEF IInv, Sound, Placed, Activating, Locked, Ops
      <3>2. Excludes(i)'
        BY <3>0 DEF IInv, Sound, Excludes, HoldsTarget, Locked, Of
      <3>3. Remembers(i)'
        BY <3>0 DEF IInv, Sound, Placed, Remembers, Locked
      <3>4. HasKept(i)'
        BY <3>0 DEF IInv, Sound, Remembers, HasKept, Activating, HoldsTarget, Locked
      <3> QED BY <3>1, <3>2, <3>3, <3>4 DEF Sound
    <2> QED BY <1>2, <2>1, GotoKeeps DEF CheckWord, Goto, At, disk, IInv, TypeOK, Locked
  <1> QED BY <1>1, <1>2 DEF CheckWord

\* After it a restore knows that previous.dotm holds the prior.
LEMMA ReadSourceKeeps ==
  ASSUME IInv, TypeOK', NEW i \in Proc, ReadSource(i)
  PROVE  IInv'
  <1>1. CASE Fail(i, "other")
    BY <1>1, FailKeeps DEF ReadSource, At, disk
  <1>2. CASE ~Fail(i, "other")
    <2>1. Sound(i)'
      <3>0. /\ pc'[i] = "target" /\ op'[i] = op[i] /\ job'[i] = job[i] /\ job[i] \in Plan
            /\ pc[i] = "source" /\ mem'[i] = mem[i]
            /\ op[i] = "restore" => previous[job[i]] = mem[i].prior
            /\ UNCHANGED <<owner, file, plan, previous>>
        BY <1>2 DEF ReadSource, Activating, Goto, At, disk, IInv, TypeOK
      <3>1. Placed(i)'
        BY <3>0 DEF IInv, Sound, Placed, Activating, Locked, Ops
      <3>2. Excludes(i)'
        BY <3>0 DEF IInv, Sound, Excludes, HoldsTarget, Locked, Of
      <3>3. Remembers(i)'
        BY <3>0 DEF IInv, Sound, Placed, Remembers, Locked
      <3>4. HasKept(i)'
        BY <3>0 DEF IInv, Sound, Remembers, HasKept, Activating, HoldsTarget, Locked
      <3> QED BY <3>1, <3>2, <3>3, <3>4 DEF Sound
    <2> QED BY <1>2, <2>1, GotoKeeps DEF ReadSource, Goto, At, disk, IInv, TypeOK, Locked
  <1> QED BY <1>1, <1>2

\* After it an activation knows that the target holds the prior, or that an
\* interrupted replacement left its backup behind.
LEMMA ReadTargetToActivateKeeps ==
  ASSUME IInv, TypeOK', NEW i \in Proc, ReadTargetToActivate(i)
  PROVE  IInv'
  <1>1. CASE Fail(i, "other")
    BY <1>1, FailKeeps DEF ReadTargetToActivate, At, disk
  <1>2. CASE ~Fail(i, "other")
    <2>1. Sound(i)'
      <3>0. /\ pc'[i] \in {"record", "write", "backup"} /\ op'[i] = op[i] /\ job'[i] = job[i] /\ job[i] \in Plan
            /\ pc[i] = "target" /\ Activating(i)
            /\ mem'[i].state = mem[i].state /\ mem'[i].sha = mem[i].sha /\ mem'[i].prior = mem[i].prior
            /\ pc'[i] = "write" => mem[i].prior = None
            /\ pc'[i] = "record" /\ mem[i].prior # None =>
                 mem'[i].backup # "" /\ previous[job[i]] = mem[i].prior
            /\ UNCHANGED <<owner, file, plan, previous>>
        <4>1. CASE Interrupted(i)
          <5> DEFINE b == IF mem[i].prior = None THEN mem[i].backup ELSE "previous.dotm"
          <5>1. /\ At(i, "target") /\ Activating(i)
                /\ mem[i].prior \in {None, previous[job[i]]}
                /\ mem' = [mem EXCEPT ![i] = BackedUp(mem[i], b)]
                /\ pc' = [pc EXCEPT ![i] = "record"]
                /\ UNCHANGED <<op, job, owner, file, plan, previous>>
            BY <1>2, <4>1 DEF ReadTargetToActivate, disk
          <5>2. mem'[i] = BackedUp(mem[i], b) /\ pc'[i] = "record"
            BY <5>1 DEF IInv, TypeOK
          <5> QED BY <5>1, <5>2 DEF BackedUp, At, IInv, TypeOK
        <4>2. CASE ~Interrupted(i)
          BY <1>2, <4>2 DEF ReadTargetToActivate, Goto, At, disk, IInv, TypeOK
        <4> QED BY <4>1, <4>2
      <3>1. Placed(i)'
        BY <3>0 DEF IInv, Sound, Placed, Activating, Locked, Ops
      <3>2. Excludes(i)'
        BY <3>0 DEF IInv, Sound, Excludes, HoldsTarget, Locked, Of
      <3>3. Remembers(i)'
        BY <3>0 DEF IInv, Sound, Placed, Remembers, Locked
      <3>4. HasKept(i)'
        BY <3>0 DEF IInv, Sound, Remembers, HasKept, Activating, HoldsTarget, Locked
      <3> QED BY <3>1, <3>2, <3>3, <3>4 DEF Sound
    <2> QED
      BY <1>2, <2>1, GotoKeeps
         DEF ReadTargetToActivate, BackedUp, Goto, At, disk, IInv, TypeOK, Locked
  <1> QED BY <1>1, <1>2

\* After it a restore knows that the target holds the artifact or the prior.
LEMMA ReadTargetToRestoreKeeps ==
  ASSUME IInv, TypeOK', NEW i \in Proc, ReadTargetToRestore(i)
  PROVE  IInv'
  <1>1. CASE Fail(i, "other")
    BY <1>1, FailKeeps DEF ReadTargetToRestore, At, disk
  <1>2. CASE ~Fail(i, "other")
    <2>1. Sound(i)'
      <3>0. /\ pc'[i] \in {"record", "write"} /\ op'[i] = op[i] /\ job'[i] = job[i] /\ job[i] \in Plan
            /\ pc[i] = "target" /\ op[i] = "restore" /\ mem'[i] = mem[i]
            /\ UNCHANGED <<owner, file, plan, previous>>
        BY <1>2 DEF ReadTargetToRestore, Goto, At, disk, IInv, TypeOK
      <3>1. Placed(i)'
        BY <3>0 DEF IInv, Sound, Placed, Activating, Locked, Ops
      <3>2. Excludes(i)'
        BY <3>0 DEF IInv, Sound, Excludes, HoldsTarget, Locked, Of
      <3>3. Remembers(i)'
        BY <3>0 DEF IInv, Sound, Placed, Remembers, Locked
      <3>4. HasKept(i)'
        BY <3>0 DEF IInv, Sound, Remembers, HasKept, Activating, HoldsTarget, Locked
      <3> QED BY <3>1, <3>2, <3>3, <3>4 DEF Sound
    <2> QED
      BY <1>2, <2>1, GotoKeeps DEF ReadTargetToRestore, Goto, At, disk, IInv, TypeOK, Locked
  <1> QED BY <1>1, <1>2

-----------------------------------------------------------------------------
\* The steps that write, each under the mutexes that make it safe.

\* Two processes never hold the same mutex: who is as far as i in another plan
\* of the same target, or in the same plan, is i.
LEMMA Exclusion ==
  ASSUME IInv, NEW i \in Proc, NEW j \in Proc \ {i}, pc[i] \in Locked, pc[j] \in Locked
  PROVE  /\ job[i] # job[j]
         /\ pc[i] \in HoldsTarget /\ pc[j] \in HoldsTarget => Of(i) # Of(j)
  BY DEF IInv, Sound, Excludes

\* Writing previous.dotm keeps the plan undoable: it writes the plan's prior.
LEMMA WriteBackupKeeps ==
  ASSUME IInv, TypeOK', NEW i \in Proc, WriteBackup(i)
  PROVE  IInv'
  <1>0. /\ pc[i] = "backup" /\ Activating(i) /\ job[i] \in Plan
        /\ mem[i].prior = plan[job[i]].prior
        /\ pc'[i] = "write" /\ op'[i] = op[i] /\ job'[i] = job[i]
        /\ mem'[i].state = mem[i].state /\ mem'[i].sha = mem[i].sha
        /\ mem'[i].prior = mem[i].prior /\ mem'[i].backup = "previous.dotm"
        /\ previous' = [previous EXCEPT ![job[i]] = mem[i].prior]
        /\ UNCHANGED <<owner, file, plan>>
    BY DEF WriteBackup, BackedUp, At, IInv, Sound, Placed, Remembers, TypeOK, Locked
  <1>1. previous'[job[i]] = mem[i].prior
    BY <1>0 DEF IInv, TypeOK
  <1>2. \A j \in Proc \ {i} : Undisturbed(j)
    <2>1. \A j \in Proc \ {i} : /\ pc'[j] = pc[j] /\ op'[j] = op[j]
                               /\ job'[j] = job[j] /\ mem'[j] = mem[j]
      BY DEF WriteBackup, IInv, TypeOK
    <2> QED BY <1>0, <2>1 DEF Undisturbed, IInv, Sound, Placed, TypeOK
  <1>3. Sound(i)'
    <2>1. Placed(i)'
      BY <1>0 DEF IInv, Sound, Placed, Activating
    <2>2. Excludes(i)'
      BY <1>0 DEF IInv, Sound, Excludes, HoldsTarget, Locked, Of
    <2>3. Remembers(i)'
      BY <1>0 DEF IInv, Sound, Remembers, Locked
    <2>4. HasKept(i)'
      BY <1>0, <1>1 DEF IInv, Sound, HasKept, Activating
    <2> QED BY <2>1, <2>2, <2>3, <2>4 DEF Sound
  <1>4. Files'
    BY <1>0 DEF IInv, Files, InstalledIsUndoable, TypeOK
  <1>5. NoLockLeaks'
    <2>1. \A j \in Proc \ {i} : pc'[j] = pc[j] /\ job'[j] = job[j]
      BY DEF WriteBackup, IInv, TypeOK
    <2> QED BY <1>0, <2>1, NoneAssumption DEF NoLockLeaks, IInv, TypeOK, Of, Locked
  <1> QED BY <1>2, <1>3, <1>4, <1>5, OneProcess

\* Replacing the target disturbs nobody, and the replaced bytes are kept.
LEMMA WriteTargetKeeps ==
  ASSUME IInv, TypeOK', NEW i \in Proc, WriteTarget(i)
  PROVE  IInv'
  <1>0. /\ pc[i] = "write" /\ job[i] \in Plan
        /\ pc'[i] = "record" /\ op'[i] = op[i] /\ job'[i] = job[i] /\ mem'[i] = mem[i]
        /\ UNCHANGED <<owner, plan, previous>>
    BY DEF WriteTarget, Goto, At, IInv, TypeOK
  <1>1. \A j \in Proc \ {i} : /\ pc'[j] = pc[j] /\ op'[j] = op[j]
                             /\ job'[j] = job[j] /\ mem'[j] = mem[j]
    BY DEF WriteTarget, Goto, IInv, TypeOK
  <1>2. \A j \in Proc \ {i} : Undisturbed(j)
    BY <1>0, <1>1 DEF Undisturbed, IInv, Sound, Placed
  <1>3. Sound(i)'
    <2>1. Placed(i)'
      BY <1>0 DEF IInv, Sound, Placed, Activating
    <2>2. Excludes(i)'
      BY <1>0 DEF IInv, Sound, Excludes, HoldsTarget, Locked, Of
    <2>3. Remembers(i)'
      BY <1>0 DEF IInv, Sound, Remembers, Locked
    <2>4. HasKept(i)'
      BY <1>0 DEF IInv, Sound, HasKept, Activating, HoldsTarget, Locked
    <2> QED BY <2>1, <2>2, <2>3, <2>4 DEF Sound
  <1>4. Files'
    BY <1>0 DEF IInv, Files, InstalledIsUndoable
  <1>5. NoLockLeaks'
    BY <1>0, <1>1, NoneAssumption DEF NoLockLeaks, IInv, TypeOK, Of, Locked
  <1> QED BY <1>2, <1>3, <1>4, <1>5, OneProcess

\* Recording the plan as installed or restored keeps InstalledIsUndoable: the
\* backup was written, or verified, before the replacement.
LEMMA WriteRecordKeeps ==
  ASSUME IInv, TypeOK', NEW i \in Proc, WriteRecord(i)
  PROVE  IInv'
  <1> DEFINE r == InState(mem[i], IF op[i] = "restore" THEN "restored" ELSE "installed")
  <1>0. /\ pc[i] = "record" /\ job[i] \in Plan
        /\ pc'[i] = "clear" /\ op'[i] = op[i] /\ job'[i] = job[i] /\ mem'[i] = mem[i]
        /\ plan'[job[i]] = r /\ \A p \in Plan \ {job[i]} : plan'[p] = plan[p]
        /\ UNCHANGED <<owner, file, previous>>
    BY DEF WriteRecord, Goto, At, IInv, TypeOK
  <1>1. /\ r.state \in {"installed", "restored"} /\ r.backup = mem[i].backup
        /\ r.sha = plan[job[i]].sha /\ r.prior = plan[job[i]].prior
    BY <1>0 DEF InState, IInv, Sound, Remembers, Locked
  <1>2. \A j \in Proc \ {i} : /\ pc'[j] = pc[j] /\ op'[j] = op[j]
                             /\ job'[j] = job[j] /\ mem'[j] = mem[j]
    BY DEF WriteRecord, Goto, IInv, TypeOK
  <1>3. \A j \in Proc \ {i} : Undisturbed(j)
    BY <1>0, <1>1, <1>2 DEF Undisturbed, IInv, Sound, Placed, TypeOK
  <1>4. Sound(i)'
    <2>1. Placed(i)'
      BY <1>0, <1>1 DEF IInv, Sound, Placed, Activating
    <2>2. Excludes(i)'
      BY <1>0 DEF IInv, Sound, Excludes, HoldsTarget, Locked, Of
    <2>3. Remembers(i)'
      BY <1>0, <1>1 DEF IInv, Sound, Remembers, Locked
    <2>4. HasKept(i)'
      BY <1>0 DEF IInv, Sound, HasKept, Activating, HoldsTarget, Locked
    <2> QED BY <2>1, <2>2, <2>3, <2>4 DEF Sound
  <1>5. Files'
    <2>1. r.prior # None => r.backup # "" /\ previous[job[i]] = r.prior
      <3>1. r.prior = mem[i].prior /\ r.backup = mem[i].backup
        BY DEF InState
      <3>2. HasKept(i) /\ Placed(i)
        BY DEF IInv, Sound
      <3>3. op[i] = "restore" \/ Activating(i)
        BY <1>0, <3>2 DEF Placed, Activating, Ops
      <3>4. mem[i].prior # None => mem[i].backup # "" /\ previous[job[i]] = mem[i].prior
        BY <1>0, <3>2, <3>3 DEF HasKept, HoldsTarget, Locked
      <3> QED BY <3>1, <3>4
    <2>2. \A p \in Plan : plan'[p].prior = plan[p].prior
      BY <1>0, <1>1
    <2>3. plan'[job[i]].state # "none"
      BY <1>0, <1>1
    <2> HIDE DEF r
    <2>4. InstalledIsUndoable'
      BY <1>0, <2>1 DEF IInv, Files, InstalledIsUndoable
    <2> QED BY <1>0, <2>2, <2>3, <2>4 DEF IInv, Files
  <1>6. NoLockLeaks'
    BY <1>0, <1>2, NoneAssumption DEF NoLockLeaks, IInv, TypeOK, Of, Locked
  <1> QED BY <1>3, <1>4, <1>5, <1>6, OneProcess

\* RecordFailure takes no lock, but changes only a plan's state.
LEMMA RecordFailureKeeps ==
  ASSUME IInv, TypeOK', NEW i \in Proc, RecordFailure(i)
  PROVE  IInv'
  <1>1. CASE DropResume(i)
    <2>0. /\ pc'[i] = "readFailed" /\ op'[i] = op[i] /\ job'[i] = job[i]
          /\ pc[i] = "dropResume" /\ UNCHANGED <<owner, file, plan, previous>>
      BY <1>1 DEF DropResume, Goto, At, disk, IInv, TypeOK
    <2>1. Sound(i)'
      BY <2>0 DEF IInv, Sound, Placed, Excludes, Remembers, HasKept, Locked, HoldsTarget
    <2> QED BY <1>1, <2>0, <2>1, GotoKeeps DEF DropResume, Goto, IInv, TypeOK, Locked
  <1>2. CASE ReadFailed(i)
    <2>1. CASE Leave(i, "idle")
      BY <1>2, <2>1, LeaveKeeps DEF ReadFailed, At, disk
    <2>2. CASE ~Leave(i, "idle")
      <3>0. /\ pc'[i] = "writeFailed" /\ op'[i] = op[i] /\ job'[i] = job[i]
            /\ mem'[i] = plan[job[i]] /\ pc[i] = "readFailed"
            /\ UNCHANGED <<owner, file, plan, previous>>
        BY <1>2, <2>2 DEF ReadFailed, At, disk, IInv, TypeOK
      <3>1. Sound(i)'
        BY <3>0 DEF IInv, Sound, Placed, Excludes, Remembers, HasKept, Locked, HoldsTarget
      <3> QED BY <1>2, <2>2, <3>0, <3>1, GotoKeeps DEF ReadFailed, IInv, TypeOK, Locked
    <2> QED BY <2>1, <2>2
  <1>3. CASE WriteFailed(i)
    <2>0. /\ pc[i] = "writeFailed" /\ job[i] \in Plan
          /\ plan'[job[i]] = InState(mem[i], "blocked")
          /\ \A p \in Plan \ {job[i]} : plan'[p] = plan[p]
          /\ pc'[i] = "idle" /\ op'[i] = "none" /\ job'[i] = None
          /\ UNCHANGED <<file, previous>>
      BY <1>3 DEF WriteFailed, Leave, At, IInv, TypeOK
    <2>1. /\ plan'[job[i]].state = "blocked"
          /\ plan'[job[i]].sha = plan[job[i]].sha /\ plan'[job[i]].prior = plan[job[i]].prior
      BY <2>0 DEF InState, IInv, Sound, Remembers
    <2>2. /\ \A j \in Proc \ {i} : /\ pc'[j] = pc[j] /\ op'[j] = op[j]
                                 /\ job'[j] = job[j] /\ mem'[j] = mem[j]
          /\ \A k \in Plan \cup Target :
               owner'[k] = IF owner[k] = i THEN None ELSE owner[k]
      BY <1>3 DEF WriteFailed, Leave, IInv, TypeOK
    <2>3. \A j \in Proc \ {i} : Undisturbed(j)
      BY <2>0, <2>1, <2>2 DEF Undisturbed, IInv, Sound, Placed, TypeOK
    <2>4. Sound(i)'
      BY <2>0 DEF Sound, Placed, Excludes, Remembers, HasKept, Locked, HoldsTarget
    <2>5. Files'
      BY <2>0, <2>1 DEF IInv, Files, InstalledIsUndoable
    <2>6. NoLockLeaks'
      BY <2>0, <2>2, NoneAssumption DEF NoLockLeaks, IInv, TypeOK, Of
    <2> QED BY <2>3, <2>4, <2>5, <2>6, OneProcess
  <1> QED BY <1>1, <1>2, <1>3 DEF RecordFailure

\* Staging a new plan disturbs no other.
LEMMA DeployKeeps ==
  ASSUME IInv, TypeOK', NEW i \in Proc, NEW p \in Plan, Deploy(i, p)
  PROVE  IInv'
  <1>0. PICK c \in Passing :
          /\ plan[p] = NoPlan
          /\ plan' = [plan EXCEPT ![p] = [state |-> "pending", sha |-> c,
                                          prior |-> file[TargetOf[p]], backup |-> ""]]
          /\ Begin(i, "deploy", p, "choose")
          /\ UNCHANGED <<file, previous>>
    BY DEF Deploy
  <1>1. /\ plan[p].state = "none" /\ plan[p].prior = None
        /\ plan'[p].state = "pending" /\ plan'[p].prior = file[TargetOf[p]]
        /\ \A q \in Plan \ {p} : plan'[q] = plan[q]
    <2>1. plan[p].state = "none" /\ plan[p].prior = None
      <3>1. plan[p] = NoPlan
        BY <1>0
      <3>2. NoPlan.state = "none" /\ NoPlan.prior = None
        BY DEF NoPlan
      <3> QED BY <3>1, <3>2
    <2> DEFINE new == [state |-> "pending", sha |-> c,
                       prior |-> file[TargetOf[p]], backup |-> ""]
    <2>2. plan'[p] = new
      BY <1>0 DEF IInv, TypeOK
    <2>3. \A q \in Plan \ {p} : plan'[q] = plan[q]
      BY <1>0 DEF IInv, TypeOK
    <2>4. new.state = "pending" /\ new.prior = file[TargetOf[p]]
      OBVIOUS
    <2> HIDE DEF new
    <2> QED BY <2>1, <2>2, <2>3, <2>4
  <1>2. /\ pc[i] = "idle" /\ pc'[i] = "choose" /\ op'[i] = "deploy" /\ job'[i] = p
        /\ UNCHANGED owner
        /\ \A j \in Proc \ {i} : /\ pc'[j] = pc[j] /\ op'[j] = op[j]
                               /\ job'[j] = job[j] /\ mem'[j] = mem[j]
    BY <1>0 DEF Begin, At, IInv, TypeOK
  <1>3. \A j \in Proc \ {i} : Undisturbed(j)
    <2> TAKE j \in Proc \ {i}
    <2>1. pc[j] # "idle" => job[j] \in Plan \ {p} /\ plan[job[j]].state # "none"
      BY <1>1 DEF IInv, TypeOK, Sound, Placed
    <2> QED BY <1>0, <1>1, <1>2, <2>1 DEF Undisturbed
  <1>4. Sound(i)'
    BY <1>1, <1>2 DEF Sound, Placed, Excludes, Remembers, HasKept, Locked,
       HoldsTarget, Ops, Activating
  <1>5. Files'
    BY <1>0, <1>1 DEF IInv, Files, InstalledIsUndoable
  <1>6. NoLockLeaks'
    BY <1>2, NoneAssumption DEF NoLockLeaks, IInv, TypeOK, Of, Locked
  <1> QED BY <1>3, <1>4, <1>5, <1>6, OneProcess

\* A save, even between check and replacement, disturbs nobody: no process
\* relies on the target still holding what it hashed.
LEMMA UserEditKeeps ==
  ASSUME IInv, TypeOK', NEW t \in Target, UserEdit(t)
  PROVE  IInv'
  <1>0. UNCHANGED <<plan, previous, owner, pc, op, job, mem>>
    BY DEF UserEdit, local
  <1>1. \A j \in Proc : Undisturbed(j)
    BY <1>0 DEF Undisturbed, IInv, Sound, Placed
  <1>2. Files' /\ NoLockLeaks'
    BY <1>0 DEF IInv, Files, InstalledIsUndoable, NoLockLeaks, Of
  <1> QED BY <1>1, <1>2, UndisturbedIsSound DEF IInv

-----------------------------------------------------------------------------
\* The program starts with no plan, no lock and nobody at work.
LEMMA InvInit == Init => IInv
  <1> SUFFICES ASSUME Init PROVE IInv
    OBVIOUS
  <1>1. TypeOK
    BY TypeInit
  <1>2. NoLockLeaks
    BY DEF Init, NoLockLeaks
  <1>3. Files
    BY DEF Init, Files, InstalledIsUndoable, NoPlan
  <1>4. ASSUME NEW i \in Proc PROVE Sound(i)
    BY DEF Init, Sound, Placed, Excludes, Remembers, HasKept, Locked, HoldsTarget
  <1> QED BY <1>1, <1>2, <1>3, <1>4 DEF IInv

\* Only a staged plan gets a login command.
Registered == \A p \in Plan : resume[p] => plan[p].state # "none"

\* Only a staged plan ever gets a login command, and no plan is unstaged.
LEMMA RegisteredStep ==
  ASSUME IInv, IInv', Registered, [Next]_vars
  PROVE  Registered'
  <1> USE DEF disk, local, spent
  <1>1. CASE UNCHANGED <<plan, resume>>
    BY <1>1 DEF Registered
  <1>2. ASSUME NEW i \in Proc, Register(i) PROVE Registered'
    BY <1>2 DEF Register, At, Registered, IInv, Sound, Placed, TypeOK
  <1>3. ASSUME NEW i \in Proc, ClearResume(i) \/ DropResume(i) PROVE Registered'
    BY <1>3 DEF ClearResume, DropResume, At, Registered, IInv, TypeOK
  <1>4. ASSUME NEW i \in Proc, WriteRecord(i) PROVE Registered'
    <2>1. \A p \in Plan \ {job[i]} : plan'[p] = plan[p] /\ UNCHANGED resume
      BY <1>4 DEF WriteRecord, IInv, TypeOK
    <2>2. pc'[i] # "idle" /\ job'[i] = job[i]
      BY <1>4 DEF WriteRecord, Goto, IInv, TypeOK
    <2> QED BY <2>1, <2>2 DEF Registered, IInv, Sound, Placed
  <1>5. ASSUME NEW i \in Proc, WriteFailed(i) PROVE Registered'
    <2>1. \A p \in Plan \ {job[i]} : plan'[p] = plan[p] /\ UNCHANGED resume
      BY <1>5 DEF WriteFailed, IInv, TypeOK
    <2>2. plan'[job[i]].state # "none" \/ job[i] \notin Plan
      <3>1. InState(mem[i], "blocked").state = "blocked"
        BY DEF InState
      <3> QED BY <1>5, <3>1 DEF WriteFailed, IInv, TypeOK
    <2> QED BY <2>1, <2>2 DEF Registered
  <1>6. ASSUME NEW i \in Proc, NEW p \in Plan, Deploy(i, p) PROVE Registered'
    <2>1. plan[p] = NoPlan /\ UNCHANGED resume /\ \A q \in Plan \ {p} : plan'[q] = plan[q]
      BY <1>6 DEF Deploy, IInv, TypeOK
    <2>2. NoPlan.state = "none"
      BY DEF NoPlan
    <2> QED BY <2>1, <2>2 DEF Registered
  <1>7. ASSUME NEW i \in Proc, IoError(i) \/ Crash(i) PROVE UNCHANGED <<plan, resume>>
    BY <1>7 DEF IoError, Crash
  <1>8. ASSUME NEW i \in Proc, Work(i), ~Register(i), ~ClearResume(i), ~DropResume(i),
               ~WriteRecord(i), ~WriteFailed(i)
        PROVE  UNCHANGED <<plan, resume>>
    BY <1>8 DEF Work, Choose, Spawn, Poll, Activate, RecordFailure, LockPlan, ReadPlan,
       LockTarget, CheckWord, ReadSource, ReadTargetToActivate, ReadTargetToRestore,
       WriteBackup, WriteTarget, ReadFailed
  <1>9. CASE \/ \E i \in Proc, p \in Plan : Call(i, p) \/ Login(i, p)
             \/ \E t \in Target : UserEdit(t)
             \/ \E p \in Plan : ChangeStaged(p)
             \/ Word \/ UNCHANGED vars
    BY <1>1, <1>9 DEF Call, Login, UserEdit, ChangeStaged, Word, vars
  <1> QED BY <1>1, <1>2, <1>3, <1>4, <1>5, <1>6, <1>7, <1>8, <1>9 DEF Next

\* Every step preserves IInv.
LEMMA InvStep == IInv /\ Registered /\ [Next]_vars => IInv'
  <1> SUFFICES ASSUME IInv, Registered, [Next]_vars PROVE IInv'
    OBVIOUS
  <1>0. TypeOK'
    BY TypeStep DEF IInv
  <1>1. ASSUME NEW i \in Proc, Choose(i) \/ Register(i) \/ Spawn(i) \/ Poll(i)
        PROVE  IInv'
    BY <1>0, <1>1, StartKeeps
  <1>2. ASSUME NEW i \in Proc, Activate(i) PROVE IInv'
    <2>1. CASE ClearResume(i)
      BY <1>0, <2>1, LeaveKeeps DEF ClearResume, At, disk
    <2> QED
      BY <1>0, <1>2, <2>1, LockPlanKeeps, ReadPlanKeeps, LockTargetKeeps, CheckWordKeeps,
         ReadSourceKeeps, ReadTargetToActivateKeeps, ReadTargetToRestoreKeeps,
         WriteBackupKeeps, WriteTargetKeeps, WriteRecordKeeps DEF Activate
  <1>3. ASSUME NEW i \in Proc, RecordFailure(i) PROVE IInv'
    BY <1>0, <1>3, RecordFailureKeeps
  <1>4. ASSUME NEW i \in Proc, IoError(i) PROVE IInv'
    <2>1. UNCHANGED <<file, plan, previous>>
      BY <1>4 DEF IoError, disk
    <2>2. CASE Leave(i, "idle") /\ pc[i] # "idle"
      BY <1>0, <2>1, <2>2, LeaveKeeps
    <2>3. CASE Fail(i, "other") /\ pc[i] # "idle"
      BY <1>0, <2>1, <2>3, FailKeeps
    <2>4. CASE At(i, "dropResume") /\ Goto(i, "readFailed")
      <3>0. /\ pc'[i] = "readFailed" /\ op'[i] = op[i] /\ job'[i] = job[i]
            /\ pc[i] = "dropResume" /\ UNCHANGED owner
        BY <2>4 DEF Goto, At, IInv, TypeOK
      <3>1. Sound(i)'
        BY <2>1, <3>0
           DEF IInv, Sound, Placed, Excludes, Remembers, HasKept, Locked, HoldsTarget
      <3> QED BY <1>0, <2>1, <2>4, <3>0, <3>1, GotoKeeps DEF Goto, IInv, TypeOK, Locked
    <2> QED BY <1>4, <2>2, <2>3, <2>4 DEF IoError, At, Locked
  <1>5. ASSUME NEW i \in Proc, Crash(i) PROVE IInv'
    BY <1>0, <1>5, LeaveKeeps DEF Crash, At, disk
  <1>6. ASSUME NEW i \in Proc, NEW p \in Plan, Deploy(i, p) PROVE IInv'
    BY <1>0, <1>6, DeployKeeps
  <1>7. ASSUME NEW i \in Proc, NEW p \in Plan, Call(i, p) PROVE IInv'
    <2>1. plan[p].state # "none"
      BY <1>7 DEF Call, IInv, Files
    <2> QED BY <1>0, <1>7, <2>1, BeginKeeps DEF Call, disk
  <1>8. ASSUME NEW i \in Proc, NEW p \in Plan, Login(i, p) PROVE IInv'
    <2>1. plan[p].state # "none"
      BY <1>8 DEF Login, Registered
    <2> QED BY <1>0, <1>8, <2>1, BeginKeeps DEF Login, disk
  <1>9. ASSUME NEW t \in Target, UserEdit(t) PROVE IInv'
    BY <1>0, <1>9, UserEditKeeps
  <1>10. ASSUME NEW p \in Plan, ChangeStaged(p) PROVE IInv'
    <2>1. UNCHANGED <<file, plan, previous, owner, pc, op, job, mem>>
      BY <1>10 DEF ChangeStaged, local
    <2>2. \A j \in Proc : Undisturbed(j)
      BY <2>1 DEF Undisturbed, IInv, Sound, Placed
    <2>3. Files' /\ NoLockLeaks'
      BY <2>1 DEF IInv, Files, InstalledIsUndoable, NoLockLeaks, Of
    <2> QED BY <1>0, <2>2, <2>3, UndisturbedIsSound DEF IInv
  <1>11. CASE Word \/ UNCHANGED vars
    <2>1. UNCHANGED <<file, plan, previous, owner, pc, op, job, mem>>
      BY <1>11 DEF Word, vars, disk, local
    <2>2. \A j \in Proc : Undisturbed(j)
      BY <2>1 DEF Undisturbed, IInv, Sound, Placed
    <2>3. Files' /\ NoLockLeaks'
      BY <2>1 DEF IInv, Files, InstalledIsUndoable, NoLockLeaks, Of
    <2> QED BY <1>0, <2>2, <2>3, UndisturbedIsSound DEF IInv
  <1> QED
    BY <1>1, <1>2, <1>3, <1>4, <1>5, <1>6, <1>7, <1>8, <1>9, <1>10, <1>11 DEF Next, Work

\* The inductive invariant: what every process can rely on at its place in
\* activate, restore, Watch or RecordFailure, in every reachable state.
THEOREM Invariant == Spec => [](IInv /\ Registered)
  <1>1. Init => IInv /\ Registered
    BY InvInit DEF Init, Registered
  <1>2. IInv /\ Registered /\ [Next]_vars => IInv' /\ Registered'
    BY InvStep, RegisteredStep
  <1> QED BY <1>1, <1>2, PTL DEF Spec

\* No path out of activate or restore leaks a mutex.
THEOREM LocksAreReleased == Spec => []NoLockLeaks
  <1>1. IInv => NoLockLeaks
    BY DEF IInv
  <1> QED BY <1>1, Invariant, PTL

\* A plan recorded as installed or restored can always be undone: what it
\* replaced is in previous.dotm.
THEOREM InstalledCanBeUndone == Spec => []InstalledIsUndoable
  <1>1. IInv => InstalledIsUndoable
    BY DEF IInv, Files
  <1> QED BY <1>1, Invariant, PTL

-----------------------------------------------------------------------------
\* Activation implements Deployment.

Origin == [p \in Plan |-> [staged |-> plan[p].state # "none",
                           sha |-> plan[p].sha, prior |-> plan[p].prior]]
Replacing == Claimed({"activate", "watch"})
Undoing == Claimed({"restore"})
promised == <<file, writer, Origin, previous, Replacing, Undoing>>

\* Between its check and its replacement a process claims the target.
Window == {"backup", "write"}

Alone(i) == \A j \in Proc \ {i} : pc'[j] = pc[j] /\ op'[j] = op[j] /\ job'[j] = job[j]

\* Who stays outside the window, or inside it, changes no claim.
LEMMA ClaimsStay ==
  ASSUME NEW i \in Proc, NEW w, Alone(i),
         \/ pc[i] \notin Window /\ pc'[i] \notin Window
         \/ pc[i] \in Window /\ pc'[i] \in Window /\ op'[i] = op[i] /\ job'[i] = job[i]
  PROVE  Claimed(w)' = Claimed(w)
  <1>1. \A k \in Proc : /\ pc[k] \in Window /\ op[k] \in w <=> pc'[k] \in Window /\ op'[k] \in w
                        /\ pc[k] \in Window => job'[k] = job[k]
    BY DEF Alone
  <1>2. {k \in Proc : pc'[k] \in Window /\ op'[k] \in w} = {k \in Proc : pc[k] \in Window /\ op[k] \in w}
    BY <1>1
  <1> QED BY <1>1, <1>2 DEF Claimed, Window

\* Who enters the window claims its target.
LEMMA ClaimTaken ==
  ASSUME NEW i \in Proc, NEW w, Alone(i), pc[i] \notin Window, pc'[i] \in Window,
         op'[i] = op[i], job'[i] = job[i]
  PROVE  Claimed(w)' = IF op[i] \in w THEN Claimed(w) \cup {job[i]} ELSE Claimed(w)
  <1>1. {k \in Proc : pc'[k] \in Window /\ op'[k] \in w} =
          {k \in Proc : pc[k] \in Window /\ op[k] \in w} \cup (IF op[i] \in w THEN {i} ELSE {})
    BY DEF Alone
  <1>2. \A k \in Proc : (pc[k] \in Window \/ k = i) => job'[k] = job[k]
    BY DEF Alone
  <1> QED BY <1>1, <1>2 DEF Claimed, Window

\* Who leaves the window gives up its claim, and no other.
LEMMA ClaimDropped ==
  ASSUME IInv, NEW i \in Proc, NEW w, Alone(i), pc[i] \in Window, pc'[i] \notin Window
  PROVE  Claimed(w)' = Claimed(w) \ {job[i]}
  <1>1. {k \in Proc : pc'[k] \in Window /\ op'[k] \in w} =
          {k \in Proc : pc[k] \in Window /\ op[k] \in w} \ {i}
    BY DEF Alone
  <1>2. \A k \in Proc \ {i} : pc[k] \in Window => job'[k] = job[k] /\ job[k] # job[i]
    BY Exclusion DEF Alone, Window, Locked
  <1> QED BY <1>1, <1>2 DEF Claimed, Window

\* A process that holds the target's mutex outside the window finds it unclaimed.
LEMMA NobodyElseClaims ==
  ASSUME IInv, NEW i \in Proc, pc[i] = "target"
  PROVE  \A p \in Replacing \cup Undoing : TargetOf[p] # Of(i)
  <1>1. \A k \in Proc : pc[k] \in Window => Of(k) # Of(i)
    BY Exclusion DEF Window, HoldsTarget, Locked
  <1> QED BY <1>1 DEF Replacing, Undoing, Claimed, Window, Of

\* An error return leaves the locked part, and moves nobody else.
LEMMA FailMoves ==
  ASSUME IInv, NEW i \in Proc, NEW error, Fail(i, error)
  PROVE  pc'[i] \in {"idle", "poll", "dropResume"} /\ Alone(i)
  BY DEF Fail, Leave, Alone, IInv, TypeOK

\* A step that only moves a staged plan from one state to another is a stutter.
LEMMA StateOnly ==
  ASSUME NEW p \in Plan, plan \in [Plan -> Record], plan' \in [Plan -> Record],
         \A q \in Plan \ {p} : plan'[q] = plan[q],
         plan[p].state # "none", plan'[p].state # "none",
         plan'[p].sha = plan[p].sha, plan'[p].prior = plan[p].prior
  PROVE  UNCHANGED Origin
  BY DEF Origin

\* The check of an activation that finds the prior claims the target; every
\* other outcome of it changes nothing.
LEMMA CheckPromised ==
  ASSUME IInv, NEW i \in Proc, ReadTargetToActivate(i)
  PROVE  Promise!ClaimToReplace(job[i]) \/ UNCHANGED promised
  <1>0. /\ pc[i] = "target" /\ Activating(i) /\ job[i] \in Plan /\ Sound(i) /\ Alone(i)
        /\ UNCHANGED <<file, writer, plan, previous>>
    BY FailMoves DEF ReadTargetToActivate, At, Goto, Alone, disk, IInv, TypeOK
  <1>1. CASE pc'[i] \notin Window
    BY <1>0, <1>1, ClaimsStay DEF Window, promised, Origin, Replacing, Undoing
  <1>2. CASE pc'[i] \in Window
    <2>1. file[Of(i)] = mem[i].prior /\ op'[i] = op[i] /\ job'[i] = job[i]
      BY <1>0, <1>2, FailMoves DEF ReadTargetToActivate, Goto, Window, IInv, TypeOK
    <2>2. /\ Replacing' = Replacing \cup {job[i]}
          /\ Undoing' = Undoing
      BY <1>0, <1>2, <2>1, ClaimTaken DEF Window, Activating, Replacing, Undoing
    <2>3. mem[i].prior = plan[job[i]].prior /\ plan[job[i]].state # "none"
      BY <1>0 DEF Sound, Placed, Remembers, Locked
    <2>4. \A p \in Replacing \cup Undoing : TargetOf[p] # Of(i)
      BY <1>0, NobodyElseClaims
    <2> QED
      BY <1>0, <2>1, <2>2, <2>3, <2>4
         DEF Promise!ClaimToReplace, Promise!Unclaimed, Of, Replacing, Undoing
  <1> QED BY <1>1, <1>2

\* The check of a restoration that finds the artifact claims the target.
LEMMA CheckRestorePromised ==
  ASSUME IInv, NEW i \in Proc, ReadTargetToRestore(i)
  PROVE  Promise!ClaimToUndo(job[i]) \/ UNCHANGED promised
  <1>0. /\ pc[i] = "target" /\ op[i] = "restore" /\ job[i] \in Plan /\ Sound(i) /\ Alone(i)
        /\ UNCHANGED <<file, writer, plan, previous>>
    BY FailMoves DEF ReadTargetToRestore, At, Goto, Alone, disk, IInv, TypeOK
  <1>1. CASE pc'[i] \notin Window
    BY <1>0, <1>1, ClaimsStay DEF Window, promised, Origin, Replacing, Undoing
  <1>2. CASE pc'[i] \in Window
    <2>1. file[Of(i)] = mem[i].sha /\ op'[i] = op[i] /\ job'[i] = job[i]
      BY <1>0, <1>2, FailMoves DEF ReadTargetToRestore, Goto, Window, IInv, TypeOK
    <2>2. /\ Undoing' = Undoing \cup {job[i]}
          /\ Replacing' = Replacing
      BY <1>0, <1>2, <2>1, ClaimTaken DEF Window, Replacing, Undoing
    <2>3. mem[i].sha = plan[job[i]].sha /\ plan[job[i]].state # "none"
      BY <1>0 DEF Sound, Placed, Remembers, Locked
    <2>4. \A p \in Replacing \cup Undoing : TargetOf[p] # Of(i)
      BY <1>0, NobodyElseClaims
    <2> QED
      BY <1>0, <2>1, <2>2, <2>3, <2>4
         DEF Promise!ClaimToUndo, Promise!Unclaimed, Of, Replacing, Undoing
  <1> QED BY <1>1, <1>2

\* The backup is written under the claim, from exactly the staged prior.
LEMMA WriteBackupPromised ==
  ASSUME IInv, NEW i \in Proc, WriteBackup(i)
  PROVE  Promise!Keep(job[i])
  <1>1. /\ pc[i] = "backup" /\ pc'[i] = "write" /\ op'[i] = op[i] /\ job'[i] = job[i]
        /\ job[i] \in Plan /\ Sound(i) /\ Alone(i)
        /\ previous' = [previous EXCEPT ![job[i]] = mem[i].prior]
        /\ UNCHANGED <<file, writer, plan>>
    BY DEF WriteBackup, At, Alone, IInv, TypeOK
  <1>2. mem[i].prior = plan[job[i]].prior /\ Activating(i)
    BY <1>1 DEF Sound, Placed, Remembers, Locked
  <1>3. UNCHANGED <<Replacing, Undoing>> /\ job[i] \in Replacing
    BY <1>1, <1>2, ClaimsStay DEF Window, Replacing, Undoing, Claimed, Activating
  <1> QED BY <1>1, <1>2, <1>3 DEF Promise!Keep, Replacing, Undoing

\* The replacement is the swap the claim is for.
LEMMA WriteTargetPromised ==
  ASSUME IInv, NEW i \in Proc, WriteTarget(i)
  PROVE  Promise!Replace(job[i]) \/ Promise!Undo(job[i])
  <1>1. /\ pc[i] = "write" /\ pc'[i] = "record" /\ job[i] \in Plan /\ Sound(i) /\ Alone(i)
        /\ file' = [file EXCEPT ![TargetOf[job[i]]] =
                     IF op[i] = "restore" THEN mem[i].prior ELSE mem[i].sha]
        /\ writer' = [writer EXCEPT ![TargetOf[job[i]]] = "wordup"]
        /\ UNCHANGED <<plan, previous>>
    BY DEF WriteTarget, Goto, At, Alone, Of, IInv, TypeOK
  <1>2. /\ mem[i].prior = plan[job[i]].prior /\ mem[i].sha = plan[job[i]].sha
        /\ plan[job[i]].state # "none"
    BY <1>1 DEF Sound, Placed, Remembers, Locked
  <1>3. op[i] = "restore" \/ Activating(i)
    BY <1>1 DEF Sound, Placed, Activating, Ops
  <1>4. previous[job[i]] \in {None, plan[job[i]].prior}
    BY <1>1 DEF IInv, Files
  <1>5. Replacing' = Replacing \ {job[i]} /\ Undoing' = Undoing \ {job[i]}
    BY <1>1, ClaimDropped DEF Window, Replacing, Undoing
  <1>6. op[i] = "restore" => job[i] \in Undoing /\ job[i] \notin Replacing
    BY <1>1, Exclusion DEF Replacing, Undoing, Claimed, Locked
  <1>7. op[i] # "restore" => job[i] \in Replacing /\ job[i] \notin Undoing
    BY <1>1, <1>3, Exclusion DEF Replacing, Undoing, Claimed, Activating, Locked
  <1>8. CASE op[i] = "restore"
    <2>1. mem[i].prior # None /\ previous[job[i]] = mem[i].prior
      BY <1>1, <1>8 DEF Sound, HasKept, HoldsTarget, Locked
    <2>2. UNCHANGED Replacing
      BY <1>5, <1>6, <1>8
    <2> QED BY <1>1, <1>2, <1>5, <1>6, <1>8, <2>1, <2>2 DEF Promise!Undo, Replacing, Undoing
  <1>9. CASE op[i] # "restore"
    <2>1. mem[i].prior # None => previous[job[i]] = mem[i].prior
      BY <1>1, <1>3, <1>9 DEF Sound, HasKept
    <2>2. UNCHANGED Undoing
      BY <1>5, <1>7, <1>9
    <2> QED
      BY <1>1, <1>2, <1>4, <1>5, <1>7, <1>9, <2>1, <2>2 DEF Promise!Replace, Replacing, Undoing
  <1> QED BY <1>8, <1>9

\* An error or a crash ends a claim, or changes nothing Deployment speaks of.
LEMMA StopPromised ==
  ASSUME IInv, NEW i \in Proc, IoError(i) \/ Crash(i)
  PROVE  Promise!Drop(job[i]) \/ UNCHANGED promised
  <1>1. /\ UNCHANGED <<file, writer, plan, previous>> /\ Alone(i)
        /\ pc'[i] \in {"idle", "poll", "dropResume", "readFailed"}
    <2>1. UNCHANGED <<file, writer, plan, previous>>
      BY DEF IoError, Crash, disk
    <2>2. CASE \E l \in {"idle", "poll", "dropResume"} : Leave(i, l)
      BY <2>1, <2>2 DEF Leave, Alone, IInv, TypeOK
    <2>3. CASE At(i, "dropResume") /\ Goto(i, "readFailed")
      BY <2>1, <2>3 DEF Goto, Alone, IInv, TypeOK
    <2> QED BY <2>2, <2>3 DEF IoError, Crash, Fail
  <1>2. CASE pc[i] \notin Window
    BY <1>1, <1>2, ClaimsStay DEF Window, promised, Origin, Replacing, Undoing
  <1>3. CASE pc[i] \in Window
    <2>1. Replacing' = Replacing \ {job[i]} /\ Undoing' = Undoing \ {job[i]}
      BY <1>1, <1>3, ClaimDropped DEF Window, Replacing, Undoing
    <2> QED BY <1>1, <2>1 DEF Promise!Drop, Replacing, Undoing
  <1> QED BY <1>2, <1>3

\* Prepare stages the artifact against what the target holds.
LEMMA DeployPromised ==
  ASSUME IInv, NEW i \in Proc, NEW p \in Plan, Deploy(i, p)
  PROVE  Promise!Stage(p)
  <1>1. PICK c \in Passing :
          /\ plan[p] = NoPlan
          /\ plan' = [plan EXCEPT ![p] = [state |-> "pending", sha |-> c,
                                          prior |-> file[TargetOf[p]], backup |-> ""]]
          /\ UNCHANGED <<file, writer, previous>>
          /\ Begin(i, "deploy", p, "choose")
    BY DEF Deploy
  <1>0. UNCHANGED <<Replacing, Undoing>>
    BY <1>1, ClaimsStay DEF Begin, At, Alone, Window, Replacing, Undoing, IInv, TypeOK
  <1> DEFINE new == [state |-> "pending", sha |-> c, prior |-> file[TargetOf[p]], backup |-> ""]
  <1>2. plan'[p] = new /\ \A q \in Plan \ {p} : plan'[q] = plan[q]
    BY <1>1 DEF IInv, TypeOK
  <1>3. new.state # "none" /\ new.sha = c /\ new.prior = file[TargetOf[p]] /\ NoPlan.state = "none"
    BY DEF NoPlan
  <1> HIDE DEF new
  <1>4. ~Origin[p].staged
    BY <1>1, <1>3 DEF Origin
  <1>5. Origin' = [Origin EXCEPT ![p] =
                    [staged |-> TRUE, sha |-> c, prior |-> file[TargetOf[p]]]]
    BY <1>2, <1>3 DEF Origin
  <1> QED BY <1>0, <1>1, <1>4, <1>5 DEF Promise!Stage, Origin, Replacing, Undoing

\* Every step of Activation is a step of Deployment, or changes none of its
\* variables.
LEMMA StepPromised ==
  ASSUME IInv, IInv', [Next]_vars
  PROVE  [Promise!Next]_promised
  <1>1. ASSUME NEW i \in Proc, WriteBackup(i) PROVE Promise!Next
    BY <1>1, WriteBackupPromised DEF Promise!Next, WriteBackup, At, IInv, TypeOK
  <1>2. ASSUME NEW i \in Proc, WriteTarget(i) PROVE Promise!Next
    BY <1>2, WriteTargetPromised DEF Promise!Next, WriteTarget, At, IInv, TypeOK
  <1>3. ASSUME NEW i \in Proc, NEW p \in Plan, Deploy(i, p) PROVE Promise!Next
    BY <1>3, DeployPromised DEF Promise!Next
  <1>4. ASSUME NEW t \in Target, UserEdit(t) PROVE Promise!Next
    <2>1. UNCHANGED <<plan, previous, Replacing, Undoing>>
      BY <1>4 DEF UserEdit, local, Replacing, Undoing, Claimed
    <2>2. Promise!UserEdit(t)
      BY <1>4, <2>1, UserContentAssumption DEF UserEdit, Promise!UserEdit, Replacing, Undoing
    <2> QED BY <2>2 DEF Promise!Next
  <1>5. ASSUME NEW i \in Proc, ReadTargetToActivate(i) \/ ReadTargetToRestore(i)
        PROVE  [Promise!Next]_promised
    <2>1. job[i] \in Plan
      BY <1>5 DEF ReadTargetToActivate, ReadTargetToRestore, At, IInv, TypeOK
    <2> QED BY <1>5, <2>1, CheckPromised, CheckRestorePromised DEF Promise!Next
  <1>6. ASSUME NEW i \in Proc, IoError(i) \/ Crash(i) PROVE [Promise!Next]_promised
    <2>1. job[i] \in Plan
      BY <1>6 DEF IoError, Crash, At, Locked, IInv, TypeOK
    <2> QED BY <1>6, <2>1, StopPromised DEF Promise!Next
  <1>7. ASSUME NEW i \in Proc, WriteRecord(i) \/ WriteFailed(i) PROVE UNCHANGED promised
    <2>1. /\ job[i] \in Plan /\ Sound(i) /\ pc[i] \in {"record", "writeFailed"}
          /\ \A q \in Plan \ {job[i]} : plan'[q] = plan[q]
          /\ UNCHANGED <<file, writer, previous>>
      BY <1>7 DEF WriteRecord, WriteFailed, At, IInv, TypeOK
    <2>2. /\ plan'[job[i]].state # "none"
          /\ plan'[job[i]].sha = mem[i].sha /\ plan'[job[i]].prior = mem[i].prior
      BY <1>7, <2>1 DEF WriteRecord, WriteFailed, InState, IInv, TypeOK
    <2>3. UNCHANGED Origin
      BY <2>1, <2>2, StateOnly DEF Sound, Placed, Remembers, Locked, IInv, TypeOK
    <2>4. Alone(i) /\ pc'[i] \in {"clear", "idle"}
      BY <1>7 DEF WriteRecord, WriteFailed, Goto, Leave, Alone, IInv, TypeOK
    <2>5. UNCHANGED <<Replacing, Undoing>>
      BY <2>1, <2>4, ClaimsStay DEF Window, Replacing, Undoing
    <2> QED BY <2>1, <2>3, <2>5 DEF promised
  <1>8. ASSUME NEW i \in Proc, Work(i), ~WriteBackup(i), ~WriteTarget(i), ~WriteRecord(i),
               ~WriteFailed(i), ~ReadTargetToActivate(i), ~ReadTargetToRestore(i)
        PROVE  UNCHANGED promised
    <2>1. UNCHANGED <<file, writer, plan, previous>>
      BY <1>8 DEF Work, Choose, Register, Spawn, Poll, Activate, RecordFailure, LockPlan,
         ReadPlan, LockTarget, CheckWord, ReadSource, ClearResume, DropResume, ReadFailed, disk
    <2>2. pc[i] \notin Window
      BY <1>8 DEF Work, Choose, Register, Spawn, Poll, Activate, RecordFailure, LockPlan,
         ReadPlan, LockTarget, CheckWord, ReadSource, ClearResume, DropResume, ReadFailed,
         At, Window
    <2>3. Alone(i) /\ pc'[i] \notin Window
      <3>1. CASE Choose(i) \/ Register(i) \/ Spawn(i) \/ Poll(i) \/ DropResume(i)
        BY <3>1 DEF Choose, Register, Spawn, Poll, DropResume, Goto, Alone, Window, IInv, TypeOK
      <3>2. CASE LockPlan(i) \/ ReadPlan(i)
        BY <3>2, FailMoves DEF LockPlan, ReadPlan, Alone, Window, IInv, TypeOK
      <3>3. CASE LockTarget(i)
        BY <3>3, FailMoves DEF LockTarget, Alone, Window, IInv, TypeOK
      <3>4. CASE CheckWord(i) \/ ReadSource(i)
        BY <3>4, FailMoves DEF CheckWord, ReadSource, Goto, Alone, Window, IInv, TypeOK
      <3>5. CASE ClearResume(i) \/ ReadFailed(i)
        BY <3>5 DEF ClearResume, ReadFailed, Leave, Alone, Window, IInv, TypeOK
      <3> QED BY <1>8, <3>1, <3>2, <3>3, <3>4, <3>5 DEF Work, Activate, RecordFailure
    <2>4. UNCHANGED <<Replacing, Undoing>>
      BY <2>2, <2>3, ClaimsStay DEF Replacing, Undoing
    <2> QED BY <2>1, <2>4 DEF promised, Origin
  <1>9. ASSUME NEW i \in Proc, NEW p \in Plan, Call(i, p) \/ Login(i, p)
        PROVE  UNCHANGED promised
    <2>1. /\ Alone(i) /\ pc[i] = "idle" /\ pc'[i] \in {"lockPlan", "poll"}
          /\ UNCHANGED <<file, writer, plan, previous>>
      BY <1>9 DEF Call, Login, Begin, At, Alone, disk, IInv, TypeOK
    <2>2. UNCHANGED <<Replacing, Undoing>>
      BY <2>1, ClaimsStay DEF Window, Replacing, Undoing
    <2> QED BY <2>1, <2>2 DEF promised, Origin
  <1>10. CASE (\E p \in Plan : ChangeStaged(p)) \/ Word \/ UNCHANGED vars
    <2>1. UNCHANGED <<file, writer, plan, previous, pc, op, job>>
      BY <1>10 DEF ChangeStaged, Word, vars, disk, local
    <2> QED BY <2>1 DEF promised, Origin, Replacing, Undoing, Claimed
  <1> QED
    BY <1>1, <1>2, <1>3, <1>4, <1>5, <1>6, <1>7, <1>8, <1>9, <1>10 DEF Next

\* Every behaviour of the code's deployment is one the abstract promise allows.
THEOREM DeploymentPromised == Spec => Promised
  <1>1. Init => Promise!Init
    <2> SUFFICES ASSUME Init PROVE Promise!Init
      OBVIOUS
    <2>1. NoPlan.state = "none" /\ NoPlan.sha = None /\ NoPlan.prior = None
      BY DEF NoPlan
    <2>2. ASSUME NEW p \in Plan PROVE Origin[p] = Promise!Unstaged
      <3>1. plan[p] = NoPlan
        BY DEF Init
      <3>2. (plan[p].state # "none") = FALSE
        BY <2>1, <3>1
      <3> QED BY <2>1, <3>1, <3>2 DEF Origin, Promise!Unstaged
    <2>3. Origin = [p \in Plan |-> Promise!Unstaged]
      BY <2>2 DEF Origin
    <2>4. Replacing = {} /\ Undoing = {}
      BY DEF Init, Replacing, Undoing, Claimed
    <2> QED BY <2>3, <2>4 DEF Init, Promise!Init, Origin, Replacing, Undoing
  <1>2. IInv /\ IInv' /\ [Next]_vars => [Promise!Next]_promised
    BY StepPromised
  <1> QED BY <1>1, <1>2, Invariant, PTL DEF Spec, Promised, Promise!Spec,
     Promise!vars, promised, Origin, Replacing, Undoing
=============================================================================
