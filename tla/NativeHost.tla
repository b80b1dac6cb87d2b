----------------------------- MODULE NativeHost -----------------------------
(***************************************************************************)
(* internal/native: the warm Word session.  The parent (process_windows.go)*)
(* sends JSON request lines to a worker process it owns (HostMain in       *)
(* host_windows.go) and gives each response line to the call that waits    *)
(* for it.  A task, started by `begin`, is answered at once and completes  *)
(* later; a watchdog per task and a deadline per call end the session.     *)
(*                                                                         *)
(* A caller makes one call, of Call or of WaitTask.  Its name is its       *)
(* request's id, the token of a task it begins, and what that task yields. *)
(***************************************************************************)
EXTENDS Naturals, Sequences, FiniteSets

CONSTANTS
  Caller,
  KindsOf,  \* [Caller -> what it may call]
  Name,     \* task names clients choose (the `as` of a begin); others are tokens
  None,
  WorkCap, UICap, \* capacities of the worker's queues: 128 and 64
  MaxTasks, \* task records a worker keeps: 256
  MaxEnds   \* bound of the model on what ends a session from outside

Beginning == {"begin", "beginUI", "beginVBA"}  \* of object-model, `ui.` and `ui.vba.` work
Kind == Beginning \cup {"work", "ui", "poll", "forget", "wait"}
Key == Caller \cup Name
Lane == {"work", "ui", "async"}

ASSUME KindsAssumption == KindsOf \in [Caller -> SUBSET Kind]
ASSUME NoneAssumption == None \notin Key /\ Caller \cap Name = {}
ASSUME BoundsAssumption == WorkCap \in Nat \ {0} /\ UICap \in Nat \ {0} /\ MaxTasks \in Nat \ {0}
                           /\ MaxEnds \in Nat

VARIABLES
  \* the parent's session
  phase,     \* "open", "closing", "killed" or "closed": not open once h.closed is
  closer,    \* who closed it first (history)
  cause,     \* h.termination
  wordExit,  \* h.wordExit: Word has been seen to exit
  pending, ch, \* calls that wait for a response, and their channels of one slot
  entry,     \* h.tasks: of every key, the begin whose completion it holds
  done,      \* of every completion, its state
  scan, carried, \* readResponses, and the call and response it is about to send
  observer,  \* observeWordExit
  \* a caller's goroutines
  cpc, kind, key, \* its place, what it calls, and which task it is about
  writer,    \* the goroutine that writes its request
  result,    \* how it returned
  watch, seen, \* the watchdog of the task it began; a completion being waited for
  \* the pipes and the worker
  input, output, alive, word,
  held,      \* the item the worker's reader is queueing
  queue, running, \* its lanes
  finished,  \* lanes whose item is done but not yet reported
  record, busy, \* its tasks and workTasks
  ends       \* what the bound counts

session == <<phase, closer, cause, wordExit>>
table == <<pending, ch>>
completion == <<entry, done>>
loops == <<scan, carried, observer>>
call == <<cpc, kind, key, writer, result, watch, seen>>
pipes == <<input, output>>
worker == <<alive, word, held, queue, running, finished, record, busy>>
vars == <<session, table, completion, loops, call, pipes, worker, ends>>

LaneOf(c) == IF kind[c] \in {"work", "begin"} THEN "work"
             ELSE IF kind[c] = "beginUI" THEN "async" ELSE "ui"
Cap(l) == IF l = "work" THEN WorkCap ELSE UICap
Begins(c) == kind[c] \in Beginning
Closed == phase # "open"
NoQueue == [l \in Lane |-> <<>>]
Nobody == [l \in Lane |-> None]
NoRecord == [k \in Key |-> "absent"]

Init ==
  /\ phase = "open" /\ closer = "none" /\ cause = "none" /\ wordExit = FALSE
  /\ pending = {} /\ ch = [c \in Caller |-> "empty"]
  /\ entry = [k \in Key |-> None]
  /\ done = [c \in Caller |-> "none"]
  /\ scan = "scan" /\ carried = <<None, "empty">> /\ observer = "wait"
  /\ cpc = [c \in Caller |-> "new"]
  /\ kind = [c \in Caller |-> "none"] /\ key = [c \in Caller |-> None]
  /\ writer = [c \in Caller |-> "off"]
  /\ result = [c \in Caller |-> "none"]
  /\ watch = [c \in Caller |-> "off"] /\ seen = [c \in Caller |-> None]
  /\ input = <<>> /\ output = <<>>
  /\ alive = TRUE /\ word = TRUE
  /\ held = None /\ queue = NoQueue /\ running = Nobody /\ finished = {}
  /\ record = NoRecord /\ busy = {} /\ ends = 0

-----------------------------------------------------------------------------
\* Close, under its once: the first to close it names the closer.

CloseBy(who) ==
  /\ phase' = IF Closed THEN phase ELSE "closing"
  /\ closer' = IF Closed THEN closer ELSE who

\* native.stop
Ending == ends < MaxEnds /\ ends' = ends + 1

Stop ==
  /\ Ending
  /\ ~Closed
  /\ CloseBy("stop")
  /\ UNCHANGED <<cause, wordExit, table, completion, loops, call, pipes, worker>>

\* The worker ends, and what it had in memory and not yet written is gone.
WorkerEnds ==
  /\ alive' = FALSE
  /\ input' = <<>>
  /\ held' = None /\ queue' = NoQueue /\ running' = Nobody /\ finished' = {}
  /\ record' = NoRecord /\ busy' = {}

\* The owned job is terminated: the worker and Word end.
KillJob ==
  /\ phase = "closing"
  /\ phase' = "killed"
  /\ word' = FALSE
  /\ WorkerEnds
  /\ UNCHANGED <<closer, cause, wordExit, table, completion, loops, call, output, ends>>

\* What calls are told when the session ends for reason e.
Reason(e) == IF cause # "none" THEN cause ELSE e

\* A faulty BreakPending, which forgets the cause.
BreakPendingForgettingTheCause(e) ==
  /\ \A c \in pending : ch[c] = "empty"
  /\ ch' = [c \in Caller |-> IF c \in pending THEN e ELSE ch[c]]
  /\ pending' = {}

\* The sends are made with h.mu held: a full channel would block everything.
BreakPending(e) ==
  /\ \A c \in pending : ch[c] = "empty"
  /\ ch' = [c \in Caller |-> IF c \in pending THEN Reason(e) ELSE ch[c]]
  /\ pending' = {}

CloseEnd ==
  /\ phase = "killed"
  /\ phase' = "closed"
  /\ BreakPending("session_closed")
  /\ UNCHANGED <<closer, cause, wordExit, completion, loops, call, pipes, worker, ends>>

-----------------------------------------------------------------------------
\* Call.

Return(c, r) ==
  /\ cpc' = [cpc EXCEPT ![c] = "returned"]
  /\ result' = [result EXCEPT ![c] = r]

\* The tasks somebody began.
Begun == {k \in Key : \E b \in Caller : Begins(b) /\ key[b] = k}

\* A begin names its task or is given a token.  Only `ui.` calls outlive Word.
Call(c) == \E o \in KindsOf[c] \ {"wait"} :
  /\ cpc[c] = "new"
  /\ \E k \in IF o \in Beginning THEN {c} \cup Name
              ELSE IF o \in {"poll", "forget"} THEN Begun
              ELSE {None} : key' = [key EXCEPT ![c] = k]
  /\ kind' = [kind EXCEPT ![c] = o]
  /\ IF wordExit /\ o # "ui" THEN Return(c, "word_exited")
     ELSE IF Closed THEN Return(c, Reason("session_closed"))
     ELSE cpc' = [cpc EXCEPT ![c] = "admitted"] /\ UNCHANGED result
  /\ UNCHANGED <<session, table, completion, loops, writer, watch, seen, pipes, worker, ends>>

\* The session may have been closed, and its pending calls told, since then.
Register(c) ==
  /\ cpc[c] = "admitted"
  /\ pending' = pending \cup {c}
  /\ writer' = [writer EXCEPT ![c] = "writing"]
  /\ cpc' = [cpc EXCEPT ![c] = "waiting"]
  /\ UNCHANGED <<session, ch, completion, loops, kind, key, result, watch, seen, pipes, worker, ends>>

\* The writing goroutine, which outlives its call; Close closes the pipe.
Write(c) ==
  /\ writer[c] = "writing"
  /\ \/ /\ alive
        /\ input' = Append(input, c)
        /\ writer' = [writer EXCEPT ![c] = "written"]
     \/ /\ ~alive \/ Closed
        /\ writer' = [writer EXCEPT ![c] = "failed"]
        /\ UNCHANGED input
  /\ UNCHANGED <<session, table, completion, loops, cpc, kind, key, result, watch, seen,
                 output, worker, ends>>

WriteFails(c) ==
  /\ cpc[c] = "waiting"
  /\ writer[c] = "failed"
  /\ pending' = pending \ {c}
  /\ Return(c, "write_error")
  /\ UNCHANGED <<session, ch, completion, loops, kind, key, writer, watch, seen, pipes, worker, ends>>

\* A successful begin leaves a watchdog behind; a successful forget has yet to
\* forget the completion.
Receive(c) ==
  /\ cpc[c] = "waiting" /\ writer[c] = "written"
  /\ ch[c] # "empty"
  /\ IF ch[c] = "ok" /\ kind[c] = "forget"
     THEN cpc' = [cpc EXCEPT ![c] = "forgetting"] /\ UNCHANGED result
     ELSE Return(c, ch[c])
  /\ watch' = [watch EXCEPT ![c] = IF ch[c] = "ok" /\ Begins(c) THEN "starting" ELSE @]
  /\ ch' = [ch EXCEPT ![c] = "empty"]
  /\ UNCHANGED <<session, pending, completion, loops, kind, key, writer, seen, pipes, worker, ends>>

Forget(c) ==
  LET b == entry[key[c]] IN
  /\ cpc[c] = "forgetting"
  /\ entry' = [entry EXCEPT ![key[c]] = None]
  /\ done' = [d \in Caller |-> IF d = b /\ done[d] = "open" THEN "forgotten" ELSE done[d]]
  /\ Return(c, "ok")
  /\ UNCHANGED <<session, table, loops, kind, key, writer, watch, seen, pipes, worker, ends>>

\* The deadline of the call: it closes the session, and waits for that.
Deadline(c) ==
  /\ cpc[c] = "waiting"
  /\ CloseBy("deadline")
  /\ cpc' = [cpc EXCEPT ![c] = "closing"]
  /\ UNCHANGED <<cause, wordExit, table, completion, loops, kind, key, writer, result,
                 watch, seen, pipes, worker, ends>>

DeadlineEnd(c) ==
  /\ cpc[c] = "closing"
  /\ phase = "closed"
  /\ Return(c, "native_deadline")
  /\ UNCHANGED <<session, table, completion, loops, kind, key, writer, watch, seen, pipes, worker, ends>>

\* closedFault, wherever the call waits.
SeesClosed(c) ==
  /\ cpc[c] \in {"waiting", "awaiting"}
  /\ Closed
  /\ Return(c, Reason("session_closed"))
  /\ UNCHANGED <<session, table, completion, loops, kind, key, writer, watch, seen, pipes, worker, ends>>

-----------------------------------------------------------------------------
\* WaitTask.

WaitTask(c) ==
  /\ "wait" \in KindsOf[c]
  /\ cpc[c] = "new"
  /\ \E k \in Begun : /\ key' = [key EXCEPT ![c] = k]
                      /\ seen' = [seen EXCEPT ![c] = entry[k]]
                      /\ IF entry[k] = None THEN Return(c, "unknown")
                         ELSE cpc' = [cpc EXCEPT ![c] = "awaiting"] /\ UNCHANGED result
  /\ kind' = [kind EXCEPT ![c] = "wait"]
  /\ UNCHANGED <<session, table, completion, loops, writer, watch, pipes, worker, ends>>

\* The task is done, or the caller's own deadline ends the wait and nothing else.
Waited(c) ==
  /\ cpc[c] = "awaiting"
  /\ \/ done[seen[c]] # "open" /\ Return(c, done[seen[c]])
     \/ Return(c, "deadline")
  /\ UNCHANGED <<session, table, completion, loops, kind, key, writer, watch, seen, pipes, worker, ends>>

-----------------------------------------------------------------------------
\* watchTask.

WatchStart(c) ==
  /\ watch[c] = "starting"
  /\ seen' = [seen EXCEPT ![c] = entry[key[c]]]
  /\ watch' = [watch EXCEPT ![c] = IF entry[key[c]] = None THEN "over" ELSE "watching"]
  /\ UNCHANGED <<session, table, completion, loops, cpc, kind, key, writer, result, pipes, worker, ends>>

\* A faulty WatchEnd, whose watchdog goes with the caller that waits.
WatchEndWithItsCaller(c) ==
  /\ watch[c] = "watching"
  /\ done[seen[c]] # "open" \/ Closed \/ \E d \in Caller : seen[d] = seen[c] /\ result[d] = "deadline"
  /\ watch' = [watch EXCEPT ![c] = "over"]
  /\ UNCHANGED <<session, table, completion, loops, cpc, kind, key, writer, result, seen, pipes, worker, ends>>

WatchEnd(c) ==
  /\ watch[c] = "watching"
  /\ (done[seen[c]] # "open" \/ Closed)
  /\ watch' = [watch EXCEPT ![c] = "over"]
  /\ UNCHANGED <<session, table, completion, loops, cpc, kind, key, writer, result, seen, pipes, worker, ends>>

\* The timer may win against a session that is closing already.
WatchFire(c) ==
  /\ watch[c] = "watching"
  /\ done[seen[c]] = "open"
  /\ cause' = Reason("macro_deadline")
  /\ watch' = [watch EXCEPT ![c] = "firing"]
  /\ UNCHANGED <<phase, closer, wordExit, table, completion, loops, cpc, kind, key, writer, result, seen,
                 pipes, worker, ends>>

WatchClose(c) ==
  /\ watch[c] = "firing"
  /\ CloseBy("watchdog")
  /\ watch' = [watch EXCEPT ![c] = "over"]
  /\ UNCHANGED <<cause, wordExit, table, completion, loops, cpc, kind, key, writer, result, seen,
                 pipes, worker, ends>>

-----------------------------------------------------------------------------
\* readResponses.  A line is a reply to a call, which names the task a begin
\* has started, or the completion of a task.

Reply(c, k, r) == [to |-> c, task |-> k, is |-> r]
Completion(k) == [to |-> None, task |-> k, is |-> "ok"]

\* A faulty Enter, which does not look whether the completion is closed.
EnterAgain(m) ==
  LET b == entry[m.task] IN
  \/ m.task = None /\ UNCHANGED completion
  \/ /\ m.task # None /\ m.to # None
     /\ entry' = [entry EXCEPT ![m.task] = m.to]
     /\ done' = [done EXCEPT ![m.to] = "open"]
  \/ /\ m.task # None /\ m.to = None
     /\ done' = IF b = None THEN done ELSE [done EXCEPT ![b] = "done"]
     /\ UNCHANGED entry

\* The table of completions after line m; a completion is closed only once.
Enter(m) ==
  LET b == entry[m.task] IN
  \/ m.task = None /\ UNCHANGED completion
  \/ /\ m.task # None /\ m.to # None
     /\ entry' = [entry EXCEPT ![m.task] = m.to]
     /\ done' = [done EXCEPT ![m.to] = "open"]
  \/ /\ m.task # None /\ m.to = None
     /\ IF b # None /\ done[b] = "open"
        THEN done' = [done EXCEPT ![b] = "done"]
        ELSE UNCHANGED done
     /\ UNCHANGED entry

\* A faulty ScanLine, which leaves an answered call in the table.
ScanLineKeepingItPending ==
  /\ scan = "scan"
  /\ output # <<>>
  /\ LET m == Head(output) IN
     /\ Enter(m)
     /\ carried' = IF m.to \in pending THEN <<m.to, m.is>> ELSE carried
     /\ scan' = IF m.to \in pending THEN "send" ELSE scan
  /\ output' = Tail(output)
  /\ UNCHANGED <<session, table, observer, call, input, worker, ends>>

ScanLine ==
  /\ scan = "scan"
  /\ output # <<>>
  /\ LET m == Head(output) IN
     /\ Enter(m)
     /\ IF m.to \in pending
        THEN /\ pending' = pending \ {m.to}
             /\ carried' = <<m.to, m.is>>
             /\ scan' = "send"
        ELSE UNCHANGED <<pending, carried, scan>>
  /\ output' = Tail(output)
  /\ UNCHANGED <<session, ch, observer, call, input, worker, ends>>

SendResponse ==
  /\ scan = "send"
  /\ ch[carried[1]] = "empty"
  /\ ch' = [ch EXCEPT ![carried[1]] = carried[2]]
  /\ carried' = <<None, "empty">>
  /\ scan' = "scan"
  /\ UNCHANGED <<session, pending, completion, observer, call, pipes, worker, ends>>

\* The worker ended, or Close closed the pipe with or without lines in it.
ScanEnd ==
  /\ scan = "scan"
  /\ ~alive
  /\ output = <<>> \/ phase \in {"killed", "closed"}
  /\ cause' = IF Closed THEN cause ELSE Reason("worker_exited")
  /\ output' = <<>>
  /\ scan' = "break"
  /\ UNCHANGED <<phase, closer, wordExit, table, completion, carried, observer, call, input, worker, ends>>

ScanBreak ==
  /\ scan = "break"
  /\ BreakPending("worker_exited")
  /\ scan' = "close"
  /\ UNCHANGED <<session, completion, carried, observer, call, pipes, worker, ends>>

ScanClose ==
  /\ scan = "close"
  /\ CloseBy("exit")
  /\ scan' = "over"
  /\ UNCHANGED <<cause, wordExit, table, completion, carried, observer, call, pipes, worker, ends>>

\* A line that is no response: nobody reads the worker any more.
ScanGarbage ==
  /\ Ending
  /\ scan = "scan" /\ alive
  /\ BreakPending("worker_protocol_error")
  /\ scan' = "over"
  /\ UNCHANGED <<session, completion, carried, observer, call, pipes, worker>>

\* observeWordExit.  A session that closes is of no interest to it.

ObserveExit ==
  /\ observer = "wait"
  /\ ~word
  /\ IF Closed
     THEN observer' = "over" /\ UNCHANGED <<wordExit, done>>
     ELSE /\ observer' = "break"
          /\ wordExit' = TRUE
          /\ done' = [c \in Caller |->
               IF done[c] = "open" /\ \E k \in Key : entry[k] = c THEN "word_exited" ELSE done[c]]
  /\ UNCHANGED <<phase, closer, cause, table, entry, scan, carried, call, pipes, worker, ends>>

ObserveBreak ==
  /\ observer = "break"
  /\ BreakPending("word_exited")
  /\ observer' = "over"
  /\ UNCHANGED <<session, completion, scan, carried, call, pipes, worker, ends>>

-----------------------------------------------------------------------------
\* The worker: one reader of requests, and a goroutine per lane.

Say(c, r) == output' = Append(output, Reply(c, None, r))

\* A faulty Refuses, which forgets the unfinished tasks.
RefusesNoWork(c) ==
  \/ kind[c] = "forget" /\ record[key[c]] # "completed"
  \/ kind[c] = "poll" /\ record[key[c]] = "absent"
  \/ Begins(c) /\ record[key[c]] # "absent"
  \/ Begins(c) /\ Cardinality({k \in Key : record[k] # "absent"}) >= MaxTasks

\* A faulty Refuses, which agrees to forget a task that is not completed.
RefusesNoForget(c) ==
  \/ kind[c] = "poll" /\ record[key[c]] = "absent"
  \/ kind[c] = "work" /\ busy # {}
  \/ Begins(c) /\ record[key[c]] # "absent"
  \/ Begins(c) /\ Cardinality({k \in Key : record[k] # "absent"}) >= MaxTasks

\* An object-model call is refused while any task for that lane is unfinished;
\* a begin is not.
Refuses(c) ==
  \/ kind[c] = "forget" /\ record[key[c]] # "completed"
  \/ kind[c] = "poll" /\ record[key[c]] = "absent"
  \/ kind[c] = "work" /\ busy # {}
  \/ Begins(c) /\ record[key[c]] # "absent"
  \/ Begins(c) /\ Cardinality({k \in Key : record[k] # "absent"}) >= MaxTasks

Admit(c) ==
  \/ /\ kind[c] = "forget"
     /\ record' = [record EXCEPT ![key[c]] = "absent"]
     /\ Say(c, "ok")
     /\ UNCHANGED <<held, busy>>
  \/ /\ kind[c] = "poll"
     /\ Say(c, "ok")
     /\ UNCHANGED <<held, record, busy>>
  \/ /\ kind[c] \in {"work", "ui"}
     /\ held' = c
     /\ UNCHANGED <<output, record, busy>>
  \/ /\ Begins(c)
     /\ record' = [record EXCEPT ![key[c]] = "unfinished"]
     /\ busy' = IF kind[c] = "begin" THEN busy \cup {key[c]} ELSE busy
     /\ output' = Append(output, Reply(c, key[c], "ok"))
     /\ held' = c

ReadRequest ==
  LET c == Head(input) IN
  /\ alive /\ held = None
  /\ input # <<>>
  /\ input' = Tail(input)
  /\ IF Refuses(c) THEN Say(c, "refused") /\ UNCHANGED <<held, record, busy>> ELSE Admit(c)
  /\ UNCHANGED <<session, table, completion, loops, call, alive, word, queue, running, finished, ends>>

Enqueue ==
  /\ alive /\ held # None
  /\ Len(queue[LaneOf(held)]) < Cap(LaneOf(held))
  /\ queue' = [queue EXCEPT ![LaneOf(held)] = Append(@, held)]
  /\ held' = None
  /\ UNCHANGED <<session, table, completion, loops, call, pipes, alive, word, running, finished,
                 record, busy, ends>>

Take(l) ==
  /\ alive /\ running[l] = None
  /\ queue[l] # <<>>
  /\ running' = [running EXCEPT ![l] = Head(queue[l])]
  /\ queue' = [queue EXCEPT ![l] = Tail(@)]
  /\ UNCHANGED <<session, table, completion, loops, call, pipes, alive, word, held, finished,
                 record, busy, ends>>

\* A faulty Finish, which leaves the task in workTasks.
FinishStillBusy(l) ==
  LET c == running[l] IN
  /\ alive /\ c # None /\ l \notin finished
  /\ finished' = finished \cup {l}
  /\ record' = IF Begins(c) THEN [record EXCEPT ![key[c]] = "completed"] ELSE record
  /\ UNCHANGED <<session, table, completion, loops, call, pipes, alive, word, held, queue, running,
                 busy, ends>>

Finish(l) ==
  LET c == running[l] IN
  /\ alive /\ c # None /\ l \notin finished
  /\ finished' = finished \cup {l}
  /\ record' = IF Begins(c) THEN [record EXCEPT ![key[c]] = "completed"] ELSE record
  /\ busy' = IF Begins(c) THEN busy \ {key[c]} ELSE busy
  /\ UNCHANGED <<session, table, completion, loops, call, pipes, alive, word, held, queue, running, ends>>

Emit(l) ==
  LET c == running[l] IN
  /\ alive /\ l \in finished
  /\ output' = Append(output, IF Begins(c) THEN Completion(key[c]) ELSE Reply(c, None, "ok"))
  /\ running' = [running EXCEPT ![l] = None]
  /\ finished' = finished \ {l}
  /\ UNCHANGED <<session, table, completion, loops, call, input, alive, word, held, queue, record, busy, ends>>

\* The worker ends for whatever reason, or because its input has been closed.
WorkerExit ==
  /\ alive
  /\ Ending \/ (phase = "closing" /\ UNCHANGED ends)
  /\ WorkerEnds
  /\ UNCHANGED <<session, table, completion, loops, call, output, word>>

WordExit ==
  /\ Ending
  /\ word
  /\ word' = FALSE
  /\ UNCHANGED <<session, table, completion, loops, call, pipes, alive, held, queue, running,
                 finished, record, busy>>

-----------------------------------------------------------------------------
Close == KillJob \/ CloseEnd

CallStep(c) ==
  \/ Register(c) \/ Write(c) \/ WriteFails(c) \/ Receive(c) \/ Forget(c)
  \/ Deadline(c) \/ DeadlineEnd(c) \/ SeesClosed(c) \/ Waited(c)

watchTask(c) == WatchStart(c) \/ WatchEnd(c) \/ WatchFire(c) \/ WatchClose(c)
readResponses == ScanLine \/ ScanGarbage \/ SendResponse \/ ScanEnd \/ ScanBreak \/ ScanClose
observeWordExit == ObserveExit \/ ObserveBreak
HostMain == ReadRequest \/ Enqueue \/ \E l \in Lane : Take(l) \/ Finish(l) \/ Emit(l)

Next ==
  \/ \E c \in Caller : Call(c) \/ WaitTask(c) \/ CallStep(c) \/ watchTask(c)
  \/ Stop \/ Close \/ readResponses \/ observeWordExit
  \/ HostMain \/ WorkerExit \/ WordExit

Spec == Init /\ [][Next]_vars

\* A caller's goroutine takes its steps, and the deadline of its call passes: a
\* poll and a forget have none of their own, and a write may block on the pipe.
CallerSteps(c) ==
  \/ Register(c) \/ WriteFails(c) \/ Receive(c) \/ Forget(c) \/ DeadlineEnd(c) \/ SeesClosed(c)
  \/ (kind[c] \notin {"poll", "forget"} /\ Deadline(c))

\* The parent's goroutines and timers run.  The worker and Word owe nothing.
FairSpec ==
  /\ Spec
  /\ \A c \in Caller : WF_vars(CallerSteps(c)) /\ WF_vars(watchTask(c))
  /\ WF_vars(Close)

-----------------------------------------------------------------------------
Outcome == {"ok", "refused", "session_closed", "worker_exited", "word_exited",
            "macro_deadline", "worker_protocol_error"}
Result == Outcome \cup {"none", "write_error", "native_deadline", "deadline", "unknown", "done", "forgotten"}
Place == {"new", "admitted", "waiting", "awaiting", "forgetting", "closing", "returned"}
Line == [to : Caller \cup {None}, task : Key \cup {None}, is : {"ok", "refused"}]

\* What every variable holds.  A worker that is gone holds nothing, its
\* unfinished object-model tasks are the busy ones, and the killed job has no
\* live worker: a lane left in workTasks would refuse object-model calls for ever.
TypeOK ==
  /\ phase \in {"open", "closing", "killed", "closed"}
  /\ closer \in {"none", "stop", "deadline", "watchdog", "exit"}
  /\ Closed <=> closer # "none"
  /\ cause \in {"none", "worker_exited", "macro_deadline"} /\ wordExit \in BOOLEAN
  /\ pending \subseteq Caller /\ ch \in [Caller -> Outcome \cup {"empty"}]
  /\ entry \in [Key -> Caller \cup {None}]
  /\ done \in [Caller -> {"none", "open", "done", "forgotten", "word_exited"}]
  /\ scan \in {"scan", "send", "break", "close", "over"}
  /\ carried \in (Caller \cup {None}) \X {"empty", "ok", "refused"}
  /\ observer \in {"wait", "break", "over"}
  /\ cpc \in [Caller -> Place]
  /\ kind \in [Caller -> Kind \cup {"none"}] /\ key \in [Caller -> Key \cup {None}]
  /\ writer \in [Caller -> {"off", "writing", "written", "failed"}]
  /\ result \in [Caller -> Result]
  /\ watch \in [Caller -> {"off", "starting", "watching", "firing", "over"}]
  /\ seen \in [Caller -> Caller \cup {None}]
  /\ input \in Seq(Caller) /\ output \in Seq(Line)
  /\ alive \in BOOLEAN /\ word \in BOOLEAN
  /\ held \in Caller \cup {None} /\ queue \in [Lane -> Seq(Caller)]
  /\ running \in [Lane -> Caller \cup {None}] /\ finished \subseteq Lane
  /\ record \in [Key -> {"absent", "unfinished", "completed"}] /\ busy \subseteq Key
  /\ ends \in 0..MaxEnds
  /\ phase \in {"killed", "closed"} => ~alive
  /\ ~alive => held = None /\ queue = NoQueue /\ running = Nobody /\ busy = {}
  /\ \A k \in busy : record[k] = "unfinished"

\* Where the worker still has the item of c to do.
Queued(c) == \E l \in Lane : \E i \in DOMAIN queue[l] : queue[l][i] = c
Runs(c) == \E l \in Lane : running[l] = c /\ l \notin finished
Item(c) == held = c \/ Queued(c) \/ Runs(c)

\* At most one response is ever sent to a call, by whichever of readResponses,
\* Close and observeWordExit gets to it: breakPending sends with h.mu held, and
\* a second send on a channel of one slot would stop the whole session.
SendsNeverBlock ==
  /\ \A c \in pending : ch[c] = "empty"
  /\ carried[1] # None => carried[1] \notin pending /\ ch[carried[1]] = "empty"

\* What a task's completion says does not change: the worker's late answer, a
\* forget and the exit of Word race to close the channel of a completion, and
\* closing it twice would end the program.
CompletionIsFinal == [][\A c \in Caller : done[c] \notin {"none", "open"} => done'[c] = done[c]]_vars

\* Unless somebody stopped the session or a call's own deadline did, every call
\* that its end cut short is told one and the same cause, the first that was
\* written down, though the watchdogs and the worker's exit end it in any order
\* and their causes are told in three places; and never the bare session_closed.
EndCauses == {"session_closed", "worker_exited", "macro_deadline"}
CauseIsReported ==
  closer \notin {"stop", "deadline"} => \A c \in Caller : result[c] \in EndCauses => result[c] = cause

\* A task that was begun under a token and is not done has a watchdog of its
\* own, whatever its callers do: that they wait no more, poll, or forget another
\* task.  A name a client chose may be begun again and lose its completion.
ByToken(c) == Begins(c) /\ key[c] = c
TaskIsWatched ==
  \A c \in Caller : ByToken(c) /\ result[c] = "ok" /\ Item(c) /\ ~Closed /\ word
    => watch[c] = "starting" \/ (watch[c] \in {"watching", "firing"} /\ seen[c] = c)

\* Where the request of c has not come to the worker's reader yet.
Asked(c) == \E i \in DOMAIN input : input[i] = c
Unread(c) == writer[c] \in {"off", "writing"} \/ Asked(c)

\* A task that goes by its token is a HostTask: the worker's tables, the pipe and
\* the session's own table, which a forget, a completion line and the exit of
\* Word change one after the other, never disagree on what became of it.
TaskOf(c) == IF ~ByToken(c) \/ Unread(c) THEN "none" ELSE IF Item(c) THEN "owed" ELSE "over"
Promise == INSTANCE HostTask WITH
  task <- [c \in Caller |-> TaskOf(c)],
  told <- [c \in Caller |-> IF ByToken(c) THEN done[c] ELSE "none"]
TokensAreHostTasks == Promise!Spec

\* b's item is to be done before c's, on the same lane.
Before(b, c) ==
  /\ LaneOf(b) = LaneOf(c)
  /\ \/ Runs(b) /\ (Queued(c) \/ held = c)
     \/ Queued(b) /\ held = c
     \/ \E l \in Lane : \E i, j \in DOMAIN queue[l] : i < j /\ queue[l][i] = b /\ queue[l][j] = c

\* A synchronous object-model call is refused rather than put behind an
\* unfinished task of that lane, where it would be cut by its own deadline.
SyncNeverWaitsForTasks ==
  \A b, c \in Caller : kind[b] = "begin" /\ kind[c] = "work" => ~Before(b, c)

\* Every call with a deadline returns, though the worker may never answer it
\* and Word may hang: its deadline ends the session, and that ends.
EveryCallReturns ==
  \A c \in Caller : cpc[c] = "admitted" /\ kind[c] \notin {"poll", "forget"} ~> cpc[c] = "returned"

\* A task that a caller began does not stay in a live worker for ever: it is
\* done, or its watchdog ends the job, or Word is gone.
EveryTaskEnds ==
  \A c \in Caller : Begins(c) /\ result[c] = "ok" ~> ~Item(c) \/ ~word
=============================================================================
