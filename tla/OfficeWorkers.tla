--------------------------- MODULE OfficeWorkers ---------------------------
(***************************************************************************)
(* internal/native/office_worker_windows.go: warm helper processes that    *)
(* answer one JSON line per request line, one helper per executable path,  *)
(* shared by every call in the process behind one gate.  A call that times *)
(* out stops its helper, a helper idle for 30 s is stopped by a timer, and *)
(* StopOfficeTools stops them all.                                         *)
(*                                                                         *)
(* A call is one use of callOfficeWorker, with its context and the         *)
(* goroutine that writes its request and reads its answer.  A request line *)
(* and its answer are named by the call that wrote the request.            *)
(***************************************************************************)
EXTENDS Naturals, Sequences

CONSTANTS
  Call, Helper,
  Worker,    \* helper processes, each started once
  HelperOf,  \* [Call -> Helper], the executable a call needs
  None,
  MaxStops   \* bound of the model on StopOfficeTools

ASSUME HelperOfAssumption == HelperOf \in [Call -> Helper]
ASSUME NoneAssumption == None \notin Worker /\ None \notin Call
ASSUME StopsAssumption == MaxStops \in Nat

VARIABLES
  gate,       \* the call in the critical section, or None
  all,        \* officeWorkers.all
  life,       \* of every helper process
  requests,   \* its stdin pipe
  answers,    \* its stdout pipe
  generation, \* of every worker; 0 before its first call
  timer,      \* generation its armed idle timer will check, or 0
  fired,      \* timer functions that have fired and want the gate
  pc, expired, on, \* a call's progress, its context, and its worker
  reader, got,     \* its goroutine, and the answer that goroutine read
  rested,     \* has the worker been idle for a whole period (history)
  stops

worker == <<life, requests, answers, generation, timer, rested>>
call == <<pc, expired, on, reader, got>>
vars == <<gate, all, fired, worker, call, stops>>

Init ==
  /\ gate = None
  /\ all = [h \in Helper |-> None]
  /\ life = [w \in Worker |-> "unborn"]
  /\ requests = [w \in Worker |-> <<>>]
  /\ answers = [w \in Worker |-> <<>>]
  /\ generation = [w \in Worker |-> 0]
  /\ timer = [w \in Worker |-> 0]
  /\ rested = [w \in Worker |-> FALSE]
  /\ fired = {}
  /\ pc = [c \in Call |-> "new"]
  /\ expired = [c \in Call |-> FALSE]
  /\ on = [c \in Call |-> None]
  /\ reader = [c \in Call |-> "off"]
  /\ got = [c \in Call |-> None]
  /\ stops = 0

-----------------------------------------------------------------------------
Begin(c) ==
  /\ pc[c] = "new"
  /\ pc' = [pc EXCEPT ![c] = "waiting"]
  /\ UNCHANGED <<gate, all, fired, worker, expired, on, reader, got, stops>>

\* Every call has a deadline: OfficeTools gives it 20 seconds.
Expire(c) ==
  /\ pc[c] \in {"waiting", "running"}
  /\ ~expired[c]
  /\ expired' = [expired EXCEPT ![c] = TRUE]
  /\ UNCHANGED <<gate, all, fired, worker, pc, on, reader, got, stops>>

\* The gate is a channel of one slot; a call waits for it or for its context,
\* and hands it back if the context has ended too.
GiveUp(c) ==
  /\ pc[c] = "waiting"
  /\ expired[c]
  /\ pc' = [pc EXCEPT ![c] = "failed"]
  /\ UNCHANGED <<gate, all, fired, worker, expired, on, reader, got, stops>>

\* The helper's process, pipes or executable are not to be had.
StartFails(c) ==
  /\ pc[c] = "waiting" /\ ~expired[c]
  /\ gate = None
  /\ all[HelperOf[c]] = None
  /\ pc' = [pc EXCEPT ![c] = "failed"]
  /\ UNCHANGED <<gate, all, fired, worker, expired, on, reader, got, stops>>

\* With the gate, the call starts its helper unless there is one, disarms the
\* idle timer, and leaves the pipes to its goroutine.
Ask(c, w) ==
  /\ pc[c] = "waiting" /\ ~expired[c]
  /\ gate = None
  /\ \/ all[HelperOf[c]] = w /\ UNCHANGED <<all, life>>
     \/ /\ all[HelperOf[c]] = None
        /\ life[w] = "unborn"
        /\ all' = [all EXCEPT ![HelperOf[c]] = w]
        /\ life' = [life EXCEPT ![w] = "alive"]
  /\ gate' = c
  /\ timer' = [timer EXCEPT ![w] = 0]
  /\ generation' = [generation EXCEPT ![w] = @ + 1]
  /\ rested' = [rested EXCEPT ![w] = FALSE]
  /\ pc' = [pc EXCEPT ![c] = "running"]
  /\ on' = [on EXCEPT ![c] = w]
  /\ reader' = [reader EXCEPT ![c] = "writing"]
  /\ UNCHANGED <<requests, answers, fired, expired, got, stops>>

-----------------------------------------------------------------------------
\* The goroutine of a call.  What it sends on done after a timeout is dropped.

Write(c) ==
  /\ reader[c] = "writing"
  /\ \/ /\ life[on[c]] = "alive"
        /\ requests' = [requests EXCEPT ![on[c]] = Append(@, c)]
        /\ reader' = [reader EXCEPT ![c] = "reading"]
     \/ /\ life[on[c]] = "dead"
        /\ reader' = [reader EXCEPT ![c] = "erred"]
        /\ UNCHANGED requests
  /\ UNCHANGED <<gate, all, life, answers, generation, timer, rested, fired,
                 pc, expired, on, got, stops>>

\* A line that is not a JSON object is an error.
Read(c) ==
  /\ reader[c] = "reading"
  /\ answers[on[c]] # <<>>
  /\ answers' = [answers EXCEPT ![on[c]] = Tail(@)]
  /\ \/ /\ reader' = [reader EXCEPT ![c] = "answered"]
        /\ got' = [got EXCEPT ![c] = Head(answers[on[c]])]
     \/ /\ reader' = [reader EXCEPT ![c] = "erred"]
        /\ UNCHANGED got
  /\ UNCHANGED <<gate, all, life, requests, generation, timer, rested, fired,
                 pc, expired, on, stops>>

ReadEnd(c) ==
  /\ reader[c] = "reading"
  /\ life[on[c]] = "dead"
  /\ reader' = [reader EXCEPT ![c] = "erred"]
  /\ UNCHANGED <<gate, all, fired, worker, pc, expired, on, got, stops>>

-----------------------------------------------------------------------------
Stop(h, w) ==
  /\ all' = [all EXCEPT ![h] = None]
  /\ life' = [life EXCEPT ![w] = "dead"]
  /\ timer' = [timer EXCEPT ![w] = 0]
  /\ UNCHANGED <<requests, answers, generation, rested>>

LeaveKeepingTheGate(c, l) ==
  /\ pc' = [pc EXCEPT ![c] = l]
  /\ UNCHANGED <<gate, fired, expired, on, reader, got, stops>>

Leave(c, l) ==
  /\ pc' = [pc EXCEPT ![c] = l]
  /\ gate' = None
  /\ UNCHANGED <<fired, expired, on, reader, got, stops>>

\* Faulty variants, with the fault in the name, show that a property can fail.
TimeOutLeavingTheHelper(c) ==
  /\ pc[c] = "running"
  /\ expired[c]
  /\ timer' = [timer EXCEPT ![on[c]] = generation[on[c]]]
  /\ UNCHANGED <<all, life, requests, answers, generation, rested>>
  /\ Leave(c, "failed")

TimeOut(c) ==
  /\ pc[c] = "running"
  /\ expired[c]
  /\ Stop(HelperOf[c], on[c])
  /\ Leave(c, "failed")

ReturnWithoutTimer(c) ==
  /\ pc[c] = "running"
  /\ reader[c] = "answered"
  /\ UNCHANGED <<all, worker>>
  /\ Leave(c, "returned")

Return(c) ==
  /\ pc[c] = "running"
  /\ reader[c] = "answered"
  /\ timer' = [timer EXCEPT ![on[c]] = generation[on[c]]]
  /\ UNCHANGED <<all, life, requests, answers, generation, rested>>
  /\ Leave(c, "returned")

FailForgettingTheHelper(c) ==
  /\ pc[c] = "running"
  /\ reader[c] = "erred"
  /\ all' = [all EXCEPT ![HelperOf[c]] = None]
  /\ UNCHANGED <<life, timer, requests, answers, generation, rested>>
  /\ Leave(c, "failed")

Fail(c) ==
  /\ pc[c] = "running"
  /\ reader[c] = "erred"
  /\ Stop(HelperOf[c], on[c])
  /\ Leave(c, "failed")

-----------------------------------------------------------------------------
\* Thirty seconds after its last answer the timer function starts, and then
\* waits for the gate; Timer.Stop cannot call it back.
Fire(h, w) ==
  /\ all[h] = w
  /\ timer[w] # 0
  /\ fired' = fired \cup {<<h, w, timer[w]>>}
  /\ timer' = [timer EXCEPT ![w] = 0]
  /\ rested' = [rested EXCEPT ![w] = TRUE]
  /\ UNCHANGED <<gate, all, life, requests, answers, generation, call, stops>>

IdleStopOfAnyGeneration(h, w, g) ==
  /\ <<h, w, g>> \in fired
  /\ gate = None
  /\ fired' = fired \ {<<h, w, g>>}
  /\ IF all[h] = w THEN Stop(h, w) ELSE UNCHANGED <<all, worker>>
  /\ UNCHANGED <<gate, call, stops>>

\* The timer function that was armed for worker w, of path h, at generation g.
IdleStop(h, w, g) ==
  /\ <<h, w, g>> \in fired
  /\ gate = None
  /\ fired' = fired \ {<<h, w, g>>}
  /\ IF all[h] = w /\ generation[w] = g THEN Stop(h, w) ELSE UNCHANGED <<all, worker>>
  /\ UNCHANGED <<gate, call, stops>>

StopOfficeTools ==
  /\ stops < MaxStops
  /\ gate = None
  /\ all' = [h \in Helper |-> None]
  /\ life' = [w \in Worker |-> IF \E h \in Helper : all[h] = w THEN "dead" ELSE life[w]]
  /\ timer' = [w \in Worker |-> IF \E h \in Helper : all[h] = w THEN 0 ELSE timer[w]]
  /\ stops' = stops + 1
  /\ UNCHANGED <<gate, fired, requests, answers, generation, rested, call>>

-----------------------------------------------------------------------------
\* The helper, which is another program: it answers requests in order, or ends.

Answer(w) ==
  /\ life[w] = "alive"
  /\ requests[w] # <<>>
  /\ answers' = [answers EXCEPT ![w] = Append(@, Head(requests[w]))]
  /\ requests' = [requests EXCEPT ![w] = Tail(@)]
  /\ UNCHANGED <<gate, all, life, generation, timer, rested, fired, call, stops>>

Exit(w) ==
  /\ life[w] = "alive"
  /\ life' = [life EXCEPT ![w] = "dead"]
  /\ UNCHANGED <<gate, all, requests, answers, generation, timer, rested, fired, call, stops>>

-----------------------------------------------------------------------------
callOfficeWorker(c) ==
  \/ GiveUp(c) \/ StartFails(c) \/ \E w \in Worker : Ask(c, w)
  \/ Write(c) \/ Read(c) \/ ReadEnd(c)
  \/ TimeOut(c) \/ Return(c) \/ Fail(c)

Timers(w) ==
  \/ \E h \in Helper : Fire(h, w)
  \/ \E f \in fired : f[2] = w /\ IdleStop(f[1], w, f[3])

Next ==
  \/ \E c \in Call : Begin(c) \/ Expire(c) \/ callOfficeWorker(c)
  \/ \E w \in Worker : Timers(w) \/ Answer(w) \/ Exit(w)
  \/ StopOfficeTools

\* Contexts expire, timers fire, and goroutines run; a helper need not answer.
Fairness ==
  /\ \A c \in Call : WF_vars(Expire(c)) /\ WF_vars(callOfficeWorker(c))
  /\ \A w \in Worker : WF_vars(Timers(w))

Spec == Init /\ [][Next]_vars
FairSpec == Spec /\ Fairness

-----------------------------------------------------------------------------
\* Every variable keeps its type, and the gate is held by the call in it.
TypeOK ==
  /\ gate \in Call \cup {None}
  /\ \A c \in Call : pc[c] = "running" <=> gate = c
  /\ all \in [Helper -> Worker \cup {None}]
  /\ life \in [Worker -> {"unborn", "alive", "dead"}]
  /\ requests \in [Worker -> Seq(Call)]
  /\ answers \in [Worker -> Seq(Call)]
  /\ generation \in [Worker -> Nat]
  /\ timer \in [Worker -> Nat]
  /\ rested \in [Worker -> BOOLEAN]
  /\ fired \subseteq Helper \X Worker \X Nat
  /\ pc \in [Call -> {"new", "waiting", "running", "returned", "failed"}]
  /\ expired \in [Call -> BOOLEAN]
  /\ on \in [Call -> Worker \cup {None}]
  /\ reader \in [Call -> {"off", "writing", "reading", "answered", "erred"}]
  /\ got \in [Call -> Call \cup {None}]
  /\ stops \in Nat

\* Whatever timed out, failed or was stopped before it, a call that returns a
\* result returns the answer to its own request.
AnswersMatch == \A c \in Call : pc[c] = "returned" => got[c] = c

\* No helper process is orphaned: one that runs is the one its path's next call
\* will use, and StopOfficeTools will stop.
NoOrphans == \A w \in Worker : life[w] = "alive" => \E h \in Helper : all[h] = w

\* A timer function that lost the race for the gate spares a helper used since:
\* only a helper that rested a whole period is stopped for being idle.
IdleStopSparesTheUsed == [][
  \A h \in Helper : all[h] # None /\ all'[h] = None /\ UNCHANGED <<pc, stops>>
    => rested[all[h]]]_vars

\* Every helper is stopped in the end, however its last call ended.
HelpersStop == \A w \in Worker : life[w] = "alive" ~> life[w] = "dead"
=============================================================================
