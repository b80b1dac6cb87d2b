------------------------ MODULE OfficeWorkersProofs ------------------------
(***************************************************************************)
(* Proofs about OfficeWorkers, for any number of calls, helpers and helper *)
(* processes.  The argument that an answer is never read by another call:  *)
(* the pipes of a helper that can be used again are empty, and nobody is   *)
(* left reading them, because every call that may leave something behind   *)
(* stops its helper before it gives up the gate.                           *)
(***************************************************************************)
EXTENDS OfficeWorkers, SequenceTheorems, TLAPS

Active(c) == reader[c] \in {"writing", "reading"}
Idle(w) ==
  /\ requests[w] = <<>>
  /\ answers[w] = <<>>
  /\ \A c \in Call : on[c] = w => ~Active(c)

\* What the call in the critical section knows of its worker.
Served(c) ==
  /\ on[c] \in Worker
  /\ all[HelperOf[c]] = on[c]
  /\ \A d \in Call \ {c} : on[d] = on[c] => ~Active(d)
  /\ reader[c] \in {"writing", "answered"} => requests[on[c]] = <<>> /\ answers[on[c]] = <<>>
  /\ reader[c] = "erred" /\ life[on[c]] = "alive" => requests[on[c]] = <<>> /\ answers[on[c]] = <<>>
  /\ reader[c] # "off"
  /\ reader[c] = "reading" =>
       \/ requests[on[c]] = <<c>> /\ answers[on[c]] = <<>>
       \/ requests[on[c]] = <<>> /\ answers[on[c]] = <<c>>
  /\ reader[c] = "answered" => got[c] = c

\* Workers in the table are distinct, started, and idle unless a call has them.
Table ==
  /\ \A h, k \in Helper : all[h] # None /\ all[h] = all[k] => h = k
  /\ \A h \in Helper : all[h] # None => life[all[h]] # "unborn"
  /\ \A h \in Helper : all[h] # None /\ (gate = None \/ all[h] # on[gate]) => Idle(all[h])
Fresh == \A w \in Worker : life[w] = "unborn" => Idle(w) /\ \A c \in Call : on[c] # w
Started == \A c \in Call :
  /\ reader[c] # "off" => on[c] \in Worker
  /\ pc[c] \in {"new", "waiting"} => reader[c] = "off"
  /\ pc[c] = "returned" => reader[c] = "answered"

PInv ==
  /\ TypeOK /\ NoOrphans /\ Table /\ Fresh /\ Started /\ AnswersMatch
  /\ gate # None => Served(gate)

-----------------------------------------------------------------------------
\* The gate is held exactly by the call that runs.
LEMMA GateStep ==
  ASSUME TypeOK, [Next]_vars
  PROVE  \A c \in Call : pc'[c] = "running" <=> gate' = c
  <1> USE NoneAssumption DEF TypeOK, worker, call
  <1>1. ASSUME UNCHANGED <<gate, pc>> PROVE \A c \in Call : pc'[c] = "running" <=> gate' = c
    BY <1>1
  <1>2. ASSUME NEW d \in Call, Begin(d) \/ GiveUp(d) \/ StartFails(d)
        PROVE  \A c \in Call : pc'[c] = "running" <=> gate' = c
    BY <1>2 DEF Begin, GiveUp, StartFails
  <1>3. ASSUME NEW d \in Call, NEW w \in Worker, Ask(d, w)
        PROVE  \A c \in Call : pc'[c] = "running" <=> gate' = c
    BY <1>3 DEF Ask
  <1>4. ASSUME NEW d \in Call, TimeOut(d) \/ Return(d) \/ Fail(d)
        PROVE  \A c \in Call : pc'[c] = "running" <=> gate' = c
    <2>1. PICK l \in {"failed", "returned"} : Leave(d, l) /\ pc[d] = "running"
      BY <1>4 DEF TimeOut, Return, Fail
    <2> QED BY <2>1 DEF Leave
  <1>5. ASSUME NEW d \in Call, Expire(d) \/ Write(d) \/ Read(d) \/ ReadEnd(d)
        PROVE  UNCHANGED <<gate, pc>>
    BY <1>5 DEF Expire, Write, Read, ReadEnd
  <1>6. ASSUME NEW w \in Worker, Timers(w) \/ Answer(w) \/ Exit(w) PROVE UNCHANGED <<gate, pc>>
    BY <1>6 DEF Timers, Fire, IdleStop, Answer, Exit
  <1>7. CASE StopOfficeTools \/ UNCHANGED vars
    BY <1>1, <1>7 DEF StopOfficeTools, vars
  <1> QED BY <1>1, <1>2, <1>3, <1>4, <1>5, <1>6, <1>7 DEF Next, callOfficeWorker

\* Every step of a call, a goroutine, a timer or a helper keeps the types.
LEMMA TypeStep == TypeOK /\ Started /\ [Next]_vars => TypeOK'
  <1> SUFFICES ASSUME TypeOK, Started, [Next]_vars PROVE TypeOK'
    OBVIOUS
  <1> USE DEF worker, call
  <1>0. \A c \in Call : pc'[c] = "running" <=> gate' = c
    BY GateStep
  <1>1. /\ all \in [Helper -> Worker \cup {None}]
        /\ life \in [Worker -> {"unborn", "alive", "dead"}]
        /\ timer \in [Worker -> Nat] /\ generation \in [Worker -> Nat]
    BY DEF TypeOK
  <1>2. /\ requests \in [Worker -> Seq(Call)] /\ answers \in [Worker -> Seq(Call)]
        /\ reader \in [Call -> {"off", "writing", "reading", "answered", "erred"}]
        /\ got \in [Call -> Call \cup {None}]
        /\ \A c \in Call : reader[c] # "off" => on[c] \in Worker
    BY DEF TypeOK, Started
  <1>3. ASSUME NEW h, NEW w, Stop(h, w)
        PROVE  /\ all' \in [Helper -> Worker \cup {None}] /\ timer' \in [Worker -> Nat]
               /\ life' \in [Worker -> {"unborn", "alive", "dead"}]
               /\ UNCHANGED <<requests, answers, generation, rested>>
    BY <1>1, <1>3 DEF Stop
  <1>4. ASSUME NEW c \in Call, Begin(c) \/ Expire(c) \/ GiveUp(c) \/ StartFails(c)
        PROVE  TypeOK'
    <2>1. CASE Begin(c)
      BY <1>0, <2>1 DEF Begin, TypeOK
    <2>2. CASE Expire(c)
      BY <1>0, <2>2 DEF Expire, TypeOK
    <2>3. CASE GiveUp(c)
      BY <1>0, <2>3 DEF GiveUp, TypeOK
    <2>4. CASE StartFails(c)
      BY <1>0, <2>4 DEF StartFails, TypeOK
    <2> QED BY <1>4, <2>1, <2>2, <2>3, <2>4
  <1>5. ASSUME NEW c \in Call, NEW w \in Worker, Ask(c, w) PROVE TypeOK'
    <2>1. all' = all \/ all' = [all EXCEPT ![HelperOf[c]] = w]
      BY <1>5 DEF Ask
    <2>2. life' = life \/ life' = [life EXCEPT ![w] = "alive"]
      BY <1>5 DEF Ask
    <2>3. /\ all' \in [Helper -> Worker \cup {None}]
          /\ life' \in [Worker -> {"unborn", "alive", "dead"}]
      BY <1>1, <2>1, <2>2
    <2>4. generation' \in [Worker -> Nat] /\ timer' \in [Worker -> Nat]
      BY <1>1, <1>5 DEF Ask
    <2>5. /\ gate' \in Call \cup {None}
          /\ pc' \in [Call -> {"new", "waiting", "running", "returned", "failed"}]
          /\ on' \in [Call -> Worker \cup {None}]
          /\ reader' \in [Call -> {"off", "writing", "reading", "answered", "erred"}]
          /\ rested' \in [Worker -> BOOLEAN]
      BY <1>5 DEF Ask, TypeOK
    <2>6. UNCHANGED <<requests, answers, fired, expired, got, stops>>
      BY <1>5 DEF Ask
    <2> QED BY <1>0, <2>3, <2>4, <2>5, <2>6 DEF TypeOK
  <1>6. ASSUME NEW c \in Call, Write(c) PROVE TypeOK'
    <2>1. requests' \in [Worker -> Seq(Call)]
      <3>1. \A s \in Seq(Call) : Append(s, c) \in Seq(Call)
        OBVIOUS
      <3>2. \/ requests' = requests
            \/ requests' = [requests EXCEPT ![on[c]] = Append(requests[on[c]], c)]
        BY <1>6 DEF Write
      <3>3. on[c] \in Worker
        BY <1>2, <1>6 DEF Write
      <3>4. Append(requests[on[c]], c) \in Seq(Call)
        BY <1>2, <3>1, <3>3
      <3> QED BY <1>2, <3>2, <3>4
    <2>2. reader' \in [Call -> {"off", "writing", "reading", "answered", "erred"}]
      BY <1>2, <1>6 DEF Write
    <2> QED BY <1>0, <1>6, <2>1, <2>2 DEF Write, TypeOK
  <1>7. ASSUME NEW c \in Call, Read(c) PROVE TypeOK'
    <2>1. answers[on[c]] \in Seq(Call) /\ answers[on[c]] # <<>>
      BY <1>2, <1>7 DEF Read
    <2>2. Head(answers[on[c]]) \in Call /\ Tail(answers[on[c]]) \in Seq(Call)
      BY <2>1
    <2>3. /\ answers' \in [Worker -> Seq(Call)] /\ got' \in [Call -> Call \cup {None}]
          /\ reader' \in [Call -> {"off", "writing", "reading", "answered", "erred"}]
      BY <1>2, <1>7, <2>2 DEF Read
    <2> QED BY <1>0, <1>7, <2>3 DEF Read, TypeOK
  <1>8. ASSUME NEW c \in Call, ReadEnd(c) PROVE TypeOK'
    BY <1>0, <1>8 DEF ReadEnd, TypeOK
  <1>9. ASSUME NEW c \in Call, TimeOut(c) \/ Return(c) \/ Fail(c) PROVE TypeOK'
    <2>1. PICK l \in {"failed", "returned"} : Leave(c, l)
      BY <1>9 DEF TimeOut, Return, Fail
    <2>2. CASE Stop(HelperOf[c], on[c])
      BY <1>0, <1>3, <2>1, <2>2 DEF Leave, TypeOK
    <2>3. CASE Return(c)
      <3>1. timer' \in [Worker -> Nat]
        BY <1>1, <1>2, <2>3 DEF Return
      <3> QED BY <1>0, <2>1, <2>3, <3>1 DEF Leave, Return, TypeOK
    <2> QED BY <1>9, <2>2, <2>3 DEF TimeOut, Fail
  <1>10. ASSUME NEW w \in Worker, NEW h \in Helper, Fire(h, w) PROVE TypeOK'
    <2>1. fired' \subseteq Helper \X Worker \X Nat /\ timer' \in [Worker -> Nat]
      BY <1>1, <1>10 DEF Fire, TypeOK
    <2> QED BY <1>0, <1>10, <2>1 DEF Fire, TypeOK
  <1>11. ASSUME NEW w \in Worker, NEW f \in fired, IdleStop(f[1], w, f[3]) PROVE TypeOK'
    <2>1. fired' \subseteq Helper \X Worker \X Nat /\ UNCHANGED <<gate, call, stops>>
      BY <1>11 DEF IdleStop, TypeOK
    <2>2. Stop(f[1], w) \/ UNCHANGED <<all, worker>>
      BY <1>11 DEF IdleStop
    <2> QED BY <1>0, <1>3, <2>1, <2>2 DEF TypeOK
  <1>12. ASSUME NEW w \in Worker, Answer(w) PROVE TypeOK'
    <2>1. requests[w] \in Seq(Call) /\ requests[w] # <<>> /\ answers[w] \in Seq(Call)
      BY <1>2, <1>12 DEF Answer
    <2>2. Append(answers[w], Head(requests[w])) \in Seq(Call) /\ Tail(requests[w]) \in Seq(Call)
      BY <2>1
    <2>3. answers' \in [Worker -> Seq(Call)] /\ requests' \in [Worker -> Seq(Call)]
      BY <1>2, <1>12, <2>2 DEF Answer
    <2> QED BY <1>0, <1>12, <2>3 DEF Answer, TypeOK
  <1>13. ASSUME NEW w \in Worker, Exit(w) PROVE TypeOK'
    BY <1>0, <1>13 DEF Exit, TypeOK
  <1>14. CASE StopOfficeTools
    BY <1>0, <1>14 DEF StopOfficeTools, TypeOK
  <1>15. CASE UNCHANGED vars
    BY <1>15 DEF vars, TypeOK
  <1> QED
    BY <1>4, <1>5, <1>6, <1>7, <1>8, <1>9, <1>10, <1>11, <1>12, <1>13, <1>14, <1>15
       DEF Next, callOfficeWorker, Timers

-----------------------------------------------------------------------------
\* Steps by where they happen: outside the pipes and the table, in the
\* goroutines, in the helper, and at the two ends of the critical section.

\* A step outside the pipes and the table preserves PInv.
LEMMA AsideKeeps ==
  ASSUME PInv, TypeOK', UNCHANGED <<gate, all, life, requests, answers, on, reader, got>>,
         \A c \in Call : /\ pc'[c] = "returned" => pc[c] = "returned"
                         /\ pc'[c] \in {"new", "waiting"} => pc[c] \in {"new", "waiting"}
  PROVE  PInv'
  <1>1. Table' /\ Fresh' /\ NoOrphans'
    BY DEF PInv, Table, Fresh, NoOrphans, Idle, Active
  <1>2. Started'
    BY DEF PInv, Started
  <1>4. AnswersMatch'
    BY DEF PInv, AnswersMatch
  <1>3. gate' # None => Served(gate)'
    BY DEF PInv, Served, Active
  <1> QED BY <1>1, <1>2, <1>3, <1>4 DEF PInv

\* A call enters the critical section and finds, or starts, an idle helper.
LEMMA AskKeeps ==
  ASSUME PInv, TypeOK', NEW c \in Call, NEW w \in Worker, Ask(c, w)
  PROVE  PInv'
  <1>1. /\ gate = None /\ gate' = c /\ c # None
        /\ on' = [on EXCEPT ![c] = w] /\ reader' = [reader EXCEPT ![c] = "writing"]
        /\ pc' = [pc EXCEPT ![c] = "running"] /\ pc[c] = "waiting"
        /\ reader[c] = "off" /\ UNCHANGED <<requests, answers, got>>
    BY NoneAssumption DEF Ask, PInv, Started
  <1>2. on'[c] = w /\ reader'[c] = "writing" /\ HelperOf[c] \in Helper
    BY <1>1, HelperOfAssumption DEF PInv, TypeOK
  <1>3. \A d \in Call \ {c} : on'[d] = on[d] /\ reader'[d] = reader[d] /\ pc'[d] = pc[d]
    BY <1>1 DEF PInv, TypeOK
  <1>4. all'[HelperOf[c]] = w /\ \A h \in Helper \ {HelperOf[c]} : all'[h] = all[h]
    BY <1>2 DEF Ask, PInv, TypeOK
  <1>5. life'[w] # "unborn" /\ \A v \in Worker \ {w} : life'[v] = life[v]
    BY <1>2, NoneAssumption DEF Ask, PInv, TypeOK, Table
  <1>6. \A h \in Helper \ {HelperOf[c]} : all[h] # w
    <2>1. CASE all[HelperOf[c]] = w
      BY <1>2, <2>1, NoneAssumption DEF PInv, Table
    <2>2. CASE life[w] = "unborn"
      BY <2>2, NoneAssumption DEF PInv, Table
    <2> QED BY <2>1, <2>2 DEF Ask
  <1>7. Idle(w)
    <2>1. CASE all[HelperOf[c]] = w
      BY <1>1, <1>2, <2>1, NoneAssumption DEF PInv, Table
    <2>2. CASE life[w] = "unborn"
      BY <2>2 DEF PInv, Fresh
    <2> QED BY <2>1, <2>2 DEF Ask
  <1>8. Served(c)'
    BY <1>1, <1>2, <1>3, <1>4, <1>7 DEF Served, Idle, Active
  <1>9. Table'
    <2>1. \A h, k \in Helper : all'[h] # None /\ all'[h] = all'[k] => h = k
      BY <1>4, <1>6 DEF PInv, Table
    <2>2. \A h \in Helper : all'[h] # None => life'[all'[h]] # "unborn"
      <3> SUFFICES ASSUME NEW h \in Helper, all'[h] # None PROVE life'[all'[h]] # "unborn"
        OBVIOUS
      <3>1. CASE h = HelperOf[c]
        BY <1>4, <1>5, <3>1
      <3>2. CASE h # HelperOf[c]
        <4>1. all'[h] = all[h] /\ all[h] \in Worker /\ life[all[h]] # "unborn"
          BY <1>4, <3>2 DEF PInv, Table, TypeOK
        <4> QED BY <1>5, <4>1
      <3> QED BY <3>1, <3>2
    <2>3. ASSUME NEW h \in Helper, all'[h] # None, all'[h] # on'[c] PROVE Idle(all[h])'
      <3>1. Idle(all[h]) /\ all'[h] = all[h] /\ all[h] # w
        BY <1>1, <1>2, <1>4, <1>6, <2>3 DEF PInv, Table
      <3> QED BY <1>1, <1>2, <1>3, <3>1 DEF Idle, Active
    <2> QED BY <1>1, <2>1, <2>2, <2>3 DEF Table
  <1>10. Fresh'
    BY <1>1, <1>2, <1>3, <1>5 DEF PInv, Fresh, Idle, Active
  <1>11. NoOrphans'
    <2> SUFFICES ASSUME NEW v \in Worker, life'[v] = "alive" PROVE \E h \in Helper : all'[h] = v
      BY DEF NoOrphans
    <2>1. CASE v = w
      BY <1>2, <1>4, <2>1
    <2>2. CASE v # w
      <3>1. PICK h \in Helper : all[h] = v
        BY <1>5, <2>2 DEF PInv, NoOrphans
      <3>2. all[HelperOf[c]] \in {w, None}
        BY DEF Ask
      <3>3. h # HelperOf[c]
        BY <2>2, <3>1, <3>2, NoneAssumption
      <3> QED BY <1>4, <3>1, <3>3
    <2> QED BY <2>1, <2>2
  <1>12. Started' /\ AnswersMatch'
    BY <1>1, <1>2, <1>3 DEF PInv, Started, AnswersMatch, TypeOK
  <1> QED BY <1>1, <1>8, <1>9, <1>10, <1>11, <1>12 DEF PInv

\* Whoever uses the pipes of a helper in the table has the gate.
LEMMA ActiveHasGate ==
  ASSUME PInv, NEW c \in Call, Active(c), NEW h \in Helper, all[h] = on[c]
  PROVE  gate = c
  <1>1. on[c] # None
    BY NoneAssumption DEF PInv, Started, Active
  <1>2. gate # None /\ on[gate] = on[c]
    BY <1>1 DEF PInv, Table, Idle
  <1> QED BY <1>2 DEF PInv, Served, TypeOK

\* A goroutine at work is the one of the call in the critical section, or its
\* helper is gone: what it writes and reads preserves PInv.
LEMMA GoroutineKeeps ==
  ASSUME PInv, TypeOK', NEW c \in Call, Write(c) \/ Read(c) \/ ReadEnd(c)
  PROVE  PInv'
  <1>1. /\ Active(c) /\ on[c] \in Worker /\ reader'[c] \in {"reading", "answered", "erred"}
        /\ \A d \in Call \ {c} : reader'[d] = reader[d] /\ got'[d] = got[d]
        /\ \A v \in Worker \ {on[c]} : requests'[v] = requests[v] /\ answers'[v] = answers[v]
        /\ UNCHANGED <<gate, all, life, pc, on>>
    BY DEF Write, Read, ReadEnd, Active, PInv, Started, TypeOK, worker
  <1>2. life[on[c]] # "unborn"
    BY <1>1 DEF PInv, Fresh, Idle
  <1>3. \A h \in Helper : all[h] = on[c] => gate = c
    BY <1>1, ActiveHasGate
  <1>4. Table'
    <2>1. ASSUME NEW h \in Helper, all[h] # None, gate = None \/ all[h] # on[gate]
          PROVE  Idle(all[h])'
      <3>1. Idle(all[h]) /\ all[h] # on[c] /\ all[h] \in Worker
        <4>1. c # None
          BY NoneAssumption
        <4> QED BY <1>3, <2>1, <4>1 DEF PInv, Table, TypeOK
      <3> QED BY <1>1, <3>1 DEF Idle, Active
    <2> QED BY <1>1, <2>1 DEF PInv, Table
  <1>5. Fresh'
    BY <1>1, <1>2 DEF PInv, Fresh, Idle, Active
  <1>6. NoOrphans' /\ Started'
    BY <1>1 DEF PInv, NoOrphans, Started, Active
  <1>7. AnswersMatch'
    BY <1>1 DEF PInv, AnswersMatch, Started, Active
  <1>8. ASSUME gate = c PROVE Served(c)'
    <2>0. Served(c)
      BY <1>8, NoneAssumption DEF PInv
    <2>1. CASE Write(c)
      BY <1>1, <1>8, <2>0, <2>1 DEF Served, Write, Active, PInv, TypeOK
    <2>2. CASE Read(c)
      <3>1. requests[on[c]] = <<>> /\ answers[on[c]] = <<c>>
        BY <2>0, <2>2 DEF Served, Read
      <3>2. requests'[on[c]] = <<>> /\ answers'[on[c]] = <<>>
        BY <1>1, <2>2, <3>1 DEF Read, PInv, TypeOK
      <3>3. reader'[c] \in {"answered", "erred"} /\ (reader'[c] = "answered" => got'[c] = c)
        BY <2>2, <3>1 DEF Read, PInv, TypeOK
      <3> QED BY <1>1, <2>0, <3>2, <3>3 DEF Served, Active
    <2>3. CASE ReadEnd(c)
      BY <1>1, <1>8, <2>0, <2>3 DEF Served, ReadEnd, Active, PInv, TypeOK, worker
    <2> QED BY <2>1, <2>2, <2>3
  <1>9. ASSUME gate # None, gate # c PROVE Served(gate)'
    <2>1. Served(gate) /\ gate \in Call /\ on[gate] # on[c]
      BY <1>3, <1>9, HelperOfAssumption DEF PInv, Served, TypeOK
    <2> QED BY <1>1, <2>1 DEF Served, Active
  <1> QED BY <1>1, <1>4, <1>5, <1>6, <1>7, <1>8, <1>9 DEF PInv

\* A helper answers only the call that has the gate.
LEMMA AnswerKeeps ==
  ASSUME PInv, TypeOK', NEW w \in Worker, Answer(w)
  PROVE  PInv'
  <1>1. PICK h \in Helper : all[h] = w
    BY DEF Answer, PInv, NoOrphans
  <1>2. gate # None /\ on[gate] = w /\ gate \in Call
    <2>1. requests[w] # <<>>
      BY DEF Answer
    <2> QED BY <1>1, <2>1, NoneAssumption DEF PInv, Table, Idle, TypeOK
  <1>3. Served(gate) /\ requests[w] = <<gate>> /\ answers[w] = <<>> /\ reader[gate] = "reading"
    <2>1. reader[gate] \in {"off", "writing", "reading", "answered", "erred"}
      BY <1>2 DEF PInv, TypeOK
    <2>2. requests[w] # <<>> /\ life[w] = "alive"
      BY DEF Answer
    <2>3. reader[gate] = "reading"
      BY <1>2, <2>1, <2>2 DEF PInv, Served
    <2> QED BY <1>2, <2>2, <2>3 DEF PInv, Served
  <1>4. /\ \A v \in Worker \ {w} : requests'[v] = requests[v] /\ answers'[v] = answers[v]
        /\ requests'[w] = <<>> /\ answers'[w] = <<gate>>
        /\ UNCHANGED <<gate, all, life, pc, on, reader, got>>
    BY <1>2, <1>3 DEF Answer, call, PInv, TypeOK
  <1>5. Served(gate)'
    BY <1>2, <1>3, <1>4 DEF Served, Active
  <1>6. Table'
    <2>1. ASSUME NEW k \in Helper, all[k] # None, gate = None \/ all[k] # on[gate]
          PROVE  Idle(all[k])'
      <3>1. Idle(all[k]) /\ all[k] # w /\ all[k] \in Worker
        BY <1>2, <2>1 DEF PInv, Table, TypeOK
      <3> QED BY <1>4, <3>1 DEF Idle, Active
    <2> QED BY <1>4, <2>1 DEF PInv, Table
  <1>7. Fresh'
    <2>1. life[w] # "unborn"
      BY DEF Answer
    <2> QED BY <1>4, <2>1 DEF PInv, Fresh, Idle, Active
  <1>8. NoOrphans' /\ Started' /\ AnswersMatch'
    BY <1>4 DEF PInv, NoOrphans, Started, AnswersMatch
  <1> QED BY <1>4, <1>5, <1>6, <1>7, <1>8 DEF PInv

\* The death of a helper preserves PInv.
LEMMA ExitKeeps ==
  ASSUME PInv, TypeOK', NEW w \in Worker, Exit(w)
  PROVE  PInv'
  <1>1. /\ life'[w] = "dead" /\ \A v \in Worker \ {w} : life'[v] = life[v]
        /\ UNCHANGED <<gate, all, requests, answers, pc, on, reader, got>>
    BY DEF Exit, call, PInv, TypeOK
  <1>2. Table'
    BY <1>1 DEF PInv, Table, TypeOK, Idle, Active
  <1>3. Fresh' /\ NoOrphans'
    BY <1>1 DEF PInv, Fresh, NoOrphans, Idle, Active
  <1>4. Started' /\ AnswersMatch'
    BY <1>1 DEF PInv, Started, AnswersMatch
  <1>5. gate' # None => Served(gate)'
    BY <1>1 DEF PInv, Served, Active
  <1> QED BY <1>2, <1>3, <1>4, <1>5 DEF PInv

\* Helpers leave the table by being stopped, while nobody has the gate or by
\* the call that gives it up; the others stay idle.
LEMMA StopKeeps ==
  ASSUME PInv, TypeOK', gate' = None,
         UNCHANGED <<requests, answers, on, reader, got>>,
         \A c \in Call : pc'[c] = pc[c] \/ pc'[c] = "failed",
         \A h \in Helper : all'[h] \in {all[h], None},
         \A h \in Helper : all[h] # None /\ gate # None /\ all[h] = on[gate] => all'[h] = None,
         \A w \in Worker : life'[w] = life[w] \/ life'[w] = "dead",
         \A h \in Helper, w \in Worker : all[h] = w /\ all'[h] = None => life'[w] = "dead"
  PROVE  PInv'
  <1>1. Table'
    <2>1. ASSUME NEW h \in Helper, all'[h] # None PROVE Idle(all[h])'
      <3>1. all'[h] = all[h] /\ (gate = None \/ all[h] # on[gate])
        BY <2>1
      <3> QED BY <2>1, <3>1 DEF PInv, Table, Idle, Active
    <2>2. \A h \in Helper : all'[h] # None => life'[all'[h]] # "unborn"
      <3> SUFFICES ASSUME NEW h \in Helper, all'[h] # None PROVE life'[all'[h]] # "unborn"
        OBVIOUS
      <3>1. all'[h] = all[h] /\ all[h] \in Worker /\ life[all[h]] # "unborn"
        BY DEF PInv, Table, TypeOK
      <3>2. life'[all[h]] = life[all[h]] \/ life'[all[h]] = "dead"
        BY <3>1
      <3> QED BY <3>1, <3>2
    <2> QED BY <2>1, <2>2 DEF PInv, Table
  <1>2. Fresh'
    BY DEF PInv, Fresh, Idle, Active
  <1>3. NoOrphans'
    <2> SUFFICES ASSUME NEW w \in Worker, life'[w] = "alive" PROVE \E h \in Helper : all'[h] = w
      BY DEF NoOrphans
    <2>1. PICK h \in Helper : all[h] = w
      BY DEF PInv, NoOrphans
    <2> QED BY <2>1
  <1>4. Started'
    BY DEF PInv, Started
  <1>5. AnswersMatch'
    BY DEF PInv, AnswersMatch
  <1> QED BY <1>1, <1>2, <1>3, <1>4, <1>5 DEF PInv

\* A call that timed out or failed leaves no helper behind in the table.
LEMMA LeaveKeeps ==
  ASSUME PInv, TypeOK', NEW c \in Call, TimeOut(c) \/ Fail(c)
  PROVE  PInv'
  <1>1. /\ pc[c] = "running" /\ gate = c /\ c # None /\ Served(c)
    BY NoneAssumption DEF TimeOut, Fail, PInv, TypeOK
  <1>2. /\ all' = [all EXCEPT ![HelperOf[c]] = None]
        /\ life' = [life EXCEPT ![on[c]] = "dead"]
        /\ pc' = [pc EXCEPT ![c] = "failed"]
        /\ gate' = None /\ UNCHANGED <<requests, answers, on, reader, got>>
    BY DEF TimeOut, Fail, Stop, Leave
  <1>3. \A h \in Helper : all'[h] = IF h = HelperOf[c] THEN None ELSE all[h]
    BY <1>2, HelperOfAssumption DEF PInv, TypeOK
  <1>4. \A w \in Worker : life'[w] = IF w = on[c] THEN "dead" ELSE life[w]
    BY <1>2 DEF PInv, TypeOK
  <1>5. \A d \in Call : pc'[d] = pc[d] \/ pc'[d] = "failed"
    BY <1>2 DEF PInv, TypeOK
  <1>6. HelperOf[c] \in Helper /\ all[HelperOf[c]] = on[c]
    BY <1>1, HelperOfAssumption DEF Served
  <1>7. \A h \in Helper : all[h] # None /\ all[h] = on[gate] => all'[h] = None
    BY <1>1, <1>3, <1>6 DEF PInv, Table
  <1>8. \A h \in Helper, w \in Worker : all[h] = w /\ all'[h] = None => life'[w] = "dead"
    BY <1>3, <1>4, <1>6, NoneAssumption
  <1>9. \A h \in Helper : all'[h] \in {all[h], None}
    BY <1>3
  <1>10. \A w \in Worker : life'[w] = life[w] \/ life'[w] = "dead"
    BY <1>4
  <1> QED BY <1>2, <1>5, <1>7, <1>8, <1>9, <1>10, StopKeeps

\* A call that got its answer leaves its helper idle, with empty pipes.
LEMMA ReturnKeeps ==
  ASSUME PInv, TypeOK', NEW c \in Call, Return(c)
  PROVE  PInv'
  <1>1. pc[c] = "running" /\ gate = c /\ c # None /\ Served(c) /\ reader[c] = "answered"
    BY NoneAssumption DEF Return, PInv, TypeOK
  <1>2. /\ pc' = [pc EXCEPT ![c] = "returned"] /\ gate' = None
        /\ UNCHANGED <<all, life, requests, answers, on, reader, got>>
    BY DEF Return, Leave
  <1>3. Idle(on[c])
    BY <1>1 DEF Served, Idle, Active
  <1>4. Table'
    BY <1>1, <1>2, <1>3 DEF PInv, Table, Idle, Active
  <1>5. Fresh' /\ NoOrphans'
    BY <1>2 DEF PInv, Fresh, NoOrphans, Idle, Active
  <1>6. Started'
    BY <1>1, <1>2 DEF PInv, Started, TypeOK
  <1>7. AnswersMatch'
    BY <1>1, <1>2 DEF PInv, AnswersMatch, Served, TypeOK
  <1> QED BY <1>2, <1>4, <1>5, <1>6, <1>7 DEF PInv

\* A timer function that gets the gate preserves PInv, whether it stops its
\* helper or finds it used since.
LEMMA IdleStopKeeps ==
  ASSUME PInv, TypeOK', NEW w \in Worker, NEW f \in fired, IdleStop(f[1], w, f[3])
  PROVE  PInv'
  <1> DEFINE h == f[1]
  <1>1. h \in Helper /\ gate = None /\ UNCHANGED <<gate, pc, on, reader, got>>
    BY DEF IdleStop, call, PInv, TypeOK
  <1>2. CASE all[h] = w /\ generation[w] = f[3]
    <2>1. /\ all' = [all EXCEPT ![h] = None] /\ life' = [life EXCEPT ![w] = "dead"]
          /\ UNCHANGED <<requests, answers>>
      BY <1>2 DEF IdleStop, Stop
    <2>2. \A k \in Helper : all'[k] = IF k = h THEN None ELSE all[k]
      BY <1>1, <2>1 DEF PInv, TypeOK
    <2>3. \A v \in Worker : life'[v] = IF v = w THEN "dead" ELSE life[v]
      BY <2>1 DEF PInv, TypeOK
    <2>4. \A k \in Helper, v \in Worker : all[k] = v /\ all'[k] = None => life'[v] = "dead"
      BY <1>2, <2>2, <2>3, NoneAssumption
    <2>5. \A k \in Helper : all'[k] \in {all[k], None}
      BY <2>2
    <2>6. \A v \in Worker : life'[v] = life[v] \/ life'[v] = "dead"
      BY <2>3
    <2> QED BY <1>1, <2>1, <2>4, <2>5, <2>6, StopKeeps
  <1>3. CASE ~(all[h] = w /\ generation[w] = f[3])
    <2>1. UNCHANGED <<all, life, requests, answers>>
      BY <1>3 DEF IdleStop, worker
    <2> QED BY <1>1, <2>1, AsideKeeps
  <1> QED BY <1>2, <1>3

\* The shutdown stops every helper in the table.
LEMMA StopOfficeToolsKeeps ==
  ASSUME PInv, TypeOK', StopOfficeTools
  PROVE  PInv'
  <1>1. /\ gate = None /\ UNCHANGED <<gate, requests, answers, pc, on, reader, got>>
        /\ \A h \in Helper : all'[h] = None
        /\ \A w \in Worker :
             life'[w] = IF \E h \in Helper : all[h] = w THEN "dead" ELSE life[w]
    BY DEF StopOfficeTools, call
  <1>2. \A h \in Helper, w \in Worker : all[h] = w /\ all'[h] = None => life'[w] = "dead"
    BY <1>1
  <1>3. \A w \in Worker : life'[w] = life[w] \/ life'[w] = "dead"
    BY <1>1
  <1> QED BY <1>1, <1>2, <1>3, StopKeeps

-----------------------------------------------------------------------------
\* The program starts without helpers.
LEMMA InvInit == Init => PInv
  <1> SUFFICES ASSUME Init PROVE PInv
    OBVIOUS
  <1>1. TypeOK
    BY NoneAssumption DEF Init, TypeOK
  <1>2. Table /\ Fresh /\ NoOrphans
    BY NoneAssumption DEF Init, Table, Fresh, NoOrphans, Idle, Active
  <1>3. Started /\ AnswersMatch
    BY DEF Init, Started, AnswersMatch
  <1> QED BY <1>1, <1>2, <1>3 DEF PInv, Init

\* Every step preserves PInv.
LEMMA InvStep == PInv /\ [Next]_vars => PInv'
  <1> SUFFICES ASSUME PInv, [Next]_vars PROVE PInv'
    OBVIOUS
  <1>0. TypeOK'
    BY TypeStep DEF PInv
  <1>1. ASSUME NEW c \in Call, Begin(c) \/ Expire(c) \/ GiveUp(c) \/ StartFails(c)
        PROVE  PInv'
    <2>1. UNCHANGED <<gate, all, life, requests, answers, on, reader, got>>
      BY <1>1 DEF Begin, Expire, GiveUp, StartFails, worker
    <2>2. \A d \in Call : /\ pc'[d] = "returned" => pc[d] = "returned"
                          /\ pc'[d] \in {"new", "waiting"} => pc[d] \in {"new", "waiting"}
      BY <1>1 DEF Begin, Expire, GiveUp, StartFails, PInv, TypeOK
    <2> QED BY <1>0, <2>1, <2>2, AsideKeeps
  <1>2. ASSUME NEW w \in Worker, Timers(w) PROVE PInv'
    <2>1. ASSUME NEW h \in Helper, Fire(h, w) PROVE PInv'
      BY <1>0, <2>1, AsideKeeps DEF Fire, call
    <2> QED BY <1>0, <1>2, <2>1, IdleStopKeeps DEF Timers
  <1>3. CASE UNCHANGED vars
    BY <1>0, <1>3, AsideKeeps DEF vars, worker, call
  <1> QED
    BY <1>0, <1>1, <1>2, <1>3, AskKeeps, GoroutineKeeps, AnswerKeeps, ExitKeeps, LeaveKeeps,
       ReturnKeeps, StopOfficeToolsKeeps DEF Next, callOfficeWorker

\* The gate is held by the running call, and every variable keeps its type.
THEOREM TypeCorrect == Spec => []TypeOK
  <1>1. PInv => TypeOK
    BY DEF PInv
  <1> QED BY <1>1, InvInit, InvStep, PTL DEF Spec

\* No call ever returns the answer to another one's request.
THEOREM AnswersAlwaysMatch == Spec => []AnswersMatch
  <1>1. PInv => AnswersMatch
    BY DEF PInv
  <1> QED BY <1>1, InvInit, InvStep, PTL DEF Spec

\* No helper process runs without being in the table that stops it.
THEOREM NoHelperIsOrphaned == Spec => []NoOrphans
  <1>1. PInv => NoOrphans
    BY DEF PInv
  <1> QED BY <1>1, InvInit, InvStep, PTL DEF Spec

-----------------------------------------------------------------------------
(* Why a timer function that lost the race for the gate spares a helper used
   since: what it remembers is never ahead of its helper's generation, and
   matches it only while the helper has rested since its last call.  It is
   what makes the comparison of generations enough, though Timer.Stop cannot
   call a function back that has started. *)
Remembered == \A f \in fired :
  /\ f[3] <= generation[f[2]]
  /\ f[3] = generation[f[2]] => rested[f[2]]
Armed == \A w \in Worker : timer[w] \in {0, generation[w]}

RInv == PInv /\ Remembered /\ Armed

\* Every step keeps what the timer functions remember behind, or rested.
LEMMA RestStep == RInv /\ [Next]_vars => RInv'
  <1> SUFFICES ASSUME RInv, [Next]_vars PROVE Remembered' /\ Armed'
    BY InvStep DEF RInv
  <1>1. /\ TypeOK /\ Remembered /\ Armed /\ fired \subseteq Helper \X Worker \X Nat
        /\ timer \in [Worker -> Nat] /\ generation \in [Worker -> Nat]
        /\ rested \in [Worker -> BOOLEAN]
    BY DEF RInv, PInv, TypeOK
  <1>2. ASSUME UNCHANGED <<generation, rested>>, fired' \subseteq fired,
               \A w \in Worker : timer'[w] \in {0, timer[w], generation[w]}
        PROVE  Remembered' /\ Armed'
    BY <1>1, <1>2 DEF Remembered, Armed
  <1>3. ASSUME NEW c \in Call, NEW w \in Worker, Ask(c, w) PROVE Remembered' /\ Armed'
    <2>1. /\ generation' = [generation EXCEPT ![w] = @ + 1] /\ timer' = [timer EXCEPT ![w] = 0]
          /\ rested' = [rested EXCEPT ![w] = FALSE] /\ fired' = fired
      BY <1>3 DEF Ask
    <2>2. ASSUME NEW f \in fired
          PROVE  f[3] <= generation'[f[2]] /\ (f[3] = generation'[f[2]] => rested'[f[2]])
      <3>1. f[2] \in Worker /\ f[3] \in Nat /\ generation[f[2]] \in Nat
        BY <1>1, <2>2
      <3>2. f[3] <= generation[f[2]] /\ (f[3] = generation[f[2]] => rested[f[2]])
        BY <1>1, <2>2 DEF Remembered
      <3>3. CASE f[2] = w
        BY <1>1, <2>1, <3>1, <3>2, <3>3
      <3>4. CASE f[2] # w
        BY <1>1, <2>1, <3>1, <3>2, <3>4
      <3> QED BY <3>3, <3>4
    <2>3. Armed'
      BY <1>1, <2>1 DEF Armed
    <2> QED BY <2>1, <2>2, <2>3 DEF Remembered
  <1>4. ASSUME NEW h \in Helper, NEW w \in Worker, Fire(h, w) PROVE Remembered' /\ Armed'
    <2>1. /\ fired' = fired \cup {<<h, w, generation[w]>>} /\ timer' = [timer EXCEPT ![w] = 0]
          /\ rested' = [rested EXCEPT ![w] = TRUE] /\ UNCHANGED generation
      BY <1>1, <1>4 DEF Fire, Armed
    <2>2. ASSUME NEW f \in fired'
          PROVE  f[3] <= generation[f[2]] /\ (f[3] = generation[f[2]] => rested'[f[2]])
      <3>1. CASE f \in fired
        <4>1. /\ f[2] \in Worker /\ f[3] <= generation[f[2]]
              /\ f[3] = generation[f[2]] => rested[f[2]]
          BY <1>1, <3>1 DEF Remembered
        <4> QED BY <1>1, <2>1, <4>1
      <3>2. CASE f = <<h, w, generation[w]>>
        BY <1>1, <2>1, <3>2
      <3> QED BY <2>1, <2>2, <3>1, <3>2
    <2>3. Armed'
      BY <1>1, <2>1 DEF Armed
    <2> QED BY <2>1, <2>2, <2>3 DEF Remembered
  <1>5. ASSUME NEW h, NEW w, Stop(h, w), fired' \subseteq fired PROVE Remembered' /\ Armed'
    BY <1>1, <1>2, <1>5 DEF Stop
  <1>6. ASSUME NEW c \in Call, TimeOut(c) \/ Return(c) \/ Fail(c) PROVE Remembered' /\ Armed'
    <2>1. fired' = fired
      BY <1>6 DEF TimeOut, Return, Fail, Leave
    <2>2. CASE Return(c)
      BY <1>1, <1>2, <2>1, <2>2 DEF Return
    <2> QED BY <1>5, <1>6, <2>1, <2>2 DEF TimeOut, Fail
  <1>7. ASSUME NEW w \in Worker, NEW f \in fired, IdleStop(f[1], w, f[3])
        PROVE  Remembered' /\ Armed'
    BY <1>2, <1>5, <1>7 DEF IdleStop, worker
  <1>8. CASE StopOfficeTools
    BY <1>1, <1>2, <1>8 DEF StopOfficeTools
  <1>9. ASSUME UNCHANGED <<generation, rested, timer, fired>> PROVE Remembered' /\ Armed'
    BY <1>2, <1>9
  <1>10. ASSUME NEW c \in Call, \/ Begin(c) \/ Expire(c) \/ GiveUp(c) \/ StartFails(c)
                                \/ Write(c) \/ Read(c) \/ ReadEnd(c)
         PROVE  UNCHANGED <<generation, rested, timer, fired>>
    BY <1>10 DEF Begin, Expire, GiveUp, StartFails, Write, Read, ReadEnd, worker
  <1>11. ASSUME NEW w \in Worker, Answer(w) \/ Exit(w)
         PROVE  UNCHANGED <<generation, rested, timer, fired>>
    BY <1>11 DEF Answer, Exit
  <1>12. CASE UNCHANGED vars
    BY <1>9, <1>12 DEF vars, worker
  <1> QED BY <1>3, <1>4, <1>6, <1>7, <1>8, <1>9, <1>10, <1>11, <1>12
             DEF Next, callOfficeWorker, Timers

\* A step that stops a helper, and in which no call moves and no shutdown takes
\* place, is the one of a timer function, for the helper's generation.
LEMMA OnlyTimersStopTheIdle ==
  ASSUME TypeOK, [Next]_vars, UNCHANGED <<pc, stops>>,
         NEW h \in Helper, all[h] # None, all'[h] = None
  PROVE  \E f \in fired : f[2] = all[h] /\ f[3] = generation[all[h]]
  <1>1. all' # all /\ pc \in [Call -> {"new", "waiting", "running", "returned", "failed"}]
        /\ all \in [Helper -> Worker \cup {None}] /\ stops \in Nat
    BY DEF TypeOK
  <1>2. ASSUME NEW c \in Call PROVE ~Begin(c) /\ ~GiveUp(c) /\ ~StartFails(c)
    BY <1>1 DEF Begin, GiveUp, StartFails
  <1>3. ASSUME NEW c \in Call, NEW w \in Worker PROVE ~Ask(c, w)
    BY <1>1 DEF Ask
  <1>4. ASSUME NEW c \in Call PROVE ~(TimeOut(c) \/ Return(c) \/ Fail(c))
    <2>1. ASSUME NEW l \in {"failed", "returned"}, pc[c] = "running" PROVE ~Leave(c, l)
      BY <1>1, <2>1 DEF Leave
    <2> QED BY <2>1 DEF TimeOut, Return, Fail
  <1>5. ASSUME NEW c \in Call, Expire(c) \/ Write(c) \/ Read(c) \/ ReadEnd(c) PROVE FALSE
    BY <1>1, <1>5 DEF Expire, Write, Read, ReadEnd
  <1>6. ASSUME NEW w \in Worker, Answer(w) \/ Exit(w) \/ \E k \in Helper : Fire(k, w) PROVE FALSE
    BY <1>1, <1>6 DEF Answer, Exit, Fire
  <1>7. ~StopOfficeTools /\ ~UNCHANGED vars
    BY <1>1 DEF StopOfficeTools, vars
  <1>8. PICK w \in Worker, f \in fired : f[2] = w /\ IdleStop(f[1], w, f[3])
    BY <1>2, <1>3, <1>4, <1>5, <1>6, <1>7 DEF Next, callOfficeWorker, Timers
  <1>9. Stop(f[1], w) /\ all[f[1]] = w /\ generation[w] = f[3]
    BY <1>1, <1>8 DEF IdleStop
  <1>10. h = f[1]
    BY <1>1, <1>9 DEF Stop
  <1> QED BY <1>8, <1>9, <1>10

\* Only a helper that has rested for a whole period is stopped for being idle,
\* however its timer, its next call and the gate are interleaved.
THEOREM IdleStopsSpareTheUsed == Spec => IdleStopSparesTheUsed
  <1>1. Init => RInv
    BY InvInit DEF RInv, Init, Remembered, Armed
  <1>2. ASSUME RInv, [Next]_vars
        PROVE  [\A h \in Helper : all[h] # None /\ all'[h] = None /\ UNCHANGED <<pc, stops>>
                 => rested[all[h]]]_vars
    <2> SUFFICES ASSUME NEW h \in Helper, all[h] # None, all'[h] = None, UNCHANGED <<pc, stops>>
                 PROVE  rested[all[h]]
      OBVIOUS
    <2>1. PICK f \in fired : f[2] = all[h] /\ f[3] = generation[all[h]]
      BY <1>2, OnlyTimersStopTheIdle DEF RInv, PInv
    <2> QED BY <1>2, <2>1 DEF RInv, Remembered
  <1> QED BY <1>1, <1>2, RestStep, PTL DEF Spec, IdleStopSparesTheUsed
=============================================================================
