-------------------------- MODULE NativeHostProofs --------------------------
(***************************************************************************)
(* Proofs about NativeHost, for any number of callers, any names, lanes    *)
(* and bounds.  A response has one place to go because a call leaves the   *)
(* table of pending calls in the step that takes its answer.  A call that  *)
(* is cut short is told the cause because whoever ends the session for a   *)
(* reason writes it down before it closes, and nothing clears it.          *)
(* What the worker has of a task (its item in a lane, its two tables) and  *)
(* what the session has of it (its entry, its completion, its watchdog)    *)
(* agree because a request is in one place at a time, because one line of  *)
(* output tells of a completion, and because a task is over before anybody *)
(* is told that it is.                                                     *)
(***************************************************************************)
EXTENDS NativeHost, FiniteSetTheorems, SequenceTheorems, TLAPS

\* What a call is about: a begin has a key, only a begin that returned has a
\* watchdog, and a wait has a completion.  A lane that is done did something.
Keyed ==
  /\ \A c \in Caller : /\ Begins(c) => key[c] \in Key
                       /\ watch[c] # "off" => Begins(c) /\ cpc[c] = "returned"
                       /\ cpc[c] = "awaiting" => seen[c] \in Caller
  /\ \A l \in finished : running[l] # None

TInv == TypeOK /\ Keyed

\* Where a call's answer can be: with a call not yet registered, nowhere.
OnePlace(c) ==
  /\ c \in pending => ch[c] = "empty" /\ carried[1] # c
  /\ carried[1] = c => ch[c] = "empty"
  /\ cpc[c] \in {"new", "admitted"} => c \notin pending /\ ch[c] = "empty" /\ carried[1] # c

SInv == TInv /\ \A c \in Caller : OnePlace(c)

\* Who ends the session for a reason has written it down, readResponses before
\* it closes the session; and what the end tells the calls is what is written.
Blamed ==
  /\ closer \in {"watchdog", "exit"} => cause # "none"
  /\ scan \in {"break", "close"} => cause # "none" \/ Closed
  /\ closer \notin {"stop", "deadline"} =>
       \A c \in Caller : (ch[c] \in EndCauses => ch[c] = cause) /\ (result[c] \in EndCauses => result[c] = cause)

\* So has a watchdog whose timer has fired.
Fired == \A c \in Caller : watch[c] = "firing" => cause # "none"

CInv == TInv /\ Blamed /\ Fired

-----------------------------------------------------------------------------
\* What a call is told is an outcome, and the bare session_closed means that no
\* cause is known.
LEMMA Reasons ==
  ASSUME TypeOK, NEW e \in Outcome
  PROVE  /\ Reason(e) \in Outcome
         /\ Reason(e) = "session_closed" => cause = "none" /\ e = "session_closed"
  BY DEF TypeOK, Reason, Outcome

\* A worker that ended holds nothing.
LEMMA Nothing ==
  /\ NoQueue \in [Lane -> Seq(Caller)]
  /\ Nobody \in [Lane -> Caller \cup {None}]
  /\ NoRecord \in [Key -> {"absent", "unfinished", "completed"}]
  BY DEF NoQueue, Nobody, NoRecord

\* A call that returns keeps the types of its place and its result.
LEMMA Returning ==
  ASSUME TypeOK, NEW c \in Caller, NEW r \in Result, Return(c, r)
  PROVE  /\ cpc' \in [Caller -> Place] /\ result' \in [Caller -> Result]
         /\ \A d \in Caller : d # c => cpc'[d] = cpc[d] /\ result'[d] = result[d]
         /\ cpc'[c] = "returned" /\ result'[c] = r
  BY DEF TypeOK, Return, Place

\* Every step keeps the types.
LEMMA TypesStep ==
  ASSUME TInv, [Next]_vars
  PROVE  TInv'
  <1> USE NoneAssumption, BoundsAssumption
  <1>1. ASSUME Stop PROVE TInv'
    BY <1>1 DEF TInv, TypeOK, Keyed, Begins, Place, Stop, Ending, CloseBy, Closed, table,
        completion, loops, call, pipes, worker
  <1>2. ASSUME KillJob PROVE TInv'
    <2>1. WorkerEnds
      BY <1>2 DEF KillJob
    <2>2. /\ queue' \in [Lane -> Seq(Caller)]
          /\ running' \in [Lane -> Caller \cup {None}]
          /\ record' \in [Key -> {"absent", "unfinished", "completed"}]
          /\ busy' = {} /\ alive' = FALSE /\ held' = None /\ queue' = NoQueue /\ running' = Nobody
          /\ input' \in Seq(Caller) /\ finished' = {}
      BY <2>1, Nothing DEF WorkerEnds
    <2> QED BY <1>2, <2>2 DEF TInv, TypeOK, Keyed, Begins, Place, KillJob, Closed, table,
        completion, loops, call
  <1>3. ASSUME CloseEnd PROVE TInv'
    <2>1. Reason("session_closed") \in Outcome
      BY Reasons DEF TInv, Outcome
    <2> QED BY <1>3, <2>1 DEF TInv, TypeOK, Keyed, Begins, Place, CloseEnd, BreakPending, Closed,
        completion, loops, call, pipes, worker
  <1>4. ASSUME NEW c \in Caller, Call(c) PROVE TInv'
    <2>1. Reason("session_closed") \in Outcome
      BY Reasons DEF TInv, Outcome
    <2>2. PICK o \in KindsOf[c] \ {"wait"} :
            /\ kind' = [kind EXCEPT ![c] = o]
            /\ \E k \in IF o \in Beginning THEN {c} \cup Name
                        ELSE IF o \in {"poll", "forget"} THEN Begun ELSE {None} : key' = [key EXCEPT ![c] = k]
            /\ \/ Return(c, "word_exited")
               \/ Return(c, Reason("session_closed"))
               \/ cpc' = [cpc EXCEPT ![c] = "admitted"] /\ UNCHANGED result
      BY <1>4 DEF Call
    <2>3. o \in Kind
      BY <2>2, KindsAssumption
    <2>4. cpc \in [Caller -> Place] /\ result \in [Caller -> Result] /\ TypeOK
      BY DEF TInv, TypeOK
    <2>5. /\ cpc' \in [Caller -> Place] /\ result' \in [Caller -> Result]
          /\ \A d \in Caller : d # c => cpc'[d] = cpc[d]
          /\ cpc'[c] # "awaiting"
      <3>1. CASE Return(c, "word_exited")
        BY <3>1, <2>4, Returning DEF Result, Outcome
      <3>2. CASE Return(c, Reason("session_closed"))
        BY <3>2, <2>1, <2>4, Returning DEF Result
      <3>3. CASE cpc' = [cpc EXCEPT ![c] = "admitted"] /\ UNCHANGED result
        BY <3>3, <2>4 DEF Place
      <3> QED BY <2>2, <3>1, <3>2, <3>3
    <2>6. PICK k \in Key \cup {None} : /\ o \in Beginning => k \in Key
                                     /\ key' = [key EXCEPT ![c] = k]
      BY <2>2 DEF Key, Begun
    <2>7. key \in [Caller -> Key \cup {None}] /\ kind \in [Caller -> Kind \cup {"none"}]
      BY DEF TInv, TypeOK
    <2>8. /\ key' \in [Caller -> Key \cup {None}]
          /\ kind' \in [Caller -> Kind \cup {"none"}]
          /\ kind'[c] = o /\ key'[c] = k
          /\ \A d \in Caller : d # c => kind'[d] = kind[d] /\ key'[d] = key[d]
      BY <2>2, <2>3, <2>6, <2>7
    <2>9. cpc[c] = "new" /\ watch' = watch /\ seen' = seen /\ finished' = finished /\ running' = running
      BY <1>4 DEF Call, worker
    <2>10. Keyed'
      BY <2>5, <2>6, <2>8, <2>9 DEF TInv, Keyed, Begins
    <2>11. TypeOK'
      BY <1>4, <2>5, <2>8 DEF TInv, TypeOK, Call, Closed, session, table, completion, loops, pipes,
          worker
    <2> QED BY <2>10, <2>11 DEF TInv
  <1>5. ASSUME NEW c \in Caller, Register(c) PROVE TInv'
    BY <1>5 DEF TInv, TypeOK, Keyed, Begins, Place, Register, Closed, session, completion, loops,
        pipes, worker
  <1>6. ASSUME NEW c \in Caller, Write(c) PROVE TInv'
    <2>1. /\ writer \in [Caller -> {"off", "writing", "written", "failed"}]
          /\ input \in Seq(Caller)
      BY DEF TInv, TypeOK
    <2>2. \/ input' = Append(input, c) /\ writer' = [writer EXCEPT ![c] = "written"]
          \/ input' = input /\ writer' = [writer EXCEPT ![c] = "failed"]
      BY <1>6 DEF Write
    <2>3. /\ writer' \in [Caller -> {"off", "writing", "written", "failed"}]
          /\ input' \in Seq(Caller)
      BY <2>1, <2>2
    <2>4. UNCHANGED <<session, table, completion, loops, cpc, kind, key, result, watch, seen,
                      output, worker, ends>>
      BY <1>6 DEF Write
    <2> QED BY <2>3, <2>4 DEF TInv, TypeOK, Keyed, Begins, Closed, session, table, completion,
        loops, worker
  <1>7. ASSUME NEW c \in Caller, WriteFails(c) PROVE TInv'
    <2>1. Return(c, "write_error")
      BY <1>7 DEF WriteFails
    <2>2. /\ cpc' \in [Caller -> Place] /\ result' \in [Caller -> Result]
          /\ cpc'[c] = "returned" /\ \A d \in Caller : d # c => cpc'[d] = cpc[d]
      BY <2>1, Returning DEF TInv, Result, Outcome
    <2> QED BY <1>7, <2>2 DEF TInv, TypeOK, Keyed, Begins, Place, WriteFails, Closed, session,
        completion, loops, pipes, worker
  <1>8. ASSUME NEW c \in Caller, Receive(c) PROVE TInv'
    <2>1. /\ ch \in [Caller -> Outcome \cup {"empty"}] /\ cpc \in [Caller -> Place]
          /\ result \in [Caller -> Result] /\ TypeOK
          /\ watch \in [Caller -> {"off", "starting", "watching", "firing", "over"}]
      BY DEF TInv, TypeOK
    <2>2. ch[c] \in Result
      BY <1>8, <2>1 DEF Receive, Result
    <2>3. /\ cpc' \in [Caller -> Place] /\ result' \in [Caller -> Result]
          /\ \A d \in Caller : d # c => cpc'[d] = cpc[d]
          /\ cpc'[c] = IF ch[c] = "ok" /\ kind[c] = "forget" THEN "forgetting" ELSE "returned"
      <3>1. CASE ch[c] = "ok" /\ kind[c] = "forget"
        BY <1>8, <2>1, <3>1 DEF Receive, Place
      <3>2. CASE ~(ch[c] = "ok" /\ kind[c] = "forget")
        BY <1>8, <2>1, <2>2, <3>2, Returning DEF Receive
      <3> QED BY <3>1, <3>2
    <2>4. /\ watch' \in [Caller -> {"off", "starting", "watching", "firing", "over"}]
          /\ watch'[c] = (IF ch[c] = "ok" /\ Begins(c) THEN "starting" ELSE watch[c])
          /\ \A d \in Caller : d # c => watch'[d] = watch[d]
      BY <1>8, <2>1 DEF Receive
    <2>5. ch' \in [Caller -> Outcome \cup {"empty"}]
      BY <1>8, <2>1 DEF Receive
    <2>6. kind' = kind /\ key' = key /\ seen' = seen /\ finished' = finished /\ running' = running
          /\ cpc[c] = "waiting"
      BY <1>8 DEF Receive, worker
    <2>7. Keyed'
      BY <2>3, <2>4, <2>6 DEF TInv, Keyed, Begins, Beginning
    <2>8. TypeOK'
      BY <1>8, <2>3, <2>4, <2>5 DEF TInv, TypeOK, Receive, Closed, session, completion, loops,
          pipes, worker
    <2> QED BY <2>7, <2>8 DEF TInv
  <1>9. ASSUME NEW c \in Caller, Forget(c) PROVE TInv'
    <2> DEFINE b == entry[key[c]]
    <2>1. /\ entry' \in [Key -> Caller \cup {None}]
          /\ done' \in [Caller -> {"none", "open", "done", "forgotten", "word_exited"}]
      <3>1. /\ entry \in [Key -> Caller \cup {None}]
            /\ done \in [Caller -> {"none", "open", "done", "forgotten", "word_exited"}]
        BY DEF TInv, TypeOK
      <3>2. done' = [d \in Caller |-> IF d = b /\ done[d] = "open" THEN "forgotten" ELSE done[d]]
        BY <1>9 DEF Forget
      <3> HIDE DEF b
      <3> QED BY <1>9, <3>1, <3>2 DEF Forget
    <2>2. Return(c, "ok")
      BY <1>9 DEF Forget
    <2>3. /\ cpc' \in [Caller -> Place] /\ result' \in [Caller -> Result]
          /\ cpc'[c] = "returned" /\ \A d \in Caller : d # c => cpc'[d] = cpc[d]
      BY <2>2, Returning DEF TInv, Result, Outcome
    <2> QED BY <1>9, <2>1, <2>3 DEF TInv, TypeOK, Keyed, Begins, Place, Forget, Closed, session,
        table, loops, pipes, worker
  <1>10. ASSUME NEW c \in Caller, Deadline(c) PROVE TInv'
    BY <1>10 DEF TInv, TypeOK, Keyed, Begins, Place, Deadline, CloseBy, Closed, table, completion,
        loops, pipes, worker
  <1>11. ASSUME NEW c \in Caller, DeadlineEnd(c) PROVE TInv'
    <2>1. Return(c, "native_deadline")
      BY <1>11 DEF DeadlineEnd
    <2>2. /\ cpc' \in [Caller -> Place] /\ result' \in [Caller -> Result]
          /\ cpc'[c] = "returned" /\ \A d \in Caller : d # c => cpc'[d] = cpc[d]
      BY <2>1, Returning DEF TInv, Result, Outcome
    <2> QED BY <1>11, <2>2 DEF TInv, TypeOK, Keyed, Begins, Place, DeadlineEnd, Closed, session,
        table, completion, loops, pipes, worker
  <1>12. ASSUME NEW c \in Caller, SeesClosed(c) PROVE TInv'
    <2>1. Reason("session_closed") \in Result
      BY Reasons DEF TInv, Outcome, Result
    <2>2. /\ cpc' \in [Caller -> Place] /\ result' \in [Caller -> Result]
          /\ cpc'[c] = "returned" /\ \A d \in Caller : d # c => cpc'[d] = cpc[d]
      BY <1>12, <2>1, Returning DEF TInv, SeesClosed
    <2> QED BY <1>12, <2>2 DEF TInv, TypeOK, Keyed, Begins, Place, SeesClosed, Closed, session,
        table, completion, loops, pipes, worker
  <1>13. ASSUME NEW c \in Caller, WaitTask(c) PROVE TInv'
    <2>1. PICK k \in Begun : /\ key' = [key EXCEPT ![c] = k]
                             /\ seen' = [seen EXCEPT ![c] = entry[k]]
                             /\ IF entry[k] = None THEN Return(c, "unknown")
                                ELSE cpc' = [cpc EXCEPT ![c] = "awaiting"] /\ UNCHANGED result
      BY <1>13 DEF WaitTask
    <2>2. /\ TypeOK /\ entry \in [Key -> Caller \cup {None}] /\ k \in Key
          /\ cpc \in [Caller -> Place] /\ result \in [Caller -> Result]
          /\ key \in [Caller -> Key \cup {None}] /\ seen \in [Caller -> Caller \cup {None}]
          /\ kind \in [Caller -> Kind \cup {"none"}]
      BY DEF TInv, TypeOK, Begun
    <2>3. /\ cpc' \in [Caller -> Place] /\ result' \in [Caller -> Result]
          /\ \A d \in Caller : d # c => cpc'[d] = cpc[d]
          /\ cpc'[c] = IF entry[k] = None THEN "returned" ELSE "awaiting"
      <3>1. CASE entry[k] = None
        BY <2>1, <2>2, <3>1, Returning DEF Result
      <3>2. CASE entry[k] # None
        BY <2>1, <2>2, <3>2 DEF Place
      <3> QED BY <3>1, <3>2
    <2>4. /\ key' \in [Caller -> Key \cup {None}] /\ seen' \in [Caller -> Caller \cup {None}]
          /\ kind' \in [Caller -> Kind \cup {"none"}] /\ kind'[c] = "wait"
          /\ \A d \in Caller : d # c => kind'[d] = kind[d] /\ key'[d] = key[d] /\ seen'[d] = seen[d]
          /\ seen'[c] = entry[k]
      BY <1>13, <2>1, <2>2 DEF WaitTask, Kind
    <2>5. cpc[c] = "new" /\ watch' = watch /\ finished' = finished /\ running' = running
      BY <1>13 DEF WaitTask, worker
    <2>6. Keyed'
      BY <2>2, <2>3, <2>4, <2>5 DEF TInv, Keyed, Begins, Beginning
    <2>7. TypeOK'
      BY <1>13, <2>3, <2>4 DEF TInv, TypeOK, WaitTask, Closed, session, table, completion, loops,
          pipes, worker
    <2> QED BY <2>6, <2>7 DEF TInv
  <1>14. ASSUME NEW c \in Caller, Waited(c) PROVE TInv'
    <2>1. PICK r \in Result : Return(c, r)
      <3>1. seen[c] \in Caller /\ done \in [Caller -> {"none", "open", "done", "forgotten", "word_exited"}]
        BY <1>14 DEF Waited, TInv, TypeOK, Keyed
      <3>2. done[seen[c]] # "open" => done[seen[c]] \in Result
        BY <3>1 DEF Result, Outcome
      <3> QED BY <1>14, <3>2 DEF Waited, Result
    <2>2. cpc' \in [Caller -> Place] /\ result' \in [Caller -> Result]
      BY <2>1, Returning DEF TInv
    <2>3. cpc'[c] = "returned" /\ \A d \in Caller : d # c => cpc'[d] = cpc[d]
      BY <2>1, Returning DEF TInv
    <2> QED BY <1>14, <2>2, <2>3 DEF TInv, TypeOK, Keyed, Begins, Place, Waited, Closed, session,
        table, completion, loops, pipes, worker
  <1>15. ASSUME NEW c \in Caller, WatchStart(c) PROVE TInv'
    <2>1. /\ entry \in [Key -> Caller \cup {None}] /\ key[c] \in Key
          /\ seen \in [Caller -> Caller \cup {None}]
          /\ watch \in [Caller -> {"off", "starting", "watching", "firing", "over"}]
          /\ watch[c] = "starting" /\ cpc[c] = "returned" /\ Begins(c)
      BY <1>15 DEF WatchStart, TInv, TypeOK, Keyed
    <2>2. /\ seen' \in [Caller -> Caller \cup {None}]
          /\ watch' \in [Caller -> {"off", "starting", "watching", "firing", "over"}]
          /\ \A d \in Caller : d # c => seen'[d] = seen[d] /\ watch'[d] = watch[d]
      BY <1>15, <2>1 DEF WatchStart
    <2> QED BY <1>15, <2>1, <2>2 DEF TInv, TypeOK, Keyed, Begins, Place, WatchStart, Closed,
        session, table, completion, loops, pipes, worker
  <1>16. ASSUME NEW c \in Caller, WatchEnd(c) PROVE TInv'
    BY <1>16 DEF TInv, TypeOK, Keyed, Begins, Place, WatchEnd, Closed, session, table, completion,
        loops, pipes, worker
  <1>17. ASSUME NEW c \in Caller, WatchFire(c) PROVE TInv'
    BY <1>17 DEF TInv, TypeOK, Keyed, Begins, Place, WatchFire, Closed, Reason, table,
        completion, loops, pipes, worker
  <1>35. ASSUME NEW c \in Caller, WatchClose(c) PROVE TInv'
    BY <1>35 DEF TInv, TypeOK, Keyed, Begins, Place, WatchClose, CloseBy, Closed, table,
        completion, loops, pipes, worker
  <1>18. ASSUME ScanLine PROVE TInv'
    <2> DEFINE m == Head(output)
    <2>1. m \in Line /\ Tail(output) \in Seq(Line)
      BY <1>18 DEF ScanLine, TInv, TypeOK
    <2>2. /\ m.to \in Caller \cup {None} /\ m.task \in Key \cup {None} /\ m.is \in {"ok", "refused"}
      BY <2>1 DEF Line
    <2>3. Enter(m)
      BY <1>18 DEF ScanLine
    <2> HIDE DEF m
    <2>4. /\ entry \in [Key -> Caller \cup {None}]
          /\ done \in [Caller -> {"none", "open", "done", "forgotten", "word_exited"}]
      BY DEF TInv, TypeOK
    <2>5. /\ entry' \in [Key -> Caller \cup {None}]
          /\ done' \in [Caller -> {"none", "open", "done", "forgotten", "word_exited"}]
      <3>1. CASE m.task = None /\ UNCHANGED completion
        BY <2>4, <3>1 DEF completion
      <3>2. CASE m.task # None /\ m.to # None
        BY <2>2, <2>3, <2>4, <3>2 DEF Enter
      <3>3. CASE m.task # None /\ m.to = None
        BY <2>2, <2>3, <2>4, <3>3 DEF Enter
      <3> QED BY <2>3, <3>1, <3>2, <3>3 DEF Enter
    <2>6. \/ pending' = pending \ {m.to} /\ carried' = <<m.to, m.is>> /\ scan' = "send"
          \/ UNCHANGED <<pending, carried, scan>>
      BY <1>18 DEF ScanLine, m
    <2>7. /\ carried' \in (Caller \cup {None}) \X {"empty", "ok", "refused"}
          /\ pending' \subseteq Caller /\ scan' \in {"scan", "send", "break", "close", "over"}
      BY <2>2, <2>6 DEF TInv, TypeOK
    <2>8. output' \in Seq(Line)
      BY <1>18, <2>1 DEF ScanLine
    <2>9. UNCHANGED <<session, ch, observer, call, input, worker, ends>>
      BY <1>18 DEF ScanLine
    <2> QED BY <2>5, <2>7, <2>8, <2>9 DEF TInv, TypeOK, Keyed, Begins, Closed, session, call, worker
  <1>19. ASSUME SendResponse PROVE TInv'
    <2>1. ch' \in [Caller -> Outcome \cup {"empty"}]
      BY <1>19 DEF SendResponse, Outcome, TInv, TypeOK
    <2>2. carried' \in (Caller \cup {None}) \X {"empty", "ok", "refused"}
      BY <1>19 DEF SendResponse
    <2> QED BY <1>19, <2>1, <2>2 DEF TInv, TypeOK, Keyed, Begins, Place, SendResponse, Closed,
        session, completion, call, pipes, worker
  <1>20. ASSUME ScanEnd PROVE TInv'
    BY <1>20 DEF TInv, TypeOK, Keyed, Begins, Place, ScanEnd, Closed, Reason, table, completion,
        call, worker
  <1>21. ASSUME ScanBreak PROVE TInv'
    <2>1. Reason("worker_exited") \in Outcome
      BY Reasons DEF TInv, Outcome
    <2> QED BY <1>21, <2>1 DEF TInv, TypeOK, Keyed, Begins, Place, ScanBreak, Closed, BreakPending,
        session, completion, call, pipes, worker
  <1>22. ASSUME ScanClose PROVE TInv'
    BY <1>22 DEF TInv, TypeOK, Keyed, Begins, Place, ScanClose, Closed, CloseBy, table, completion,
        call, pipes, worker
  <1>23. ASSUME ScanGarbage PROVE TInv'
    <2>1. Reason("worker_protocol_error") \in Outcome
      BY Reasons DEF TInv, Outcome
    <2> QED BY <1>23, <2>1 DEF TInv, TypeOK, Keyed, Begins, Place, ScanGarbage, Closed, Ending,
        BreakPending, session, completion, call, pipes, worker
  <1>24. ASSUME ObserveExit PROVE TInv'
    <2>1. done \in [Caller -> {"none", "open", "done", "forgotten", "word_exited"}]
      BY DEF TInv, TypeOK
    <2>2. \/ observer' = "over" /\ UNCHANGED <<wordExit, done>>
          \/ /\ observer' = "break" /\ wordExit' = TRUE
             /\ done' = [d \in Caller |->
                  IF done[d] = "open" /\ \E k \in Key : entry[k] = d THEN "word_exited" ELSE done[d]]
      BY <1>24 DEF ObserveExit
    <2>3. done' \in [Caller -> {"none", "open", "done", "forgotten", "word_exited"}]
      BY <2>1, <2>2
    <2>4. observer' \in {"wait", "break", "over"}
      BY <2>2
    <2>5. wordExit' \in BOOLEAN
      BY <2>2 DEF TInv, TypeOK
    <2>6. UNCHANGED <<phase, closer, cause, table, entry, scan, carried, call, pipes, worker, ends>>
      BY <1>24 DEF ObserveExit
    <2> QED BY <2>3, <2>4, <2>5, <2>6 DEF TInv, TypeOK, Keyed, Begins, Closed, table, call, pipes,
        worker
  <1>25. ASSUME ObserveBreak PROVE TInv'
    <2>1. Reason("word_exited") \in Outcome
      BY Reasons DEF TInv, Outcome
    <2> QED BY <1>25, <2>1 DEF TInv, TypeOK, Keyed, Begins, Place, ObserveBreak, Closed,
        BreakPending, session, completion, call, pipes, worker
  <1>26. ASSUME ReadRequest PROVE TInv'
    <2> DEFINE c == Head(input)
    <2>1. c \in Caller /\ Tail(input) \in Seq(Caller)
      BY <1>26 DEF ReadRequest, TInv, TypeOK
    <2>2. alive /\ input' = Tail(input)
      BY <1>26 DEF ReadRequest
    <2>3. \/ Say(c, "refused") /\ UNCHANGED <<held, record, busy>>
          \/ ~Refuses(c) /\ Admit(c)
      BY <1>26 DEF ReadRequest
    <2>4. UNCHANGED <<session, table, completion, loops, call, alive, word, queue, running, finished, ends>>
      BY <1>26 DEF ReadRequest
    <2> HIDE DEF c
    <2>5. /\ Reply(c, None, "ok") \in Line /\ Reply(c, None, "refused") \in Line
          /\ Begins(c) => Reply(c, key[c], "ok") \in Line
      BY <2>1 DEF Reply, Line, TInv, Keyed
    <2>6. output \in Seq(Line)
      BY DEF TInv, TypeOK
    <2>7. /\ output' \in Seq(Line)
          /\ held' \in Caller \cup {None}
      <3>1. \/ output' = output \/ \E m \in Line : output' = Append(output, m)
        BY <2>3, <2>5 DEF Admit, Say
      <3>2. held' \in {held, c}
        BY <2>3 DEF Admit
      <3>3. held \in Caller \cup {None}
        BY DEF TInv, TypeOK
      <3> QED BY <2>1, <2>6, <3>1, <3>2, <3>3
    <2>8. /\ record \in [Key -> {"absent", "unfinished", "completed"}]
          /\ busy \subseteq Key /\ \A k \in busy : record[k] = "unfinished"
          /\ Begins(c) => key[c] \in Key
      BY <2>1 DEF TInv, TypeOK, Keyed
    <2>9. /\ record' \in [Key -> {"absent", "unfinished", "completed"}]
          /\ busy' \subseteq Key /\ \A k \in busy' : record'[k] = "unfinished"
      BY <2>3, <2>8 DEF Admit, Refuses
    <2> QED BY <2>1, <2>2, <2>4, <2>7, <2>9 DEF TInv, TypeOK, Keyed, Begins, Closed, session,
        table, completion, loops, call
  <1>27. ASSUME Enqueue PROVE TInv'
    BY <1>27 DEF TInv, TypeOK, Keyed, Begins, Place, Enqueue, Closed, NoQueue, Nobody, LaneOf,
        Lane, session, table, completion, loops, call, pipes
  <1>28. ASSUME NEW l \in Lane, Take(l) PROVE TInv'
    BY <1>28 DEF TInv, TypeOK, Keyed, Begins, Place, Take, Closed, NoQueue, Nobody, session, table,
        completion, loops, call, pipes
  <1>29. ASSUME NEW l \in Lane, Finish(l) PROVE TInv'
    <2>1. /\ record' \in [Key -> {"absent", "unfinished", "completed"}] /\ busy' \subseteq Key
          /\ \A k \in busy' : record'[k] = "unfinished"
          /\ finished' \subseteq Lane /\ \A k \in finished' : running'[k] # None
      BY <1>29 DEF Finish, TInv, TypeOK, Keyed
    <2>2. alive
      BY <1>29 DEF Finish
    <2> QED BY <1>29, <2>1, <2>2 DEF TInv, TypeOK, Keyed, Begins, Place, Finish, Closed, session,
        table, completion, loops, call, pipes
  <1>30. ASSUME NEW l \in Lane, Emit(l) PROVE TInv'
    <2>1. PICK c \in Caller : c = running[l]
      BY <1>30 DEF Emit, TInv, TypeOK, Keyed
    <2>2. Begins(c) => Completion(key[c]) \in Line
      BY DEF Completion, Line, TInv, Keyed
    <2>3. Reply(c, None, "ok") \in Line
      BY DEF Reply, Line
    <2>4. PICK m \in Line : output' = Append(output, m)
      BY <1>30, <2>1, <2>2, <2>3 DEF Emit
    <2>5. output' \in Seq(Line)
      BY <2>4 DEF TInv, TypeOK
    <2>6. /\ running' \in [Lane -> Caller \cup {None}] /\ finished' \subseteq Lane
          /\ \A k \in finished' : running'[k] # None
      BY <1>30 DEF Emit, TInv, TypeOK, Keyed
    <2>7. alive
      BY <1>30 DEF Emit
    <2> QED BY <1>30, <2>5, <2>6, <2>7 DEF TInv, TypeOK, Keyed, Begins, Place, Emit, Closed,
        session, table, completion, loops, call
  <1>31. ASSUME WorkerExit PROVE TInv'
    <2>1. WorkerEnds
      BY <1>31 DEF WorkerExit
    <2>2. /\ queue' \in [Lane -> Seq(Caller)]
          /\ running' \in [Lane -> Caller \cup {None}]
          /\ record' \in [Key -> {"absent", "unfinished", "completed"}]
          /\ busy' = {} /\ alive' = FALSE /\ held' = None /\ queue' = NoQueue /\ running' = Nobody
          /\ input' \in Seq(Caller) /\ finished' = {}
      BY <2>1, Nothing DEF WorkerEnds
    <2>3. ends' \in 0..MaxEnds
      BY <1>31 DEF WorkerExit, Ending, TInv, TypeOK
    <2>4. UNCHANGED <<session, table, completion, loops, call, output, word>>
      BY <1>31 DEF WorkerExit
    <2>5. alive' \in BOOLEAN /\ word' \in BOOLEAN
      BY <2>2, <2>4 DEF TInv, TypeOK
    <2>6. output' \in Seq(Line)
      BY <2>4 DEF TInv, TypeOK
    <2>7. Keyed'
      BY <2>2, <2>4 DEF TInv, Keyed, Begins, call
    <2>8. TypeOK'
      BY <2>2, <2>3, <2>4, <2>5, <2>6 DEF TInv, TypeOK, Closed, session, table, completion, loops,
          call
    <2> QED BY <2>7, <2>8 DEF TInv
  <1>32. ASSUME WordExit PROVE TInv'
    <2>1. word' \in BOOLEAN
      BY <1>32 DEF WordExit
    <2>2. ends' \in 0..MaxEnds
      BY <1>32 DEF WordExit, Ending, TInv, TypeOK
    <2>3. UNCHANGED <<session, table, completion, loops, call, pipes, alive, held, queue, running,
                      finished, record, busy>>
      BY <1>32 DEF WordExit
    <2> QED BY <2>1, <2>2, <2>3 DEF TInv, TypeOK, Keyed, Begins, Closed, session, table,
        completion, loops, call, pipes
  <1>33. ASSUME UNCHANGED vars PROVE TInv'
    BY <1>33 DEF TInv, TypeOK, Keyed, Begins, vars, session, table, completion, loops, call, pipes,
        worker, Closed
  <1> QED BY <1>1, <1>2, <1>3, <1>4, <1>5, <1>6, <1>7, <1>8, <1>9, <1>10, <1>11, <1>12, <1>13,
      <1>14, <1>15, <1>16, <1>17, <1>18, <1>19, <1>20, <1>21, <1>22, <1>23, <1>24, <1>25, <1>26,
      <1>27, <1>28, <1>29, <1>30, <1>31, <1>32, <1>33, <1>35 DEF Next, CallStep, watchTask, Close,
      readResponses, observeWordExit, HostMain

\* breakPending gives each pending call its only response.
LEMMA Broken ==
  ASSUME SInv, NEW e \in Outcome, BreakPending(e), UNCHANGED <<cpc, carried>>
  PROVE  \A d \in Caller : OnePlace(d)'
  <1>1. ch \in [Caller -> Outcome \cup {"empty"}]
    BY DEF SInv, TInv, TypeOK
  <1>2. \A d \in Caller : d \notin pending => ch'[d] = ch[d]
    BY DEF BreakPending
  <1>3. pending' = {}
    BY DEF BreakPending
  <1>4. \A d \in Caller : OnePlace(d)
    BY DEF SInv
  <1> QED BY <1>2, <1>3, <1>4 DEF OnePlace

\* No step gives a response a second place.
LEMMA PlacesStep ==
  ASSUME SInv, [Next]_vars
  PROVE  (\A d \in Caller : OnePlace(d))'
  <1> USE DEF SInv
  <1>1. ASSUME CloseEnd PROVE (\A d \in Caller : OnePlace(d))'
    <2>1. "session_closed" \in Outcome
      BY DEF Outcome
    <2>2. BreakPending("session_closed")
      BY <1>1 DEF CloseEnd
    <2>3. UNCHANGED <<cpc, carried>>
      BY <1>1 DEF CloseEnd, loops, call
    <2> QED BY <2>1, <2>2, <2>3, Broken
  <1>2. ASSUME NEW c \in Caller, Call(c) PROVE (\A d \in Caller : OnePlace(d))'
    <2>1. UNCHANGED <<pending, ch, carried>>
      BY <1>2 DEF Call, table, loops
    <2>2. /\ cpc[c] = "new"
          /\ \A d \in Caller : d # c => cpc'[d] = cpc[d]
      BY <1>2 DEF Call, Return, TInv, TypeOK
    <2> QED BY <2>1, <2>2 DEF OnePlace
  <1>3. ASSUME NEW c \in Caller, Register(c) PROVE (\A d \in Caller : OnePlace(d))'
    <2>1. /\ cpc[c] = "admitted" /\ pending' = pending \cup {c}
          /\ UNCHANGED <<ch, carried>>
          /\ cpc' = [cpc EXCEPT ![c] = "waiting"]
      BY <1>3 DEF Register, loops
    <2>2. cpc \in [Caller -> Place]
      BY DEF TInv, TypeOK
    <2> QED BY <2>1, <2>2 DEF OnePlace
  <1>4. ASSUME NEW c \in Caller, WriteFails(c) PROVE (\A d \in Caller : OnePlace(d))'
    <2>1. /\ pending' = pending \ {c}
          /\ UNCHANGED <<ch, carried>>
      BY <1>4 DEF WriteFails, loops
    <2>2. \A d \in Caller : cpc'[d] \in {"new", "admitted"} => cpc[d] \in {"new", "admitted"}
      BY <1>4 DEF WriteFails, Return, TInv, TypeOK
    <2> QED BY <2>1, <2>2 DEF OnePlace
  <1>5. ASSUME NEW c \in Caller, Receive(c) PROVE (\A d \in Caller : OnePlace(d))'
    <2>1. /\ ch' = [ch EXCEPT ![c] = "empty"]
          /\ UNCHANGED <<pending, carried>>
      BY <1>5 DEF Receive, loops
    <2>2. \A d \in Caller : cpc'[d] \in {"new", "admitted"} => cpc[d] \in {"new", "admitted"}
      BY <1>5 DEF Receive, Return, TInv, TypeOK
    <2>3. \A d \in Caller : ch'[d] \in {ch[d], "empty"}
      BY <2>1 DEF TInv, TypeOK
    <2> QED BY <2>1, <2>2, <2>3 DEF OnePlace
  <1>6. ASSUME NEW c \in Caller, Forget(c) PROVE (\A d \in Caller : OnePlace(d))'
    <2>1. UNCHANGED <<pending, ch, carried>>
      BY <1>6 DEF Forget, table, loops
    <2>2. \A d \in Caller : cpc'[d] \in {"new", "admitted"} => cpc[d] \in {"new", "admitted"}
      BY <1>6 DEF Forget, Return, TInv, TypeOK
    <2> QED BY <2>1, <2>2 DEF OnePlace
  <1>7. ASSUME NEW c \in Caller, Deadline(c) PROVE (\A d \in Caller : OnePlace(d))'
    <2>1. UNCHANGED <<pending, ch, carried>>
      BY <1>7 DEF Deadline, table, loops
    <2>2. \A d \in Caller : cpc'[d] \in {"new", "admitted"} => cpc[d] \in {"new", "admitted"}
      BY <1>7 DEF Deadline, Return, TInv, TypeOK
    <2> QED BY <2>1, <2>2 DEF OnePlace
  <1>8. ASSUME NEW c \in Caller, DeadlineEnd(c) PROVE (\A d \in Caller : OnePlace(d))'
    <2>1. UNCHANGED <<pending, ch, carried>>
      BY <1>8 DEF DeadlineEnd, table, loops
    <2>2. \A d \in Caller : cpc'[d] \in {"new", "admitted"} => cpc[d] \in {"new", "admitted"}
      BY <1>8 DEF DeadlineEnd, Return, TInv, TypeOK
    <2> QED BY <2>1, <2>2 DEF OnePlace
  <1>9. ASSUME NEW c \in Caller, SeesClosed(c) PROVE (\A d \in Caller : OnePlace(d))'
    <2>1. UNCHANGED <<pending, ch, carried>>
      BY <1>9 DEF SeesClosed, table, loops
    <2>2. \A d \in Caller : cpc'[d] \in {"new", "admitted"} => cpc[d] \in {"new", "admitted"}
      BY <1>9 DEF SeesClosed, Return, TInv, TypeOK
    <2> QED BY <2>1, <2>2 DEF OnePlace
  <1>10. ASSUME NEW c \in Caller, WaitTask(c) PROVE (\A d \in Caller : OnePlace(d))'
    <2>1. UNCHANGED <<pending, ch, carried>>
      BY <1>10 DEF WaitTask, table, loops
    <2>2. /\ cpc[c] = "new"
          /\ \A d \in Caller : d # c => cpc'[d] = cpc[d]
      BY <1>10 DEF WaitTask, Return, TInv, TypeOK
    <2> QED BY <2>1, <2>2 DEF OnePlace
  <1>11. ASSUME NEW c \in Caller, Waited(c) PROVE (\A d \in Caller : OnePlace(d))'
    <2>1. UNCHANGED <<pending, ch, carried>>
      BY <1>11 DEF Waited, table, loops
    <2>2. \A d \in Caller : cpc'[d] \in {"new", "admitted"} => cpc[d] \in {"new", "admitted"}
      BY <1>11 DEF Waited, Return, TInv, TypeOK
    <2> QED BY <2>1, <2>2 DEF OnePlace
  <1>12. ASSUME ScanLine PROVE (\A d \in Caller : OnePlace(d))'
    <2> DEFINE m == Head(output)
    <2>1. \/ m.to \in pending /\ pending' = pending \ {m.to} /\ carried' = <<m.to, m.is>>
          \/ UNCHANGED <<pending, carried>>
      BY <1>12 DEF ScanLine
    <2>2. UNCHANGED <<ch, cpc>>
      BY <1>12 DEF ScanLine, call
    <2> HIDE DEF m
    <2>3. CASE UNCHANGED <<pending, carried>>
      BY <2>2, <2>3 DEF OnePlace
    <2>4. CASE m.to \in pending /\ pending' = pending \ {m.to} /\ carried' = <<m.to, m.is>>
      <3>1. carried'[1] = m.to
        BY <2>4
      <3> QED BY <2>2, <2>4, <3>1 DEF OnePlace
    <2> QED BY <2>1, <2>3, <2>4
  <1>13. ASSUME SendResponse PROVE (\A d \in Caller : OnePlace(d))'
    <2>1. /\ ch' = [ch EXCEPT ![carried[1]] = carried[2]]
          /\ carried' = <<None, "empty">> /\ UNCHANGED <<pending, cpc>>
      BY <1>13 DEF SendResponse, call
    <2>2. carried'[1] = None
      BY <2>1
    <2>3. \A d \in Caller : d # carried[1] => ch'[d] = ch[d]
      BY <2>1 DEF TInv, TypeOK
    <2> QED BY <2>1, <2>2, <2>3, NoneAssumption DEF OnePlace, Key
  <1>14. ASSUME ScanBreak PROVE (\A d \in Caller : OnePlace(d))'
    <2>1. "worker_exited" \in Outcome
      BY DEF Outcome
    <2>2. BreakPending("worker_exited")
      BY <1>14 DEF ScanBreak
    <2>3. UNCHANGED <<cpc, carried>>
      BY <1>14 DEF ScanBreak, call
    <2> QED BY <2>1, <2>2, <2>3, Broken
  <1>15. ASSUME ScanGarbage PROVE (\A d \in Caller : OnePlace(d))'
    <2>1. "worker_protocol_error" \in Outcome
      BY DEF Outcome
    <2>2. BreakPending("worker_protocol_error")
      BY <1>15 DEF ScanGarbage
    <2>3. UNCHANGED <<cpc, carried>>
      BY <1>15 DEF ScanGarbage, call
    <2> QED BY <2>1, <2>2, <2>3, Broken
  <1>16. ASSUME ObserveBreak PROVE (\A d \in Caller : OnePlace(d))'
    <2>1. "word_exited" \in Outcome
      BY DEF Outcome
    <2>2. BreakPending("word_exited")
      BY <1>16 DEF ObserveBreak
    <2>3. UNCHANGED <<cpc, carried>>
      BY <1>16 DEF ObserveBreak, call
    <2> QED BY <2>1, <2>2, <2>3, Broken
  <1>17. ASSUME UNCHANGED <<pending, ch, carried, cpc>> PROVE (\A d \in Caller : OnePlace(d))'
    BY <1>17 DEF SInv, OnePlace
  <1>18. ASSUME Stop PROVE (\A d \in Caller : OnePlace(d))'
    BY <1>18, <1>17 DEF Stop, table, completion, loops, call, pipes, worker
  <1>19. ASSUME KillJob PROVE (\A d \in Caller : OnePlace(d))'
    BY <1>19, <1>17 DEF KillJob, table, completion, loops, call
  <1>20. ASSUME NEW c \in Caller, Write(c) PROVE (\A d \in Caller : OnePlace(d))'
    BY <1>20, <1>17 DEF Write, session, table, completion, loops, worker
  <1>21. ASSUME NEW c \in Caller, WatchStart(c) PROVE (\A d \in Caller : OnePlace(d))'
    BY <1>21, <1>17 DEF WatchStart, session, table, completion, loops, pipes, worker
  <1>22. ASSUME NEW c \in Caller, WatchEnd(c) PROVE (\A d \in Caller : OnePlace(d))'
    BY <1>22, <1>17 DEF WatchEnd, session, table, completion, loops, pipes, worker
  <1>23. ASSUME NEW c \in Caller, WatchFire(c) PROVE (\A d \in Caller : OnePlace(d))'
    BY <1>23, <1>17 DEF WatchFire, table, completion, loops, pipes, worker
  <1>35. ASSUME NEW c \in Caller, WatchClose(c) PROVE (\A d \in Caller : OnePlace(d))'
    BY <1>35, <1>17 DEF WatchClose, table, completion, loops, pipes, worker
  <1>24. ASSUME ScanEnd PROVE (\A d \in Caller : OnePlace(d))'
    BY <1>24, <1>17 DEF ScanEnd, table, completion, call, worker
  <1>25. ASSUME ScanClose PROVE (\A d \in Caller : OnePlace(d))'
    BY <1>25, <1>17 DEF ScanClose, table, completion, call, pipes, worker
  <1>26. ASSUME ObserveExit PROVE (\A d \in Caller : OnePlace(d))'
    BY <1>26, <1>17 DEF ObserveExit, table, call, pipes, worker
  <1>27. ASSUME ReadRequest PROVE (\A d \in Caller : OnePlace(d))'
    BY <1>27, <1>17 DEF ReadRequest, session, table, completion, loops, call
  <1>28. ASSUME Enqueue PROVE (\A d \in Caller : OnePlace(d))'
    BY <1>28, <1>17 DEF Enqueue, session, table, completion, loops, call, pipes
  <1>29. ASSUME NEW l \in Lane, Take(l) PROVE (\A d \in Caller : OnePlace(d))'
    BY <1>29, <1>17 DEF Take, session, table, completion, loops, call, pipes
  <1>30. ASSUME NEW l \in Lane, Finish(l) PROVE (\A d \in Caller : OnePlace(d))'
    BY <1>30, <1>17 DEF Finish, session, table, completion, loops, call, pipes
  <1>31. ASSUME NEW l \in Lane, Emit(l) PROVE (\A d \in Caller : OnePlace(d))'
    BY <1>31, <1>17 DEF Emit, session, table, completion, loops, call
  <1>32. ASSUME WorkerExit PROVE (\A d \in Caller : OnePlace(d))'
    BY <1>32, <1>17 DEF WorkerExit, session, table, completion, loops, call
  <1>33. ASSUME WordExit PROVE (\A d \in Caller : OnePlace(d))'
    BY <1>33, <1>17 DEF WordExit, session, table, completion, loops, call, pipes
  <1>34. ASSUME UNCHANGED vars PROVE (\A d \in Caller : OnePlace(d))'
    BY <1>34, <1>17 DEF vars, session, table, loops, call
  <1> QED BY <1>1, <1>2, <1>3, <1>4, <1>5, <1>6, <1>7, <1>8, <1>9, <1>10, <1>11, <1>12, <1>13,
      <1>14, <1>15, <1>16, <1>18, <1>19, <1>20, <1>21, <1>22, <1>23, <1>24, <1>25, <1>26, <1>27,
      <1>28, <1>29, <1>30, <1>31, <1>32, <1>33, <1>34, <1>35 DEF Next, CallStep, watchTask, Close,
      readResponses, observeWordExit, HostMain

\* No step closes the session for a reason and leaves it unsaid.
LEMMA BlameStep ==
  ASSUME CInv, [Next]_vars
  PROVE  Blamed'
  <1> USE DEF CInv
  <1>1. ASSUME Stop PROVE Blamed'
    <2>1. UNCHANGED <<cause, scan, ch, result>>
      BY <1>1 DEF Stop, table, loops, call
    <2>2. \/ phase' = phase /\ closer' = closer
          \/ phase = "open" /\ phase' = "closing" /\ closer' = "stop"
      BY <1>1 DEF Stop, CloseBy, Closed
    <2>3. phase = "open" => closer = "none"
      BY DEF TInv, TypeOK, Closed
    <2> QED BY <2>1, <2>2, <2>3 DEF Blamed, Closed, EndCauses
  <1>2. ASSUME KillJob PROVE Blamed'
    <2>1. UNCHANGED <<closer, cause, scan, ch, result>> /\ phase' = "killed"
      BY <1>2 DEF KillJob, table, loops, call
    <2> QED BY <2>1 DEF Blamed, Closed, EndCauses
  <1>3. ASSUME CloseEnd PROVE Blamed'
    <2>1. UNCHANGED <<closer, cause, result, scan>> /\ Closed /\ Closed'
      BY <1>3 DEF CloseEnd, loops, call, Closed
    <2>2. \A d \in Caller : ch'[d] \in {ch[d], Reason("session_closed")}
      BY <1>3 DEF CloseEnd, BreakPending
    <2>3. cause # "none" => Reason("session_closed") = cause
      BY DEF Reason
    <2>4. closer \in {"stop", "deadline", "watchdog", "exit"}
      BY <2>1 DEF TInv, TypeOK
    <2> QED BY <2>1, <2>2, <2>3, <2>4 DEF Blamed, EndCauses
  <1>4. ASSUME NEW c \in Caller, Call(c) PROVE Blamed'
    <2>1. UNCHANGED <<phase, closer, cause, scan, ch>>
      BY <1>4 DEF Call, session, table, loops
    <2>2. \/ \A d \in Caller : result'[d] \in {result[d], "word_exited"}
          \/ Closed /\ \A d \in Caller : result'[d] \in {result[d], Reason("session_closed")}
      BY <1>4 DEF Call, Return, TInv, TypeOK
    <2>3. Closed => closer # "none" /\ closer \in {"none", "stop", "deadline", "watchdog", "exit"}
      BY DEF TInv, TypeOK
    <2>4. cause # "none" => Reason("session_closed") = cause
      BY DEF Reason
    <2> QED BY <2>1, <2>2, <2>3, <2>4 DEF Blamed, Closed, EndCauses
  <1>5. ASSUME NEW c \in Caller, WriteFails(c) PROVE Blamed'
    <2>1. UNCHANGED <<phase, closer, cause, scan, ch>>
      BY <1>5 DEF WriteFails, session, loops
    <2>2. \A d \in Caller : result'[d] \in {result[d], "write_error"}
      BY <1>5 DEF WriteFails, Return, TInv, TypeOK
    <2> QED BY <2>1, <2>2 DEF Blamed, Closed, EndCauses
  <1>6. ASSUME NEW c \in Caller, Receive(c) PROVE Blamed'
    <2>1. UNCHANGED <<phase, closer, cause, scan>>
      BY <1>6 DEF Receive, session, loops
    <2>2. \A d \in Caller : ch'[d] \in {ch[d], "empty"} /\ result'[d] \in {result[d], ch[d]}
      BY <1>6 DEF Receive, Return, TInv, TypeOK
    <2> QED BY <2>1, <2>2 DEF Blamed, Closed, EndCauses
  <1>7. ASSUME NEW c \in Caller, Forget(c) PROVE Blamed'
    <2>1. UNCHANGED <<phase, closer, cause, scan, ch>>
      BY <1>7 DEF Forget, session, table, loops
    <2>2. \A d \in Caller : result'[d] \in {result[d], "ok"}
      BY <1>7 DEF Forget, Return, TInv, TypeOK
    <2> QED BY <2>1, <2>2 DEF Blamed, Closed, EndCauses
  <1>8. ASSUME NEW c \in Caller, Deadline(c) PROVE Blamed'
    <2>1. UNCHANGED <<cause, scan, ch, result>>
      BY <1>8 DEF Deadline, table, loops
    <2>2. \/ phase' = phase /\ closer' = closer
          \/ phase = "open" /\ phase' = "closing" /\ closer' = "deadline"
      BY <1>8 DEF Deadline, CloseBy, Closed
    <2>3. phase = "open" => closer = "none"
      BY DEF TInv, TypeOK, Closed
    <2> QED BY <2>1, <2>2, <2>3 DEF Blamed, Closed, EndCauses
  <1>9. ASSUME NEW c \in Caller, DeadlineEnd(c) PROVE Blamed'
    <2>1. UNCHANGED <<phase, closer, cause, scan, ch>>
      BY <1>9 DEF DeadlineEnd, session, table, loops
    <2>2. \A d \in Caller : result'[d] \in {result[d], "native_deadline"}
      BY <1>9 DEF DeadlineEnd, Return, TInv, TypeOK
    <2> QED BY <2>1, <2>2 DEF Blamed, Closed, EndCauses
  <1>10. ASSUME NEW c \in Caller, SeesClosed(c) PROVE Blamed'
    <2>1. UNCHANGED <<phase, closer, cause, scan, ch>>
      BY <1>10 DEF SeesClosed, session, table, loops
    <2>2. \A d \in Caller : result'[d] \in {result[d], Reason("session_closed")}
      BY <1>10 DEF SeesClosed, Return, TInv, TypeOK
    <2>3. closer # "none" /\ closer \in {"none", "stop", "deadline", "watchdog", "exit"}
      BY <1>10 DEF SeesClosed, TInv, TypeOK
    <2>4. cause # "none" => Reason("session_closed") = cause
      BY DEF Reason
    <2> QED BY <2>1, <2>2, <2>3, <2>4 DEF Blamed, Closed, EndCauses
  <1>11. ASSUME NEW c \in Caller, WaitTask(c) PROVE Blamed'
    <2>1. UNCHANGED <<phase, closer, cause, scan, ch>>
      BY <1>11 DEF WaitTask, session, table, loops
    <2>2. \A d \in Caller : result'[d] \in {result[d], "unknown"}
      BY <1>11 DEF WaitTask, Return, TInv, TypeOK
    <2> QED BY <2>1, <2>2 DEF Blamed, Closed, EndCauses
  <1>12. ASSUME NEW c \in Caller, Waited(c) PROVE Blamed'
    <2>1. UNCHANGED <<phase, closer, cause, scan, ch>>
      BY <1>12 DEF Waited, session, table, loops
    <2>2. seen[c] \in Caller /\ done \in [Caller -> {"none", "open", "done", "forgotten", "word_exited"}]
      BY <1>12 DEF Waited, TInv, TypeOK, Keyed
    <2>3. \A d \in Caller : result'[d] \in {result[d], done[seen[c]], "deadline"}
      BY <1>12 DEF Waited, Return, TInv, TypeOK
    <2> QED BY <2>1, <2>2, <2>3 DEF Blamed, Closed, EndCauses
  <1>13. ASSUME NEW c \in Caller, WatchFire(c) PROVE Blamed'
    <2>1. UNCHANGED <<phase, closer, scan, ch, result>>
      BY <1>13 DEF WatchFire, table, loops
    <2>2. cause' # "none" /\ (cause # "none" => cause' = cause)
      BY <1>13 DEF WatchFire, Reason
    <2> QED BY <2>1, <2>2 DEF Blamed, Closed, EndCauses
  <1>35. ASSUME NEW c \in Caller, WatchClose(c) PROVE Blamed'
    <2>1. UNCHANGED <<cause, scan, ch, result>>
      BY <1>35 DEF WatchClose, table, loops
    <2>2. \/ phase' = phase /\ closer' = closer
          \/ phase = "open" /\ phase' = "closing" /\ closer' = "watchdog"
      BY <1>35 DEF WatchClose, CloseBy, Closed
    <2>3. phase = "open" => closer = "none"
      BY DEF TInv, TypeOK, Closed
    <2>4. cause # "none"
      BY <1>35 DEF WatchClose, Fired
    <2> QED BY <2>1, <2>2, <2>3, <2>4 DEF Blamed, Closed, EndCauses
  <1>14. ASSUME ScanLine PROVE Blamed'
    <2>1. UNCHANGED <<phase, closer, cause, ch, result>>
      BY <1>14 DEF ScanLine, session, call
    <2>2. scan' \in {scan, "send"}
      BY <1>14 DEF ScanLine
    <2> QED BY <2>1, <2>2 DEF Blamed, Closed, EndCauses
  <1>15. ASSUME SendResponse PROVE Blamed'
    <2>1. UNCHANGED <<phase, closer, cause, result>>
      BY <1>15 DEF SendResponse, session, call
    <2>2. scan' = "scan"
      BY <1>15 DEF SendResponse
    <2>3. carried[2] \notin EndCauses
      BY DEF TInv, TypeOK, EndCauses
    <2>4. \A d \in Caller : ch'[d] \in {ch[d], carried[2]}
      BY <1>15 DEF SendResponse, TInv, TypeOK
    <2> QED BY <2>1, <2>2, <2>3, <2>4 DEF Blamed, Closed, EndCauses
  <1>16. ASSUME ScanEnd PROVE Blamed'
    <2>1. UNCHANGED <<phase, closer, ch, result>>
      BY <1>16 DEF ScanEnd, table, call
    <2>2. /\ Closed \/ cause' # "none"
          /\ cause # "none" => cause' = cause
      BY <1>16 DEF ScanEnd, Reason
    <2> QED BY <2>1, <2>2 DEF Blamed, Closed, EndCauses
  <1>17. ASSUME ScanBreak PROVE Blamed'
    <2>0. scan = "break"
      BY <1>17 DEF ScanBreak
    <2>1. UNCHANGED <<closer, cause, result>> /\ (Closed => Closed')
      BY <1>17 DEF ScanBreak, session, call, Closed
    <2>2. scan' \in {"close"}
      BY <1>17 DEF ScanBreak, loops
    <2>3. \A d \in Caller : ch'[d] \in {ch[d], Reason("worker_exited")}
      BY <1>17 DEF ScanBreak, BreakPending
    <2>4. cause # "none" => Reason("worker_exited") = cause
      BY DEF Reason
    <2>5. closer \notin {"stop", "deadline"} => cause # "none"
      BY <2>0 DEF Blamed, TInv, TypeOK
    <2> QED BY <2>0, <2>1, <2>2, <2>3, <2>4, <2>5 DEF Blamed, EndCauses
  <1>18. ASSUME ScanClose PROVE Blamed'
    <2>1. UNCHANGED <<cause, ch, result>>
      BY <1>18 DEF ScanClose, table, call
    <2>2. \/ phase' = phase /\ closer' = closer
          \/ phase = "open" /\ phase' = "closing" /\ closer' = "exit"
      BY <1>18 DEF ScanClose, CloseBy, Closed
    <2>3. phase = "open" => closer = "none"
      BY DEF TInv, TypeOK, Closed
    <2>4. scan = "close" /\ scan' = "over"
      BY <1>18 DEF ScanClose
    <2> QED BY <2>1, <2>2, <2>3, <2>4 DEF Blamed, Closed, EndCauses
  <1>19. ASSUME ScanGarbage PROVE Blamed'
    <2>1. UNCHANGED <<closer, cause, result>> /\ (Closed => Closed')
      BY <1>19 DEF ScanGarbage, session, call, Closed
    <2>2. scan' \in {"over"}
      BY <1>19 DEF ScanGarbage, loops
    <2>3. \A d \in Caller : ch'[d] \in {ch[d], Reason("worker_protocol_error")}
      BY <1>19 DEF ScanGarbage, BreakPending
    <2>4. Reason("worker_protocol_error") = cause \/ Reason("worker_protocol_error") \notin EndCauses
      BY DEF Reason, EndCauses
    <2> QED BY <2>1, <2>2, <2>3, <2>4 DEF Blamed, EndCauses
  <1>20. ASSUME ObserveBreak PROVE Blamed'
    <2>1. UNCHANGED <<closer, cause, result>> /\ (Closed => Closed')
      BY <1>20 DEF ObserveBreak, session, call, Closed
    <2>2. scan' \in {scan}
      BY <1>20 DEF ObserveBreak, loops
    <2>3. \A d \in Caller : ch'[d] \in {ch[d], Reason("word_exited")}
      BY <1>20 DEF ObserveBreak, BreakPending
    <2>4. Reason("word_exited") = cause \/ Reason("word_exited") \notin EndCauses
      BY DEF Reason, EndCauses
    <2> QED BY <2>1, <2>2, <2>3, <2>4 DEF Blamed, EndCauses
  <1>21. ASSUME UNCHANGED <<phase, closer, cause, scan, ch, result>> PROVE Blamed'
    BY <1>21 DEF Blamed, Closed, EndCauses
  <1>22. ASSUME NEW c \in Caller, Register(c) PROVE Blamed'
    BY <1>22, <1>21 DEF Register, session, completion, loops, pipes, worker
  <1>23. ASSUME NEW c \in Caller, Write(c) PROVE Blamed'
    BY <1>23, <1>21 DEF Write, session, table, completion, loops, worker
  <1>24. ASSUME NEW c \in Caller, WatchStart(c) PROVE Blamed'
    BY <1>24, <1>21 DEF WatchStart, session, table, completion, loops, pipes, worker
  <1>25. ASSUME NEW c \in Caller, WatchEnd(c) PROVE Blamed'
    BY <1>25, <1>21 DEF WatchEnd, session, table, completion, loops, pipes, worker
  <1>26. ASSUME ObserveExit PROVE Blamed'
    BY <1>26, <1>21 DEF ObserveExit, table, call, pipes, worker
  <1>27. ASSUME ReadRequest PROVE Blamed'
    BY <1>27, <1>21 DEF ReadRequest, session, table, completion, loops, call
  <1>28. ASSUME Enqueue PROVE Blamed'
    BY <1>28, <1>21 DEF Enqueue, session, table, completion, loops, call, pipes
  <1>29. ASSUME NEW l \in Lane, Take(l) PROVE Blamed'
    BY <1>29, <1>21 DEF Take, session, table, completion, loops, call, pipes
  <1>30. ASSUME NEW l \in Lane, Finish(l) PROVE Blamed'
    BY <1>30, <1>21 DEF Finish, session, table, completion, loops, call, pipes
  <1>31. ASSUME NEW l \in Lane, Emit(l) PROVE Blamed'
    BY <1>31, <1>21 DEF Emit, session, table, completion, loops, call
  <1>32. ASSUME WorkerExit PROVE Blamed'
    BY <1>32, <1>21 DEF WorkerExit, session, table, completion, loops, call
  <1>33. ASSUME WordExit PROVE Blamed'
    BY <1>33, <1>21 DEF WordExit, session, table, completion, loops, call, pipes
  <1>34. ASSUME UNCHANGED vars PROVE Blamed'
    BY <1>34, <1>21 DEF vars, session, table, loops, call
  <1> QED BY <1>1, <1>2, <1>3, <1>4, <1>5, <1>6, <1>7, <1>8, <1>9, <1>10, <1>11, <1>12, <1>13,
      <1>14, <1>15, <1>16, <1>17, <1>18, <1>19, <1>20, <1>22, <1>23, <1>24, <1>25, <1>26, <1>27,
      <1>28, <1>29, <1>30, <1>31, <1>32, <1>33, <1>34, <1>35 DEF Next, CallStep, watchTask, Close,
      readResponses, observeWordExit, HostMain

\* A cause that is written down stays, and only a timer that fires writes one.
LEMMA FiredStep ==
  ASSUME CInv, [Next]_vars
  PROVE  Fired'
  <1> DEFINE Wrote == /\ cause # "none" => cause' = cause
                      /\ \A d \in Caller : watch'[d] = "firing" => watch[d] = "firing" \/ cause' # "none"
  <1>0. watch \in [Caller -> {"off", "starting", "watching", "firing", "over"}]
    BY DEF CInv, TInv, TypeOK
  <1>1. ASSUME NEW c \in Caller, Call(c) \/ WaitTask(c) PROVE Wrote
    BY <1>1 DEF Call, WaitTask, session
  <1>2. ASSUME NEW c \in Caller, CallStep(c) PROVE Wrote
    BY <1>0, <1>2 DEF CallStep, Register, Write, WriteFails, Receive, Forget, Deadline, DeadlineEnd,
       SeesClosed, Waited, session
  <1>3. ASSUME NEW c \in Caller, watchTask(c) PROVE Wrote
    BY <1>0, <1>3 DEF watchTask, WatchStart, WatchEnd, WatchFire, WatchClose, Reason, session
  <1>4. ASSUME Stop \/ Close \/ WorkerExit \/ WordExit \/ UNCHANGED vars PROVE Wrote
    BY <1>4 DEF Stop, Close, KillJob, CloseEnd, WorkerExit, WordExit, vars, call, session
  <1>5. ASSUME readResponses \/ observeWordExit PROVE Wrote
    BY <1>5 DEF readResponses, ScanLine, ScanGarbage, SendResponse, ScanEnd, ScanBreak, ScanClose,
       observeWordExit, ObserveExit, ObserveBreak, Reason, call, session
  <1>6. ASSUME HostMain PROVE Wrote
    BY <1>6 DEF HostMain, ReadRequest, Enqueue, Take, Finish, Emit, call, session
  <1>7. Wrote
    BY <1>1, <1>2, <1>3, <1>4, <1>5, <1>6 DEF Next
  <1> QED BY <1>7 DEF CInv, Fired

\* A session starts with nothing begun.
LEMMA Initially == Init => SInv /\ CInv
  <1> SUFFICES ASSUME Init PROVE SInv /\ CInv
    OBVIOUS
  <1>1. TypeOK
    <2>1. /\ queue \in [Lane -> Seq(Caller)] /\ running \in [Lane -> Caller \cup {None}]
          /\ record \in [Key -> {"absent", "unfinished", "completed"}]
      BY Nothing DEF Init
    <2>2. /\ alive \in BOOLEAN /\ word \in BOOLEAN /\ wordExit \in BOOLEAN
          /\ alive
      BY DEF Init
    <2>3. /\ input \in Seq(Caller) /\ output \in Seq(Line)
          /\ carried \in (Caller \cup {None}) \X {"empty", "ok", "refused"}
          /\ ends \in 0..MaxEnds
      BY BoundsAssumption DEF Init
    <2>4. /\ cpc \in [Caller -> Place] /\ result \in [Caller -> Result]
          /\ ch \in [Caller -> Outcome \cup {"empty"}]
      BY DEF Init, Place, Result
    <2> QED BY <2>1, <2>2, <2>3, <2>4 DEF Init, TypeOK, Closed
  <1>2. Keyed
    BY DEF Init, Keyed, Begins, Beginning
  <1>3. \A c \in Caller : OnePlace(c)
    BY NoneAssumption DEF Init, OnePlace, Key
  <1>4. Blamed /\ Fired
    BY DEF Init, Blamed, Fired, EndCauses
  <1> QED BY <1>1, <1>2, <1>3, <1>4 DEF SInv, CInv, TInv

\* The variables of every session keep their types; a worker that is gone holds
\* nothing, and what is busy is unfinished.
THEOREM TypeCorrect == Spec => []TypeOK
  <1>1. Init => TInv
    BY Initially DEF SInv
  <1>2. TInv /\ [Next]_vars => TInv'
    BY TypesStep
  <1>3. TInv => TypeOK
    BY DEF TInv
  <1> QED BY <1>1, <1>2, <1>3, PTL DEF Spec

\* No send of a response can block, whoever sends it.
THEOREM SendsNeverBlockAnybody == Spec => []SendsNeverBlock
  <1>1. Init => SInv
    BY Initially
  <1>2. SInv /\ [Next]_vars => SInv'
    BY TypesStep, PlacesStep DEF SInv
  <1>3. SInv => SendsNeverBlock
    <2> SUFFICES ASSUME SInv PROVE SendsNeverBlock
      OBVIOUS
    <2>1. pending \subseteq Caller /\ carried[1] \in Caller \cup {None}
      BY DEF SInv, TInv, TypeOK
    <2> QED BY <2>1 DEF SInv, OnePlace, SendsNeverBlock
  <1> QED BY <1>1, <1>2, <1>3, PTL DEF Spec

\* Unless it was stopped or a call's own deadline closed it, every call that the
\* end of a session cut short is told the cause that was written down first.
THEOREM CauseIsAlwaysReported == Spec => []CauseIsReported
  <1>1. Init => CInv
    BY Initially
  <1>2. CInv /\ [Next]_vars => CInv'
    BY TypesStep, BlameStep, FiredStep DEF CInv
  <1>3. CInv => CauseIsReported
    BY DEF CInv, Blamed, CauseIsReported, EndCauses
  <1> QED BY <1>1, <1>2, <1>3, PTL DEF Spec

-----------------------------------------------------------------------------
(* Where a request can be.  A call asks once, so its request is with the call,
   in the pipe, or behind the worker's reader; there, in one place of one lane.
   The theorems below rest on that and on what the worker's two tables say of
   the items it holds. *)

Taken(c) == \E l \in Lane : running[l] = c
Has(c) == held = c \/ Queued(c) \/ Taken(c)
Over(c) == ~Unread(c) /\ ~Item(c)

\* The reader has at most one request of every call, and a lane only its own.
Requests ==
  /\ \A c \in Caller : cpc[c] \in {"new", "admitted"} => writer[c] = "off"
  /\ \A i \in DOMAIN input : writer[input[i]] = "written"
  /\ \A i, j \in DOMAIN input : input[i] = input[j] => i = j
Items ==
  /\ \A c \in Caller : Has(c) => ~Unread(c) /\ kind[c] \in {"work", "ui"} \cup Beginning
  /\ \A l \in Lane : \A i \in DOMAIN queue[l] :
       LaneOf(queue[l][i]) = l /\ queue[l][i] # held /\ queue[l][i] # running[l]
  /\ \A l \in Lane : \A i, j \in DOMAIN queue[l] : queue[l][i] = queue[l][j] => i = j
  /\ \A l \in Lane : running[l] # None => LaneOf(running[l]) = l /\ running[l] # held

PlaceInv == TInv /\ Requests /\ Items

\* A step that neither asks the worker nor moves what it has to do.
Aside ==
  /\ UNCHANGED <<kind, key, writer, input, held, queue, running, finished, record, busy>>
  /\ \A c \in Caller : cpc'[c] \in {"new", "admitted"} => cpc[c] \in {"new", "admitted"}

\* A sequence and its last element.
LEMMA Appended ==
  ASSUME NEW S, NEW s \in Seq(S), NEW x \in S
  PROVE  /\ Append(s, x) \in Seq(S)
         /\ \A i \in DOMAIN s : i \in DOMAIN Append(s, x) /\ Append(s, x)[i] = s[i] /\ i < Len(s) + 1
         /\ \A i \in DOMAIN Append(s, x) : i \in DOMAIN s \/ (i = Len(s) + 1 /\ Append(s, x)[i] = x)
  OBVIOUS

\* A sequence without its first element.
LEMMA Tailed ==
  ASSUME NEW S, NEW s \in Seq(S), s # <<>>
  PROVE  /\ Tail(s) \in Seq(S) /\ Head(s) = s[1] /\ Head(s) \in S /\ 1 \in DOMAIN s
         /\ \A i \in DOMAIN Tail(s) : i \in Nat \ {0} /\ i + 1 \in DOMAIN s /\ Tail(s)[i] = s[i + 1]
  OBVIOUS

\* Nearly all steps of the parent are aside.
LEMMA StepsAside ==
  ASSUME TInv
  PROVE  /\ Stop \/ CloseEnd \/ readResponses \/ observeWordExit \/ WordExit \/ UNCHANGED vars => Aside
         /\ \A c \in Caller : WriteFails(c) \/ Receive(c) \/ Forget(c) \/ Deadline(c) => Aside
         /\ \A c \in Caller : DeadlineEnd(c) \/ SeesClosed(c) \/ Waited(c) \/ watchTask(c) => Aside
  <1> USE DEF Aside, TInv, TypeOK
  <1>1. Stop \/ CloseEnd \/ WordExit \/ UNCHANGED vars => Aside
    BY DEF Stop, CloseEnd, WordExit, vars, call, pipes, worker
  <1>2. readResponses => Aside
    BY DEF readResponses, ScanLine, ScanGarbage, SendResponse, ScanEnd, ScanBreak, ScanClose, call,
       pipes, worker
  <1>3. observeWordExit => Aside
    BY DEF observeWordExit, ObserveExit, ObserveBreak, call, pipes, worker
  <1>4. ASSUME NEW c \in Caller, watchTask(c) PROVE Aside
    BY <1>4 DEF watchTask, WatchStart, WatchEnd, WatchFire, WatchClose, pipes, worker
  <1>5. ASSUME NEW c \in Caller, \/ WriteFails(c) \/ Receive(c) \/ Forget(c) \/ Deadline(c)
                                \/ DeadlineEnd(c) \/ SeesClosed(c) \/ Waited(c)
        PROVE  Aside
    BY <1>5 DEF WriteFails, Receive, Forget, Deadline, DeadlineEnd, SeesClosed, Waited, Return,
       pipes, worker
  <1> QED BY <1>1, <1>2, <1>3, <1>4, <1>5

\* A call that has asked keeps its kind and its key: a step changes those of a
\* call that is new.
LEMMA Settled ==
  ASSUME PlaceInv, [Next]_vars, NEW c \in Caller, writer[c] # "off" \/ Has(c)
  PROVE  kind'[c] = kind[c] /\ key'[c] = key[c] /\ (Begins(c)' <=> Begins(c)) /\ LaneOf(c)' = LaneOf(c)
  <1>1. writer[c] # "off" /\ cpc[c] # "new"
    BY DEF PlaceInv, Requests, Items, Unread
  <1>2. kind'[c] = kind[c] /\ key'[c] = key[c]
    <2>1. CASE Aside
      BY <2>1 DEF Aside
    <2>2. ASSUME NEW d \in Caller, Call(d) \/ WaitTask(d) PROVE kind'[c] = kind[c] /\ key'[c] = key[c]
      BY <1>1, <2>2 DEF Call, WaitTask, PlaceInv, TInv, TypeOK
    <2>3. ASSUME NEW d \in Caller, Register(d) \/ Write(d) PROVE kind'[c] = kind[c] /\ key'[c] = key[c]
      BY <2>3 DEF Register, Write
    <2>4. CASE KillJob \/ HostMain \/ WorkerExit
      BY <2>4 DEF KillJob, WorkerExit, HostMain, ReadRequest, Enqueue, Take, Finish, Emit, call
    <2> QED BY <2>1, <2>2, <2>3, <2>4, StepsAside DEF PlaceInv, Next, CallStep, Close
  <1> QED BY <1>2 DEF Begins, LaneOf

\* The request of a call, and the worker's item of it, stay in one place.
LEMMA PlaceStep == PlaceInv /\ [Next]_vars => PlaceInv'
  <1> SUFFICES ASSUME PlaceInv, [Next]_vars PROVE Requests' /\ Items'
    BY TypesStep DEF PlaceInv
  <1>0. /\ input \in Seq(Caller) /\ queue \in [Lane -> Seq(Caller)] /\ held \in Caller \cup {None}
        /\ running \in [Lane -> Caller \cup {None}] /\ cpc \in [Caller -> Place]
        /\ writer \in [Caller -> {"off", "writing", "written", "failed"}]
        /\ None \notin Caller
    BY NoneAssumption DEF PlaceInv, TInv, TypeOK, Key
  <1>1. CASE Aside
    BY <1>1 DEF Aside, PlaceInv, Requests, Items, Has, Unread, Asked, Queued, Taken, LaneOf
  <1>2. ASSUME NEW c \in Caller, Call(c) \/ WaitTask(c) PROVE Requests' /\ Items'
    <2>1. /\ cpc[c] = "new" /\ \A d \in Caller : d # c => cpc'[d] = cpc[d] /\ kind'[d] = kind[d]
          /\ UNCHANGED <<writer, input, held, queue, running>>
      BY <1>2 DEF Call, WaitTask, Return, PlaceInv, TInv, TypeOK, pipes, worker
    <2>2. writer[c] = "off" /\ ~Has(c)
      BY <2>1 DEF PlaceInv, Requests, Items, Unread
    <2>3. \A d \in Caller : Has(d) => LaneOf(d)' = LaneOf(d)
      BY <2>1, <2>2 DEF LaneOf
    <2>4. Requests'
      BY <2>1, <2>2 DEF PlaceInv, Requests
    <2>5. \A d \in Caller : (Has(d)' <=> Has(d)) /\ (Unread(d)' <=> Unread(d))
      BY <2>1 DEF Has, Unread, Asked, Queued, Taken
    <2>6. \A d \in Caller : Has(d) => kind'[d] = kind[d]
      BY <2>1, <2>2
    <2>7. ASSUME NEW l \in Lane, NEW i \in DOMAIN queue[l] PROVE LaneOf(queue[l][i])' = l
      <3>1. queue[l][i] \in Caller /\ Has(queue[l][i])
        BY <1>0, <2>7 DEF Has, Queued
      <3>2. LaneOf(queue[l][i]) = l
        BY <2>7 DEF PlaceInv, Items
      <3> DEFINE d == queue[l][i]
      <3>3. kind'[d] = kind[d] /\ queue'[l][i] = queue[l][i]
        BY <2>1, <2>6, <3>1
      <3> QED BY <3>2, <3>3 DEF LaneOf
    <2>8. ASSUME NEW l \in Lane, running[l] # None PROVE LaneOf(running[l])' = l
      <3>1. running[l] \in Caller /\ Has(running[l])
        BY <1>0, <2>8 DEF Has, Taken
      <3>2. LaneOf(running[l]) = l
        BY <2>8 DEF PlaceInv, Items
      <3>3. kind'[running[l]] = kind[running[l]] /\ running'[l] = running[l]
        BY <2>1, <2>6, <3>1
      <3> QED BY <3>2, <3>3 DEF LaneOf
    <2>9. Items'
      BY <2>1, <2>5, <2>6, <2>7, <2>8 DEF PlaceInv, Items
    <2> QED BY <2>4, <2>9
  <1>3. ASSUME NEW c \in Caller, Register(c) PROVE Requests' /\ Items'
    <2>1. /\ cpc[c] = "admitted" /\ cpc' = [cpc EXCEPT ![c] = "waiting"]
          /\ writer' = [writer EXCEPT ![c] = "writing"] /\ writer[c] = "off"
          /\ UNCHANGED <<kind, input, held, queue, running>>
      BY <1>3 DEF Register, pipes, worker, PlaceInv, Requests
    <2>2. \A i \in DOMAIN input : input[i] \in Caller /\ input[i] # c
      BY <1>0, <2>1 DEF PlaceInv, Requests
    <2>3. Requests'
      BY <1>0, <2>1, <2>2 DEF PlaceInv, Requests
    <2>4. \A d \in Caller : (Has(d)' <=> Has(d)) /\ (Unread(d)' <=> Unread(d))
      BY <1>0, <2>1 DEF Has, Unread, Asked, Queued, Taken
    <2> QED BY <2>1, <2>3, <2>4 DEF PlaceInv, Items, LaneOf
  <1>4. ASSUME NEW c \in Caller, Write(c) PROVE Requests' /\ Items'
    <2>1. /\ writer[c] = "writing" /\ UNCHANGED <<cpc, kind, held, queue, running>>
          /\ \/ input' = Append(input, c) /\ writer' = [writer EXCEPT ![c] = "written"]
             \/ input' = input /\ writer' = [writer EXCEPT ![c] = "failed"]
      BY <1>4 DEF Write, worker
    <2>2. \A i \in DOMAIN input : input[i] \in Caller /\ input[i] # c
      BY <1>0, <2>1 DEF PlaceInv, Requests
    <2>3. cpc[c] \notin {"new", "admitted"}
      BY <2>1 DEF PlaceInv, Requests
    <2>4. Requests'
      <3>1. CASE input' = input /\ writer' = [writer EXCEPT ![c] = "failed"]
        BY <1>0, <2>1, <2>2, <2>3, <3>1 DEF PlaceInv, Requests
      <3>2. CASE input' = Append(input, c) /\ writer' = [writer EXCEPT ![c] = "written"]
        <4>1. \A i \in DOMAIN input' : \/ i \in DOMAIN input /\ input'[i] = input[i] /\ i < Len(input) + 1
                                       \/ i = Len(input) + 1 /\ input'[i] = c
          BY <1>0, <3>2, Appended
        <4> QED BY <1>0, <2>1, <2>2, <2>3, <3>2, <4>1 DEF PlaceInv, Requests
      <3> QED BY <2>1, <3>1, <3>2
    <2>5. \A d \in Caller : (Has(d)' <=> Has(d)) /\ (Unread(d)' => Unread(d))
      <3>1. \A i \in DOMAIN input' : (i \in DOMAIN input /\ input'[i] = input[i]) \/ input'[i] = c
        BY <1>0, <2>1, Appended
      <3>2. \A d \in Caller : Asked(d)' => Asked(d) \/ d = c
        BY <3>1 DEF Asked
      <3> QED BY <1>0, <2>1, <3>2 DEF Has, Unread, Queued, Taken
    <2> QED BY <2>1, <2>4, <2>5 DEF PlaceInv, Items, LaneOf
  <1>5. ASSUME ReadRequest PROVE Requests' /\ Items'
    <2>0. PICK c \in Caller : c = Head(input) /\ input # <<>>
      BY <1>0, <1>5, Tailed DEF ReadRequest
    <2>1. /\ held = None /\ held' \in {c, None} /\ input' = Tail(input) /\ input # <<>>
          /\ held' = c => kind[c] \in {"work", "ui"} \cup Beginning
          /\ UNCHANGED <<cpc, kind, writer, queue, running>>
      BY <1>0, <1>5, <2>0 DEF ReadRequest, Admit, Begins, call
    <2>2. /\ c = input[1] /\ 1 \in DOMAIN input
          /\ \A i \in DOMAIN input' : i \in Nat \ {0} /\ i + 1 \in DOMAIN input /\ input'[i] = input[i + 1]
      BY <1>0, <2>0, <2>1, Tailed
    <2>3. Requests'
      BY <2>1, <2>2 DEF PlaceInv, Requests
    <2>4. \A i \in DOMAIN input' : input'[i] # c
      <3> SUFFICES ASSUME NEW i \in DOMAIN input', input'[i] = c PROVE FALSE
        OBVIOUS
      <3>1. i \in Nat \ {0} /\ i + 1 \in DOMAIN input /\ input[i + 1] = input[1]
        BY <2>2
      <3>2. i + 1 = 1
        BY <2>2, <3>1 DEF PlaceInv, Requests
      <3> QED BY <3>1, <3>2
    <2>5. Unread(c) /\ ~Unread(c)'
      <3>1. writer[c] = "written" /\ Asked(c)
        BY <2>2 DEF Asked, PlaceInv, Requests
      <3>2. ~Asked(c)'
        BY <2>4 DEF Asked
      <3> QED BY <2>1, <3>1, <3>2 DEF Unread
    <2>6. \A d \in Caller : Unread(d)' => Unread(d)
      BY <2>1, <2>2 DEF Unread, Asked
    <2>7. ~Has(c) /\ \A d \in Caller : Has(d)' => Has(d) \/ (d = c /\ held' = c)
      BY <1>0, <2>1, <2>2, <2>5 DEF Has, Queued, Taken, PlaceInv, Items
    <2>8. \A l \in Lane : running[l] # c /\ \A i \in DOMAIN queue[l] : queue[l][i] # c
      BY <2>7 DEF Has, Queued, Taken
    <2>9. ASSUME NEW d \in Caller, Has(d)'
          PROVE  ~Unread(d)' /\ kind'[d] \in {"work", "ui"} \cup Beginning
      <3>1. CASE Has(d)
        BY <2>1, <2>6, <3>1 DEF PlaceInv, Items
      <3>2. CASE d = c /\ held' = c
        <4>1. kind[c] \in {"work", "ui"} \cup Beginning /\ kind' = kind
          BY <2>1, <3>2
        <4> QED BY <2>5, <3>2, <4>1
      <3> QED BY <2>7, <2>9, <3>1, <3>2
    <2> QED BY <1>0, <2>1, <2>2, <2>3, <2>8, <2>9 DEF PlaceInv, Items, LaneOf
  <1>6. ASSUME Enqueue PROVE Requests' /\ Items'
    <2> DEFINE k == LaneOf(held)
    <2>1. /\ held \in Caller /\ held' = None /\ k \in Lane
          /\ queue' = [queue EXCEPT ![k] = Append(queue[k], held)]
          /\ UNCHANGED <<cpc, kind, writer, input, running>>
      BY <1>0, <1>6 DEF Enqueue, call, pipes, LaneOf, Lane
    <2>2. \A l \in Lane : \A i \in DOMAIN queue'[l] :
             \/ i \in DOMAIN queue[l] /\ queue'[l][i] = queue[l][i] /\ (l = k => i < Len(queue[k]) + 1)
             \/ l = k /\ i = Len(queue[k]) + 1 /\ queue'[l][i] = held
      BY <1>0, <2>1, Appended
    <2>3. \A d \in Caller : Has(d)' => Has(d)
      <3>1. \A d \in Caller : Queued(d)' => Queued(d) \/ d = held
        BY <2>2 DEF Queued
      <3>2. \A d \in Caller : (Taken(d)' <=> Taken(d)) /\ held' # d
        BY <1>0, <2>1 DEF Taken
      <3> QED BY <3>1, <3>2 DEF Has
    <2>4. Requests' /\ \A d \in Caller : Unread(d)' <=> Unread(d)
      BY <2>1 DEF PlaceInv, Requests, Unread, Asked
    <2>5. \A l \in Lane : \A i \in DOMAIN queue[l] :
             LaneOf(queue[l][i]) = l /\ queue[l][i] # held /\ queue[l][i] # running[l]
      BY DEF PlaceInv, Items
    <2>6. \A l \in Lane : running[l] # None => LaneOf(running[l]) = l /\ running[l] # held
      BY DEF PlaceInv, Items
    <2>7. \A d : LaneOf(d)' = LaneOf(d)
      BY <2>1 DEF LaneOf
    <2>8. \A l \in Lane : \A i \in DOMAIN queue'[l] :
             LaneOf(queue'[l][i]) = l /\ queue'[l][i] # None /\ queue'[l][i] # running[l]
      <3> SUFFICES ASSUME NEW l \in Lane, NEW i \in DOMAIN queue'[l]
                   PROVE  LaneOf(queue'[l][i]) = l /\ queue'[l][i] # None /\ queue'[l][i] # running[l]
        OBVIOUS
      <3>1. CASE i \in DOMAIN queue[l] /\ queue'[l][i] = queue[l][i]
        BY <1>0, <2>5, <3>1
      <3>2. CASE l = k /\ queue'[l][i] = held
        BY <1>0, <2>1, <2>6, <3>2
      <3> QED BY <2>2, <3>1, <3>2
    <2>9. \A l \in Lane : \A i, j \in DOMAIN queue'[l] : queue'[l][i] = queue'[l][j] => i = j
      <3>1. \A l \in Lane : \A i, j \in DOMAIN queue[l] : queue[l][i] = queue[l][j] => i = j
        BY DEF PlaceInv, Items
      <3> QED BY <2>2, <2>5, <3>1
    <2>10. \A d \in Caller : Has(d)' => ~Unread(d)' /\ kind'[d] \in {"work", "ui"} \cup Beginning
      BY <2>1, <2>3, <2>4 DEF PlaceInv, Items
    <2> HIDE DEF k
    <2> QED BY <1>0, <2>1, <2>4, <2>6, <2>8, <2>9, <2>10 DEF Items, LaneOf
  <1>7. ASSUME NEW l \in Lane, Take(l) PROVE Requests' /\ Items'
    <2>1. /\ running[l] = None /\ queue[l] # <<>>
          /\ running' = [running EXCEPT ![l] = Head(queue[l])]
          /\ queue' = [queue EXCEPT ![l] = Tail(queue[l])]
          /\ UNCHANGED <<cpc, kind, writer, input, held>>
      BY <1>7 DEF Take, call, pipes
    <2>2. /\ Head(queue[l]) = queue[l][1] /\ 1 \in DOMAIN queue[l] /\ Head(queue[l]) \in Caller
          /\ \A i \in DOMAIN Tail(queue[l]) : /\ i \in Nat \ {0} /\ i + 1 \in DOMAIN queue[l]
                                              /\ Tail(queue[l])[i] = queue[l][i + 1]
      BY <1>0, <2>1, Tailed
    <2>3. /\ running'[l] = queue[l][1] /\ queue'[l] = Tail(queue[l])
          /\ \A m \in Lane \ {l} : running'[m] = running[m] /\ queue'[m] = queue[m]
      BY <1>0, <2>1, <2>2
    <2>4. \A d \in Caller : Has(d)' => Has(d)
      BY <2>1, <2>2, <2>3 DEF Has, Queued, Taken
    <2>5. Requests' /\ \A d \in Caller : Unread(d)' <=> Unread(d)
      BY <2>1 DEF PlaceInv, Requests, Unread, Asked
    <2>6. /\ \A m \in Lane : \A i \in DOMAIN queue[m] :
               LaneOf(queue[m][i]) = m /\ queue[m][i] # held /\ queue[m][i] # running[m]
          /\ \A m \in Lane : \A i \in DOMAIN queue[m], j \in DOMAIN queue[m] :
               queue[m][i] = queue[m][j] => i = j
          /\ \A m \in Lane : running[m] # None => LaneOf(running[m]) = m /\ running[m] # held
      BY DEF PlaceInv, Items
    <2>7. ASSUME NEW m \in Lane, NEW i \in DOMAIN queue'[m]
          PROVE  LaneOf(queue'[m][i]) = m /\ queue'[m][i] # held /\ queue'[m][i] # running'[m]
      <3>1. CASE m = l
        <4>1. i \in DOMAIN Tail(queue[l])
          BY <2>3, <2>7, <3>1
        <4>2. i \in Nat \ {0} /\ i + 1 \in DOMAIN queue[l] /\ queue'[l][i] = queue[l][i + 1]
          BY <2>2, <2>3, <4>1
        <4>3. queue[l][i + 1] # queue[l][1]
          <5>1. i + 1 # 1
            BY <4>2
          <5> QED BY <2>2, <2>6, <4>2, <5>1
        <4>4. queue'[m][i] = queue[l][i + 1] /\ running'[m] = queue[l][1]
          BY <2>3, <3>1, <4>2
        <4>5. LaneOf(queue[l][i + 1]) = l /\ queue[l][i + 1] # held
          BY <2>6, <4>2
        <4> QED BY <3>1, <4>3, <4>4, <4>5
      <3>2. CASE m # l
        BY <2>3, <2>6, <2>7, <3>2
      <3> QED BY <3>1, <3>2
    <2>8. ASSUME NEW m \in Lane, NEW i \in DOMAIN queue'[m], NEW j \in DOMAIN queue'[m],
                 queue'[m][i] = queue'[m][j]
          PROVE  i = j
      <3>1. CASE m = l
        <4>1. /\ i \in Nat /\ i + 1 \in DOMAIN queue[l] /\ queue'[l][i] = queue[l][i + 1]
              /\ j \in Nat /\ j + 1 \in DOMAIN queue[l] /\ queue'[l][j] = queue[l][j + 1]
          BY <2>2, <2>3, <2>8, <3>1
        <4>2. i + 1 = j + 1
          BY <2>6, <2>8, <3>1, <4>1
        <4> QED BY <4>1, <4>2
      <3>2. CASE m # l
        BY <2>3, <2>6, <2>8, <3>2
      <3> QED BY <3>1, <3>2
    <2>9. ASSUME NEW m \in Lane, running'[m] # None PROVE LaneOf(running'[m]) = m /\ running'[m] # held
      BY <2>2, <2>3, <2>6, <2>9
    <2>10. \A d \in Caller : Has(d)' => ~Unread(d)' /\ kind'[d] \in {"work", "ui"} \cup Beginning
      BY <2>1, <2>4, <2>5 DEF PlaceInv, Items
    <2> QED BY <2>1, <2>5, <2>7, <2>8, <2>9, <2>10 DEF Items, LaneOf
  <1>8. ASSUME NEW l \in Lane, Finish(l) PROVE Requests' /\ Items'
    BY <1>8 DEF Finish, call, pipes, PlaceInv, Requests, Items, Has, Unread, Asked, Queued, Taken, LaneOf
  <1>9. ASSUME NEW l \in Lane, Emit(l) PROVE Requests' /\ Items'
    <2>1. /\ running' = [running EXCEPT ![l] = None]
          /\ UNCHANGED <<cpc, kind, writer, input, held, queue>>
      BY <1>9 DEF Emit, call
    <2>2. \A m \in Lane : running'[m] \in {running[m], None}
      BY <1>0, <2>1
    <2>3. \A d \in Caller : Has(d)' => Has(d)
      BY <1>0, <2>1, <2>2 DEF Has, Queued, Taken
    <2>4. Requests' /\ \A d \in Caller : Unread(d)' <=> Unread(d)
      BY <2>1 DEF PlaceInv, Requests, Unread, Asked
    <2>5. \A m \in Lane : \A i \in DOMAIN queue[m] : queue[m][i] # None
      BY <1>0
    <2> QED BY <2>1, <2>2, <2>3, <2>4, <2>5 DEF PlaceInv, Items, LaneOf
  <1>10. ASSUME KillJob \/ WorkerExit PROVE Requests' /\ Items'
    <2>1. /\ input' = <<>> /\ held' = None /\ queue' = NoQueue /\ running' = Nobody
          /\ UNCHANGED <<cpc, kind, writer>>
      BY <1>10 DEF KillJob, WorkerExit, WorkerEnds, call
    <2>2. /\ \A l \in Lane : queue'[l] = <<>> /\ running'[l] = None
          /\ DOMAIN input' = {} /\ \A l \in Lane : DOMAIN queue'[l] = {}
      BY <2>1 DEF NoQueue, Nobody
    <2>3. \A d \in Caller : ~Has(d)'
      BY <1>0, <2>1, <2>2 DEF Has, Queued, Taken
    <2>4. Requests'
      BY <2>1, <2>2 DEF PlaceInv, Requests
    <2> QED BY <1>0, <2>2, <2>3, <2>4 DEF Items
  <1> QED BY <1>1, <1>2, <1>3, <1>4, <1>5, <1>6, <1>7, <1>8, <1>9, <1>10, StepsAside
             DEF PlaceInv, Next, CallStep, Close, HostMain

\* A request is read once, and what the worker has done it does not do again.
LEMMA Onward ==
  ASSUME PlaceInv, [Next]_vars, NEW c \in Caller
  PROVE  /\ Unread(c)' => Unread(c)
         /\ Item(c)' => Item(c) \/ (ReadRequest /\ c = Head(input) /\ held' = c /\ Unread(c))
         /\ Over(c) => Over(c)'
  <1>0. /\ input \in Seq(Caller) /\ queue \in [Lane -> Seq(Caller)] /\ held \in Caller \cup {None}
        /\ running \in [Lane -> Caller \cup {None}]
        /\ writer \in [Caller -> {"off", "writing", "written", "failed"}]
        /\ None \notin Caller
    BY NoneAssumption DEF PlaceInv, TInv, TypeOK, Key
  <1>1. /\ Unread(c)' => Unread(c)
        /\ Item(c)' => Item(c) \/ (ReadRequest /\ c = Head(input) /\ held' = c /\ Unread(c))
    <2>1. CASE Aside
      BY <2>1 DEF Aside, Item, Unread, Asked, Queued, Runs
    <2>2. ASSUME NEW d \in Caller, Call(d) \/ WaitTask(d)
          PROVE  (Unread(c)' => Unread(c)) /\ (Item(c)' => Item(c))
      BY <2>2 DEF Call, WaitTask, pipes, worker, Item, Unread, Asked, Queued, Runs
    <2>3. ASSUME NEW d \in Caller, Register(d)
          PROVE  (Unread(c)' => Unread(c)) /\ (Item(c)' => Item(c))
      <3>1. /\ writer' = [writer EXCEPT ![d] = "writing"] /\ writer[d] = "off"
            /\ UNCHANGED <<input, held, queue, running, finished>>
        BY <2>3 DEF Register, pipes, worker, PlaceInv, Requests
      <3> QED BY <1>0, <3>1 DEF Item, Unread, Asked, Queued, Runs
    <2>4. ASSUME NEW d \in Caller, Write(d)
          PROVE  (Unread(c)' => Unread(c)) /\ (Item(c)' => Item(c))
      <3>1. /\ writer[d] = "writing" /\ UNCHANGED <<held, queue, running, finished>>
            /\ \/ input' = Append(input, d) /\ writer' = [writer EXCEPT ![d] = "written"]
               \/ input' = input /\ writer' = [writer EXCEPT ![d] = "failed"]
        BY <2>4 DEF Write, worker
      <3>2. \A i \in DOMAIN Append(input, d) : \/ i \in DOMAIN input /\ Append(input, d)[i] = input[i]
                                               \/ Append(input, d)[i] = d
        BY <1>0, Appended
      <3>3. Asked(c)' => Asked(c) \/ c = d
        BY <3>1, <3>2 DEF Asked
      <3> QED BY <1>0, <3>1, <3>3 DEF Item, Unread, Queued, Runs
    <2>5. ASSUME ReadRequest
          PROVE  /\ Unread(c)' => Unread(c)
                 /\ Item(c)' => Item(c) \/ (c = Head(input) /\ held' = c /\ Unread(c))
      <3>0. input # <<>> /\ Head(input) \in Caller
        BY <1>0, <2>5, Tailed DEF ReadRequest
      <3>1. /\ held = None /\ held' \in {Head(input), None} /\ input' = Tail(input)
            /\ UNCHANGED <<writer, queue, running, finished>>
        BY <1>0, <2>5, <3>0 DEF ReadRequest, Admit, call
      <3>2. /\ Head(input) = input[1] /\ 1 \in DOMAIN input
            /\ \A i \in DOMAIN input' : i + 1 \in DOMAIN input /\ input'[i] = input[i + 1]
        BY <1>0, <3>0, <3>1, Tailed
      <3>3. Asked(Head(input)) /\ (Asked(c)' => Asked(c))
        BY <3>2 DEF Asked
      <3> QED BY <1>0, <3>1, <3>3 DEF Item, Unread, Queued, Runs
    <2>6. ASSUME Enqueue PROVE (Unread(c)' => Unread(c)) /\ (Item(c)' => Item(c))
      <3> DEFINE k == LaneOf(held)
      <3>1. /\ held \in Caller /\ held' = None /\ k \in Lane
            /\ queue' = [queue EXCEPT ![k] = Append(queue[k], held)]
            /\ UNCHANGED <<writer, input, running, finished>>
        BY <1>0, <2>6 DEF Enqueue, call, pipes, LaneOf, Lane
      <3>2. \A l \in Lane : \A i \in DOMAIN queue'[l] :
               (i \in DOMAIN queue[l] /\ queue'[l][i] = queue[l][i]) \/ queue'[l][i] = held
        BY <1>0, <3>1, Appended
      <3>3. Queued(c)' => Queued(c) \/ held = c
        BY <3>2 DEF Queued
      <3> HIDE DEF k
      <3> QED BY <1>0, <3>1, <3>3 DEF Item, Unread, Asked, Runs
    <2>7. ASSUME NEW l \in Lane, Take(l) PROVE (Unread(c)' => Unread(c)) /\ (Item(c)' => Item(c))
      <3>1. /\ queue[l] # <<>>
            /\ running' = [running EXCEPT ![l] = Head(queue[l])]
            /\ queue' = [queue EXCEPT ![l] = Tail(queue[l])]
            /\ UNCHANGED <<writer, input, held, finished>>
        BY <2>7 DEF Take, call, pipes
      <3>2. /\ Head(queue[l]) = queue[l][1] /\ 1 \in DOMAIN queue[l]
            /\ \A i \in DOMAIN Tail(queue[l]) : i + 1 \in DOMAIN queue[l] /\ Tail(queue[l])[i] = queue[l][i + 1]
        BY <1>0, <3>1, Tailed
      <3>3. Queued(c)' => Queued(c)
        BY <1>0, <3>1, <3>2 DEF Queued
      <3>4. Runs(c)' => Runs(c) \/ Queued(c)
        BY <1>0, <3>1, <3>2 DEF Queued, Runs
      <3> QED BY <3>1, <3>3, <3>4 DEF Item, Unread, Asked
    <2>8. ASSUME NEW l \in Lane, Finish(l) \/ Emit(l)
          PROVE  (Unread(c)' => Unread(c)) /\ (Item(c)' => Item(c))
      <3>1. UNCHANGED <<writer, input, held, queue>>
        BY <2>8 DEF Finish, Emit, call, pipes
      <3>2. \/ running' = running /\ finished' = finished \cup {l}
            \/ running' = [running EXCEPT ![l] = None] /\ finished' = finished \ {l}
        BY <2>8 DEF Finish, Emit
      <3>3. Runs(c)' => Runs(c)
        BY <1>0, <3>2 DEF Runs
      <3> QED BY <3>1, <3>3 DEF Item, Unread, Asked, Queued
    <2>9. ASSUME KillJob \/ WorkerExit PROVE (Unread(c)' => Unread(c)) /\ (Item(c)' => Item(c))
      <3>1. /\ input' = <<>> /\ held' = None /\ queue' = NoQueue /\ running' = Nobody
            /\ UNCHANGED writer
        BY <2>9 DEF KillJob, WorkerExit, WorkerEnds, call
      <3>2. DOMAIN input' = {} /\ \A l \in Lane : DOMAIN queue'[l] = {} /\ running'[l] = None
        BY <3>1 DEF NoQueue, Nobody
      <3> QED BY <1>0, <3>1, <3>2 DEF Item, Unread, Asked, Queued, Runs
    <2> QED BY <2>1, <2>2, <2>3, <2>4, <2>5, <2>6, <2>7, <2>8, <2>9, StepsAside
               DEF PlaceInv, Next, CallStep, Close, HostMain
  <1> QED BY <1>1 DEF Over

-----------------------------------------------------------------------------
(* What the worker's tables say of its items.  An unfinished object-model task
   is in workTasks under a key nobody else has, so that an object-model call
   that comes after it is refused and one that went before it is in front. *)

Owes(b) == Item(b) /\ Begins(b)

Keys ==
  /\ \A b \in Caller : Begins(b) => key[b] \in {b} \cup Name
  /\ \A b \in Caller : kind[b] \in {"poll", "forget"} => key[b] \in Key
Tasks ==
  /\ \A b \in Caller : Owes(b) => /\ record[key[b]] = "unfinished"
                                  /\ kind[b] = "begin" => key[b] \in busy
  /\ \A b, d \in Caller : Owes(b) /\ Owes(d) /\ key[b] = key[d] => b = d

TaskInv == PlaceInv /\ Keys /\ Tasks

\* A begin is about its own token or a name, a poll or a forget about a task.
LEMMA KeysStep ==
  ASSUME PlaceInv, Keys, [Next]_vars
  PROVE  Keys'
  <1>0. kind \in [Caller -> Kind \cup {"none"}] /\ key \in [Caller -> Key \cup {None}]
    BY DEF PlaceInv, TInv, TypeOK
  <1>1. ASSUME UNCHANGED <<kind, key>> PROVE Keys'
    BY <1>1 DEF Keys, Begins
  <1>2. ASSUME NEW c \in Caller, Call(c) PROVE Keys'
    <2>1. PICK o \in Kind, k \in Key \cup {None} :
             /\ kind' = [kind EXCEPT ![c] = o] /\ key' = [key EXCEPT ![c] = k]
             /\ o \in Beginning => k \in {c} \cup Name
             /\ o \in {"poll", "forget"} => k \in Key
      <3>1. PICK o \in KindsOf[c] \ {"wait"} :
              /\ kind' = [kind EXCEPT ![c] = o]
              /\ \E k \in IF o \in Beginning THEN {c} \cup Name
                          ELSE IF o \in {"poll", "forget"} THEN Begun ELSE {None} :
                   key' = [key EXCEPT ![c] = k]
        BY <1>2 DEF Call
      <3>2. o \in Kind
        BY <3>1, KindsAssumption
      <3>3. Begun \subseteq Key /\ {c} \cup Name \subseteq Key
        BY DEF Begun, Key
      <3>4. "poll" \notin Beginning /\ "forget" \notin Beginning
        BY DEF Beginning
      <3> QED BY <3>1, <3>2, <3>3, <3>4
    <2>2. \A d \in Caller : d # c => kind'[d] = kind[d] /\ key'[d] = key[d]
      BY <1>0, <2>1
    <2>3. kind'[c] = o /\ key'[c] = k
      BY <1>0, <2>1
    <2> QED BY <2>1, <2>2, <2>3 DEF Keys, Begins
  <1>3. ASSUME NEW c \in Caller, WaitTask(c) PROVE Keys'
    <2>1. /\ kind'[c] = "wait"
          /\ \A d \in Caller : d # c => kind'[d] = kind[d] /\ key'[d] = key[d]
      BY <1>0, <1>3 DEF WaitTask
    <2> QED BY <2>1 DEF Keys, Begins, Beginning
  <1>4. ASSUME NEW c \in Caller, Register(c) \/ Write(c) PROVE Keys'
    BY <1>1, <1>4 DEF Register, Write
  <1>5. CASE Aside
    BY <1>1, <1>5 DEF Aside
  <1>6. CASE KillJob \/ HostMain \/ WorkerExit
    BY <1>1, <1>6 DEF KillJob, WorkerExit, HostMain, ReadRequest, Enqueue, Take, Finish, Emit, call
  <1> QED BY <1>2, <1>3, <1>4, <1>5, <1>6, StepsAside DEF PlaceInv, Next, CallStep, Close

\* The item that a lane has done is nowhere else.
LEMMA DoneIsOver ==
  ASSUME PlaceInv, NEW l \in Lane, running[l] # None, NEW F, l \in F
  PROVE  LET c == running[l] IN
         ~Unread(c) /\ held # c /\ ~Queued(c) /\ \A m \in Lane \ F : running[m] # c
  <1>1. running[l] \in Caller /\ Has(running[l])
    BY DEF PlaceInv, TInv, TypeOK, Has, Taken
  <1>2. LaneOf(running[l]) = l /\ held # running[l] /\ ~Unread(running[l])
    BY <1>1 DEF PlaceInv, Items
  <1>3. ASSUME NEW m \in Lane, NEW i \in DOMAIN queue[m] PROVE queue[m][i] # running[l]
    BY <1>2, <1>3 DEF PlaceInv, Items
  <1>4. ASSUME NEW m \in Lane \ F PROVE running[m] # running[l]
    BY <1>2, <1>4 DEF PlaceInv, Items
  <1> QED BY <1>2, <1>3, <1>4 DEF Queued

\* A task is owed since the reader took it, and goes on as it is.
LEMMA OwesStep ==
  ASSUME PlaceInv, [Next]_vars, NEW b \in Caller, Owes(b)'
  PROVE  /\ key'[b] = key[b] /\ kind'[b] = kind[b] /\ Begins(b)
         /\ Owes(b) \/ (ReadRequest /\ b = Head(input) /\ held' = b /\ Unread(b))
  <1>1. CASE Item(b)
    <2>1. Has(b)
      BY <1>1 DEF Item, Has, Runs, Taken
    <2> QED BY <1>1, <2>1, Settled DEF Owes
  <1>2. CASE ReadRequest /\ b = Head(input) /\ held' = b /\ Unread(b)
    <2>1. UNCHANGED <<kind, key>>
      BY <1>2 DEF ReadRequest, call
    <2> QED BY <1>2, <2>1 DEF Owes, Begins
  <1> QED BY <1>1, <1>2, Onward DEF Owes

\* Every unfinished task keeps its key to itself.
LEMMA TasksStep == TaskInv /\ [Next]_vars => TaskInv'
  <1> SUFFICES ASSUME TaskInv, [Next]_vars PROVE Tasks'
    BY PlaceStep, KeysStep DEF TaskInv
  <1>0. /\ record \in [Key -> {"absent", "unfinished", "completed"}] /\ PlaceInv /\ TInv
        /\ \A b \in Caller : Begins(b) => key[b] \in Key
    BY DEF TaskInv, PlaceInv, TInv, TypeOK, Keyed
  <1>1. \A b \in Caller : Owes(b)' =>
          /\ key'[b] = key[b] /\ kind'[b] = kind[b] /\ Begins(b)
          /\ Owes(b) \/ (ReadRequest /\ b = Head(input) /\ held' = b)
    BY <1>0, OwesStep
  <1>2. ASSUME UNCHANGED <<record, busy>>, \A b \in Caller : Owes(b)' => Owes(b) /\ key'[b] = key[b] /\ kind'[b] = kind[b]
        PROVE  Tasks'
    BY <1>2 DEF TaskInv, Tasks
  <1>3. ASSUME ReadRequest PROVE Tasks'
    <2>0. PICK c \in Caller : c = Head(input)
      BY <1>3, Tailed DEF ReadRequest, TaskInv, PlaceInv, TInv, TypeOK
    <2>1. CASE Refuses(c)
      <3>1. UNCHANGED <<held, record, busy>>
        BY <1>3, <2>0, <2>1 DEF ReadRequest
      <3>2. held' # c
        BY <1>3, <3>1, NoneAssumption DEF ReadRequest, Key
      <3> QED BY <1>1, <1>2, <2>0, <3>1, <3>2
    <2>2. CASE ~Refuses(c) /\ Admit(c) /\ kind[c] = "forget"
      <3>1. /\ record[key[c]] = "completed" /\ key[c] \in Key /\ ~Begins(c)
            /\ record' = [record EXCEPT ![key[c]] = "absent"] /\ busy' = busy
        BY <2>2 DEF Refuses, Admit, Begins, Beginning, TaskInv, Keys
      <3>2. \A b \in Caller : Owes(b)' => Owes(b) /\ key'[b] = key[b] /\ kind'[b] = kind[b]
        BY <1>1, <2>0, <3>1
      <3>3. \A b \in Caller : Owes(b) => record'[key[b]] = record[key[b]]
        BY <1>0, <3>1 DEF TaskInv, Tasks, Owes
      <3> QED BY <3>1, <3>2, <3>3 DEF TaskInv, Tasks
    <2>3. CASE ~Refuses(c) /\ Admit(c) /\ kind[c] # "forget" /\ ~Begins(c)
      <3>1. UNCHANGED <<record, busy>>
        BY <2>3 DEF Admit
      <3> QED BY <1>1, <1>2, <2>0, <2>3, <3>1
    <2>4. CASE ~Refuses(c) /\ Admit(c) /\ Begins(c)
      <3>1. /\ record[key[c]] = "absent" /\ key[c] \in Key
            /\ record' = [record EXCEPT ![key[c]] = "unfinished"]
            /\ busy' = IF kind[c] = "begin" THEN busy \cup {key[c]} ELSE busy
        BY <1>0, <2>4 DEF Refuses, Admit, Begins, Beginning
      <3>2. \A b \in Caller : Owes(b)' => (Owes(b) \/ b = c) /\ key'[b] = key[b] /\ kind'[b] = kind[b]
        BY <1>1, <2>0
      <3>3. \A b \in Caller : Owes(b) => key[b] # key[c] /\ record'[key[b]] = "unfinished"
        BY <1>0, <3>1 DEF TaskInv, Tasks, Owes
      <3>4. record'[key[c]] = "unfinished" /\ (kind[c] = "begin" => key[c] \in busy') /\ busy \subseteq busy'
        BY <1>0, <3>1
      <3> QED BY <3>2, <3>3, <3>4 DEF TaskInv, Tasks
    <2> QED BY <1>3, <2>0, <2>1, <2>2, <2>3, <2>4 DEF ReadRequest
  <1>4. ASSUME NEW l \in Lane, Finish(l) PROVE Tasks'
    <2> DEFINE F == finished \cup {l}
    <2>1. PICK c \in Caller : c = running[l]
      BY <1>4 DEF Finish, TaskInv, PlaceInv, TInv, TypeOK
    <2>2. /\ record' = IF Begins(c) THEN [record EXCEPT ![key[c]] = "completed"] ELSE record
          /\ busy' = IF Begins(c) THEN busy \ {key[c]} ELSE busy
          /\ l \notin finished /\ finished' = F /\ UNCHANGED <<held, queue, running>>
      BY <1>4, <2>1 DEF Finish
    <2>3. Runs(c)
      BY <2>1, <2>2 DEF Runs
    <2>4. /\ held # c /\ ~Queued(c) /\ \A m \in Lane \ F : running[m] # c
      BY <1>0, <1>4, <2>1, DoneIsOver DEF Finish
    <2> HIDE DEF F
    <2>5. ~Item(c)'
      BY <2>2, <2>4 DEF Item, Queued, Runs
    <2>6. \A b \in Caller : Owes(b)' => Owes(b) /\ b # c /\ key'[b] = key[b] /\ kind'[b] = kind[b]
      <3>1. ~ReadRequest
        BY <1>4, <2>1, <2>2 DEF Finish, ReadRequest, pipes, TaskInv, PlaceInv, TInv, TypeOK
      <3> QED BY <1>1, <2>5, <3>1 DEF Owes
    <2>7. Begins(c) => Owes(c)
      BY <2>3 DEF Owes, Item
    <2>8. \A b \in Caller : Owes(b) /\ b # c /\ Begins(c) => key[b] # key[c] /\ key[b] \in Key
      BY <1>0, <2>7 DEF TaskInv, Tasks, Owes
    <2>9. \A b \in Caller : Owes(b) /\ b # c =>
            record'[key[b]] = record[key[b]] /\ (key[b] \in busy => key[b] \in busy')
      BY <1>0, <2>2, <2>8
    <2>10. ASSUME NEW b \in Caller, Owes(b)'
           PROVE  record'[key'[b]] = "unfinished" /\ (kind'[b] = "begin" => key'[b] \in busy')
      BY <2>6, <2>9, <2>10 DEF TaskInv, Tasks
    <2>11. ASSUME NEW b \in Caller, NEW d \in Caller, Owes(b)', Owes(d)', key'[b] = key'[d]
           PROVE  b = d
      BY <2>6, <2>11 DEF TaskInv, Tasks
    <2> QED BY <2>10, <2>11 DEF Tasks
  <1>5. CASE Aside
    <2>1. UNCHANGED <<record, busy, kind, key>> /\ \A b \in Caller : Owes(b)' <=> Owes(b)
      BY <1>5 DEF Aside, Owes, Item, Queued, Runs, Begins
    <2> QED BY <1>2, <2>1
  <1>6. ASSUME \/ \E c \in Caller : Call(c) \/ WaitTask(c) \/ Register(c) \/ Write(c)
               \/ Enqueue \/ \E l \in Lane : Take(l) \/ Emit(l)
        PROVE  Tasks'
    <2>1. UNCHANGED <<record, busy>>
      BY <1>6 DEF Call, WaitTask, Register, Write, Enqueue, Take, Emit, worker
    <2>2. ~ReadRequest
      <3>1. input \in Seq(Caller)
        BY <1>0 DEF TInv, TypeOK
      <3>2. input' = input \/ \E c \in Caller : input' = Append(input, c)
        BY <1>6 DEF Call, WaitTask, Register, Write, Enqueue, Take, Emit, pipes
      <3>3. ReadRequest => input # <<>> /\ input' = Tail(input)
        BY DEF ReadRequest
      <3> QED BY <3>1, <3>2, <3>3
    <2> QED BY <1>1, <1>2, <2>1, <2>2
  <1>7. CASE KillJob \/ WorkerExit
    <2>1. ~alive' /\ TInv'
      BY <1>0, <1>7, TypesStep DEF KillJob, WorkerExit, WorkerEnds
    <2>2. held' = None /\ queue' = NoQueue /\ running' = Nobody
      BY <2>1 DEF TInv, TypeOK
    <2>3. \A l \in Lane : DOMAIN queue'[l] = {} /\ running'[l] = None
      BY <2>2 DEF NoQueue, Nobody
    <2>4. \A b \in Caller : ~Owes(b)'
      BY <2>2, <2>3, NoneAssumption DEF Owes, Item, Queued, Runs, Key
    <2> QED BY <2>4 DEF Tasks
  <1> QED BY <1>0, <1>3, <1>4, <1>5, <1>6, <1>7, StepsAside DEF Next, CallStep, Close, HostMain

\* No object-model call gets behind an unfinished task of its lane: an item is
\* put behind another only by the reader, which has refused it then, and the
\* lane keeps their order.
LEMMA SyncStep ==
  ASSUME TaskInv, SyncNeverWaitsForTasks, [Next]_vars
  PROVE  SyncNeverWaitsForTasks'
  <1> SUFFICES ASSUME NEW b \in Caller, NEW c \in Caller, kind'[b] = "begin", kind'[c] = "work",
                      Before(b, c)'
               PROVE  FALSE
    BY DEF SyncNeverWaitsForTasks
  <1>0. /\ PlaceInv /\ None \notin Caller
        /\ queue \in [Lane -> Seq(Caller)] /\ held \in Caller \cup {None}
        /\ running \in [Lane -> Caller \cup {None}]
    BY NoneAssumption DEF TaskInv, PlaceInv, TInv, TypeOK, Key
  <1>1. Item(b)' /\ Item(c)'
    BY DEF Before, Item, Queued
  <1>2. \A d \in Caller : Item(d) => kind'[d] = kind[d] /\ LaneOf(d)' = LaneOf(d)
    BY <1>0, Settled DEF Item, Has, Runs, Taken
  <1>3. ~(Item(b) /\ Item(c) /\ Before(b, c))
    BY <1>2 DEF SyncNeverWaitsForTasks
  <1>4. CASE ReadRequest
    <2>1. PICK d \in Caller : d = Head(input)
      BY <1>4, Tailed DEF ReadRequest, TaskInv, PlaceInv, TInv, TypeOK
    <2>2. /\ held = None /\ UNCHANGED <<kind, queue, running, finished>>
          /\ held' \in {None, d} /\ (held' = d => ~Refuses(d) /\ Admit(d))
      <3>1. held = None /\ UNCHANGED <<kind, queue, running, finished>>
        BY <1>4 DEF ReadRequest, call
      <3>2. CASE Refuses(d)
        BY <1>0, <1>4, <2>1, <3>1, <3>2 DEF ReadRequest
      <3>3. CASE ~Refuses(d)
        BY <1>4, <2>1, <3>1, <3>3 DEF ReadRequest, Admit
      <3> QED BY <3>1, <3>2, <3>3
    <2>3. (Runs(b)' <=> Runs(b)) /\ (Queued(b)' <=> Queued(b))
          /\ (Runs(c)' <=> Runs(c)) /\ (Queued(c)' <=> Queued(c))
      BY <2>2 DEF Runs, Queued
    <2>4. CASE held' = c
      <3>1. c = d /\ ~Refuses(c) /\ kind[c] = "work" /\ busy = {}
        BY <1>0, <2>2, <2>4 DEF Refuses
      <3>2. ~Item(b)
        <4>1. kind[b] = "begin"
          BY <2>2
        <4> QED BY <3>1, <4>1 DEF TaskInv, Tasks, Owes, Begins, Beginning
      <3>3. ~Runs(b) /\ ~Queued(b)
        BY <3>2 DEF Item
      <3>4. ~Runs(b)' /\ ~Queued(b)'
        BY <2>3, <3>3
      <3>5. \A l \in Lane : \A i \in DOMAIN queue'[l] : queue'[l][i] # b
        BY <3>4 DEF Queued
      <3> QED BY <3>4, <3>5 DEF Before
    <2>5. CASE held' # c
      <3>1. Before(b, c)
        BY <2>2, <2>3, <2>5 DEF Before, LaneOf
      <3>2. Item(b) /\ Item(c)
        BY <3>1 DEF Before, Item, Queued
      <3> QED BY <1>3, <3>1, <3>2
    <2> QED BY <2>4, <2>5
  <1>5. CASE ~ReadRequest
    <2>1. Item(b) /\ Item(c) /\ LaneOf(b) = LaneOf(c)
      <3>1. Item(b) /\ Item(c)
        BY <1>0, <1>1, <1>5, Onward
      <3> QED BY <1>2, <3>1 DEF Before
    <2>2. ASSUME UNCHANGED <<held, queue>>, \A d \in Caller : Runs(d)' => Runs(d) PROVE FALSE
      <3>1. Before(b, c)
        BY <2>1, <2>2 DEF Before, Queued
      <3> QED BY <1>3, <2>1, <3>1
    <2>3. CASE Enqueue
      <3> DEFINE k == LaneOf(held)
      <3>1. /\ held \in Caller /\ held' = None /\ k \in Lane
            /\ queue' = [queue EXCEPT ![k] = Append(queue[k], held)]
            /\ UNCHANGED <<running, finished>>
        BY <1>0, <2>3 DEF Enqueue, LaneOf, Lane
      <3>2. \A l \in Lane : \A i \in DOMAIN queue'[l] :
               \/ i \in DOMAIN queue[l] /\ queue'[l][i] = queue[l][i] /\ (l = k => i < Len(queue[k]) + 1)
               \/ l = k /\ i = Len(queue[k]) + 1 /\ queue'[l][i] = held
        BY <1>0, <3>1, Appended
      <3>3. \A d \in Caller : (Queued(d)' => Queued(d) \/ held = d) /\ (Runs(d)' <=> Runs(d)) /\ held' # d
        BY <1>0, <3>1, <3>2 DEF Queued, Runs
      <3> HIDE DEF k
      <3>4. CASE Runs(b)' /\ Queued(c)'
        BY <1>3, <2>1, <3>3, <3>4 DEF Before
      <3>5. ASSUME NEW l \in Lane, NEW i \in DOMAIN queue'[l], NEW j \in DOMAIN queue'[l],
                   i < j, queue'[l][i] = b, queue'[l][j] = c
            PROVE  Before(b, c)
        <4>1. i \in DOMAIN queue[l] /\ queue[l][i] = b
          <5>1. i \in Nat /\ j \in Nat /\ Len(queue[l]) \in Nat
            BY <1>0, <3>1, <3>2, <3>5
          <5>2. CASE l = k /\ i = Len(queue[k]) + 1
            <6>1. (j \in DOMAIN queue[k] /\ j < Len(queue[k]) + 1) \/ j = Len(queue[k]) + 1
              BY <3>2, <3>5, <5>2
            <6> QED BY <3>5, <5>1, <5>2, <6>1
          <5> QED BY <3>2, <3>5, <5>2
        <4>2. CASE j \in DOMAIN queue[l] /\ queue[l][j] = c
          BY <2>1, <3>5, <4>1, <4>2 DEF Before
        <4>3. CASE held = c
          BY <2>1, <4>1, <4>3 DEF Before, Queued
        <4> QED BY <3>2, <3>5, <4>2, <4>3
      <3> QED BY <1>3, <2>1, <3>3, <3>4, <3>5 DEF Before
    <2>4. ASSUME NEW l \in Lane, Take(l) PROVE FALSE
      <3>1. /\ running[l] = None /\ l \notin finished
            /\ running' = [running EXCEPT ![l] = Head(queue[l])]
            /\ queue[l] # <<>> /\ queue' = [queue EXCEPT ![l] = Tail(queue[l])]
            /\ UNCHANGED <<held, finished>>
        BY <1>0, <2>4 DEF Take, PlaceInv, TInv, Keyed
      <3>2. /\ Head(queue[l]) = queue[l][1] /\ 1 \in DOMAIN queue[l]
            /\ \A i \in DOMAIN Tail(queue[l]) : /\ i \in Nat \ {0} /\ i + 1 \in DOMAIN queue[l]
                                                /\ Tail(queue[l])[i] = queue[l][i + 1]
        BY <1>0, <3>1, Tailed
      <3>3. /\ running'[l] = queue[l][1] /\ queue'[l] = Tail(queue[l])
            /\ \A m \in Lane \ {l} : running'[m] = running[m] /\ queue'[m] = queue[m]
        BY <1>0, <3>1, <3>2
      <3>4. \A d \in Caller : (Queued(d)' => Queued(d)) /\ (Runs(d)' => Runs(d) \/ d = queue[l][1])
        BY <3>1, <3>2, <3>3 DEF Queued, Runs
      <3>5. Queued(queue[l][1])
        BY <3>2 DEF Queued
      <3>6. CASE (Runs(b)' \/ Queued(b)') /\ held = c
        BY <1>3, <2>1, <3>4, <3>5, <3>6 DEF Before
      <3>7. CASE Runs(b)' /\ Queued(c)'
        <4>1. CASE Runs(b)
          BY <1>3, <2>1, <3>4, <3>7, <4>1 DEF Before
        <4>2. CASE b = queue[l][1]
          <5>0. PICK m \in Lane : \E i \in DOMAIN queue'[m] : queue'[m][i] = c
            BY <3>7 DEF Queued
          <5>1. PICK i \in DOMAIN queue'[m] : queue'[m][i] = c
            BY <5>0
          <5>2. \E n \in DOMAIN queue[m] : queue[m][n] = c /\ (m = l => 1 < n)
            <6>1. CASE m = l
              <7>1. i \in DOMAIN Tail(queue[l]) /\ Tail(queue[l])[i] = c
                BY <3>3, <5>1, <6>1
              <7>2. i \in Nat \ {0} /\ i + 1 \in DOMAIN queue[l] /\ queue[l][i + 1] = c
                BY <3>2, <7>1
              <7>3. 1 < i + 1
                BY <7>2
              <7> QED BY <6>1, <7>2, <7>3
            <6>2. CASE m # l
              BY <3>3, <5>1, <6>2
            <6> QED BY <6>1, <6>2
          <5>3. PICK n \in DOMAIN queue[m] : queue[m][n] = c /\ (m = l => 1 < n)
            BY <5>2
          <5>4. LaneOf(c) = m /\ LaneOf(b) = l
            BY <1>0, <3>2, <4>2, <5>3 DEF PlaceInv, Items
          <5> QED BY <1>3, <2>1, <3>2, <4>2, <5>3, <5>4 DEF Before
        <4> QED BY <3>4, <3>7, <4>1, <4>2
      <3>8. ASSUME NEW m \in Lane, NEW i \in DOMAIN queue'[m], NEW j \in DOMAIN queue'[m],
                   i < j, queue'[m][i] = b, queue'[m][j] = c
            PROVE  Before(b, c)
        <4>1. CASE m = l
          <5>1. /\ i \in Nat /\ i + 1 \in DOMAIN queue[l] /\ queue[l][i + 1] = b
                /\ j \in Nat /\ j + 1 \in DOMAIN queue[l] /\ queue[l][j + 1] = c
            BY <3>2, <3>3, <3>8, <4>1
          <5>2. i + 1 < j + 1
            BY <3>8, <5>1
          <5> QED BY <2>1, <5>1, <5>2 DEF Before
        <4>2. CASE m # l
          BY <2>1, <3>3, <3>8, <4>2 DEF Before
        <4> QED BY <4>1, <4>2
      <3> QED BY <1>3, <2>1, <3>1, <3>6, <3>7, <3>8 DEF Before
    <2>5. ASSUME NEW l \in Lane, Finish(l) \/ Emit(l) PROVE FALSE
      <3>1. UNCHANGED <<held, queue>>
        BY <2>5 DEF Finish, Emit
      <3>2. \/ running' = running /\ finished' = finished \cup {l}
            \/ running' = [running EXCEPT ![l] = None] /\ finished' = finished \ {l}
        BY <2>5 DEF Finish, Emit
      <3>3. \A d \in Caller : Runs(d)' => Runs(d)
        BY <1>0, <3>2 DEF Runs
      <3> QED BY <2>2, <3>1, <3>3
    <2>6. CASE KillJob \/ WorkerExit
      <3>1. held' = None /\ queue' = NoQueue /\ running' = Nobody
        BY <2>6 DEF KillJob, WorkerExit, WorkerEnds
      <3>2. \A l \in Lane : DOMAIN queue'[l] = {} /\ running'[l] = None
        BY <3>1 DEF NoQueue, Nobody
      <3> QED BY <1>0, <1>1, <3>1, <3>2 DEF Item, Queued, Runs
    <2>7. ASSUME UNCHANGED <<held, queue, running, finished>> PROVE FALSE
      BY <2>2, <2>7 DEF Runs
    <2>8. CASE Aside
      BY <2>7, <2>8 DEF Aside
    <2>9. ASSUME NEW d \in Caller, Call(d) \/ WaitTask(d) \/ Register(d) \/ Write(d) PROVE FALSE
      BY <2>7, <2>9 DEF Call, WaitTask, Register, Write, worker
    <2> QED BY <1>0, <1>5, <2>3, <2>4, <2>5, <2>6, <2>8, <2>9, StepsAside
               DEF PlaceInv, Next, CallStep, Close, HostMain
  <1> QED BY <1>4, <1>5

-----------------------------------------------------------------------------
(* What is said of a task, and how often.  A begin is answered by one line,
   because its request is read once; readResponses opens the completion by that
   line, so that what closes it afterwards closes it for good. *)

Tells(m) == m.to # None /\ m.task # None
Told(c) == \E i \in DOMAIN output : output[i].to = c /\ Tells(output[i])

Lines ==
  /\ \A c \in Caller : Unread(c) => done[c] = "none" /\ \A i \in DOMAIN output : output[i].to # c
  /\ \A i \in DOMAIN output : Tells(output[i]) =>
       /\ done[output[i].to] = "none"
       /\ Begins(output[i].to) /\ output[i].task = key[output[i].to]
  /\ \A i, j \in DOMAIN output :
       Tells(output[i]) /\ Tells(output[j]) /\ output[i].to = output[j].to => i = j

LineInv == TaskInv /\ Lines

\* The steps that speak of a task, or change what is known of it.
LEMMA SpeakingSteps ==
  ASSUME [Next]_vars
  PROVE  \/ UNCHANGED <<entry, done, output>>
         \/ ReadRequest \/ (\E l \in Lane : Emit(l))
         \/ ScanLine \/ ScanEnd \/ ObserveExit \/ \E c \in Caller : Forget(c)
  <1>1. ASSUME NEW c \in Caller, Call(c) \/ WaitTask(c) \/ watchTask(c)
        PROVE  UNCHANGED <<entry, done, output>>
    BY <1>1 DEF Call, WaitTask, watchTask, WatchStart, WatchEnd, WatchFire, WatchClose, completion, pipes
  <1>2. ASSUME NEW c \in Caller, CallStep(c) PROVE UNCHANGED <<entry, done, output>> \/ Forget(c)
    BY <1>2 DEF CallStep, Register, Write, WriteFails, Receive, Deadline, DeadlineEnd, SeesClosed,
       Waited, completion, pipes
  <1>3. CASE Stop \/ Close \/ WorkerExit \/ WordExit \/ UNCHANGED vars
    BY <1>3 DEF Stop, Close, KillJob, CloseEnd, WorkerExit, WordExit, vars, completion, pipes
  <1>4. CASE readResponses \/ observeWordExit
    BY <1>4 DEF readResponses, observeWordExit, ScanGarbage, SendResponse, ScanBreak, ScanClose,
       ObserveBreak, completion, pipes
  <1>5. CASE HostMain
    BY <1>5 DEF HostMain, Enqueue, Take, Finish, completion, pipes
  <1> QED BY <1>1, <1>2, <1>3, <1>4, <1>5 DEF Next

\* The reader reads a request that nobody has answered, and leaves it read.
LEMMA ReadOnce ==
  ASSUME PlaceInv, ReadRequest
  PROVE  /\ Head(input) \in Caller /\ Unread(Head(input))
         /\ \A c \in Caller : c = Head(input) => ~Unread(c)'
  <1>0. input \in Seq(Caller) /\ input # <<>> /\ input' = Tail(input) /\ writer' = writer
    BY DEF ReadRequest, call, PlaceInv, TInv, TypeOK
  <1>1. PICK c \in Caller : c = Head(input)
    BY <1>0, Tailed
  <1>2. /\ c = input[1] /\ 1 \in DOMAIN input
        /\ \A i \in DOMAIN input' : i \in Nat \ {0} /\ i + 1 \in DOMAIN input /\ input'[i] = input[i + 1]
    BY <1>0, <1>1, Tailed
  <1>3. writer[c] = "written" /\ Asked(c)
    BY <1>2 DEF Asked, PlaceInv, Requests
  <1>4. ASSUME NEW i \in DOMAIN input', input'[i] = c PROVE FALSE
    <2>1. i \in Nat \ {0} /\ i + 1 \in DOMAIN input /\ input[i + 1] = input[1]
      BY <1>2, <1>4
    <2>2. i + 1 = 1
      BY <1>2, <2>1 DEF PlaceInv, Requests
    <2> QED BY <2>1, <2>2
  <1>5. ~Asked(c)'
    BY <1>4 DEF Asked
  <1> QED BY <1>0, <1>1, <1>3, <1>5 DEF Unread

\* What the worker says when it reads a request, and what it says of an item.
LEMMA Said ==
  ASSUME TaskInv
  PROVE  /\ ReadRequest => \/ output' = output
                           \/ \E r \in {"ok", "refused"} : output' = Append(output, Reply(Head(input), None, r))
                           \/ /\ Begins(Head(input))
                              /\ output' = Append(output, Reply(Head(input), key[Head(input)], "ok"))
         /\ \A l \in Lane : Emit(l) =>
              /\ l \in finished /\ running[l] \in Caller /\ ~Unread(running[l])
              /\ output' = Append(output, IF Begins(running[l]) THEN Completion(key[running[l]])
                                          ELSE Reply(running[l], None, "ok"))
         /\ output \in Seq(Line) /\ None \notin Caller
         /\ \A c \in Caller : /\ Reply(c, None, "ok") \in Line /\ Reply(c, None, "refused") \in Line
                              /\ Begins(c) => Reply(c, key[c], "ok") \in Line /\ Completion(key[c]) \in Line
  <1>1. ASSUME ReadRequest
        PROVE  \/ output' = output
               \/ \E r \in {"ok", "refused"} : output' = Append(output, Reply(Head(input), None, r))
               \/ /\ Begins(Head(input))
                  /\ output' = Append(output, Reply(Head(input), key[Head(input)], "ok"))
    BY <1>1 DEF ReadRequest, Admit, Say
  <1>2. ASSUME NEW l \in Lane, Emit(l)
        PROVE  /\ l \in finished /\ running[l] \in Caller /\ ~Unread(running[l])
               /\ output' = Append(output, IF Begins(running[l]) THEN Completion(key[running[l]])
                                           ELSE Reply(running[l], None, "ok"))
    <2>1. l \in finished /\ running[l] \in Caller
      BY <1>2 DEF Emit, TaskInv, PlaceInv, TInv, TypeOK, Keyed
    <2>2. Has(running[l])
      BY <2>1 DEF Has, Taken
    <2> QED BY <1>2, <2>1, <2>2 DEF Emit, TaskInv, PlaceInv, Items
  <1>3. output \in Seq(Line) /\ None \notin Caller
    BY NoneAssumption DEF TaskInv, PlaceInv, TInv, TypeOK, Key
  <1>4. ASSUME NEW c \in Caller
        PROVE  /\ Reply(c, None, "ok") \in Line /\ Reply(c, None, "refused") \in Line
               /\ Begins(c) => Reply(c, key[c], "ok") \in Line /\ Completion(key[c]) \in Line
    BY DEF Reply, Completion, Line, TaskInv, PlaceInv, TInv, Keyed
  <1> QED BY <1>1, <1>2, <1>3, <1>4

\* What a line says comes to be, and no completion that was closed is opened.
LEMMA Entered ==
  ASSUME LineInv, ScanLine
  PROVE  LET m == output[1] IN
         /\ 1 \in DOMAIN output /\ output' = Tail(output)
         /\ m.to \in Caller \cup {None} /\ m.task \in Key \cup {None} /\ m.is \in {"ok", "refused"}
         /\ \A i \in DOMAIN output' : i \in Nat \ {0} /\ i + 1 \in DOMAIN output /\ output'[i] = output[i + 1]
         /\ m.task = None => UNCHANGED <<entry, done>>
         /\ Tells(m) => /\ m.to \in Caller /\ done[m.to] = "none"
                        /\ entry' = [entry EXCEPT ![m.task] = m.to]
                        /\ done' = [done EXCEPT ![m.to] = "open"]
         /\ m.task # None /\ m.to = None =>
              /\ entry' = entry
              /\ \A c \in Caller : done'[c] # done[c] => c = entry[m.task] /\ done[c] = "open"
  <1>1. output \in Seq(Line) /\ output # <<>> /\ output' = Tail(output) /\ Enter(Head(output))
        /\ done \in [Caller -> {"none", "open", "done", "forgotten", "word_exited"}]
    BY DEF ScanLine, LineInv, TaskInv, PlaceInv, TInv, TypeOK
  <1>2. /\ Head(output) = output[1] /\ 1 \in DOMAIN output /\ Head(output) \in Line
        /\ \A i \in DOMAIN output' : i \in Nat \ {0} /\ i + 1 \in DOMAIN output /\ output'[i] = output[i + 1]
    BY <1>1, Tailed
  <1> DEFINE m == output[1]
  <1>3. /\ m.to \in Caller \cup {None} /\ m.task \in Key \cup {None} /\ m.is \in {"ok", "refused"}
        /\ Enter(m) /\ m \in Line
    BY <1>1, <1>2 DEF Line
  <1>4. Tells(m) => done[m.to] = "none" /\ m.to \in Caller
    BY <1>2, <1>3 DEF LineInv, Lines, Tells
  <1> HIDE DEF m
  <1>5. m.task = None => UNCHANGED <<entry, done>>
    BY <1>3 DEF Enter, completion
  <1>6. Tells(m) => /\ entry' = [entry EXCEPT ![m.task] = m.to]
                    /\ done' = [done EXCEPT ![m.to] = "open"]
    BY <1>3 DEF Enter, Tells
  <1>7. m.task # None /\ m.to = None =>
          /\ entry' = entry
          /\ \A c \in Caller : done'[c] # done[c] => c = entry[m.task] /\ done[c] = "open"
    BY <1>1, <1>3 DEF Enter
  <1> QED BY <1>1, <1>2, <1>3, <1>4, <1>5, <1>6, <1>7 DEF m

\* Whatever closes a completion finds it open, but for a begin's only answer.
LEMMA DoneStep ==
  ASSUME LineInv, [Next]_vars, NEW c \in Caller, done'[c] # done[c]
  PROVE  done[c] = "open" \/ (ScanLine /\ done[c] = "none" /\ Tells(output[1]) /\ output[1].to = c)
  <1>0. done \in [Caller -> {"none", "open", "done", "forgotten", "word_exited"}]
    BY DEF LineInv, TaskInv, PlaceInv, TInv, TypeOK
  <1>1. CASE ScanLine
    BY <1>0, <1>1, Entered DEF Tells
  <1>2. ASSUME NEW d \in Caller, Forget(d) PROVE done[c] = "open"
    BY <1>0, <1>2 DEF Forget
  <1>3. CASE ObserveExit
    BY <1>0, <1>3 DEF ObserveExit
  <1>4. CASE ReadRequest \/ ScanEnd \/ \E l \in Lane : Emit(l)
    BY <1>4 DEF ReadRequest, ScanEnd, Emit, completion
  <1> QED BY <1>1, <1>2, <1>3, <1>4, SpeakingSteps

\* The answer of a begin comes before its completion is known, and once.
LEMMA LinesStep == LineInv /\ [Next]_vars => LineInv'
  <1> SUFFICES ASSUME LineInv, [Next]_vars PROVE Lines'
    BY TasksStep DEF LineInv
  <1>0. /\ PlaceInv /\ TaskInv /\ output \in Seq(Line) /\ None \notin Caller
        /\ \A i \in DOMAIN output : output[i].to \in Caller \cup {None}
    <2>1. PlaceInv /\ TaskInv /\ output \in Seq(Line) /\ None \notin Caller
      BY Said DEF LineInv, TaskInv
    <2>2. \A i \in DOMAIN output : output[i] \in Line
      BY <2>1
    <2> QED BY <2>1, <2>2 DEF Line
  <1>1. \A c \in Caller : Unread(c)' => Unread(c)
    BY <1>0, Onward
  <1>2. ASSUME NEW i \in DOMAIN output, Tells(output[i])
        PROVE  LET c == output[i].to IN
               c \in Caller /\ ~Unread(c) /\ key'[c] = key[c] /\ kind'[c] = kind[c] /\ Begins(c) /\ done[c] = "none"
    <2>1. PICK c \in Caller : c = output[i].to
      BY <1>0, <1>2 DEF Tells
    <2>2. ~Unread(c) /\ done[c] = "none" /\ Begins(c)
      BY <1>2, <2>1 DEF LineInv, Lines
    <2> QED BY <1>0, <2>1, <2>2, Settled DEF Unread
  <1>3. ASSUME output' = output, \A c \in Caller : done[c] = "none" => done'[c] = "none" PROVE Lines'
    <2>1. \A c \in Caller : Unread(c)' => done'[c] = "none" /\ \A i \in DOMAIN output' : output'[i].to # c
      BY <1>1, <1>3 DEF LineInv, Lines
    <2>2. ASSUME NEW i \in DOMAIN output', Tells(output'[i])
          PROVE  done'[output'[i].to] = "none" /\ kind'[output'[i].to] \in Beginning
                 /\ output'[i].task = key'[output'[i].to]
      BY <1>2, <1>3, <2>2 DEF LineInv, Lines, Begins
    <2> QED BY <1>3, <2>1, <2>2 DEF LineInv, Lines, Begins, Tells
  <1>4. ASSUME NEW m \in Line, output' = Append(output, m), done' = done,
               Tells(m) => /\ done[m.to] = "none" /\ kind'[m.to] \in Beginning /\ m.task = key'[m.to]
                           /\ \A i \in DOMAIN output : output[i].to # m.to,
               \A c \in Caller : m.to = c => ~Unread(c)'
        PROVE  Lines'
    <2>1. \A i \in DOMAIN output' : \/ i \in DOMAIN output /\ output'[i] = output[i]
                                    \/ i = Len(output) + 1 /\ output'[i] = m
      BY <1>0, <1>4, Appended
    <2>2. \A c \in Caller : Unread(c)' => done'[c] = "none" /\ \A i \in DOMAIN output' : output'[i].to # c
      BY <1>1, <1>4, <2>1 DEF LineInv, Lines
    <2>3. ASSUME NEW i \in DOMAIN output', Tells(output'[i])
          PROVE  done'[output'[i].to] = "none" /\ kind'[output'[i].to] \in Beginning
                 /\ output'[i].task = key'[output'[i].to]
      BY <1>2, <1>4, <2>1, <2>3 DEF LineInv, Lines, Begins
    <2>4. ASSUME NEW i \in DOMAIN output', NEW j \in DOMAIN output',
                 Tells(output'[i]), Tells(output'[j]), output'[i].to = output'[j].to
          PROVE  i = j
      BY <1>4, <2>1, <2>4 DEF LineInv, Lines
    <2> QED BY <2>2, <2>3, <2>4 DEF Lines, Begins, Tells
  <1>5. CASE ReadRequest
    <2>1. PICK c \in Caller : c = Head(input) /\ Unread(c) /\ ~Unread(c)'
      BY <1>0, <1>5, ReadOnce
    <2>2. done' = done /\ key' = key /\ kind' = kind
      BY <1>5 DEF ReadRequest, completion, call
    <2>3. done[c] = "none" /\ \A i \in DOMAIN output : output[i].to # c
      BY <2>1 DEF LineInv, Lines
    <2>4. CASE output' = output
      BY <1>3, <2>2, <2>4
    <2>5. ASSUME NEW r \in {"ok", "refused"}, output' = Append(output, Reply(c, None, r)) PROVE Lines'
      <3>1. Reply(c, None, r) \in Line /\ Reply(c, None, r).to = c /\ ~Tells(Reply(c, None, r))
        BY DEF Reply, Line, Tells
      <3> QED BY <1>4, <2>1, <2>2, <2>5, <3>1
    <2>6. CASE Begins(c) /\ output' = Append(output, Reply(c, key[c], "ok"))
      <3>1. /\ Reply(c, key[c], "ok") \in Line
            /\ Reply(c, key[c], "ok").to = c /\ Reply(c, key[c], "ok").task = key[c]
        BY <1>0, <2>6, Said DEF Reply
      <3> QED BY <1>4, <2>1, <2>2, <2>3, <2>6, <3>1 DEF Begins
    <2> QED BY <1>0, <1>5, <2>1, <2>4, <2>5, <2>6, Said
  <1>6. ASSUME NEW l \in Lane, Emit(l) PROVE Lines'
    <2>1. PICK c \in Caller : c = running[l] /\ ~Unread(c)
      BY <1>0, <1>6, Said
    <2>2. done' = done
      BY <1>6 DEF Emit, completion
    <2>3. CASE Begins(c)
      <3>1. output' = Append(output, Completion(key[c])) /\ Completion(key[c]) \in Line
        BY <1>0, <1>6, <2>1, <2>3, Said
      <3>2. Completion(key[c]).to = None /\ ~Tells(Completion(key[c]))
        BY DEF Completion, Tells
      <3> QED BY <1>0, <1>4, <2>2, <3>1, <3>2
    <2>4. CASE ~Begins(c)
      <3>1. output' = Append(output, Reply(c, None, "ok")) /\ Reply(c, None, "ok") \in Line
        BY <1>0, <1>6, <2>1, <2>4, Said
      <3>2. Reply(c, None, "ok").to = c /\ ~Tells(Reply(c, None, "ok"))
        BY DEF Reply, Tells
      <3> QED BY <1>1, <1>4, <2>1, <2>2, <3>1, <3>2
    <2> QED BY <2>3, <2>4
  <1>7. CASE ScanLine
    <2>1. /\ 1 \in DOMAIN output
          /\ \A i \in DOMAIN output' : i \in Nat \ {0} /\ i + 1 \in DOMAIN output /\ output'[i] = output[i + 1]
      BY <1>7, Entered
    <2>2. \A c \in Caller : done'[c] # done[c] => done[c] = "open" \/ (Tells(output[1]) /\ output[1].to = c)
      BY DoneStep
    <2>3. \A c \in Caller : Unread(c)' => done'[c] = "none" /\ \A i \in DOMAIN output' : output'[i].to # c
      <3> SUFFICES ASSUME NEW c \in Caller, Unread(c)'
                   PROVE  done'[c] = "none" /\ \A i \in DOMAIN output' : output'[i].to # c
        OBVIOUS
      <3>1. done[c] = "none" /\ \A i \in DOMAIN output : output[i].to # c
        BY <1>1 DEF LineInv, Lines
      <3> QED BY <2>1, <2>2, <3>1
    <2>4. ASSUME NEW i \in DOMAIN output', Tells(output'[i])
          PROVE  done'[output'[i].to] = "none" /\ kind'[output'[i].to] \in Beginning
                 /\ output'[i].task = key'[output'[i].to]
      <3>1. /\ i \in Nat \ {0} /\ i + 1 \in DOMAIN output /\ output'[i] = output[i + 1] /\ i + 1 # 1
        BY <2>1, <2>4
      <3>2. PICK c \in Caller : /\ c = output[i + 1].to /\ key'[c] = key[c] /\ kind'[c] = kind[c]
                                /\ done[c] = "none" /\ Begins(c) /\ output[i + 1].task = key[c]
        BY <1>2, <2>4, <3>1 DEF LineInv, Lines
      <3>3. ~(Tells(output[1]) /\ output[1].to = c)
        BY <2>1, <2>4, <3>1, <3>2 DEF LineInv, Lines
      <3>4. done'[c] = "none"
        BY <2>2, <3>2, <3>3
      <3> QED BY <3>1, <3>2, <3>4 DEF Begins
    <2>5. ASSUME NEW i \in DOMAIN output', NEW j \in DOMAIN output',
                 Tells(output'[i]), Tells(output'[j]), output'[i].to = output'[j].to
          PROVE  i = j
      <3>1. /\ i \in Nat /\ i + 1 \in DOMAIN output /\ output'[i] = output[i + 1]
            /\ j \in Nat /\ j + 1 \in DOMAIN output /\ output'[j] = output[j + 1]
        BY <2>1
      <3>2. i + 1 = j + 1
        BY <2>5, <3>1 DEF LineInv, Lines
      <3> QED BY <3>1, <3>2
    <2> QED BY <2>3, <2>4, <2>5 DEF Lines, Begins, Tells
  <1>8. CASE ScanEnd
    <2>1. DOMAIN output' = {} /\ done' = done
      BY <1>8 DEF ScanEnd, completion
    <2> QED BY <1>1, <2>1 DEF LineInv, Lines
  <1>9. CASE UNCHANGED <<entry, done, output>> \/ ObserveExit \/ \E c \in Caller : Forget(c)
    <2>1. output' = output
      BY <1>9 DEF ObserveExit, Forget, pipes
    <2>2. ~ScanLine
      <3>1. ScanLine => output # <<>> /\ output' = Tail(output)
        BY DEF ScanLine
      <3> QED BY <1>0, <2>1, <3>1
    <2>3. \A c \in Caller : done[c] = "none" => done'[c] = "none"
      BY <2>2, DoneStep
    <2> QED BY <1>3, <2>1, <2>3
  <1> QED BY <1>5, <1>6, <1>7, <1>8, <1>9, SpeakingSteps

-----------------------------------------------------------------------------
(* When a task is over.  A call whose request is unread or whose answer is on
   its way has not been told "ok"; a forget that was agreed to, and a completion
   that was written, are about a task that the worker does not have any more. *)

Silent(c) == ch[c] # "ok" /\ (carried[1] = c => carried[2] # "ok") /\ result[c] # "ok"

Answers ==
  /\ \A c \in Caller : Unread(c) \/ Told(c) => Silent(c)
  /\ \A i \in DOMAIN output :
       output[i].to # None /\ output[i].is = "ok" /\ Begins(output[i].to) => output[i].task # None
  /\ \A c \in Caller : cpc[c] = "forgetting" => ~Unread(c) /\ kind[c] = "forget"

AnswerInv == LineInv /\ Answers

\* A call hears "ok" from a line, or at the end of a forget.
LEMMA SilentStep ==
  ASSUME TInv, [Next]_vars, NEW c \in Caller, Silent(c)
  PROVE  \/ Silent(c)'
         \/ ScanLine /\ output[1].to = c /\ output[1].is = "ok"
         \/ Forget(c)
  <1>0. /\ ch \in [Caller -> Outcome \cup {"empty"}] /\ result \in [Caller -> Result] /\ TypeOK
        /\ None \notin Caller
    BY NoneAssumption DEF TInv, TypeOK, Key
  <1>1. ASSUME UNCHANGED <<ch, carried, result>> PROVE Silent(c)'
    BY <1>1 DEF Silent
  <1>2. \A e \in Outcome : e # "ok" => Reason(e) # "ok"
    BY <1>0 DEF Reason, TypeOK
  <1>3. ASSUME NEW e \in Outcome, e # "ok", BreakPending(e), UNCHANGED <<carried, result>>
        PROVE  Silent(c)'
    <2>1. ch'[c] \in {ch[c], Reason(e)}
      BY <1>3 DEF BreakPending
    <2> QED BY <1>2, <1>3, <2>1 DEF Silent
  <1>4. ASSUME NEW d \in Caller, NEW r, Return(d, r), r # "ok" \/ d # c, UNCHANGED <<ch, carried>>
        PROVE  Silent(c)'
    <2>1. result'[c] \in {result[c], r} /\ (c # d => result'[c] = result[c])
      BY <1>0, <1>4 DEF Return
    <2> QED BY <1>4, <2>1 DEF Silent
  <1>5. /\ "session_closed" \in Outcome /\ "worker_exited" \in Outcome /\ "word_exited" \in Outcome
        /\ "worker_protocol_error" \in Outcome
    BY DEF Outcome
  <1>6. ASSUME NEW d \in Caller, Call(d) \/ WaitTask(d) PROVE Silent(c)'
    <2>1. UNCHANGED <<ch, carried>>
      BY <1>6 DEF Call, WaitTask, table, loops
    <2>2. UNCHANGED result \/ \E r \in {"word_exited", Reason("session_closed"), "unknown"} : Return(d, r)
      BY <1>6 DEF Call, WaitTask
    <2> QED BY <1>1, <1>2, <1>4, <1>5, <2>1, <2>2
  <1>7. ASSUME NEW d \in Caller, Receive(d) PROVE Silent(c)'
    <2>1. ch' = [ch EXCEPT ![d] = "empty"] /\ UNCHANGED carried
      BY <1>7 DEF Receive, loops
    <2>2. UNCHANGED result \/ Return(d, ch[d])
      BY <1>7 DEF Receive
    <2>3. ch'[c] \in {ch[c], "empty"} /\ result'[c] \in {result[c], ch[c]}
      BY <1>0, <2>1, <2>2 DEF Return
    <2> QED BY <2>1, <2>3 DEF Silent
  <1>8. ASSUME NEW d \in Caller, WriteFails(d) \/ DeadlineEnd(d) \/ SeesClosed(d) \/ Waited(d)
        PROVE  Silent(c)'
    <2>1. UNCHANGED <<ch, carried>>
      BY <1>8 DEF WriteFails, DeadlineEnd, SeesClosed, Waited, table, loops
    <2>2. Waited(d) => done[seen[d]] # "ok"
      BY DEF Waited, TInv, TypeOK, Keyed
    <2>3. \E r \in {"write_error", "native_deadline", Reason("session_closed"), done[seen[d]], "deadline"} :
             Return(d, r) /\ r # "ok"
      BY <1>2, <1>5, <1>8, <2>2 DEF WriteFails, DeadlineEnd, SeesClosed, Waited
    <2> QED BY <1>4, <2>1, <2>3
  <1>9. ASSUME NEW d \in Caller, Forget(d), d # c PROVE Silent(c)'
    BY <1>4, <1>9 DEF Forget, table, loops
  <1>10. ASSUME NEW d \in Caller, Register(d) \/ Write(d) \/ Deadline(d) \/ watchTask(d) PROVE Silent(c)'
    BY <1>1, <1>10 DEF Register, Write, Deadline, watchTask, WatchStart, WatchEnd, WatchFire, WatchClose, table,
       loops
  <1>11. CASE ScanLine
    <2>1. output[1] = Head(output) /\ UNCHANGED <<ch, result>>
      BY <1>0, <1>11, Tailed DEF ScanLine, TypeOK, call
    <2>2. carried' = carried \/ carried' = <<output[1].to, output[1].is>>
      BY <1>11, <2>1 DEF ScanLine
    <2>3. carried' = carried \/ (carried'[1] = output[1].to /\ carried'[2] = output[1].is)
      BY <2>2
    <2> QED BY <1>11, <2>1, <2>3 DEF Silent
  <1>12. CASE SendResponse
    <2>1. /\ ch' = [ch EXCEPT ![carried[1]] = carried[2]] /\ carried' = <<None, "empty">>
          /\ result' = result
      BY <1>12 DEF SendResponse, call
    <2>2. carried'[1] = None /\ (ch'[c] = ch[c] \/ (carried[1] = c /\ ch'[c] = carried[2]))
      BY <1>0, <2>1
    <2> QED BY <1>0, <2>1, <2>2 DEF Silent
  <1>13. CASE CloseEnd \/ ScanBreak \/ ScanGarbage \/ ObserveBreak
    <2>1. UNCHANGED <<carried, result>>
      BY <1>13 DEF CloseEnd, ScanBreak, ScanGarbage, ObserveBreak, loops, call
    <2>2. \E e \in Outcome : e # "ok" /\ BreakPending(e)
      BY <1>5, <1>13 DEF CloseEnd, ScanBreak, ScanGarbage, ObserveBreak
    <2> QED BY <1>3, <2>1, <2>2
  <1>14. CASE ScanEnd \/ ScanClose \/ ObserveExit
    BY <1>1, <1>14 DEF ScanEnd, ScanClose, ObserveExit, table, call
  <1>15. CASE Stop \/ KillJob \/ HostMain \/ WorkerExit \/ WordExit \/ UNCHANGED vars
    BY <1>1, <1>15 DEF Stop, KillJob, HostMain, ReadRequest, Enqueue, Take, Finish, Emit, WorkerExit,
       WordExit, vars, table, loops, call
  <1> QED BY <1>6, <1>7, <1>8, <1>9, <1>10, <1>11, <1>12, <1>13, <1>14, <1>15
             DEF Next, CallStep, Close, readResponses, observeWordExit

\* A line in the pipe was there, or the worker has just said it.
LEMMA PipeStep ==
  ASSUME TaskInv, [Next]_vars, NEW i \in DOMAIN output'
  PROVE  \/ \E j \in DOMAIN output : output'[i] = output[j] /\ (ScanLine => j # 1)
         \/ ReadRequest /\ output'[i].to = Head(input) /\ output' # output /\ ~(ScanLine \/ ScanEnd)
         \/ \E l \in Lane : Emit(l) /\ output'[i] = IF Begins(running[l]) THEN Completion(key[running[l]])
                                                    ELSE Reply(running[l], None, "ok")
  <1>0. output \in Seq(Line) /\ (ScanLine => output # <<>> /\ output' = Tail(output))
    BY Said DEF ScanLine
  <1>1. CASE ScanLine
    BY <1>0, <1>1, Tailed
  <1>2. CASE output' = output
    <2>1. ~ScanLine
      BY <1>0, <1>2
    <2> QED BY <1>2, <2>1
  <1>3. ASSUME NEW m \in Line, output' = Append(output, m)
        PROVE  /\ ~ScanLine /\ output' # output /\ output' # <<>>
               /\ \/ \E j \in DOMAIN output : output'[i] = output[j]
                  \/ output'[i] = m
    BY <1>0, <1>3, Appended
  <1>4. CASE ReadRequest /\ output' # output
    <2>1. PICK c \in Caller : c = Head(input)
      BY <1>4, ReadOnce DEF TaskInv
    <2>2. PICK m \in Line : m.to = c /\ output' = Append(output, m)
      <3>1. ASSUME NEW r \in {"ok", "refused"}, output' = Append(output, Reply(c, None, r))
            PROVE  \E m \in Line : m.to = c /\ output' = Append(output, m)
        <4>1. Reply(c, None, r) \in Line /\ Reply(c, None, r).to = c
          BY DEF Reply, Line
        <4> QED BY <3>1, <4>1
      <3>2. CASE Begins(c) /\ output' = Append(output, Reply(c, key[c], "ok"))
        <4>1. Reply(c, key[c], "ok") \in Line /\ Reply(c, key[c], "ok").to = c
          BY <3>2, Said DEF Reply
        <4> QED BY <3>2, <4>1
      <3> QED BY <1>4, <2>1, <3>1, <3>2, Said
    <2>3. ~ScanEnd
      BY <1>3, <2>2 DEF ScanEnd
    <2> QED BY <1>3, <1>4, <2>1, <2>2, <2>3
  <1>5. ASSUME NEW l \in Lane, Emit(l)
        PROVE  \/ \E j \in DOMAIN output : output'[i] = output[j] /\ ~ScanLine
               \/ output'[i] = IF Begins(running[l]) THEN Completion(key[running[l]])
                               ELSE Reply(running[l], None, "ok")
    <2>1. PICK m \in Line : /\ m = IF Begins(running[l]) THEN Completion(key[running[l]])
                                  ELSE Reply(running[l], None, "ok")
                            /\ output' = Append(output, m)
      BY <1>5, Said
    <2> QED BY <1>3, <2>1
  <1>6. CASE ScanEnd
    BY <1>6 DEF ScanEnd
  <1>7. CASE ObserveExit \/ \E c \in Caller : Forget(c)
    BY <1>2, <1>7 DEF ObserveExit, Forget, pipes
  <1> QED BY <1>1, <1>2, <1>4, <1>5, <1>6, <1>7, SpeakingSteps

\* A call is about to forget when it has heard that its forget was agreed to.
LEMMA ForgettingStep ==
  ASSUME TInv, [Next]_vars, NEW c \in Caller, cpc'[c] = "forgetting"
  PROVE  cpc[c] = "forgetting" \/ (Receive(c) /\ ch[c] = "ok" /\ kind[c] = "forget")
  <1>0. cpc \in [Caller -> Place]
    BY DEF TInv, TypeOK
  <1>1. ASSUME NEW d \in Caller, cpc' = cpc \/ (\E p \in Place \ {"forgetting"} : cpc' = [cpc EXCEPT ![d] = p])
        PROVE  cpc[c] = "forgetting"
    BY <1>0, <1>1
  <1>2. /\ "returned" \in Place \ {"forgetting"} /\ "admitted" \in Place \ {"forgetting"}
        /\ "waiting" \in Place \ {"forgetting"} /\ "awaiting" \in Place \ {"forgetting"}
        /\ "closing" \in Place \ {"forgetting"}
    BY DEF Place
  <1>3. ASSUME NEW d \in Caller, Call(d) \/ WaitTask(d) \/ Register(d) \/ Write(d) \/ WriteFails(d) \/ Forget(d)
        PROVE  cpc[c] = "forgetting"
    BY <1>1, <1>2, <1>3 DEF Call, WaitTask, Register, Write, WriteFails, Forget, Return
  <1>4. ASSUME NEW d \in Caller, Deadline(d) \/ DeadlineEnd(d) \/ SeesClosed(d) \/ Waited(d) \/ watchTask(d)
        PROVE  cpc[c] = "forgetting"
    BY <1>1, <1>2, <1>4 DEF Deadline, DeadlineEnd, SeesClosed, Waited, watchTask, WatchStart, WatchEnd,
       WatchFire, WatchClose, Return
  <1>5. ASSUME NEW d \in Caller, Receive(d)
        PROVE  cpc[c] = "forgetting" \/ (d = c /\ ch[c] = "ok" /\ kind[c] = "forget")
    BY <1>0, <1>5 DEF Receive, Return
  <1>6. ASSUME UNCHANGED cpc PROVE cpc[c] = "forgetting"
    BY <1>6
  <1>7. CASE Stop \/ Close \/ WorkerExit \/ WordExit \/ UNCHANGED vars
    BY <1>6, <1>7 DEF Stop, Close, KillJob, CloseEnd, WorkerExit, WordExit, vars, call
  <1>8. CASE readResponses \/ observeWordExit
    BY <1>6, <1>8 DEF readResponses, ScanLine, ScanGarbage, SendResponse, ScanEnd, ScanBreak,
       ScanClose, observeWordExit, ObserveExit, ObserveBreak, call
  <1>9. CASE HostMain
    BY <1>6, <1>9 DEF HostMain, ReadRequest, Enqueue, Take, Finish, Emit, call
  <1> QED BY <1>3, <1>4, <1>5, <1>7, <1>8, <1>9 DEF Next, CallStep

\* A call is told of its task before it hears of it, and once.
LEMMA AnswersStep == AnswerInv /\ [Next]_vars => AnswerInv'
  <1> SUFFICES ASSUME AnswerInv, [Next]_vars PROVE Answers'
    BY LinesStep DEF AnswerInv
  <1>0. /\ LineInv /\ TaskInv /\ PlaceInv /\ TInv /\ output \in Seq(Line) /\ None \notin Caller
        /\ \A i \in DOMAIN output : output[i].to \in Caller \cup {None}
    <2>1. LineInv /\ TaskInv /\ PlaceInv /\ TInv /\ output \in Seq(Line) /\ None \notin Caller
      BY Said DEF AnswerInv, LineInv, TaskInv, PlaceInv
    <2>2. \A i \in DOMAIN output : output[i] \in Line
      BY <2>1
    <2> QED BY <2>1, <2>2 DEF Line
  <1>1. \A c \in Caller : Unread(c)' => Unread(c)
    BY <1>0, Onward
  <1>2. \A i \in DOMAIN output, c \in Caller : output[i].to = c =>
          ~Unread(c) /\ kind'[c] = kind[c] /\ (Begins(c)' <=> Begins(c))
    <2> SUFFICES ASSUME NEW i \in DOMAIN output, NEW c \in Caller, output[i].to = c
                 PROVE  ~Unread(c) /\ kind'[c] = kind[c] /\ (Begins(c)' <=> Begins(c))
      OBVIOUS
    <2>1. ~Unread(c)
      BY <1>0 DEF LineInv, Lines
    <2> QED BY <1>0, <2>1, Settled DEF Unread
  <1>3. ASSUME NEW c \in Caller, Unread(c)' PROVE Silent(c)'
    <2>1. Silent(c) /\ Unread(c)
      BY <1>1, <1>3 DEF AnswerInv, Answers
    <2>2. ~(ScanLine /\ output[1].to = c)
      <3>1. ScanLine => 1 \in DOMAIN output
        BY <1>0, Entered
      <3> QED BY <1>2, <2>1, <3>1
    <2>3. ~Forget(c)
      BY <2>1 DEF Forget, AnswerInv, Answers
    <2> QED BY <1>0, <2>1, <2>2, <2>3, SilentStep
  <1>4. ASSUME NEW c \in Caller, Told(c)' PROVE Silent(c)'
    <2>1. PICK i \in DOMAIN output' : output'[i].to = c /\ Tells(output'[i])
      BY <1>4 DEF Told, Tells
    <2>2. CASE \E j \in DOMAIN output : output'[i] = output[j] /\ (ScanLine => j # 1)
      <3>1. PICK j \in DOMAIN output : output'[i] = output[j] /\ (ScanLine => j # 1)
        BY <2>2
      <3>2. /\ Tells(output[j]) /\ output[j].to = c /\ Told(c) /\ Silent(c) /\ Begins(c)
        BY <1>0, <2>1, <3>1 DEF Told, AnswerInv, Answers, LineInv, Lines
      <3>3. ~(ScanLine /\ output[1].to = c /\ output[1].is = "ok")
        <4> SUFFICES ASSUME ScanLine, output[1].to = c, output[1].is = "ok" PROVE FALSE
          OBVIOUS
        <4>1. 1 \in DOMAIN output /\ j # 1
          BY <1>0, <3>1, Entered
        <4>2. Tells(output[1])
          BY <1>0, <3>2, <4>1 DEF AnswerInv, Answers, Tells
        <4> QED BY <1>0, <3>2, <4>1, <4>2 DEF LineInv, Lines
      <3>4. ~Forget(c)
        BY <3>2 DEF Forget, AnswerInv, Answers, Begins, Beginning
      <3> QED BY <1>0, <3>2, <3>3, <3>4, SilentStep
    <2>3. CASE ReadRequest /\ c = Head(input) /\ ~(ScanLine \/ ScanEnd)
      <3>1. Unread(c) /\ Silent(c)
        BY <1>0, <2>3, ReadOnce DEF AnswerInv, Answers
      <3>2. ~Forget(c)
        BY <3>1 DEF Forget, AnswerInv, Answers
      <3> QED BY <1>0, <2>3, <3>1, <3>2, SilentStep
    <2>4. ASSUME NEW l \in Lane, output'[i] = IF Begins(running[l]) THEN Completion(key[running[l]])
                                              ELSE Reply(running[l], None, "ok")
          PROVE  FALSE
      BY <2>1, <2>4 DEF Completion, Reply, Tells
    <2> QED BY <1>0, <2>1, <2>2, <2>3, <2>4, PipeStep
  <1>5. ASSUME NEW i \in DOMAIN output', output'[i].to # None, output'[i].is = "ok",
               kind'[output'[i].to] \in Beginning
        PROVE  output'[i].task # None
    <2>1. CASE \E j \in DOMAIN output : output'[i] = output[j]
      <3>1. PICK j \in DOMAIN output : output'[i] = output[j]
        BY <2>1
      <3>2. PICK c \in Caller : c = output[j].to
        BY <1>0, <1>5, <3>1
      <3>3. Begins(c)
        BY <1>2, <1>5, <3>1, <3>2 DEF Begins
      <3> QED BY <1>5, <3>1, <3>2, <3>3 DEF AnswerInv, Answers
    <2>2. ASSUME ReadRequest, NEW c \in Caller, c = Head(input), output'[i].to = c, output' # output,
                 ~(\E j \in DOMAIN output : output'[i] = output[j])
          PROVE  output'[i].task # None
      <3>1. kind'[c] = kind[c] /\ Begins(c)
        BY <1>5, <2>2 DEF ReadRequest, call, Begins
      <3>2. \/ output' = Append(output, Reply(c, None, "refused"))
            \/ output' = Append(output, Reply(c, key[c], "ok"))
        BY <2>2, <3>1 DEF ReadRequest, Admit, Say, Begins, Beginning
      <3>3. /\ Reply(c, None, "refused") \in Line /\ Reply(c, key[c], "ok") \in Line
            /\ Reply(c, None, "refused").is = "refused" /\ Reply(c, key[c], "ok").task = key[c]
            /\ key[c] \in Key /\ None \notin Key
        BY <1>0, <3>1, Said, NoneAssumption DEF Reply, TInv, Keyed
      <3>4. output'[i] = Reply(c, None, "refused") \/ output'[i] = Reply(c, key[c], "ok")
        BY <1>0, <2>2, <3>2, <3>3, Appended
      <3> QED BY <1>5, <3>3, <3>4
    <2>3. ASSUME NEW l \in Lane, Emit(l),
                 output'[i] = IF Begins(running[l]) THEN Completion(key[running[l]])
                              ELSE Reply(running[l], None, "ok")
          PROVE  output'[i].task # None
      <3>1. UNCHANGED kind
        BY <2>3 DEF Emit, call
      <3>2. ~Begins(running[l]) /\ output'[i].to = running[l]
        BY <1>5, <2>3 DEF Completion, Reply
      <3> QED BY <1>5, <3>1, <3>2 DEF Begins
    <2>4. ReadRequest => Head(input) \in Caller
      BY <1>0, ReadOnce
    <2> QED BY <1>0, <2>1, <2>2, <2>3, <2>4, PipeStep
  <1>6. ASSUME NEW c \in Caller, cpc'[c] = "forgetting" PROVE ~Unread(c)' /\ kind'[c] = "forget"
    <2>1. cpc[c] = "forgetting" \/ (Receive(c) /\ ch[c] = "ok" /\ kind[c] = "forget")
      BY <1>0, <1>6, ForgettingStep
    <2>2. ~Unread(c) /\ kind[c] = "forget"
      BY <2>1 DEF AnswerInv, Answers, Silent
    <2> QED BY <1>0, <1>1, <2>2, Settled DEF Unread
  <1> QED BY <1>3, <1>4, <1>5, <1>6 DEF Answers, Begins

-----------------------------------------------------------------------------
(* A task that goes by its token, c, is watched as long as the worker has it.
   Only its own begin opens a completion under c, since no client can choose the
   name c; and the completion is given up when the worker says that the task is
   completed or agrees to forget it, both of which it does after the task. *)

Agreed(d) ==
  \/ ~Silent(d)
  \/ cpc[d] = "forgetting"
  \/ \E i \in DOMAIN output : output[i].to = d /\ output[i].is = "ok"

Overs ==
  /\ \A c \in Caller : record[c] = "completed" => Over(c)
  /\ \A i \in DOMAIN output : output[i].to = None /\ output[i].task \in Caller => Over(output[i].task)
  /\ \A k \in Key : entry[k] # None => key[entry[k]] = k /\ Begins(entry[k]) /\ ~Unread(entry[k])
  /\ \A d \in Caller : kind[d] = "forget" /\ key[d] \in Caller /\ Agreed(d) => Over(key[d])

OverInv == AnswerInv /\ Overs

\* A task's item is over from the step that completes it.
LEMMA Completed ==
  ASSUME PlaceInv, NEW l \in Lane, NEW c \in Caller, c = running[l]
  PROVE  /\ l \in finished => Over(c)
         /\ Finish(l) => Over(c)'
  <1>0. None \notin Caller /\ finished \subseteq Lane
    BY NoneAssumption DEF PlaceInv, TInv, TypeOK, Key
  <1>1. ASSUME l \in finished PROVE Over(c)
    <2>1. ~Unread(c) /\ held # c /\ ~Queued(c) /\ \A m \in Lane \ finished : running[m] # c
      BY <1>0, <1>1, DoneIsOver
    <2> QED BY <2>1 DEF Over, Item, Runs
  <1>2. ASSUME Finish(l) PROVE Over(c)'
    <2> DEFINE F == finished \cup {l}
    <2>1. finished' = F /\ UNCHANGED <<writer, input, held, queue, running>>
      BY <1>2 DEF Finish, call, pipes
    <2>2. ~Unread(c) /\ held # c /\ ~Queued(c) /\ \A m \in Lane \ F : running[m] # c
      BY <1>0, DoneIsOver
    <2> HIDE DEF F
    <2> QED BY <2>1, <2>2 DEF Over, Unread, Asked, Item, Queued, Runs
  <1> QED BY <1>1, <1>2

\* A record is completed by the step that does its task.
LEMMA CompletedStep ==
  ASSUME TaskInv, [Next]_vars, NEW c \in Caller, record'[c] = "completed"
  PROVE  \/ record[c] = "completed"
         \/ \E l \in Lane : Finish(l) /\ Begins(running[l]) /\ key[running[l]] = c
  <1>0. /\ record \in [Key -> {"absent", "unfinished", "completed"}] /\ PlaceInv /\ TInv /\ c \in Key
    BY DEF TaskInv, PlaceInv, TInv, TypeOK, Key
  <1>1. CASE Aside
    BY <1>1 DEF Aside
  <1>2. ASSUME NEW d \in Caller, Call(d) \/ WaitTask(d) \/ Register(d) \/ Write(d)
        PROVE  record[c] = "completed"
    BY <1>2 DEF Call, WaitTask, Register, Write, worker
  <1>3. CASE KillJob \/ WorkerExit
    <2>1. record' = NoRecord
      BY <1>3 DEF KillJob, WorkerExit, WorkerEnds
    <2> QED BY <1>0, <2>1 DEF NoRecord
  <1>4. CASE ReadRequest
    <2>1. \/ record' = record
          \/ \E k, r \in Key \cup {"absent", "unfinished"} :
               r \in {"absent", "unfinished"} /\ record' = [record EXCEPT ![k] = r]
      BY <1>0, <1>4, ReadOnce DEF ReadRequest, Admit, TInv, Keyed, TaskInv, Keys
    <2> QED BY <1>0, <2>1
  <1>5. ASSUME NEW l \in Lane, Finish(l)
        PROVE  record[c] = "completed" \/ (Begins(running[l]) /\ key[running[l]] = c)
    BY <1>0, <1>5 DEF Finish
  <1>6. CASE Enqueue \/ \E l \in Lane : Take(l) \/ Emit(l)
    BY <1>6 DEF Enqueue, Take, Emit
  <1> QED BY <1>0, <1>1, <1>2, <1>3, <1>4, <1>5, <1>6, StepsAside DEF Next, CallStep, Close, HostMain

\* An entry is opened by the line that tells of its task.
LEMMA EntryStep ==
  ASSUME LineInv, [Next]_vars, NEW k \in Key, entry'[k] # None
  PROVE  \/ entry'[k] = entry[k]
         \/ /\ ScanLine /\ 1 \in DOMAIN output /\ Tells(output[1])
            /\ k = output[1].task /\ entry'[k] = output[1].to /\ output[1].to \in Caller
  <1>0. entry \in [Key -> Caller \cup {None}]
    BY DEF LineInv, TaskInv, PlaceInv, TInv, TypeOK
  <1>1. CASE ScanLine
    <2>1. PICK m : m = output[1]
      OBVIOUS
    <2>2. /\ 1 \in DOMAIN output
          /\ m.task = None => entry' = entry
          /\ Tells(m) => m.to \in Caller /\ entry' = [entry EXCEPT ![m.task] = m.to]
          /\ m.task # None /\ m.to = None => entry' = entry
      BY <1>1, <2>1, Entered
    <2> QED BY <1>0, <1>1, <2>1, <2>2 DEF Tells
  <1>2. ASSUME NEW d \in Caller, Forget(d) PROVE entry'[k] = entry[k]
    BY <1>0, <1>2 DEF Forget
  <1>3. CASE ReadRequest \/ ScanEnd \/ ObserveExit \/ \E l \in Lane : Emit(l)
    BY <1>3 DEF ReadRequest, ScanEnd, ObserveExit, Emit, completion
  <1> QED BY <1>1, <1>2, <1>3, SpeakingSteps

\* A forget hears of its agreement from where there was one, or the reader has
\* just agreed to it.
LEMMA AgreedStep ==
  ASSUME AnswerInv, [Next]_vars, NEW d \in Caller, kind'[d] = "forget", Agreed(d)'
  PROVE  Agreed(d) \/ (ReadRequest /\ d = Head(input) /\ record[key[d]] = "completed")
  <1>0. TaskInv /\ PlaceInv /\ TInv /\ output \in Seq(Line) /\ None \notin Caller
    BY Said DEF AnswerInv, LineInv, TaskInv, PlaceInv
  <1>1. ASSUME Silent(d), ~Silent(d)' PROVE Agreed(d)
    <2>1. ScanLine => 1 \in DOMAIN output
      BY Entered DEF AnswerInv
    <2> QED BY <1>0, <1>1, <2>1, SilentStep DEF Agreed, Forget
  <1>2. ASSUME cpc'[d] = "forgetting" PROVE Agreed(d)
    BY <1>0, <1>2, ForgettingStep DEF Agreed, Silent
  <1>3. ASSUME NEW i \in DOMAIN output', output'[i].to = d, output'[i].is = "ok"
        PROVE  Agreed(d) \/ (ReadRequest /\ d = Head(input) /\ record[key[d]] = "completed")
    <2>1. CASE \E j \in DOMAIN output : output'[i] = output[j]
      BY <1>3, <2>1 DEF Agreed
    <2>2. CASE ReadRequest /\ d = Head(input) /\ ~(\E j \in DOMAIN output : output'[i] = output[j])
      <3>1. kind[d] = "forget"
        BY <2>2 DEF ReadRequest, call
      <3>2. ASSUME Refuses(d) PROVE FALSE
        <4>1. output' = Append(output, Reply(d, None, "refused"))
          BY <2>2, <3>2 DEF ReadRequest, Say
        <4>2. Reply(d, None, "refused") \in Line /\ Reply(d, None, "refused").is = "refused"
          BY DEF Reply, Line
        <4> QED BY <1>0, <1>3, <2>2, <4>1, <4>2, Appended
      <3> QED BY <2>2, <3>1, <3>2 DEF Refuses
    <2>3. ASSUME NEW l \in Lane, Emit(l),
                 output'[i] = IF Begins(running[l]) THEN Completion(key[running[l]])
                              ELSE Reply(running[l], None, "ok")
          PROVE  FALSE
      <3>1. d = running[l] /\ ~Begins(d)
        BY <1>0, <1>3, <2>3 DEF Completion, Reply
      <3>2. kind[d] \in {"work", "ui"}
        BY <1>0, <3>1 DEF Has, Taken, PlaceInv, Items, Begins
      <3>3. kind'[d] = kind[d]
        BY <2>3 DEF Emit, call
      <3> QED BY <3>2, <3>3
    <2> QED BY <1>0, <1>3, <2>1, <2>2, <2>3, PipeStep
  <1> QED BY <1>1, <1>2, <1>3 DEF Agreed

\* What the worker has completed, said or agreed to forget, it does not have.
LEMMA OversStep == OverInv /\ [Next]_vars => OverInv'
  <1> SUFFICES ASSUME OverInv, [Next]_vars PROVE Overs'
    BY AnswersStep DEF OverInv
  <1>0. /\ AnswerInv /\ LineInv /\ TaskInv /\ PlaceInv /\ TInv /\ None \notin Caller
        /\ Caller \cap Name = {}
    BY NoneAssumption DEF OverInv, AnswerInv, LineInv, TaskInv, PlaceInv, Key
  <1>1. \A c \in Caller : (Over(c) => Over(c)') /\ (Unread(c)' => Unread(c))
    BY <1>0, Onward
  <1>2. ASSUME NEW c \in Caller, ~Unread(c)
        PROVE  kind'[c] = kind[c] /\ key'[c] = key[c] /\ (Begins(c)' <=> Begins(c)) /\ ~Unread(c)'
    BY <1>0, <1>1, <1>2, Settled DEF Unread
  <1>3. \A b \in Caller : Begins(b) /\ key[b] \in Caller => key[b] = b
    BY <1>0 DEF TaskInv, Keys
  <1>4. ASSUME NEW c \in Caller, record'[c] = "completed" PROVE Over(c)'
    <2>1. CASE record[c] = "completed"
      BY <1>1, <2>1 DEF OverInv, Overs
    <2>2. ASSUME NEW l \in Lane, Finish(l), Begins(running[l]), key[running[l]] = c PROVE Over(c)'
      <3>1. running[l] \in Caller
        BY <1>0, <2>2 DEF Finish, TInv, TypeOK
      <3>2. running[l] = c
        BY <1>3, <2>2, <3>1
      <3> QED BY <1>0, <2>2, <3>2, Completed
    <2> QED BY <1>0, <1>4, <2>1, <2>2, CompletedStep
  <1>5. ASSUME NEW i \in DOMAIN output', output'[i].to = None, output'[i].task \in Caller
        PROVE  \A c \in Caller : c = output'[i].task => Over(c)'
    <2>1. CASE \E j \in DOMAIN output : output'[i] = output[j]
      BY <1>1, <1>5, <2>1 DEF OverInv, Overs
    <2>2. CASE ReadRequest /\ output'[i].to = Head(input)
      BY <1>0, <1>5, <2>2, ReadOnce
    <2>3. ASSUME NEW l \in Lane, Emit(l),
                 output'[i] = IF Begins(running[l]) THEN Completion(key[running[l]])
                              ELSE Reply(running[l], None, "ok")
          PROVE  \A c \in Caller : c = output'[i].task => Over(c)'
      <3>1. PICK b \in Caller : b = running[l] /\ l \in finished
        BY <1>0, <2>3, Said
      <3>2. Begins(b) /\ output'[i].task = key[b]
        BY <1>0, <1>5, <2>3, <3>1 DEF Reply, Completion
      <3>3. key[b] = b /\ Over(b)
        BY <1>0, <1>3, <1>5, <3>1, <3>2, Completed
      <3> QED BY <1>1, <3>2, <3>3
    <2> QED BY <1>0, <2>1, <2>2, <2>3, PipeStep
  <1>6. ASSUME NEW k \in Key, entry'[k] # None
        PROVE  \A c \in Caller : c = entry'[k] => key'[c] = k /\ Begins(c)' /\ ~Unread(c)'
    <2>1. CASE entry'[k] = entry[k]
      BY <1>2, <1>6, <2>1 DEF OverInv, Overs
    <2>2. CASE /\ ScanLine /\ 1 \in DOMAIN output /\ Tells(output[1])
               /\ k = output[1].task /\ entry'[k] = output[1].to /\ output[1].to \in Caller
      <3>1. PICK c \in Caller : c = output[1].to
        BY <2>2
      <3>2. Begins(c) /\ key[c] = k /\ ~Unread(c)
        BY <1>0, <2>2, <3>1 DEF LineInv, Lines
      <3> QED BY <1>2, <2>2, <3>1, <3>2
    <2> QED BY <1>0, <1>6, <2>1, <2>2, EntryStep
  <1>7. \A k \in Key : entry'[k] # None => entry'[k] \in Caller
    BY <1>0, TypesStep DEF TInv, TypeOK
  <1>8. ASSUME NEW d \in Caller, kind'[d] = "forget", key'[d] \in Caller, Agreed(d)'
        PROVE  \A c \in Caller : c = key'[d] => Over(c)'
    <2>1. CASE Agreed(d)
      <3>1. ~Unread(d)
        BY <1>0, <2>1 DEF Agreed, AnswerInv, Answers, LineInv, Lines
      <3>2. kind[d] = "forget" /\ key'[d] = key[d]
        BY <1>2, <1>8, <3>1
      <3>3. Over(key[d])
        BY <1>8, <2>1, <3>2 DEF OverInv, Overs
      <3> QED BY <1>1, <3>2, <3>3
    <2>2. CASE ReadRequest /\ d = Head(input) /\ record[key[d]] = "completed"
      <3>1. key'[d] = key[d]
        BY <2>2 DEF ReadRequest, call
      <3>2. Over(key[d])
        BY <1>8, <2>2, <3>1 DEF OverInv, Overs
      <3> QED BY <1>1, <3>1, <3>2
    <2> QED BY <1>0, <1>8, <2>1, <2>2, AgreedStep
  <1>9. ASSUME NEW i \in DOMAIN output', output'[i].to = None, output'[i].task \in Caller
        PROVE  Over(output[i].task)'
    BY <1>5, <1>9 DEF Over, Item, Queued, Runs, Unread, Asked
  <1> QED BY <1>4, <1>6, <1>7, <1>8, <1>9 DEF Overs, Over, Item, Queued, Runs, Unread, Asked, Begins

\* Where the completion of a task and its watchdog are, as long as the worker
\* has the task: the completion is still to be told of, or it is open.
Watched ==
  \A c \in Caller : key[c] = c /\ Owes(c) /\ ~Closed /\ word =>
    /\ Told(c) \/ (entry[c] = c /\ done[c] = "open")
    /\ result[c] = "ok" => watch[c] = "starting" \/ (watch[c] \in {"watching", "firing"} /\ seen[c] = c)

WatchInv == OverInv /\ Watched

\* A session that is closed does not open, and Word does not come back.
LEMMA EndsStay ==
  ASSUME [Next]_vars
  PROVE  (Closed => Closed') /\ (~word => ~word')
  <1>1. ASSUME UNCHANGED <<session, worker>> PROVE (Closed => Closed') /\ (~word => ~word')
    BY <1>1 DEF session, worker, Closed
  <1>2. CASE Stop \/ Close \/ WorkerExit \/ WordExit \/ UNCHANGED vars
    BY <1>1, <1>2 DEF Stop, Ending, CloseBy, Close, KillJob, CloseEnd, WorkerEnds, WorkerExit, WordExit,
       Closed, vars, session, worker
  <1>3. ASSUME NEW c \in Caller, Call(c) \/ WaitTask(c) \/ CallStep(c)
        PROVE  (Closed => Closed') /\ (~word => ~word')
    BY <1>1, <1>3 DEF Call, WaitTask, CallStep, Register, Write, WriteFails, Receive, Forget, Deadline,
       DeadlineEnd, SeesClosed, Waited, CloseBy, Closed, worker
  <1>4. ASSUME NEW c \in Caller, watchTask(c) PROVE (Closed => Closed') /\ (~word => ~word')
    BY <1>1, <1>4 DEF watchTask, WatchStart, WatchEnd, WatchFire, WatchClose, CloseBy, Closed, worker
  <1>5. CASE readResponses \/ observeWordExit
    BY <1>1, <1>5 DEF readResponses, ScanLine, ScanGarbage, SendResponse, ScanEnd, ScanBreak, ScanClose,
       observeWordExit, ObserveExit, ObserveBreak, CloseBy, Closed, worker, session
  <1>6. CASE HostMain
    BY <1>6 DEF HostMain, ReadRequest, Enqueue, Take, Finish, Emit, Closed, session
  <1> QED BY <1>2, <1>3, <1>4, <1>5, <1>6 DEF Next

\* The completion of a task that the worker has stays open, or to be told of.
LEMMA OpenStep ==
  ASSUME OverInv, [Next]_vars, NEW c \in Caller, key[c] = c, Item(c), word,
         Told(c) \/ (entry[c] = c /\ done[c] = "open")
  PROVE  Told(c)' \/ (entry'[c] = c /\ done'[c] = "open")
  <1>0. /\ AnswerInv /\ LineInv /\ TaskInv /\ PlaceInv /\ TInv /\ None \notin Caller
        /\ Caller \cap Name = {} /\ output \in Seq(Line) /\ ~Over(c) /\ c \in Key
        /\ entry \in [Key -> Caller \cup {None}]
        /\ done \in [Caller -> {"none", "open", "done", "forgotten", "word_exited"}]
    BY NoneAssumption, Said
       DEF OverInv, AnswerInv, LineInv, TaskInv, PlaceInv, TInv, TypeOK, Key, Over
  <1>1. ASSUME NEW b \in Caller, Begins(b), key[b] = c PROVE b = c
    BY <1>0, <1>1 DEF TaskInv, Keys
  <1>2. CASE UNCHANGED <<entry, done, output>>
    BY <1>2 DEF Told
  <1>3. ASSUME NEW m \in Line, output' = Append(output, m), UNCHANGED <<entry, done>>
        PROVE  Told(c)' \/ (entry'[c] = c /\ done'[c] = "open")
    <2>1. \A i \in DOMAIN output : i \in DOMAIN output' /\ output'[i] = output[i]
      BY <1>0, <1>3, Appended
    <2> QED BY <1>3, <2>1 DEF Told
  <1>4. CASE ReadRequest
    <2>1. PICK b \in Caller : b = Head(input)
      BY <1>0, <1>4, ReadOnce
    <2>2. output' = output \/ \E m \in Line : output' = Append(output, m)
      BY <1>0, <1>4, <2>1, Said
    <2>3. UNCHANGED <<entry, done>>
      BY <1>4 DEF ReadRequest, completion
    <2> QED BY <1>2, <1>3, <2>2, <2>3
  <1>5. ASSUME NEW l \in Lane, Emit(l) PROVE Told(c)' \/ (entry'[c] = c /\ done'[c] = "open")
    <2>1. \E m \in Line : output' = Append(output, m)
      BY <1>0, <1>5, Said
    <2>2. UNCHANGED <<entry, done>>
      BY <1>5 DEF Emit, completion
    <2> QED BY <1>3, <2>1, <2>2
  <1>6. CASE ScanEnd
    <2>1. held = None /\ queue = NoQueue /\ running = Nobody
      BY <1>0, <1>6 DEF ScanEnd, TInv, TypeOK
    <2>2. \A l \in Lane : DOMAIN queue[l] = {} /\ running[l] = None
      BY <2>1 DEF NoQueue, Nobody
    <2> QED BY <1>0, <2>1, <2>2 DEF Item, Queued, Runs
  <1>7. CASE ObserveExit
    BY <1>7 DEF ObserveExit
  <1>8. ASSUME NEW d \in Caller, Forget(d) PROVE Told(c)' \/ (entry'[c] = c /\ done'[c] = "open")
    <2>1. kind[d] = "forget" /\ Agreed(d) /\ key[d] \in Key
      BY <1>0, <1>8 DEF Forget, Agreed, AnswerInv, Answers, TaskInv, Keys
    <2>2. key[d] # c
      BY <1>0, <2>1 DEF OverInv, Overs
    <2>3. entry[key[d]] # c
      BY <1>0, <2>1, <2>2 DEF OverInv, Overs
    <2>4. output' = output /\ entry'[c] = entry[c] /\ done'[c] = done[c]
      BY <1>0, <1>8, <2>1, <2>2, <2>3 DEF Forget, pipes
    <2> QED BY <2>4 DEF Told
  <1>9. CASE ScanLine
    <2>1. PICK m : m = output[1]
      OBVIOUS
    <2>2. /\ 1 \in DOMAIN output /\ output' = Tail(output)
          /\ m.to \in Caller \cup {None} /\ m.task \in Key \cup {None}
          /\ m.task = None => UNCHANGED <<entry, done>>
          /\ Tells(m) => /\ m.to \in Caller
                         /\ entry' = [entry EXCEPT ![m.task] = m.to]
                         /\ done' = [done EXCEPT ![m.to] = "open"]
          /\ m.task # None /\ m.to = None =>
               /\ entry' = entry
               /\ \A b \in Caller : done'[b] # done[b] => b = entry[m.task] /\ done[b] = "open"
      BY <1>0, <1>9, <2>1, Entered
    <2>3. ASSUME Told(c), ~(Tells(m) /\ m.to = c) PROVE Told(c)'
      <3>1. PICK i \in DOMAIN output : output[i].to = c /\ Tells(output[i])
        BY <2>3 DEF Told
      <3>2. i # 1
        BY <2>1, <2>3, <3>1
      <3>3. i - 1 \in DOMAIN output' /\ output'[i - 1] = output[i]
        BY <1>0, <2>2, <3>1, <3>2
      <3> QED BY <3>1, <3>3 DEF Told
    <2>4. CASE m.task = None
      BY <2>2, <2>3, <2>4 DEF Tells
    <2>5. CASE Tells(m)
      <3>1. Begins(m.to) /\ m.task = key[m.to] /\ m.to \in Caller /\ m.task \in Key
        BY <1>0, <2>1, <2>2, <2>5 DEF LineInv, Lines, Tells
      <3>2. CASE m.to = c
        BY <1>0, <2>2, <2>5, <3>1, <3>2
      <3>3. CASE m.to # c
        <4>1. m.task # c
          BY <1>1, <3>1, <3>3
        <4>2. entry'[c] = entry[c] /\ done'[c] = done[c]
          BY <1>0, <2>2, <2>5, <3>3, <4>1
        <4> QED BY <2>3, <3>3, <4>2
      <3> QED BY <3>2, <3>3
    <2>6. CASE m.task # None /\ m.to = None
      <3>1. m.task # c
        BY <1>0, <2>1, <2>2, <2>6 DEF OverInv, Overs
      <3>2. entry[m.task] # c
        BY <1>0, <2>2, <2>6, <3>1 DEF OverInv, Overs
      <3>3. entry'[c] = entry[c] /\ done'[c] = done[c]
        BY <2>2, <2>6, <3>2
      <3> QED BY <1>0, <2>3, <2>6, <3>3 DEF Tells
    <2> QED BY <2>4, <2>5, <2>6 DEF Tells
  <1> QED BY <1>2, <1>4, <1>5, <1>6, <1>7, <1>8, <1>9, SpeakingSteps

\* The watchdog of a task that the worker has is there until the session ends.
LEMMA DogStep ==
  ASSUME OverInv, [Next]_vars, NEW c \in Caller, key[c] = c, Owes(c), ~Closed, ~Closed',
         Told(c) \/ (entry[c] = c /\ done[c] = "open"),
         result[c] = "ok" => watch[c] = "starting" \/ (watch[c] \in {"watching", "firing"} /\ seen[c] = c),
         result'[c] = "ok"
  PROVE  watch'[c] = "starting" \/ (watch'[c] \in {"watching", "firing"} /\ seen'[c] = c)
  <1> DEFINE Dog == watch[c] = "starting" \/ (watch[c] \in {"watching", "firing"} /\ seen[c] = c)
  <1>0. /\ AnswerInv /\ LineInv /\ TaskInv /\ PlaceInv /\ TInv /\ TypeOK /\ None \notin Caller
        /\ Begins(c) /\ Has(c) /\ ~Unread(c)
        /\ watch \in [Caller -> {"off", "starting", "watching", "firing", "over"}]
        /\ seen \in [Caller -> Caller \cup {None}] /\ result \in [Caller -> Result]
    <2>1. /\ AnswerInv /\ LineInv /\ TaskInv /\ PlaceInv /\ TInv /\ TypeOK /\ None \notin Caller
          /\ Begins(c) /\ Has(c)
      BY NoneAssumption DEF OverInv, AnswerInv, LineInv, TaskInv, PlaceInv, TInv, Key, Owes, Item, Has,
         Runs, Taken
    <2> QED BY <2>1 DEF PlaceInv, Items, TInv, TypeOK
  <1>1. cpc[c] # "new" /\ kind[c] # "forget"
    BY <1>0 DEF PlaceInv, Requests, Unread, Begins, Beginning
  <1>2. result[c] = "ok" => entry[c] = c /\ done[c] = "open"
    BY <1>0 DEF AnswerInv, Answers, Silent
  <1>3. ASSUME UNCHANGED <<result, watch, seen>> PROVE Dog'
    BY <1>3
  <1>4. ASSUME NEW d \in Caller, NEW r, Return(d, r), r # "ok",
               UNCHANGED watch, seen'[c] = seen[c]
        PROVE  Dog'
    <2>1. result'[c] = result[c]
      BY <1>0, <1>4 DEF Return
    <2> QED BY <1>4, <2>1
  <1>5. ASSUME NEW d \in Caller, Call(d) PROVE Dog'
    <2>1. d # c /\ UNCHANGED <<watch, seen>>
      BY <1>1, <1>5 DEF Call
    <2>2. result'[c] = result[c]
      BY <1>0, <1>5, <2>1 DEF Call, Return
    <2> QED BY <2>1, <2>2
  <1>6. ASSUME NEW d \in Caller, WaitTask(d) PROVE Dog'
    <2>1. d # c /\ UNCHANGED watch
      BY <1>1, <1>6 DEF WaitTask
    <2>2. result'[c] = result[c] /\ seen'[c] = seen[c]
      BY <1>0, <1>6, <2>1 DEF WaitTask, Return
    <2> QED BY <2>1, <2>2
  <1>7. ASSUME NEW d \in Caller, WriteFails(d) \/ DeadlineEnd(d) \/ SeesClosed(d) \/ Waited(d) PROVE Dog'
    <2>1. UNCHANGED <<watch, seen>>
      BY <1>7 DEF WriteFails, DeadlineEnd, SeesClosed, Waited
    <2>2. Reason("session_closed") # "ok"
      BY <1>0 DEF Reason, TypeOK
    <2>3. Waited(d) => done[seen[d]] # "ok"
      BY <1>0 DEF Waited, TInv, TypeOK, Keyed
    <2>4. \E r \in {"write_error", "native_deadline", Reason("session_closed"), done[seen[d]], "deadline"} :
             Return(d, r) /\ r # "ok"
      BY <1>7, <2>2, <2>3 DEF WriteFails, DeadlineEnd, SeesClosed, Waited
    <2> QED BY <1>4, <2>1, <2>4
  <1>8. ASSUME NEW d \in Caller, Forget(d) PROVE Dog'
    <2>1. d # c /\ UNCHANGED <<watch, seen>>
      BY <1>0, <1>1, <1>8 DEF Forget, AnswerInv, Answers
    <2>2. result'[c] = result[c]
      BY <1>0, <1>8, <2>1 DEF Forget, Return
    <2> QED BY <2>1, <2>2
  <1>9. ASSUME NEW d \in Caller, Receive(d) PROVE Dog'
    <2>1. CASE d = c
      <3>1. result' = [result EXCEPT ![c] = ch[c]]
        BY <1>1, <1>9, <2>1 DEF Receive, Return
      <3>2. ch[c] = "ok" /\ watch' = [watch EXCEPT ![c] = "starting"]
        BY <1>0, <1>9, <2>1, <3>1 DEF Receive
      <3> QED BY <1>0, <3>2
    <2>2. CASE d # c
      <3>1. result'[c] = result[c] /\ watch'[c] = watch[c] /\ seen'[c] = seen[c]
        BY <1>0, <1>9, <2>2 DEF Receive, Return
      <3> QED BY <3>1
    <2> QED BY <2>1, <2>2
  <1>10. ASSUME NEW d \in Caller, WatchStart(d) PROVE Dog'
    <2>1. result' = result
      BY <1>10 DEF WatchStart
    <2>2. CASE d = c
      <3>1. seen' = [seen EXCEPT ![c] = c] /\ watch' = [watch EXCEPT ![c] = "watching"]
        BY <1>0, <1>2, <1>10, <2>1, <2>2 DEF WatchStart
      <3> QED BY <1>0, <3>1
    <2>3. CASE d # c
      <3>1. watch'[c] = watch[c] /\ seen'[c] = seen[c]
        BY <1>0, <1>10, <2>3 DEF WatchStart
      <3> QED BY <2>1, <3>1
    <2> QED BY <2>2, <2>3
  <1>11. ASSUME NEW d \in Caller, WatchEnd(d) PROVE Dog'
    <2>1. result' = result /\ seen' = seen
      BY <1>11 DEF WatchEnd
    <2>2. d # c
      BY <1>2, <1>11, <2>1 DEF WatchEnd
    <2>3. watch'[c] = watch[c]
      BY <1>0, <1>11, <2>2 DEF WatchEnd
    <2> QED BY <2>1, <2>3
  <1>12. ASSUME NEW d \in Caller, WatchFire(d) PROVE Dog'
    <2>1. result' = result /\ seen' = seen
      BY <1>12 DEF WatchFire
    <2>2. watch' = [watch EXCEPT ![d] = "firing"] /\ watch[d] = "watching"
      BY <1>12 DEF WatchFire
    <2> QED BY <1>0, <2>1, <2>2
  <1>17. ASSUME NEW d \in Caller, WatchClose(d) PROVE FALSE
    BY <1>17 DEF WatchClose, CloseBy, Closed
  <1>13. ASSUME NEW d \in Caller, Register(d) \/ Write(d) \/ Deadline(d) PROVE Dog'
    BY <1>3, <1>13 DEF Register, Write, Deadline
  <1>14. CASE Stop \/ Close \/ WorkerExit \/ WordExit \/ UNCHANGED vars
    BY <1>3, <1>14 DEF Stop, Close, KillJob, CloseEnd, WorkerExit, WordExit, vars, call
  <1>15. CASE readResponses \/ observeWordExit
    BY <1>3, <1>15 DEF readResponses, ScanLine, ScanGarbage, SendResponse, ScanEnd, ScanBreak,
       ScanClose, observeWordExit, ObserveExit, ObserveBreak, call
  <1>16. CASE HostMain
    BY <1>3, <1>16 DEF HostMain, ReadRequest, Enqueue, Take, Finish, Emit, call
  <1> QED BY <1>5, <1>6, <1>7, <1>8, <1>9, <1>10, <1>11, <1>12, <1>13, <1>14, <1>15, <1>16,
             <1>17 DEF Next, CallStep, watchTask

\* A task that the worker takes is told of, and is watched from its answer on.
LEMMA WatchedStep == WatchInv /\ [Next]_vars => WatchInv'
  <1> SUFFICES ASSUME WatchInv, [Next]_vars,
                      NEW c \in Caller, key'[c] = c, Owes(c)', ~Closed', word'
               PROVE  /\ Told(c)' \/ (entry'[c] = c /\ done'[c] = "open")
                      /\ result'[c] = "ok" =>
                           watch'[c] = "starting" \/ (watch'[c] \in {"watching", "firing"} /\ seen'[c] = c)
    BY OversStep DEF WatchInv, Watched
  <1>0. /\ OverInv /\ AnswerInv /\ LineInv /\ TaskInv /\ PlaceInv /\ output \in Seq(Line)
        /\ None \notin Caller
    BY Said DEF WatchInv, OverInv, AnswerInv, LineInv, TaskInv
  <1>1. ~Closed /\ word /\ key[c] = c /\ Begins(c)
    BY <1>0, EndsStay, OwesStep
  <1>2. CASE Owes(c)
    <2>1. /\ Told(c) \/ (entry[c] = c /\ done[c] = "open")
          /\ result[c] = "ok" => watch[c] = "starting" \/ (watch[c] \in {"watching", "firing"} /\ seen[c] = c)
      BY <1>1, <1>2 DEF WatchInv, Watched
    <2> QED BY <1>0, <1>1, <1>2, <2>1, OpenStep, DogStep DEF Owes
  <1>3. CASE ReadRequest /\ c = Head(input) /\ held' = c /\ Unread(c)
    <2>1. result'[c] # "ok"
      BY <1>0, <1>3 DEF ReadRequest, call, AnswerInv, Answers, Silent
    <2>2. ~Refuses(c)
      BY <1>0, <1>3 DEF ReadRequest
    <2>3. output' = Append(output, Reply(c, c, "ok"))
      BY <1>1, <1>3, <2>2 DEF ReadRequest, Admit, Begins, Beginning
    <2>4. Reply(c, c, "ok") \in Line /\ Reply(c, c, "ok").to = c /\ Tells(Reply(c, c, "ok"))
      BY <1>0, <1>1, Said DEF Reply, Tells
    <2>5. Len(output) + 1 \in DOMAIN output' /\ output'[Len(output) + 1] = Reply(c, c, "ok")
      BY <1>0, <2>3, <2>4
    <2> QED BY <2>1, <2>4, <2>5 DEF Told
  <1> QED BY <1>0, <1>2, <1>3, OwesStep

-----------------------------------------------------------------------------
\* At the start nothing was asked, begun or said.
LEMMA NothingAsked == Init => WatchInv /\ SyncNeverWaitsForTasks
  <1> SUFFICES ASSUME Init PROVE WatchInv /\ SyncNeverWaitsForTasks
    OBVIOUS
  <1>0. TInv /\ None \notin Caller
    BY Initially, NoneAssumption DEF SInv, Key
  <1>1. \A l \in Lane : queue[l] = <<>> /\ DOMAIN queue[l] = {} /\ running[l] = None
    BY DEF Init, NoQueue, Nobody
  <1>2. held = None /\ input = <<>> /\ DOMAIN input = {} /\ output = <<>> /\ DOMAIN output = {}
    BY DEF Init
  <1>3. \A c \in Caller : ~Has(c) /\ ~Item(c) /\ ~Told(c)
    BY <1>0, <1>1, <1>2 DEF Has, Item, Queued, Runs, Taken, Told
  <1>4. PlaceInv
    BY <1>0, <1>1, <1>2, <1>3 DEF Init, PlaceInv, Requests, Items
  <1>5. Keys /\ Tasks
    BY <1>3 DEF Init, Keys, Tasks, Owes, Begins, Beginning
  <1>6. Lines /\ Answers
    BY <1>2, <1>3 DEF Init, Lines, Answers, Silent
  <1>7. Overs /\ Watched
    BY <1>2, <1>3 DEF Init, Overs, Watched, Owes, NoRecord, Key
  <1>8. SyncNeverWaitsForTasks
    BY DEF Init, SyncNeverWaitsForTasks
  <1> QED BY <1>4, <1>5, <1>6, <1>7, <1>8 DEF WatchInv, OverInv, AnswerInv, LineInv, TaskInv

\* A synchronous object-model call is never behind an unfinished task of its
\* lane, where its own deadline would cut it: HostMain refuses it instead.
THEOREM SyncNeverWaits == Spec => []SyncNeverWaitsForTasks
  <1>1. Init => TaskInv /\ SyncNeverWaitsForTasks
    BY NothingAsked DEF WatchInv, OverInv, AnswerInv, LineInv
  <1>2. TaskInv /\ SyncNeverWaitsForTasks /\ [Next]_vars => (TaskInv /\ SyncNeverWaitsForTasks)'
    BY TasksStep, SyncStep
  <1> QED BY <1>1, <1>2, PTL DEF Spec

\* A completion that is closed, by the worker's line, a forget or the exit of
\* Word, is closed for good: nothing closes it twice or opens it again.
THEOREM CompletionsAreFinal == Spec => CompletionIsFinal
  <1>1. Init => LineInv
    BY NothingAsked DEF WatchInv, OverInv, AnswerInv
  <1>2. LineInv /\ [Next]_vars => LineInv'
    BY LinesStep
  <1>3. LineInv /\ [Next]_vars =>
          [\A c \in Caller : done[c] \notin {"none", "open"} => done'[c] = done[c]]_vars
    BY DoneStep
  <1> QED BY <1>1, <1>2, <1>3, PTL DEF Spec, CompletionIsFinal

\* A task that was begun under a token and is not done has its watchdog, though
\* its callers go, other tasks are forgotten, and tasks have chosen names, which
\* clients may use again (process_windows.go, Call and watchTask).
THEOREM TasksAreWatched == Spec => []TaskIsWatched
  <1>1. Init => WatchInv
    BY NothingAsked
  <1>2. WatchInv /\ [Next]_vars => WatchInv'
    BY WatchedStep
  <1>3. WatchInv => TaskIsWatched
    BY DEF WatchInv, Watched, Owes, TaskIsWatched, ByToken
  <1> QED BY <1>1, <1>2, <1>3, PTL DEF Spec

-----------------------------------------------------------------------------
(* NativeHost implements HostTask, of tasks that go by their tokens.  Where an
   abstract action needs a task to be over, the concrete step reads a table or
   a line that says so, and Overs says that it is right. *)

board == [c \in Caller |-> TaskOf(c)]
says == [c \in Caller |-> IF ByToken(c) THEN done[c] ELSE "none"]
promised == <<board, says, word>>

\* An open completion can be found: the exit of Word closes every one.
Found == \A c \in Caller : ByToken(c) /\ done[c] = "open" => entry[c] = c

FoundInv == OverInv /\ Found

\* A task is accepted by the reader, once; every other step leaves it or ends it.
LEMMA TaskStep ==
  ASSUME OverInv, [Next]_vars, NEW c \in Caller
  PROVE  \/ TaskOf(c)' \in {TaskOf(c), "over"}
         \/ ReadRequest /\ c = Head(input) /\ TaskOf(c) = "none" /\ TaskOf(c)' = "owed"
  <1>0. PlaceInv /\ None \notin Caller /\ writer \in [Caller -> {"off", "writing", "written", "failed"}]
    BY NoneAssumption DEF OverInv, AnswerInv, LineInv, TaskInv, PlaceInv, TInv, TypeOK, Key
  <1>1. CASE writer[c] = "off"
    <2>1. Unread(c)
      BY <1>1 DEF Unread
    <2>2. TaskOf(c) = "none"
      BY <2>1 DEF TaskOf
    <2>3. ~Item(c)
      BY <1>0, <2>1 DEF PlaceInv, Items, Has, Taken, Item, Runs
    <2>4. Item(c)' => ReadRequest /\ c = Head(input)
      BY <1>0, <2>3, Onward
    <2> QED BY <2>2, <2>4 DEF TaskOf
  <1>2. CASE writer[c] # "off"
    <2>1. ByToken(c)' <=> ByToken(c)
      BY <1>0, <1>2, Settled DEF ByToken
    <2>2. /\ Unread(c)' => Unread(c)
          /\ Item(c)' => Item(c) \/ (ReadRequest /\ c = Head(input) /\ Unread(c))
      BY <1>0, Onward
    <2>3. Unread(c) => ~Item(c)
      BY <1>0 DEF PlaceInv, Items, Has, Taken, Item, Runs
    <2> QED BY <2>1, <2>2, <2>3 DEF TaskOf
  <1> QED BY <1>1, <1>2

\* What a completion says does not come and go with the call it is of.
LEMMA SaysStep ==
  ASSUME OverInv, [Next]_vars, NEW c \in Caller, says'[c] # says[c]
  PROVE  done'[c] # done[c]
  <1>1. PlaceInv /\ (Unread(c) => done[c] = "none")
    BY DEF OverInv, AnswerInv, LineInv, TaskInv, Lines
  <1>2. ASSUME done'[c] = done[c], done[c] # "none" PROVE FALSE
    <2>1. writer[c] # "off"
      BY <1>1, <1>2 DEF Unread
    <2>2. ByToken(c)' <=> ByToken(c)
      BY <1>1, <2>1, Settled DEF ByToken
    <2> QED BY <1>2, <2>2 DEF says
  <1> QED BY <1>2 DEF says

\* The session's own steps move nothing that the worker has.
LEMMA BoardStays ==
  ASSUME Aside
  PROVE  board' = board /\ \A c \in Caller : ByToken(c)' <=> ByToken(c)
  BY DEF Aside, board, TaskOf, ByToken, Begins, Unread, Asked, Item, Queued, Runs

\* The reader's step is the acceptance of one task, or no task changes but that
\* of the request.
LEMMA ReadPromised ==
  ASSUME OverInv, ReadRequest
  PROVE  (\E c \in Caller : Promise!Accept(c)) \/ \E S \in SUBSET Caller : Promise!End(S)
  <1>0. /\ PlaceInv /\ None \notin Caller /\ input \in Seq(Caller) /\ input # <<>>
        /\ input' = Tail(input) /\ [Next]_vars
        /\ UNCHANGED <<completion, call, word, queue, running, finished>>
        /\ held = None
    BY NoneAssumption
       DEF OverInv, AnswerInv, LineInv, TaskInv, PlaceInv, TInv, TypeOK, Key, ReadRequest, Next, HostMain
  <1>1. PICK d \in Caller : d = Head(input)
    BY <1>0, Tailed
  <1>2. says' = says /\ word' = word
    BY <1>0 DEF says, ByToken, Begins, completion, call
  <1>3. held' \in {None, d}
    BY <1>0, <1>1 DEF ReadRequest, Admit
  <1>4. ASSUME NEW c \in Caller, c # d PROVE TaskOf(c)' = TaskOf(c)
    <2>1. Asked(c)' <=> Asked(c)
      <3>1. ASSUME Asked(c)' PROVE Asked(c)
        BY <1>0, <3>1, Tailed DEF Asked
      <3>2. ASSUME NEW i \in DOMAIN input, input[i] = c PROVE Asked(c)'
        <4>1. i # 1 /\ i \in 2..Len(input)
          BY <1>0, <1>1, <1>4, <3>2, Tailed
        <4>2. i - 1 \in DOMAIN Tail(input) /\ Tail(input)[i - 1] = input[i]
          BY <1>0, <4>1
        <4> QED BY <1>0, <3>2, <4>2 DEF Asked
      <3> QED BY <3>1, <3>2 DEF Asked
    <2>2. Item(c)' <=> Item(c)
      BY <1>0, <1>3, <1>4 DEF Item, Queued, Runs
    <2> QED BY <1>0, <2>1, <2>2 DEF TaskOf, ByToken, Begins, Unread, call
  <1>5. CASE TaskOf(d)' = "owed" /\ TaskOf(d) = "none"
    <2>1. board' = [board EXCEPT ![d] = "owed"]
      BY <1>4, <1>5 DEF board
    <2> QED BY <1>2, <1>5, <2>1 DEF Promise!Accept, board, says
  <1>6. CASE TaskOf(d)' = TaskOf(d) \/ TaskOf(d)' = "over"
    <2> DEFINE S == {c \in Caller : TaskOf(c)' # TaskOf(c)}
    <2>1. \A c \in S : c = d /\ TaskOf(c) # "over" /\ TaskOf(c)' = "over"
      BY <1>4, <1>6
    <2>2. Promise!End(S)
      BY <1>2, <2>1 DEF Promise!End, board, says
    <2> QED BY <2>2
  <1>7. \/ TaskOf(d)' \in {TaskOf(d), "over"}
        \/ TaskOf(d) = "none" /\ TaskOf(d)' = "owed"
    BY <1>0, TaskStep
  <1> QED BY <1>5, <1>6, <1>7

\* Tasks that end, end together.
LEMMA EndPromised ==
  ASSUME OverInv, [Next]_vars, ~ReadRequest, says' = says, word' \in {word, FALSE}
  PROVE  \E S \in SUBSET Caller : Promise!End(S)
  <1> DEFINE S == {c \in Caller : TaskOf(c)' # TaskOf(c)}
  <1>1. \A c \in S : TaskOf(c) # "over" /\ TaskOf(c)' = "over"
    BY TaskStep
  <1>2. Promise!End(S)
    BY <1>1 DEF Promise!End, board, says
  <1> QED BY <1>2

\* What a line says opens the completion of an accepted task, or settles one.
LEMMA ScanPromised ==
  ASSUME FoundInv, ScanLine
  PROVE  Promise!Next \/ UNCHANGED promised
  <1> DEFINE m == output[1]
  <1>0. /\ LineInv /\ OverInv /\ None \notin Caller /\ PlaceInv
        /\ done \in [Caller -> {"none", "open", "done", "forgotten", "word_exited"}]
    BY NoneAssumption
       DEF FoundInv, OverInv, AnswerInv, LineInv, TaskInv, PlaceInv, TInv, TypeOK, Key
  <1>1. board' = board /\ word' = word /\ \A c \in Caller : ByToken(c)' <=> ByToken(c)
    <2>1. Aside /\ UNCHANGED worker
      BY <1>0, StepsAside DEF ScanLine, readResponses, PlaceInv
    <2> QED BY <2>1, BoardStays DEF worker
  <1>2. /\ m.to \in Caller \cup {None} /\ m.task \in Key \cup {None} /\ 1 \in DOMAIN output
        /\ m.task = None => UNCHANGED <<entry, done>>
        /\ Tells(m) => m.to \in Caller /\ done[m.to] = "none" /\ done' = [done EXCEPT ![m.to] = "open"]
    BY <1>0, Entered
  <1>3. CASE \A c \in Caller : ByToken(c) => done'[c] = done[c]
    <2>1. says' = says
      BY <1>1, <1>3 DEF says
    <2> QED BY <1>1, <2>1 DEF promised
  <1>4. ASSUME NEW c \in Caller, ByToken(c), Tells(m), m.to = c PROVE Promise!Open(c)
    <2>1. says' = [says EXCEPT ![c] = "open"] /\ says[c] = "none"
      BY <1>0, <1>1, <1>2, <1>4 DEF says
    <2>2. ~Unread(c)
      BY <1>0, <1>2, <1>4 DEF LineInv, Lines
    <2>3. board[c] # "none"
      BY <1>4, <2>2 DEF board, TaskOf
    <2> QED BY <1>1, <2>1, <2>3 DEF Promise!Open, board, says
  <1>5. ASSUME NEW c \in Caller, ByToken(c), done'[c] # done[c], ~Tells(m) PROVE Promise!Settle(c)
    <2>1. m.task # None /\ m.to = None /\ m.task \in Key
      BY <1>2, <1>5 DEF Tells
    <2>2. /\ entry[m.task] = c /\ done[c] = "open"
          /\ done' = [done EXCEPT ![c] = "done"]
      <3>1. Enter(m)
        BY <1>0, Tailed DEF ScanLine, LineInv, TaskInv, PlaceInv, TInv, TypeOK
      <3> QED BY <1>0, <1>5, <2>1, <3>1 DEF Enter
    <2>3. key[c] = m.task /\ key[c] = c
      BY <1>0, <1>5, <2>1, <2>2 DEF OverInv, Overs, ByToken
    <2>4. Over(c)
      BY <1>0, <1>2, <2>1, <2>3 DEF OverInv, Overs
    <2>5. says' = [says EXCEPT ![c] = "done"] /\ says[c] = "open"
      BY <1>0, <1>1, <1>5, <2>2 DEF says
    <2>6. board[c] = "over"
      BY <1>5, <2>4 DEF board, TaskOf, Over
    <2> QED BY <1>1, <2>5, <2>6 DEF Promise!Settle, board, says
  <1>6. ASSUME Tells(m), ~ByToken(m.to) PROVE \A c \in Caller : ByToken(c) => done'[c] = done[c]
    BY <1>0, <1>2, <1>6
  <1>7. (\E c \in Caller : Promise!Open(c) \/ Promise!Settle(c)) => Promise!Next
    BY DEF Promise!Next
  <1> HIDE DEF m
  <1> QED BY <1>2, <1>3, <1>4, <1>5, <1>6, <1>7

\* A completion is forgotten when the worker has agreed that its task is over.
LEMMA ForgetPromised ==
  ASSUME FoundInv, NEW d \in Caller, Forget(d)
  PROVE  Promise!Next \/ UNCHANGED promised
  <1>0. /\ OverInv /\ TInv /\ None \notin Caller
        /\ done \in [Caller -> {"none", "open", "done", "forgotten", "word_exited"}]
        /\ entry \in [Key -> Caller \cup {None}] /\ kind[d] = "forget" /\ key[d] \in Key
    BY NoneAssumption
       DEF Forget, FoundInv, OverInv, AnswerInv, Answers, LineInv, TaskInv, Keys, PlaceInv, TInv, TypeOK, Key
  <1>1. board' = board /\ word' = word /\ \A c \in Caller : ByToken(c)' <=> ByToken(c)
    <2>1. Aside /\ UNCHANGED worker
      BY <1>0, StepsAside DEF Forget
    <2> QED BY <2>1, BoardStays DEF worker
  <1>2. done' = [c \in Caller |-> IF c = entry[key[d]] /\ done[c] = "open" THEN "forgotten" ELSE done[c]]
    BY DEF Forget
  <1>3. CASE \A c \in Caller : ByToken(c) => done'[c] = done[c]
    <2>1. says' = says
      BY <1>1, <1>3 DEF says
    <2> QED BY <1>1, <2>1 DEF promised
  <1>4. ASSUME NEW c \in Caller, ByToken(c), done'[c] # done[c] PROVE Promise!Settle(c)
    <2>1. c = entry[key[d]] /\ done[c] = "open" /\ done' = [done EXCEPT ![c] = "forgotten"]
      BY <1>0, <1>2, <1>4
    <2>2. key[c] = key[d] /\ key[c] = c
      BY <1>0, <1>4, <2>1 DEF OverInv, Overs, ByToken
    <2>3. Over(c)
      BY <1>0, <2>2 DEF OverInv, Overs, Agreed, Forget
    <2>4. says' = [says EXCEPT ![c] = "forgotten"] /\ says[c] = "open"
      BY <1>0, <1>1, <1>4, <2>1 DEF says
    <2>5. board[c] = "over"
      BY <1>4, <2>3 DEF board, TaskOf, Over
    <2> QED BY <1>1, <2>4, <2>5 DEF Promise!Settle, board, says
  <1> QED BY <1>3, <1>4 DEF Promise!Next

\* The exit of Word settles every open completion, because it finds each.
LEMMA ExitPromised ==
  ASSUME FoundInv, ObserveExit
  PROVE  Promise!Next \/ UNCHANGED promised
  <1>0. /\ TInv /\ Caller \subseteq Key
        /\ done \in [Caller -> {"none", "open", "done", "forgotten", "word_exited"}]
    BY DEF FoundInv, OverInv, AnswerInv, LineInv, TaskInv, PlaceInv, TInv, TypeOK, Key
  <1>1. board' = board /\ word' = word /\ \A c \in Caller : ByToken(c)' <=> ByToken(c)
    <2>1. Aside /\ UNCHANGED worker
      BY <1>0, StepsAside DEF ObserveExit, observeWordExit
    <2> QED BY <2>1, BoardStays DEF worker
  <1>2. CASE Closed
    <2>1. done' = done
      BY <1>2 DEF ObserveExit
    <2> QED BY <1>1, <2>1 DEF promised, says
  <1>3. CASE ~Closed
    <2>1. /\ ~word
          /\ done' = [c \in Caller |->
               IF done[c] = "open" /\ \E k \in Key : entry[k] = c THEN "word_exited" ELSE done[c]]
      BY <1>3 DEF ObserveExit
    <2>2. \A c \in Caller : ByToken(c) /\ done[c] = "open" => done'[c] = "word_exited"
      BY <1>0, <2>1 DEF FoundInv, Found
    <2>3. \A c \in Caller : says'[c] = IF says[c] = "open" THEN "word_exited" ELSE says[c]
      BY <1>1, <2>1, <2>2 DEF says
    <2>4. says' = [c \in Caller |-> IF says[c] = "open" THEN "word_exited" ELSE says[c]]
      BY <2>3 DEF says
    <2>5. Promise!SeeWordEnd
      BY <1>1, <2>1, <2>4 DEF Promise!SeeWordEnd, board, says
    <2> QED BY <2>5 DEF Promise!Next
  <1> QED BY <1>2, <1>3

\* Only a begin's own line opens its completion, under the key of its task; and
\* whoever takes the completion out of the table settles it.
LEMMA FoundStep == FoundInv /\ [Next]_vars => FoundInv'
  <1> SUFFICES ASSUME FoundInv, [Next]_vars, NEW c \in Caller, ByToken(c)', done'[c] = "open"
               PROVE  entry'[c] = c
    BY OversStep DEF FoundInv, Found
  <1>0. /\ LineInv /\ OverInv /\ PlaceInv /\ c \in Key /\ c \notin Name /\ c # None
        /\ entry \in [Key -> Caller \cup {None}]
        /\ done \in [Caller -> {"none", "open", "done", "forgotten", "word_exited"}]
    BY NoneAssumption
       DEF FoundInv, OverInv, AnswerInv, LineInv, TaskInv, PlaceInv, TInv, TypeOK, Key
  <1>1. CASE done[c] = "open"
    <2>1. writer[c] # "off"
      BY <1>0, <1>1 DEF LineInv, Lines, Unread
    <2>2. ByToken(c) /\ entry[c] = c
      BY <1>0, <1>1, <2>1, Settled DEF FoundInv, Found, ByToken
    <2>3. CASE ScanLine
      <3> DEFINE m == output[1]
      <3>1. /\ 1 \in DOMAIN output /\ m.to \in Caller \cup {None} /\ m.task \in Key \cup {None}
            /\ Tells(m) => m.to \in Caller /\ entry' = [entry EXCEPT ![m.task] = m.to]
            /\ ~Tells(m) => entry' = entry
        BY <1>0, <2>3, Entered DEF Tells
      <3>2. ASSUME Tells(m), m.task = c PROVE m.to = c
        <4>1. Begins(m.to) /\ key[m.to] = c
          BY <1>0, <3>1, <3>2 DEF LineInv, Lines
        <4> QED BY <1>0, <3>1, <3>2, <4>1 DEF LineInv, TaskInv, Keys
      <3> HIDE DEF m
      <3> QED BY <1>0, <2>2, <3>1, <3>2
    <2>4. ASSUME NEW d \in Caller, Forget(d) PROVE entry'[c] = c
      <3>1. /\ entry' = [entry EXCEPT ![key[d]] = None]
            /\ done' = [b \in Caller |-> IF b = entry[key[d]] /\ done[b] = "open" THEN "forgotten" ELSE done[b]]
        BY <2>4 DEF Forget
      <3>2. key[d] # c
        BY <1>1, <2>2, <3>1
      <3> QED BY <1>0, <2>2, <3>1, <3>2
    <2>5. CASE ReadRequest \/ ScanEnd \/ ObserveExit \/ \E l \in Lane : Emit(l)
      BY <2>2, <2>5 DEF ReadRequest, ScanEnd, ObserveExit, Emit, completion
    <2> QED BY <2>2, <2>3, <2>4, <2>5, SpeakingSteps
  <1>2. CASE done[c] # "open"
    <2>1. ScanLine /\ Tells(output[1]) /\ output[1].to = c
      BY <1>0, <1>2, DoneStep
    <2>2. /\ 1 \in DOMAIN output /\ entry' = [entry EXCEPT ![output[1].task] = c]
      BY <1>0, <2>1, Entered
    <2>3. output[1].task = key[c]
      BY <1>0, <2>1, <2>2 DEF LineInv, Lines
    <2>4. key[c] = c
      BY <2>1 DEF ByToken, ScanLine, call
    <2> QED BY <1>0, <2>2, <2>3, <2>4
  <1> QED BY <1>1, <1>2

\* Every step of NativeHost is a step of HostTask, or changes none of its
\* variables.
LEMMA StepPromised ==
  ASSUME FoundInv, [Next]_vars
  PROVE  Promise!Next \/ UNCHANGED promised
  <1>0. OverInv /\ TInv /\ word \in BOOLEAN
    BY DEF FoundInv, OverInv, AnswerInv, LineInv, TaskInv, PlaceInv, TInv, TypeOK
  <1>1. CASE ReadRequest
    BY <1>0, <1>1, ReadPromised DEF Promise!Next
  <1>2. CASE ScanLine
    BY <1>2, ScanPromised
  <1>3. ASSUME NEW d \in Caller, Forget(d) PROVE Promise!Next \/ UNCHANGED promised
    BY <1>3, ForgetPromised
  <1>4. CASE ObserveExit
    BY <1>4, ExitPromised
  <1>5. ASSUME done' = done, ~ReadRequest PROVE Promise!Next \/ UNCHANGED promised
    <2>1. says' = says
      <3>1. \A c \in Caller : says'[c] = says[c]
        BY <1>0, <1>5, SaysStep
      <3> QED BY <3>1 DEF says
    <2>2. word' \in {word, FALSE}
      <3>1. ~word => ~word'
        BY EndsStay
      <3>2. word' \in BOOLEAN
        BY <1>0, TypesStep DEF TInv, TypeOK
      <3> QED BY <1>0, <3>1, <3>2
    <2> QED BY <1>0, <1>5, <2>1, <2>2, EndPromised DEF Promise!Next
  <1>6. CASE ScanEnd \/ \E l \in Lane : Emit(l)
    <2>1. done' = done
      BY <1>6 DEF ScanEnd, Emit, completion
    <2> QED BY <1>1, <1>5, <2>1
  <1> QED BY <1>1, <1>2, <1>3, <1>4, <1>5, <1>6, SpeakingSteps

\* NativeHost implements HostTask, for any callers, names and bounds: the worker
\* does a token's task at most once, its completion settles once, and neither a
\* completion line nor a forget says that a task is over which is not.
THEOREM NativeHostImplementsHostTask == Spec => TokensAreHostTasks
  <1>1. Init => FoundInv
    <2>1. Init => Found
      BY DEF Init, Found, ByToken, Begins, Beginning
    <2> QED BY <2>1, NothingAsked DEF FoundInv, WatchInv
  <1>2. Init => Promise!Init
    BY DEF Init, Promise!Init, ByToken, TaskOf, Begins, Beginning
  <1>3. FoundInv /\ [Next]_vars => [Promise!Next]_promised
    BY StepPromised
  <1> QED BY <1>1, <1>2, <1>3, FoundStep, PTL
      DEF Spec, TokensAreHostTasks, Promise!Spec, Promise!vars, promised, board, says
=============================================================================
