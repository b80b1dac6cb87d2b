------------------------------- MODULE Engine -------------------------------
(***************************************************************************)
(* internal/agent/engine.go: the warm Word host the requests of one        *)
(* session share, and the two mutexes around it.  Requests come from the   *)
(* connections of a session, at the same time; all but native.* ones run   *)
(* one after the other (fsMu).  Some requests start a host of their own.   *)
(*                                                                         *)
(* What a request does in Word either succeeds or fails, and a host may    *)
(* close by itself (its worker ends) or be left without its Word           *)
(* (NativeHost models both).  Requests that touch neither the host nor a   *)
(* mutex are not here.                                                     *)
(***************************************************************************)
CONSTANTS
  Caller, \* the connections
  Host,   \* native hosts; one that nobody knows any more may be started again
  None

ASSUME HostAssumption == None \notin Host /\ None \notin Caller

VARIABLES
  host,  \* e.host
  state, \* of each host
  mu, fsMu, \* who holds the mutex
  pc, kind, \* a request's place and method
  using,    \* the host a request works with
  spoiled   \* history: the host a corpus case failed in, while it lives

mutexes == <<mu, fsMu>>
hosts == <<host, state, spoiled>>
vars == <<hosts, mutexes, pc, kind, using>>

\* The requests that hold fsMu: "test" also stands for vba.immediate and selftest
\* (they return when the host does not start, as a test may), "fresh" for a test or
\* selftest that starts a host of its own, "corpus" for a sequence of cases.
Filing == {"test", "fresh", "preview", "compile", "deploy", "corpus"}
Kind == Filing \cup {"start", "call", "stop", "probe"}

Init ==
  /\ host = None /\ state = [h \in Host |-> "closed"] /\ spoiled = None
  /\ mu = None /\ fsMu = None
  /\ pc = [a \in Caller |-> "idle"] /\ kind = [a \in Caller |-> "call"]
  /\ using = [a \in Caller |-> None]

\* A host that lives and is WordUp's.
Alive(h) == state[h] \in {"live", "wordless"}
Unknown(h) == state[h] = "closed" /\ h # host /\ \A a \in Caller : using[a] # h

Goto(a, place) == pc' = [pc EXCEPT ![a] = place]

\* A host closes.
Ends(S) ==
  /\ state' = [h \in Host |-> IF h \in S THEN "closed" ELSE state[h]]
  /\ spoiled' = IF spoiled \in S THEN None ELSE spoiled

\* The answer; the deferred unlock of fsMu.
Return(a) ==
  /\ Goto(a, "idle")
  /\ using' = [using EXCEPT ![a] = None]
  /\ fsMu' = IF fsMu = a THEN None ELSE fsMu

\* A corpus goes on to its next case, and a probe to its next launch, if there is
\* one.
NextCaseOrReturn(a) ==
  \/ Return(a)
  \/ /\ \/ kind[a] = "corpus" /\ Goto(a, "host")
        \/ kind[a] = "probe" /\ Goto(a, "own")
     /\ using' = [using EXCEPT ![a] = None]
     /\ UNCHANGED fsMu

-----------------------------------------------------------------------------
\* Call: the request arrives.  native.start may bring options.
Request(a, k) ==
  /\ pc[a] = "idle"
  /\ kind' = [kind EXCEPT ![a] = k]
  /\ \/ k \in Filing /\ Goto(a, "fs")
     \/ k = "stop" /\ Goto(a, "close")
     \/ k = "start" /\ Goto(a, "options")
     \/ k = "probe" /\ Goto(a, "own")
     \/ k \in {"start", "call"} /\ Goto(a, "host")
  /\ UNCHANGED <<hosts, mutexes, using>>

LockFiles(a) ==
  /\ pc[a] = "fs" /\ fsMu = None
  /\ fsMu' = a
  /\ Goto(a, CASE kind[a] = "deploy" -> "close" [] kind[a] \in {"fresh", "preview"} -> "own" [] OTHER -> "host")
  /\ UNCHANGED <<hosts, mu, kind, using>>

\* Mutant: the refusal leaves the mutex locked.
SetOptionsKeepingLock(a) ==
  /\ pc[a] = "options" /\ mu = None
  /\ IF host = None THEN Goto(a, "host") /\ UNCHANGED <<mutexes, using>> ELSE Return(a) /\ mu' = a
  /\ UNCHANGED <<hosts, kind>>

\* native.start with options is refused while there is a host.
SetOptions(a) ==
  /\ pc[a] = "options" /\ mu = None
  /\ IF host = None THEN Goto(a, "host") /\ UNCHANGED <<fsMu, using>> ELSE Return(a)
  /\ UNCHANGED <<hosts, mu, kind>>

\* Mutant: a start does not hold the mutex.
CallHostUnlocked(a) ==
  /\ pc[a] = "host" /\ mu = None
  /\ IF host = None THEN Goto(a, "starting") /\ UNCHANGED <<fsMu, using>>
     ELSE IF kind[a] = "start" THEN Return(a)
     ELSE using' = [using EXCEPT ![a] = host] /\ Goto(a, "work") /\ UNCHANGED fsMu
  /\ UNCHANGED <<hosts, mu, kind>>

\* Host returns the cached host, or starts one with e.mu held.
CallHost(a) ==
  /\ pc[a] = "host" /\ mu = None
  /\ IF host = None THEN mu' = a /\ Goto(a, "starting") /\ UNCHANGED <<fsMu, using>>
     ELSE IF kind[a] = "start" THEN Return(a) /\ UNCHANGED mu
     ELSE using' = [using EXCEPT ![a] = host] /\ Goto(a, "work") /\ UNCHANGED mutexes
  /\ UNCHANGED <<hosts, kind>>

Started(a) == \E h \in Host :
  /\ pc[a] = "starting" /\ Unknown(h)
  /\ host' = h /\ state' = [state EXCEPT ![h] = "live"] /\ mu' = None
  /\ IF kind[a] = "start" THEN Return(a)
     ELSE using' = [using EXCEPT ![a] = h] /\ Goto(a, "work") /\ UNCHANGED fsMu
  /\ UNCHANGED <<spoiled, kind>>

StartFails(a) ==
  /\ pc[a] = "starting"
  /\ mu' = None
  /\ \/ NextCaseOrReturn(a)
     \/ kind[a] = "test" /\ Goto(a, "own") /\ UNCHANGED <<fsMu, using>>
  /\ UNCHANGED <<hosts, kind>>

\* RunWithInputs without a host (a fresh test, or one whose cached host did not
\* start), Probe and Preview start their own, and close it before they return.
StartOwn(a) == \E h \in Host :
  /\ pc[a] = "own" /\ Unknown(h)
  /\ state' = [state EXCEPT ![h] = "live"]
  /\ using' = [using EXCEPT ![a] = h]
  /\ Goto(a, "alone")
  /\ UNCHANGED <<host, spoiled, mutexes, kind>>

OwnFails(a) ==
  /\ pc[a] = "own"
  /\ NextCaseOrReturn(a)
  /\ UNCHANGED <<hosts, mu, kind>>

OwnEnds(a) ==
  /\ pc[a] = "alone"
  /\ Ends({using[a]})
  /\ NextCaseOrReturn(a)
  /\ UNCHANGED <<host, mu, kind>>

\* A preview that went well leaves its Word, if it still runs, to the user.
HandOff(a) ==
  /\ pc[a] = "alone" /\ kind[a] = "preview" /\ state[using[a]] = "live"
  /\ state' = [state EXCEPT ![using[a]] = "given"]
  /\ Return(a)
  /\ UNCHANGED <<host, spoiled, mu, kind>>

Working(a) == pc[a] = "work"

\* What was asked for is done: in a host that lives.
Done(a) ==
  /\ Working(a) /\ Alive(using[a])
  /\ NextCaseOrReturn(a)
  /\ UNCHANGED <<hosts, mu, kind>>

\* Mutant: a failed case keeps the host.
FailedKeeping(a) ==
  /\ Working(a)
  /\ NextCaseOrReturn(a)
  /\ spoiled' = IF kind[a] = "corpus" /\ Alive(using[a]) THEN using[a] ELSE spoiled
  /\ UNCHANGED <<host, state, mu, kind>>

\* A failed case, a failed compilation, and a call that failed in a host that
\* closed, close the cached host: it may be another by now.
Failed(a) ==
  /\ Working(a)
  /\ IF kind[a] \in {"compile", "corpus"} \/ (kind[a] = "call" /\ ~Alive(using[a]))
     THEN Goto(a, "close") /\ UNCHANGED <<fsMu, using>>
     ELSE Return(a)
  /\ spoiled' = IF kind[a] = "corpus" /\ Alive(using[a]) THEN using[a] ELSE spoiled
  /\ UNCHANGED <<host, state, mu, kind>>

\* Close, with e.mu held while the host ends its processes.
Close(a) ==
  /\ pc[a] = "close" /\ mu = None
  /\ mu' = a
  /\ Ends({host})
  /\ Goto(a, "closing")
  /\ UNCHANGED <<host, fsMu, kind, using>>

Closed(a) ==
  /\ pc[a] = "closing"
  /\ host' = None /\ mu' = None
  /\ NextCaseOrReturn(a)
  /\ UNCHANGED <<state, spoiled, kind>>

\* The session ends after its last request (LocalSession), and another begins.
Shutdown ==
  /\ \A a \in Caller : pc[a] = "idle"
  /\ host # None
  /\ host' = None /\ Ends({host})
  /\ UNCHANGED <<mutexes, pc, kind, using>>

\* Word exits, or the host's worker or watchdog ends it.
WordExits(h) ==
  /\ state[h] = "live"
  /\ state' = [state EXCEPT ![h] = "wordless"]
  /\ UNCHANGED <<host, spoiled, mutexes, pc, kind, using>>
HostEnds(h) == Alive(h) /\ Ends({h}) /\ UNCHANGED <<host, mutexes, pc, kind, using>>
UserQuits(h) == state[h] = "given" /\ Ends({h}) /\ UNCHANGED <<host, mutexes, pc, kind, using>>

Lock(a) == LockFiles(a) \/ SetOptions(a) \/ CallHost(a) \/ Close(a)
Proceed(a) ==
  \/ Started(a) \/ StartFails(a) \/ StartOwn(a) \/ OwnFails(a) \/ OwnEnds(a)
  \/ HandOff(a) \/ Done(a) \/ Failed(a) \/ Closed(a)

Next ==
  \/ \E a \in Caller : Lock(a) \/ Proceed(a) \/ \E k \in Kind : Request(a, k)
  \/ Shutdown \/ \E h \in Host : WordExits(h) \/ HostEnds(h) \/ UserQuits(h)

Spec == Init /\ [][Next]_vars

\* A mutex goes to whoever waits for it long enough (sync.Mutex hands it over to
\* one that waited a millisecond).  What a request does in Word, and the start of
\* a host, have deadlines; a corpus has finitely many cases, a probe at most 50
\* launches.
SeriesEnds(a) == Proceed(a) /\ pc'[a] = "idle"
FairSpec == Spec /\ \A a \in Caller :
  SF_vars(Lock(a)) /\ WF_vars(Proceed(a)) /\ SF_vars(SeriesEnds(a))

-----------------------------------------------------------------------------
\* Properties.

\* Every variable has its type; a mutex is held exactly by the request that is
\* between its lock and its unlock.
TypeOK ==
  /\ host \in Host \cup {None} /\ state \in [Host -> {"live", "wordless", "given", "closed"}]
  /\ spoiled \in Host \cup {None}
  /\ mu \in Caller \cup {None} /\ fsMu \in Caller \cup {None}
  /\ kind \in [Caller -> Kind] /\ using \in [Caller -> Host \cup {None}]
  /\ pc \in [Caller -> {"idle", "fs", "options", "host", "starting", "own", "alone", "work", "close", "closing"}]
  /\ \A a \in Caller :
       /\ mu = a <=> pc[a] \in {"starting", "closing"}
       /\ fsMu = a <=> kind[a] \in Filing /\ pc[a] \notin {"idle", "fs"}
       /\ pc[a] \in {"alone", "work"} => using[a] # None

\* No Word is left behind: every host that lives is the cached one, which the next
\* native.stop closes, or was started by one running request for itself alone; and
\* what the user was left by a preview is nobody's.
NoStrayHost ==
  \A h \in Host :
    /\ Alive(h) => h = host \/ \E a \in Caller : pc[a] = "alone" /\ using[a] = h
    /\ state[h] = "given" => h # host /\ \A a \in Caller : using[a] # h

\* engine.go:806: "A failed case must not poison the next case's warm Word state."
\* No case runs in a host an earlier case failed in, whatever other requests did
\* to the hosts meanwhile.
CaseHostIsClean ==
  \A a \in Caller : Working(a) /\ kind[a] = "corpus" => using[a] # spoiled

\* The two mutexes block nobody for ever: every request is answered.
EveryRequestReturns == \A a \in Caller : pc[a] # "idle" ~> pc[a] = "idle"
=============================================================================
