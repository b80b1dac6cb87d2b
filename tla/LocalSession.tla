---------------------------- MODULE LocalSession ----------------------------
(***************************************************************************)
(* internal/localipc: the warm session of one workspace.  A CLI process    *)
(* starts it (Start) or calls it (Call); a detached server process answers *)
(* (Serve) on a named pipe of its own, and the descriptor session.json     *)
(* names the server to call.  A server is named by its token.              *)
(*                                                                         *)
(* The transport is the Windows one: Accept creates a pipe instance and    *)
(* waits in ConnectNamedPipe; Close sets a flag and connects to a pending  *)
(* instance to wake that wait.                                             *)
(***************************************************************************)
EXTENDS Naturals, FiniteSets

CONSTANTS
  Starter,   \* CLI processes that start a session
  Caller,    \* CLI processes that make one call, or stop the session
  Server,    \* server processes, each started once
  None,
  Slots,     \* calls a server serves at once: 32
  Instances, \* instances CreateNamedPipe allows: 32 (on Unix no bound)
  MaxCrashes \* bound of the model, on crashes and failing system calls

Client == Starter \cup Caller

ASSUME NoneAssumption == None \notin Client /\ None \notin Server
ASSUME BoundsAssumption == Slots \in Nat \ {0} /\ Instances \in Nat /\ MaxCrashes \in Nat

VARIABLES
  meta,      \* the server session.json names, or None
  starting,  \* does the lock file session.starting exist
  spc,       \* a server's place in Serve
  execute,   \* its capability
  pipe,      \* its unconnected or just connected instance: "none", "free", "taken"
  shut, closed, \* its shutdown channel, and its listener's flag
  ticking,   \* "on", or "closing" once its idle goroutine has decided to close
  cpc,       \* a client's place in Start or Call
  request,   \* the method it sends
  want, mine, got, \* a start's capability, the server it launched, and its result
  dest,      \* the server it dialed
  handler,   \* its connection, at the server: "none", "queued", "serving", "stopping"
  broken,    \* servers whose Accept failed on an open listener (history)
  crashes

server == <<spc, execute, pipe, shut, closed, ticking, broken>>
client == <<cpc, request, want, mine, got, dest>>
vars == <<meta, starting, server, client, handler, crashes>>

Init ==
  /\ meta = None /\ starting = FALSE /\ crashes = 0
  /\ spc = [s \in Server |-> "unborn"]
  /\ execute = [s \in Server |-> FALSE]
  /\ pipe = [s \in Server |-> "none"]
  /\ shut = [s \in Server |-> FALSE]
  /\ closed = [s \in Server |-> FALSE]
  /\ ticking = [s \in Server |-> "on"]
  /\ broken = {}
  /\ cpc = [c \in Client |-> "new"]
  /\ request = [c \in Client |-> "none"]
  /\ want = [c \in Client |-> FALSE]
  /\ mine = [c \in Client |-> None]
  /\ got = [c \in Client |-> None]
  /\ dest = [c \in Client |-> None]
  /\ handler = [c \in Client |-> "none"]

Serving(s) == {c \in Client : dest[c] = s /\ handler[c] \in {"serving", "stopping"}}
Queued(s) == {c \in Client : dest[c] = s /\ handler[c] = "queued"}
Running(s) == spc[s] \notin {"unborn", "gone"}

\* send failed: a start takes that for no session, a call returns the error.
Unanswered(c) == IF request[c] = "session.info" THEN "lock" ELSE "failed"

\* The server ends the connections of C, and those clients learn of it.
Drop(C) ==
  /\ handler' = [c \in Client |-> IF c \in C THEN "none" ELSE handler[c]]
  /\ cpc' = [c \in Client |-> IF c \in C /\ cpc[c] = "sent" THEN Unanswered(c) ELSE cpc[c]]

Crashing == crashes < MaxCrashes /\ crashes' = crashes + 1

-----------------------------------------------------------------------------
\* Start and Call, in a CLI process.

Start(c) == \E x \in BOOLEAN :
  /\ c \in Starter
  /\ cpc[c] = "new"
  /\ want' = [want EXCEPT ![c] = x]
  /\ request' = [request EXCEPT ![c] = "session.info"]
  /\ dest' = [dest EXCEPT ![c] = meta]
  /\ cpc' = [cpc EXCEPT ![c] = IF meta = None THEN "lock" ELSE "dialing"]
  /\ UNCHANGED <<meta, starting, server, mine, got, handler, crashes>>

Call(c) == \E r \in {"work", "session.stop"} :
  /\ c \in Caller
  /\ cpc[c] = "new"
  /\ request' = [request EXCEPT ![c] = r]
  /\ dest' = [dest EXCEPT ![c] = meta]
  /\ cpc' = [cpc EXCEPT ![c] = IF meta = None THEN "failed" ELSE "dialing"]
  /\ UNCHANGED <<meta, starting, server, want, mine, got, handler, crashes>>

\* A pipe without any instance is an error at once; one whose instances are all
\* busy is tried again.
Dial(c) ==
  /\ cpc[c] = "dialing"
  /\ \/ /\ pipe[dest[c]] = "free"
        /\ pipe' = [pipe EXCEPT ![dest[c]] = "taken"]
        /\ handler' = [handler EXCEPT ![c] = "queued"]
        /\ cpc' = [cpc EXCEPT ![c] = "sent"]
     \/ /\ pipe[dest[c]] = "none" /\ Serving(dest[c]) = {}
        /\ cpc' = [cpc EXCEPT ![c] = Unanswered(c)]
        /\ UNCHANGED <<pipe, handler>>
  /\ UNCHANGED <<meta, starting, spc, execute, shut, closed, ticking, broken,
                 request, want, mine, got, dest, crashes>>

\* The context ends: after one second for a start's session.info.
GiveUp(c) ==
  /\ cpc[c] \in {"dialing", "sent"}
  /\ cpc' = [cpc EXCEPT ![c] = Unanswered(c)]
  /\ UNCHANGED <<meta, starting, server, request, want, mine, got, dest, handler, crashes>>

TakeLock(c) ==
  /\ cpc[c] = "lock"
  /\ IF starting
     THEN cpc' = [cpc EXCEPT ![c] = "failed"] /\ UNCHANGED starting
     ELSE cpc' = [cpc EXCEPT ![c] = "launch"] /\ starting' = TRUE
  /\ UNCHANGED <<meta, server, request, want, mine, got, dest, handler, crashes>>

\* A new process with a fresh token.
Launch(c, s) ==
  /\ cpc[c] = "launch"
  /\ spc[s] = "unborn"
  /\ spc' = [spc EXCEPT ![s] = "publish"]
  /\ execute' = [execute EXCEPT ![s] = want[c]]
  /\ mine' = [mine EXCEPT ![c] = s]
  /\ cpc' = [cpc EXCEPT ![c] = "await"]
  /\ UNCHANGED <<meta, starting, pipe, shut, closed, ticking, broken,
                 request, want, got, dest, handler, crashes>>

Published(c) ==
  /\ cpc[c] = "await"
  /\ meta = mine[c]
  /\ got' = [got EXCEPT ![c] = meta]
  /\ cpc' = [cpc EXCEPT ![c] = "returned"]
  /\ starting' = FALSE
  /\ UNCHANGED <<meta, server, request, want, mine, dest, handler, crashes>>

\* Ten seconds without the descriptor, the end of the context, or an error
\* before the launch; the server may go on.
StartFails(c) ==
  /\ cpc[c] \in {"launch", "await"}
  /\ cpc' = [cpc EXCEPT ![c] = "failed"]
  /\ starting' = FALSE
  /\ UNCHANGED <<meta, server, request, want, mine, got, dest, handler, crashes>>

-----------------------------------------------------------------------------
\* Serve, and its listener.

Publish(s) ==
  /\ spc[s] = "publish"
  /\ meta' = s
  /\ spc' = [spc EXCEPT ![s] = "accept"]
  /\ UNCHANGED <<starting, execute, pipe, shut, closed, ticking, broken, client, handler, crashes>>

\* Accept returns an error that is not the end of its listener.
Breaks(s) ==
  /\ spc' = [spc EXCEPT ![s] = "refused"]
  /\ broken' = broken \cup {s}

Accept(s) ==
  /\ spc[s] = "accept"
  /\ \/ /\ closed[s]
        /\ spc' = [spc EXCEPT ![s] = "refused"]
        /\ UNCHANGED <<pipe, broken>>
     \/ /\ ~closed[s] /\ Cardinality(Serving(s)) >= Instances
        /\ Breaks(s)
        /\ UNCHANGED pipe
     \/ /\ ~closed[s] /\ Cardinality(Serving(s)) < Instances
        /\ spc' = [spc EXCEPT ![s] = "connect"]
        /\ pipe' = [pipe EXCEPT ![s] = "free"]
        /\ UNCHANGED broken
  /\ UNCHANGED <<meta, starting, execute, shut, closed, ticking, client, handler, crashes>>

\* A token, security descriptor or pipe that Windows refuses for another reason.
AcceptFails(s) ==
  /\ Crashing
  /\ spc[s] = "accept"
  /\ Breaks(s)
  /\ UNCHANGED <<meta, starting, execute, pipe, shut, closed, ticking, client, handler>>

TakeLeavingItPending(s) == UNCHANGED pipe

\* The connected instance is the caller's: it is pending no more.
Take(s) == pipe' = [pipe EXCEPT ![s] = "none"]

\* The client connected before ConnectNamedPipe was called, and has left.
NoData(s) == \E c \in Queued(s) : cpc[c] # "sent"

\* ConnectNamedPipe returned: for Close, with an error, or for a client.
Connected(s) ==
  /\ spc[s] = "connect"
  /\ pipe[s] = "taken"
  /\ Take(s)
  /\ \/ /\ closed[s]
        /\ spc' = [spc EXCEPT ![s] = "refused"]
        /\ Drop(Queued(s))
        /\ UNCHANGED broken
     \/ /\ ~closed[s] /\ NoData(s)
        /\ Breaks(s)
        /\ Drop(Queued(s))
     \/ /\ ~closed[s]
        /\ spc' = [spc EXCEPT ![s] = "accept"]
        /\ IF Cardinality(Serving(s)) >= Slots
           THEN Drop(Queued(s))
           ELSE /\ handler' = [c \in Client |-> IF c \in Queued(s) THEN "serving" ELSE handler[c]]
                /\ UNCHANGED cpc
        /\ UNCHANGED broken
  /\ UNCHANGED <<meta, starting, execute, shut, closed, ticking,
                 request, want, mine, got, dest, crashes>>

RefusedWithoutDraining(s) ==
  /\ spc[s] = "refused"
  /\ spc' = [spc EXCEPT ![s] = "close"]
  /\ UNCHANGED <<meta, starting, execute, pipe, shut, closed, ticking, broken, client, handler, crashes>>

\* Accept returned an error: the end of a shutdown waits for the calls, any
\* other error ends the server at once.
Refused(s) ==
  /\ spc[s] = "refused"
  /\ spc' = [spc EXCEPT ![s] = IF shut[s] THEN "drain" ELSE "close"]
  /\ UNCHANGED <<meta, starting, execute, pipe, shut, closed, ticking, broken, client, handler, crashes>>

Drain(s) ==
  /\ spc[s] = "drain"
  /\ Serving(s) = {}
  /\ spc' = [spc EXCEPT ![s] = "close"]
  /\ UNCHANGED <<meta, starting, execute, pipe, shut, closed, ticking, broken, client, handler, crashes>>

\* The deferred closeServer and engine.Close.
CloseEngine(s) ==
  /\ spc[s] = "close"
  /\ shut' = [shut EXCEPT ![s] = TRUE]
  /\ closed' = [closed EXCEPT ![s] = TRUE]
  /\ spc' = [spc EXCEPT ![s] = "leave"]
  /\ UNCHANGED <<meta, starting, execute, pipe, ticking, broken, client, handler, crashes>>

Exit(s) ==
  /\ spc' = [spc EXCEPT ![s] = "gone"]
  /\ pipe' = [pipe EXCEPT ![s] = "none"]
  /\ Drop(Serving(s) \cup Queued(s))
  /\ UNCHANGED <<starting, execute, shut, closed, ticking, broken, request, want, mine, got, dest>>

\* The deferred removal of the descriptor: read it, and remove it if it is ours.
CheckMeta(s) ==
  /\ spc[s] = "leave"
  /\ \/ /\ meta = s
        /\ spc' = [spc EXCEPT ![s] = "remove"]
        /\ UNCHANGED <<starting, execute, pipe, shut, closed, ticking, broken, client, handler>>
     \/ meta # s /\ Exit(s)
  /\ UNCHANGED <<meta, crashes>>

RemoveMeta(s) ==
  /\ spc[s] = "remove"
  /\ meta' = None
  /\ Exit(s)
  /\ UNCHANGED crashes

-----------------------------------------------------------------------------
\* One goroutine per connection.

AnswerWithoutComparing(c) ==
  /\ handler[c] = "serving"
  /\ handler' = [handler EXCEPT ![c] = IF request[c] = "session.stop" THEN "stopping" ELSE "none"]
  /\ IF cpc[c] = "sent"
     THEN /\ cpc' = [cpc EXCEPT ![c] = "returned"]
          /\ got' = [got EXCEPT ![c] = dest[c]]
     ELSE UNCHANGED <<cpc, got>>
  /\ UNCHANGED <<meta, starting, server, request, want, mine, dest, crashes>>

\* The request has been carried out and the reply written, to a client that may
\* have left; session.stop then runs closeServer.
Answer(c) ==
  LET s == dest[c]
      refuses == request[c] = "session.info" /\ execute[s] # want[c]
  IN
  /\ handler[c] = "serving"
  /\ handler' = [handler EXCEPT ![c] = IF request[c] = "session.stop" THEN "stopping" ELSE "none"]
  /\ IF cpc[c] = "sent"
     THEN /\ cpc' = [cpc EXCEPT ![c] = IF refuses THEN "failed" ELSE "returned"]
          /\ got' = [got EXCEPT ![c] = IF refuses THEN None ELSE s]
     ELSE UNCHANGED <<cpc, got>>
  /\ UNCHANGED <<meta, starting, server, request, want, mine, dest, crashes>>

\* No request line within five seconds, or none because the client left.
Hangup(c) ==
  /\ handler[c] = "serving"
  /\ Drop({c})
  /\ UNCHANGED <<meta, starting, server, request, want, mine, got, dest, crashes>>

StopHandled(c) ==
  /\ handler[c] = "stopping"
  /\ closed[dest[c]]
  /\ handler' = [handler EXCEPT ![c] = "none"]
  /\ UNCHANGED <<meta, starting, server, client, crashes>>

-----------------------------------------------------------------------------
\* closeServer, once, by a stop handler or by the idle goroutine.

\* After ten minutes without a call; how long a session has rested is open here.
\* The goroutine also ends with Serve's context, which main never cancels.
IdleTick(s) ==
  /\ Running(s) /\ spc[s] # "publish"
  /\ ticking[s] = "on" /\ ~shut[s]
  /\ Serving(s) = {}
  /\ ticking' = [ticking EXCEPT ![s] = "closing"]
  /\ UNCHANGED <<meta, starting, spc, execute, pipe, shut, closed, broken, client, handler, crashes>>

CloseShutdown(s) ==
  /\ Running(s) /\ ~shut[s]
  /\ ticking[s] = "closing" \/ \E c \in Serving(s) : handler[c] = "stopping"
  /\ shut' = [shut EXCEPT ![s] = TRUE]
  /\ UNCHANGED <<meta, starting, spc, execute, pipe, closed, ticking, broken, client, handler, crashes>>

CloseWithoutWaking(s) ==
  /\ Running(s) /\ shut[s] /\ ~closed[s]
  /\ closed' = [closed EXCEPT ![s] = TRUE]
  /\ UNCHANGED <<meta, starting, spc, execute, pipe, shut, ticking, broken, client, handler, crashes>>

CloseListenerFirst(s) ==
  /\ Running(s) /\ ~closed[s]
  /\ ticking[s] = "closing" \/ \E c \in Serving(s) : handler[c] = "stopping"
  /\ closed' = [closed EXCEPT ![s] = TRUE]
  /\ pipe' = [pipe EXCEPT ![s] = IF @ = "free" THEN "taken" ELSE @]
  /\ UNCHANGED <<meta, starting, spc, execute, shut, ticking, broken, client, handler, crashes>>

CloseListener(s) ==
  /\ Running(s) /\ shut[s] /\ ~closed[s]
  /\ closed' = [closed EXCEPT ![s] = TRUE]
  /\ pipe' = [pipe EXCEPT ![s] = IF @ = "free" THEN "taken" ELSE @]
  /\ UNCHANGED <<meta, starting, spc, execute, shut, ticking, broken, client, handler, crashes>>

-----------------------------------------------------------------------------
\* A killed start leaves session.starting behind.
CrashClient(c) ==
  /\ Crashing
  /\ cpc[c] \notin {"new", "returned", "failed"}
  /\ cpc' = [cpc EXCEPT ![c] = "failed"]
  /\ UNCHANGED <<meta, starting, server, request, want, mine, got, dest, handler>>

\* A killed server, or one that cannot publish, leaves the descriptor as it is.
CrashServer(s) ==
  /\ Crashing
  /\ Running(s)
  /\ Exit(s)
  /\ UNCHANGED meta

-----------------------------------------------------------------------------
Cli(c) ==
  \/ Dial(c) \/ GiveUp(c) \/ TakeLock(c) \/ \E s \in Server : Launch(c, s)
  \/ Published(c) \/ StartFails(c)

Handle(c) == Answer(c) \/ Hangup(c) \/ StopHandled(c)

Serve(s) ==
  \/ Publish(s) \/ Accept(s) \/ Connected(s) \/ Refused(s) \/ Drain(s)
  \/ CloseEngine(s) \/ CheckMeta(s) \/ RemoveMeta(s)

closeServer(s) == CloseShutdown(s) \/ CloseListener(s)

Next ==
  \/ \E c \in Client : Start(c) \/ Call(c) \/ Cli(c) \/ Handle(c) \/ CrashClient(c)
  \/ \E s \in Server : Serve(s) \/ IdleTick(s) \/ closeServer(s)
                       \/ AcceptFails(s) \/ CrashServer(s)

Spec == Init /\ [][Next]_vars

\* The goroutines of a server run, every call it serves has a deadline, and its
\* client reads the reply or leaves, for the write of a reply has none.  Nothing
\* makes a session idle, or a client start.
FairSpec ==
  /\ Spec
  /\ \A s \in Server : WF_vars(Serve(s)) /\ WF_vars(closeServer(s))
  /\ \A c \in Client : WF_vars(Handle(c))

-----------------------------------------------------------------------------
\* Every variable keeps its type, a connection has a server, and an instance is
\* pending only while Accept waits.
TypeOK ==
  /\ meta \in Server \cup {None}
  /\ starting \in BOOLEAN
  /\ spc \in [Server -> {"unborn", "publish", "accept", "connect", "refused", "drain",
                         "close", "leave", "remove", "gone"}]
  /\ execute \in [Server -> BOOLEAN]
  /\ pipe \in [Server -> {"none", "free", "taken"}]
  /\ \A s \in Server : pipe[s] # "none" => spc[s] = "connect"
  /\ shut \in [Server -> BOOLEAN] /\ closed \in [Server -> BOOLEAN]
  /\ ticking \in [Server -> {"on", "closing"}]
  /\ broken \subseteq Server
  /\ cpc \in [Client -> {"new", "dialing", "sent", "lock", "launch", "await", "returned", "failed"}]
  /\ request \in [Client -> {"none", "session.info", "work", "session.stop"}]
  /\ want \in [Client -> BOOLEAN]
  /\ mine \in [Client -> Server \cup {None}]
  /\ got \in [Client -> Server \cup {None}]
  /\ dest \in [Client -> Server \cup {None}]
  /\ \A c \in Client : handler[c] # "none" => dest[c] \in Server
  /\ handler \in [Client -> {"none", "queued", "serving", "stopping"}]
  /\ crashes \in Nat

\* A start never hands out a session of another capability, whoever launched it
\* and whoever launched another one meanwhile.
CapabilityIsRespected ==
  \A c \in Client : request[c] = "session.info" /\ got[c] # None => execute[got[c]] = want[c]

\* Shutting down drains: the engine is closed when no accepted call is running,
\* wherever Accept, the idle goroutine and the stop handlers were.  Only a
\* session whose Accept failed, at the instance limit, on a client that left
\* too soon or by a system error, cuts its calls.
NoCallIsCut ==
  \A s \in Server \ broken : spc[s] \in {"leave", "remove"} => Serving(s) = {}

\* A session told to stop, or idle, ends, wherever its Accept was waiting.
ShutdownEnds == \A s \in Server : shut[s] ~> spc[s] = "gone"

\* A session that nobody stopped and that did not rest ends only by a crash or by
\* a failed Accept: the shutdown is announced before its listener is closed, so
\* that Serve never takes the closed listener for a failed one.
SessionStaysWarm == \A s \in Server \ broken : spc[s] = "close" => shut[s]

\* session.go promises to keep the warm session reachable from ordinary calls:
\* a session that a start returned and nobody stops is the one they reach.
SessionIsReachable ==
  \A c \in Client :
    request[c] = "session.info" /\ got[c] # None
      /\ spc[got[c]] \in {"accept", "connect"} /\ ~shut[got[c]]
      => meta = got[c]
=============================================================================
