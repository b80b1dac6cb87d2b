------------------------- MODULE LocalSessionProofs -------------------------
(***************************************************************************)
(* Proofs about LocalSession, for any number of clients and servers.  A    *)
(* start hands out only its capability because a server's capability never *)
(* changes once the server is launched, and nothing names a server before. *)
(* A shutdown cuts no call because only Accept hands calls to a server,    *)
(* and Accept is over when Serve waits for them.                           *)
(***************************************************************************)
EXTENDS LocalSession, TLAPS

\* Nothing names a server that was not launched.
Launched == \A s \in Server : spc[s] = "unborn" =>
  meta # s /\ \A c \in Client : dest[c] # s /\ mine[c] # s /\ got[c] # s

\* What a client at its place in Start or Call knows.
Knows(c) ==
  /\ cpc[c] = "new" => got[c] = None /\ mine[c] = None /\ handler[c] = "none"
  /\ cpc[c] \in {"dialing", "sent"} => dest[c] \in Server
  /\ cpc[c] = "await" => mine[c] \in Server /\ execute[mine[c]] = want[c]

IInv == TypeOK /\ Launched /\ (\A c \in Client : Knows(c)) /\ CapabilityIsRespected

\* Where Serve gives up accepting, a shutdown closed the listener or Accept
\* failed; if it did not fail, no call is left where Serve closes the engine.
Drained(s) ==
  /\ closed[s] => shut[s]
  /\ spc[s] \in {"refused", "drain", "close"} => shut[s] \/ s \in broken
  /\ spc[s] \in {"close", "leave", "remove"} /\ s \notin broken => Serving(s) = {}

DInv == IInv /\ \A s \in Server : Drained(s)

-----------------------------------------------------------------------------
\* The program starts in a good state.
LEMMA Initially == Init => IInv
  <1> SUFFICES ASSUME Init PROVE IInv
    OBVIOUS
  <1> USE NoneAssumption DEF Init
  <1>1. TypeOK
    BY DEF TypeOK
  <1>2. Launched
    BY DEF Launched
  <1>3. \A c \in Client : Knows(c)
    BY DEF Knows
  <1>4. CapabilityIsRespected
    BY DEF CapabilityIsRespected
  <1> QED BY <1>1, <1>2, <1>3, <1>4 DEF IInv

\* A client learns nothing by losing its connection.
LEMMA DropKeeps ==
  ASSUME IInv, NEW C \in SUBSET Client, Drop(C)
  PROVE  /\ handler' \in [Client -> {"none", "queued", "serving", "stopping"}]
         /\ cpc' \in [Client -> {"new", "dialing", "sent", "lock", "launch", "await",
                                 "returned", "failed"}]
         /\ \A c \in Client : handler'[c] \in {handler[c], "none"}
         /\ \A c \in Client : cpc'[c] = cpc[c] \/ cpc'[c] \in {"lock", "failed"}
  <1>1. \A c \in Client : Unanswered(c) \in {"lock", "failed"}
    BY DEF Unanswered
  <1> QED BY <1>1 DEF Drop, IInv, TypeOK

\* A client's own step in Start or Call.
LEMMA ClientStep ==
  ASSUME IInv, NEW c \in Client, Start(c) \/ Call(c) \/ Dial(c) \/ GiveUp(c) \/ TakeLock(c)
         \/ Published(c) \/ StartFails(c)
  PROVE  IInv'
  <1>0. Unanswered(c) \in {"lock", "failed"}
    BY DEF Unanswered
  <1> USE NoneAssumption DEF server, IInv
  <1>1. CASE Start(c)
    <2>1. TypeOK'
      BY <1>1 DEF Start, TypeOK, Knows
    <2>2. Launched'
      BY <1>1 DEF Start, TypeOK, Launched
    <2>3. \A d \in Client : Knows(d)'
      BY <1>1 DEF Start, TypeOK, Knows
    <2>4. CapabilityIsRespected'
      BY <1>1 DEF Start, TypeOK, Knows, CapabilityIsRespected
    <2> QED BY <2>1, <2>2, <2>3, <2>4
  <1>2. CASE Call(c)
    <2>1. TypeOK'
      BY <1>2 DEF Call, TypeOK, Knows
    <2>2. Launched'
      BY <1>2 DEF Call, TypeOK, Launched
    <2>3. \A d \in Client : Knows(d)'
      BY <1>2 DEF Call, TypeOK, Knows
    <2>4. CapabilityIsRespected'
      BY <1>2 DEF Call, TypeOK, Knows, CapabilityIsRespected
    <2> QED BY <2>1, <2>2, <2>3, <2>4
  <1>3. CASE Dial(c)
    <2>1. TypeOK'
      BY <1>0, <1>3 DEF Dial, TypeOK, Knows
    <2>2. Launched'
      BY <1>3 DEF Dial, TypeOK, Launched
    <2>3. \A d \in Client : Knows(d)'
      BY <1>0, <1>3 DEF Dial, TypeOK, Knows
    <2>4. CapabilityIsRespected'
      BY <1>3 DEF Dial, CapabilityIsRespected
    <2> QED BY <2>1, <2>2, <2>3, <2>4
  <1>4. CASE GiveUp(c) \/ TakeLock(c) \/ StartFails(c)
    <2>1. TypeOK'
      <3>1. CASE GiveUp(c)
        BY <1>0, <3>1 DEF GiveUp, TypeOK
      <3>2. CASE TakeLock(c)
        <4>1. UNCHANGED <<meta, server, request, want, mine, got, dest, handler, crashes>>
          BY <3>2 DEF TakeLock
        <4>2. CASE starting
          BY <3>2, <4>1, <4>2 DEF TakeLock, TypeOK, server
        <4>3. CASE ~starting
          BY <3>2, <4>1, <4>3 DEF TakeLock, TypeOK, server
        <4> QED BY <4>2, <4>3
      <3>3. CASE StartFails(c)
        BY <3>3 DEF StartFails, TypeOK
      <3> QED BY <1>4, <3>1, <3>2, <3>3
    <2>2. Launched'
      BY <1>4 DEF GiveUp, TakeLock, StartFails, Launched
    <2>3. \A d \in Client : Knows(d)'
      BY <1>0, <1>4 DEF GiveUp, TakeLock, StartFails, TypeOK, Knows
    <2>4. CapabilityIsRespected'
      BY <1>4 DEF GiveUp, TakeLock, StartFails, CapabilityIsRespected
    <2> QED BY <2>1, <2>2, <2>3, <2>4
  <1>5. CASE Published(c)
    <2>1. TypeOK'
      BY <1>5 DEF Published, TypeOK
    <2>2. Launched'
      BY <1>5 DEF Published, TypeOK, Launched
    <2>3. \A d \in Client : Knows(d)'
      BY <1>5 DEF Published, TypeOK, Knows
    <2>4. CapabilityIsRespected'
      BY <1>5 DEF Published, TypeOK, Knows, CapabilityIsRespected
    <2> QED BY <2>1, <2>2, <2>3, <2>4
  <1> QED BY <1>1, <1>2, <1>3, <1>4, <1>5

\* A launched server has its capability for life, and nothing named it before.
LEMMA LaunchStep ==
  ASSUME IInv, NEW c \in Client, NEW s \in Server, Launch(c, s)
  PROVE  IInv'
  <1> USE NoneAssumption DEF IInv, Launch
  <1>1. TypeOK'
    BY DEF TypeOK
  <1>2. Launched'
    BY DEF TypeOK, Launched
  <1>3. \A d \in Client : Knows(d)'
    BY DEF TypeOK, Knows, Launched
  <1>4. CapabilityIsRespected'
    BY DEF TypeOK, Launched, CapabilityIsRespected
  <1> QED BY <1>1, <1>2, <1>3, <1>4

\* A server's answer to a call, or the end of the connection.
LEMMA HandleStep ==
  ASSUME IInv, NEW c \in Client, Handle(c)
  PROVE  IInv'
  <1> USE NoneAssumption DEF server, client, IInv
  <1>1. CASE Answer(c)
    <2>1. TypeOK'
      BY <1>1 DEF Answer, TypeOK
    <2>2. Launched'
      BY <1>1 DEF Answer, TypeOK, Launched
    <2>3. \A d \in Client : Knows(d)'
      BY <1>1 DEF Answer, TypeOK, Knows
    <2>4. CapabilityIsRespected'
      BY <1>1 DEF Answer, TypeOK, CapabilityIsRespected
    <2> QED BY <2>1, <2>2, <2>3, <2>4
  <1>2. CASE Hangup(c)
    <2>1. Drop({c})
      BY <1>2 DEF Hangup
    <2>2. TypeOK'
      BY <1>2, <2>1, DropKeeps DEF Hangup, TypeOK
    <2>3. Launched'
      BY <1>2 DEF Hangup, Launched
    <2>4. \A d \in Client : Knows(d)'
      BY <1>2, <2>1, DropKeeps DEF Hangup, Knows
    <2>5. CapabilityIsRespected'
      BY <1>2 DEF Hangup, CapabilityIsRespected
    <2> QED BY <2>2, <2>3, <2>4, <2>5
  <1>3. CASE StopHandled(c)
    <2>1. TypeOK' /\ Launched' /\ CapabilityIsRespected'
      BY <1>3 DEF StopHandled, TypeOK, Launched, CapabilityIsRespected
    <2>2. \A d \in Client : Knows(d)'
      BY <1>3 DEF StopHandled, TypeOK, Knows
    <2> QED BY <2>1, <2>2
  <1> QED BY <1>1, <1>2, <1>3 DEF Handle

\* A server that exits gives up its pipe and its connections, and nothing else.
LEMMA ExitKeeps ==
  ASSUME IInv, NEW s \in Server, Running(s), Exit(s), meta' \in {meta, None}, crashes' \in Nat
  PROVE  IInv'
  <1> USE NoneAssumption DEF IInv, Exit
  <1>1. Drop(Serving(s) \cup Queued(s)) /\ Serving(s) \cup Queued(s) \in SUBSET Client
    BY DEF Serving, Queued
  <1>2. TypeOK'
    BY <1>1, DropKeeps DEF TypeOK
  <1>3. Launched'
    BY DEF Launched, Running, TypeOK
  <1>4. \A d \in Client : Knows(d)'
    BY <1>1, DropKeeps DEF Knows
  <1>5. CapabilityIsRespected'
    BY DEF CapabilityIsRespected
  <1> QED BY <1>2, <1>3, <1>4, <1>5

\* A step of Serve, of closeServer or of the idle goroutine.
LEMMA ServeStep ==
  ASSUME IInv, NEW s \in Server, Serve(s) \/ IdleTick(s) \/ closeServer(s) \/ AcceptFails(s)
  PROVE  IInv'
  <1> USE NoneAssumption DEF client, IInv
  <1>1. CASE Publish(s)
    <2>1. TypeOK' /\ Launched' /\ CapabilityIsRespected'
      BY <1>1 DEF Publish, TypeOK, Launched, CapabilityIsRespected
    <2>2. \A d \in Client : Knows(d)'
      BY <1>1 DEF Publish, Knows
    <2> QED BY <2>1, <2>2
  <1>2. CASE Accept(s) \/ AcceptFails(s)
    <2>0. UNCHANGED <<meta, starting, execute, shut, closed, ticking, client, handler>>
          /\ crashes' \in Nat
      BY <1>2 DEF Accept, AcceptFails, Crashing, TypeOK
    <2>1. TypeOK' /\ Launched' /\ CapabilityIsRespected'
      <3>1. CASE Accept(s)
        BY <2>0, <3>1 DEF Accept, Breaks, TypeOK, Launched, CapabilityIsRespected
      <3>2. CASE AcceptFails(s)
        BY <2>0, <3>2 DEF AcceptFails, Breaks, TypeOK, Launched, CapabilityIsRespected
      <3> QED BY <1>2, <3>1, <3>2
    <2>2. \A d \in Client : Knows(d)'
      BY <2>0 DEF Knows
    <2> QED BY <2>1, <2>2
  <1>3. CASE Connected(s)
    <2>0. Queued(s) \in SUBSET Client
      BY DEF Queued
    <2>1. /\ handler' \in [Client -> {"none", "queued", "serving", "stopping"}]
          /\ cpc' \in [Client -> {"new", "dialing", "sent", "lock", "launch", "await",
                                  "returned", "failed"}]
          /\ \A c \in Client : handler[c] = "none" => handler'[c] = "none"
          /\ \A c \in Client : cpc'[c] = cpc[c] \/ cpc'[c] \in {"lock", "failed"}
      <3>1. CASE Drop(Queued(s))
        BY <2>0, <3>1, DropKeeps
      <3>2. CASE ~Drop(Queued(s))
        BY <1>3, <3>2 DEF Connected, TypeOK, Queued
      <3> QED BY <3>1, <3>2
    <2>2. PICK l \in {"refused", "accept"} : spc' = [spc EXCEPT ![s] = l]
      BY <1>3 DEF Connected, Breaks
    <2>7. broken' \subseteq Server
      BY <1>3 DEF Connected, Breaks, TypeOK
    <2>3. TypeOK'
      BY <1>3, <2>1, <2>2, <2>7 DEF Connected, Take, TypeOK
    <2>4. Launched'
      BY <1>3, <2>2 DEF Connected, TypeOK, Launched
    <2>5. \A d \in Client : Knows(d)'
      BY <1>3, <2>1 DEF Connected, Knows
    <2>6. CapabilityIsRespected'
      BY <1>3 DEF Connected, CapabilityIsRespected
    <2> QED BY <2>3, <2>4, <2>5, <2>6
  <1>4. CASE Refused(s) \/ Drain(s) \/ CloseEngine(s)
    <2>0. PICK l \in {"drain", "close", "leave"} :
            spc[s] \notin {"unborn", "connect"} /\ spc' = [spc EXCEPT ![s] = l]
      BY <1>4 DEF Refused, Drain, CloseEngine
    <2>1. shut' \in [Server -> BOOLEAN] /\ closed' \in [Server -> BOOLEAN]
      <3>1. CASE Refused(s) \/ Drain(s)
        BY <3>1 DEF Refused, Drain, TypeOK
      <3>2. CASE CloseEngine(s)
        BY <3>2 DEF CloseEngine, TypeOK
      <3> QED BY <1>4, <3>1, <3>2
    <2>2. UNCHANGED <<meta, starting, execute, pipe, ticking, broken, client, handler, crashes>>
      BY <1>4 DEF Refused, Drain, CloseEngine
    <2>3. TypeOK'
      BY <2>0, <2>1, <2>2 DEF TypeOK
    <2>4. Launched'
      BY <2>0, <2>2 DEF TypeOK, Launched
    <2>5. (\A d \in Client : Knows(d)') /\ CapabilityIsRespected'
      BY <2>2 DEF Knows, CapabilityIsRespected
    <2> QED BY <2>3, <2>4, <2>5
  <1>5. CASE CheckMeta(s) \/ RemoveMeta(s)
    <2>1. CASE Exit(s)
      <3>1. Running(s) /\ meta' \in {meta, None} /\ crashes' = crashes
        BY <1>5 DEF CheckMeta, RemoveMeta, Running
      <3> QED BY <2>1, <3>1, ExitKeeps DEF TypeOK
    <2>2. CASE ~Exit(s)
      <3>1. /\ spc[s] = "leave" /\ spc' = [spc EXCEPT ![s] = "remove"]
            /\ UNCHANGED <<meta, starting, execute, pipe, shut, closed, ticking, broken, client, handler, crashes>>
        BY <1>5, <2>2 DEF CheckMeta, RemoveMeta
      <3>2. TypeOK' /\ Launched' /\ CapabilityIsRespected'
        BY <3>1 DEF TypeOK, Launched, CapabilityIsRespected
      <3>3. \A d \in Client : Knows(d)'
        BY <3>1 DEF Knows
      <3> QED BY <3>2, <3>3
    <2> QED BY <2>1, <2>2
  <1>6. CASE IdleTick(s) \/ closeServer(s)
    <2>1. UNCHANGED <<meta, starting, spc, execute, broken, client, handler, crashes>>
      BY <1>6 DEF IdleTick, closeServer, CloseShutdown, CloseListener
    <2>2. /\ shut' \in [Server -> BOOLEAN] /\ closed' \in [Server -> BOOLEAN]
          /\ ticking' \in [Server -> {"on", "closing"}]
      <3>1. CASE IdleTick(s)
        BY <3>1 DEF IdleTick, TypeOK
      <3>2. CASE CloseShutdown(s)
        BY <3>2 DEF CloseShutdown, TypeOK
      <3>3. CASE CloseListener(s)
        BY <3>3 DEF CloseListener, TypeOK
      <3> QED BY <1>6, <3>1, <3>2, <3>3 DEF closeServer
    <2>3. /\ pipe' \in [Server -> {"none", "free", "taken"}]
          /\ \A r \in Server : pipe[r] = "none" => pipe'[r] = "none"
      BY <1>6 DEF IdleTick, closeServer, CloseShutdown, CloseListener, TypeOK
    <2>4. TypeOK'
      BY <2>1, <2>2, <2>3 DEF TypeOK
    <2>5. Launched' /\ CapabilityIsRespected' /\ \A d \in Client : Knows(d)'
      BY <2>1 DEF Launched, CapabilityIsRespected, Knows
    <2> QED BY <2>4, <2>5
  <1> QED BY <1>1, <1>2, <1>3, <1>4, <1>5, <1>6 DEF Serve

\* A client or a server is killed.
LEMMA CrashStep ==
  ASSUME IInv, \/ \E c \in Client : CrashClient(c)
               \/ \E s \in Server : CrashServer(s)
  PROVE  IInv'
  <1>1. crashes' \in Nat
    BY DEF CrashClient, CrashServer, Crashing, IInv, TypeOK
  <1>2. ASSUME NEW c \in Client, CrashClient(c) PROVE IInv'
    <2>1. TypeOK'
      BY <1>1, <1>2 DEF CrashClient, server, IInv, TypeOK
    <2>2. Launched' /\ CapabilityIsRespected'
      BY <1>2 DEF CrashClient, server, IInv, Launched, CapabilityIsRespected
    <2>3. \A d \in Client : Knows(d)'
      BY <1>2 DEF CrashClient, server, IInv, TypeOK, Knows
    <2> QED BY <2>1, <2>2, <2>3 DEF IInv
  <1>3. ASSUME NEW s \in Server, CrashServer(s) PROVE IInv'
    BY <1>1, <1>3, ExitKeeps DEF CrashServer
  <1> QED BY <1>2, <1>3

\* Every step keeps the invariant.
LEMMA Step == IInv /\ [Next]_vars => IInv'
  <1> SUFFICES ASSUME IInv, [Next]_vars PROVE IInv'
    OBVIOUS
  <1>1. CASE UNCHANGED vars
    <2>1. TypeOK' /\ Launched' /\ CapabilityIsRespected'
      BY <1>1 DEF IInv, vars, server, client, TypeOK, Launched, CapabilityIsRespected
    <2>2. \A d \in Client : Knows(d)'
      BY <1>1 DEF IInv, vars, server, client, Knows
    <2> QED BY <2>1, <2>2 DEF IInv
  <1>2. CASE Next
    BY <1>2, ClientStep, LaunchStep, HandleStep, ServeStep, CrashStep DEF Next, Cli
  <1> QED BY <1>1, <1>2

-----------------------------------------------------------------------------
\* Every reachable state is well typed: a connection has a server, and a pipe
\* instance is pending only while Accept waits for a client.
THEOREM TypeCorrect == Spec => []TypeOK
  <1>1. IInv => TypeOK
    BY DEF IInv
  <1> QED BY <1>1, Initially, Step, PTL DEF Spec

\* For any number of starts, servers and crashes, a start returns only a session
\* whose process may execute exactly what that start asked for.
THEOREM CapabilityAlwaysRespected == Spec => []CapabilityIsRespected
  <1>1. IInv => CapabilityIsRespected
    BY DEF IInv
  <1> QED BY <1>1, Initially, Step, PTL DEF Spec

-----------------------------------------------------------------------------
\* Only Accept gives a server calls: every other step of the program leaves it
\* those it has, or fewer.
LEMMA ServingShrinks ==
  ASSUME IInv, Next, NEW s \in Server, ~Connected(s)
  PROVE  Serving(s)' \subseteq Serving(s)
  <1>1. ASSUME NEW C \in SUBSET Client, Drop(C), UNCHANGED dest
        PROVE  Serving(s)' \subseteq Serving(s)
    BY <1>1 DEF Drop, Serving
  <1>2. ASSUME UNCHANGED <<dest, handler>> PROVE Serving(s)' \subseteq Serving(s)
    BY <1>2 DEF Serving
  <1>3. ASSUME NEW c \in Client, Start(c) \/ Call(c) PROVE Serving(s)' \subseteq Serving(s)
    <2>1. handler[c] = "none" /\ handler' = handler
      BY <1>3 DEF Start, Call, IInv, Knows
    <2>2. \A d \in Client \ {c} : dest'[d] = dest[d]
      BY <1>3 DEF Start, Call, IInv, TypeOK
    <2> QED BY <2>1, <2>2 DEF Serving
  <1>4. ASSUME NEW c \in Client, Dial(c) PROVE Serving(s)' \subseteq Serving(s)
    BY <1>4 DEF Dial, Serving, IInv, TypeOK
  <1>5. ASSUME NEW c \in Client, GiveUp(c) \/ TakeLock(c) \/ Published(c) \/ StartFails(c)
                                 \/ CrashClient(c) \/ \E r \in Server : Launch(c, r)
        PROVE  Serving(s)' \subseteq Serving(s)
    BY <1>2, <1>5 DEF GiveUp, TakeLock, Published, StartFails, CrashClient, Launch
  <1>6. ASSUME NEW c \in Client, Handle(c) PROVE Serving(s)' \subseteq Serving(s)
    <2>1. CASE Answer(c)
      BY <2>1 DEF Answer, Serving, IInv, TypeOK
    <2>2. CASE Hangup(c)
      BY <1>1, <2>2 DEF Hangup
    <2>3. CASE StopHandled(c)
      BY <2>3 DEF StopHandled, client, Serving, IInv, TypeOK
    <2> QED BY <1>6, <2>1, <2>2, <2>3 DEF Handle
  <1>7. ASSUME NEW r \in Server, Connected(r) PROVE Serving(s)' \subseteq Serving(s)
    <2>1. r # s
      BY <1>7
    <2>2. UNCHANGED dest /\ \A c \in Client : dest[c] = s => handler'[c] \in {handler[c], "none"}
      BY <1>7, <2>1 DEF Connected, Drop, Queued
    <2> QED BY <2>2 DEF Serving
  <1>8. ASSUME NEW r \in Server, Exit(r) PROVE Serving(s)' \subseteq Serving(s)
    <2>1. Drop(Serving(r) \cup Queued(r)) /\ UNCHANGED dest
      BY <1>8 DEF Exit
    <2>2. Serving(r) \cup Queued(r) \in SUBSET Client
      BY DEF Serving, Queued
    <2> QED BY <1>1, <2>1, <2>2
  <1>9. ASSUME NEW r \in Server, Serve(r) \/ IdleTick(r) \/ closeServer(r) \/ AcceptFails(r)
                                 \/ CrashServer(r)
        PROVE  Serving(s)' \subseteq Serving(s)
    <2>1. CASE Publish(r) \/ Accept(r) \/ AcceptFails(r) \/ Refused(r) \/ Drain(r) \/ CloseEngine(r)
      BY <1>2, <2>1 DEF Publish, Accept, AcceptFails, Refused, Drain, CloseEngine, client
    <2>2. CASE Connected(r)
      BY <1>7, <2>2
    <2>3. CASE CheckMeta(r) \/ RemoveMeta(r)
      BY <1>2, <1>8, <2>3 DEF CheckMeta, RemoveMeta, client
    <2>4. CASE IdleTick(r) \/ closeServer(r)
      BY <1>2, <2>4 DEF IdleTick, closeServer, CloseShutdown, CloseListener, client
    <2>5. CASE CrashServer(r)
      BY <1>8, <2>5 DEF CrashServer
    <2> QED BY <1>9, <2>1, <2>2, <2>3, <2>4, <2>5 DEF Serve
  <1> QED BY <1>3, <1>4, <1>5, <1>6, <1>9 DEF Next, Cli

\* A step that is no step of server s leaves it where it is, or kills it.
LEMMA OtherSteps ==
  ASSUME IInv, Next, NEW s \in Server, ~Serve(s), ~closeServer(s), ~AcceptFails(s)
  PROVE  /\ spc'[s] \in {spc[s], "publish", "gone"}
         /\ shut'[s] = shut[s] /\ closed'[s] = closed[s]
         /\ s \in broken => s \in broken'
  <1> USE DEF IInv, TypeOK
  <1>1. ASSUME NEW c \in Client, Start(c) \/ Call(c) \/ Cli(c) \/ Handle(c) \/ CrashClient(c)
        PROVE  /\ spc'[s] \in {spc[s], "publish"}
               /\ shut' = shut /\ closed' = closed /\ broken' = broken
    <2>1. CASE Start(c) \/ Call(c) \/ Handle(c) \/ CrashClient(c)
      BY <2>1 DEF Start, Call, Handle, Answer, Hangup, StopHandled, CrashClient, server
    <2>2. CASE Dial(c) \/ GiveUp(c) \/ TakeLock(c) \/ Published(c) \/ StartFails(c)
      BY <2>2 DEF Dial, GiveUp, TakeLock, Published, StartFails, server
    <2>3. CASE \E r \in Server : Launch(c, r)
      BY <2>3 DEF Launch
    <2> QED BY <1>1, <2>1, <2>2, <2>3 DEF Cli
  <1>2. ASSUME NEW r \in Server, Exit(r)
        PROVE  /\ spc'[s] \in {spc[s], "gone"}
               /\ shut' = shut /\ closed' = closed /\ broken' = broken
    BY <1>2 DEF Exit
  <1>3. ASSUME NEW r \in Server, IdleTick(r) \/ CrashServer(r)
        PROVE  /\ spc'[s] \in {spc[s], "gone"}
               /\ shut' = shut /\ closed' = closed /\ broken' = broken
    BY <1>2, <1>3 DEF IdleTick, CrashServer
  <1>4. ASSUME NEW r \in Server, Serve(r) \/ closeServer(r) \/ AcceptFails(r)
        PROVE  /\ spc'[s] \in {spc[s], "gone"}
               /\ shut'[s] = shut[s] /\ closed'[s] = closed[s]
               /\ s \in broken => s \in broken'
    <2>1. r # s
      BY <1>4
    <2>2. CASE Publish(r) \/ Refused(r) \/ Drain(r) \/ CloseEngine(r)
      BY <2>1, <2>2 DEF Publish, Refused, Drain, CloseEngine
    <2>5. CASE Accept(r) \/ Connected(r) \/ AcceptFails(r)
      <3>1. PICK l \in {"refused", "accept", "connect"} : spc' = [spc EXCEPT ![r] = l]
        BY <2>5 DEF Accept, Connected, AcceptFails, Breaks
      <3>2. shut' = shut /\ closed' = closed /\ broken \subseteq broken'
        BY <2>5 DEF Accept, Connected, AcceptFails, Breaks
      <3> QED BY <2>1, <3>1, <3>2
    <2>3. CASE CheckMeta(r) \/ RemoveMeta(r)
      BY <1>2, <2>1, <2>3 DEF CheckMeta, RemoveMeta
    <2>4. CASE closeServer(r)
      BY <2>1, <2>4 DEF closeServer, CloseShutdown, CloseListener
    <2> QED BY <1>4, <2>2, <2>3, <2>4, <2>5 DEF Serve
  <1> QED BY <1>1, <1>3, <1>4 DEF Next

\* Accept returns an error because the listener was closed, or it has failed.
LEMMA RefusedIsShut ==
  ASSUME IInv, NEW s \in Server, Drained(s), Accept(s) \/ AcceptFails(s) \/ Connected(s)
  PROVE  /\ spc'[s] \in {"accept", "connect", "refused"}
         /\ spc'[s] = "refused" => shut[s] \/ s \in broken'
         /\ shut' = shut /\ closed' = closed
  <1>1. CASE Accept(s)
    BY <1>1 DEF Accept, Breaks, Drained, IInv, TypeOK
  <1>2. CASE AcceptFails(s)
    BY <1>2 DEF AcceptFails, Breaks, Drained, IInv, TypeOK
  <1>3. CASE Connected(s)
    BY <1>3 DEF Connected, Breaks, Drained, IInv, TypeOK
  <1> QED BY <1>1, <1>2, <1>3

\* Every step keeps a server drained.
LEMMA DrainedStep ==
  ASSUME DInv, Next, NEW s \in Server
  PROVE  Drained(s)'
  <1> USE DEF DInv
  <1>1. CASE Accept(s) \/ AcceptFails(s) \/ Connected(s)
    BY <1>1, RefusedIsShut DEF Drained
  <1>2. CASE ~Connected(s) /\ ~Accept(s) /\ ~AcceptFails(s)
    <2>0. Serving(s)' \subseteq Serving(s)
      BY <1>2, ServingShrinks
    <2>1. CASE ~Serve(s) /\ ~closeServer(s)
      BY <1>2, <2>0, <2>1, OtherSteps DEF Drained
    <2>2. CASE Publish(s) \/ Refused(s) \/ Drain(s) \/ CloseEngine(s)
      <3>1. CASE Publish(s)
        BY <3>1 DEF Publish, Drained, IInv, TypeOK
      <3>2. CASE Refused(s)
        BY <2>0, <3>2 DEF Refused, Drained, IInv, TypeOK
      <3>3. CASE Drain(s)
        BY <2>0, <3>3 DEF Drain, Drained, IInv, TypeOK
      <3>4. CASE CloseEngine(s)
        BY <2>0, <3>4 DEF CloseEngine, Drained, IInv, TypeOK
      <3> QED BY <2>2, <3>1, <3>2, <3>3, <3>4
    <2>3. CASE CheckMeta(s) \/ RemoveMeta(s)
      <3>1. /\ spc'[s] \in {"remove", "gone"} /\ spc[s] \in {"leave", "remove"}
            /\ shut' = shut /\ closed' = closed /\ broken' = broken
        BY <2>3 DEF CheckMeta, RemoveMeta, Exit, IInv, TypeOK
      <3> QED BY <2>0, <3>1 DEF Drained
    <2>4. CASE closeServer(s)
      <3>1. /\ spc' = spc /\ broken' = broken
            /\ shut[s] => shut'[s]
            /\ closed'[s] => shut'[s]
        BY <2>4 DEF closeServer, CloseShutdown, CloseListener, Drained, IInv, TypeOK
      <3> QED BY <2>0, <3>1 DEF Drained
    <2> QED BY <1>2, <2>1, <2>2, <2>3, <2>4 DEF Serve
  <1> QED BY <1>1, <1>2

\* Every server is drained in every state.
LEMMA DrainedForEver == Spec => []DInv
  <1>1. Init => DInv
    <2>1. ASSUME Init, NEW s \in Server PROVE Drained(s)
      BY <2>1 DEF Init, Drained
    <2> QED BY <2>1, Initially DEF DInv
  <1>2. DInv /\ [Next]_vars => DInv'
    <2>1. ASSUME DInv, Next PROVE DInv'
      BY <2>1, Step, DrainedStep DEF DInv
    <2>2. ASSUME DInv, UNCHANGED vars PROVE DInv'
      <3>1. ASSUME NEW s \in Server PROVE Drained(s)'
        BY <2>2, <3>1 DEF DInv, Drained, Serving, vars, server, client
      <3> QED BY <2>2, <3>1, Step DEF DInv
    <2> QED BY <2>1, <2>2
  <1> QED BY <1>1, <1>2, PTL DEF Spec

\* No session whose Accept has not failed closes its engine under a call it has
\* accepted, whatever number of clients, servers, slots and pipe instances.
THEOREM NoCallIsEverCut == Spec => []NoCallIsCut
  <1>1. DInv => NoCallIsCut
    BY DEF DInv, Drained, NoCallIsCut
  <1> QED BY <1>1, DrainedForEver, PTL

\* Serve never takes the closed listener for a failed one: it ends at once only
\* when Accept failed on an open listener.
THEOREM SessionAlwaysStaysWarm == Spec => []SessionStaysWarm
  <1>1. DInv => SessionStaysWarm
    BY DEF DInv, Drained, SessionStaysWarm
  <1> QED BY <1>1, DrainedForEver, PTL
=============================================================================
