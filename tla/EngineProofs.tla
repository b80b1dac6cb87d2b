---------------------------- MODULE EngineProofs ----------------------------
(***************************************************************************)
(* No request leaves a Word behind and no corpus case runs in a host an    *)
(* earlier case failed in: for any number of requests and hosts.           *)
(***************************************************************************)
EXTENDS Engine, TLAPS

\* Where a request can be, and when it works with a host.
Placed ==
  \A a \in Caller :
    /\ pc[a] = "fs" => kind[a] \in Filing
    /\ pc[a] \in {"own", "alone"} => kind[a] \in {"test", "fresh", "preview", "probe"}
    /\ using[a] # None => pc[a] \in {"alone", "work", "close", "closing"}

\* What e.mu protects: nobody has a host while one is started, and the one that
\* is being closed has ended.
Guarded ==
  \A a \in Caller :
    /\ pc[a] = "starting" => host = None
    /\ pc[a] = "closing" => host = None \/ ~Alive(host)

\* The host a request started for itself is neither the cached one nor another's.
Apart ==
  \A a \in Caller : pc[a] = "alone" =>
    /\ using[a] # host
    /\ \A b \in Caller : using[b] = using[a] => b = a

\* The host a case failed in is the cached one, and that case still holds the
\* files while it waits to close it.
Spoiled ==
  spoiled # None =>
    /\ spoiled = host /\ Alive(spoiled)
    /\ \E a \in Caller : fsMu = a /\ kind[a] = "corpus" /\ pc[a] = "close"

IInv == TypeOK /\ Placed /\ Guarded /\ Apart /\ NoStrayHost /\ Spoiled

-----------------------------------------------------------------------------
\* A session starts without a host.
LEMMA Initially == Init => IInv
  BY HostAssumption DEF Init, IInv, TypeOK, Placed, Guarded, Apart, NoStrayHost, Spoiled, Alive, Kind, Filing

\* The steps that take a lock keep the invariant.
LEMMA LockStep ==
  ASSUME IInv, NEW a \in Caller, Lock(a)
  PROVE  IInv'
  <1> USE HostAssumption DEF IInv, TypeOK, Placed, Guarded, Apart, NoStrayHost, Spoiled, Alive,
                             Goto, Return, hosts, mutexes, Kind, Filing
  <1>1. CASE LockFiles(a)
    <2>1. PICK place \in {"close", "own", "host"} :
            /\ pc' = [pc EXCEPT ![a] = place]
            /\ kind[a] \in {"fresh", "preview"} <=> place = "own"
      BY <1>1 DEF LockFiles
    <2>2. /\ pc[a] = "fs" /\ fsMu = None /\ fsMu' = a /\ kind[a] \in Filing
          /\ UNCHANGED <<host, state, spoiled, mu, kind, using>>
      BY <1>1 DEF LockFiles
    <2>3. \A b \in Caller : pc'[b] = IF b = a THEN place ELSE pc[b]
      BY <2>1
    <2>4. TypeOK'
      BY <2>1, <2>2, <2>3
    <2>5. Placed' /\ Guarded'
      BY <2>1, <2>2, <2>3
    <2> QED BY <2>2, <2>3, <2>4, <2>5
  <1>2. CASE SetOptions(a)
    BY <1>2 DEF SetOptions
  <1>3. CASE CallHost(a)
    BY <1>3 DEF CallHost
  <1>4. CASE Close(a)
    BY <1>4 DEF Close, Ends
  <1> QED BY <1>1, <1>2, <1>3, <1>4 DEF Lock

\* So do the others of a request.
LEMMA ProceedStep ==
  ASSUME IInv, NEW a \in Caller, Proceed(a)
  PROVE  IInv'
  <1>0. StartOwn(a) => \E h \in Host :
          /\ pc[a] = "own" /\ Unknown(h)
          /\ state' = [state EXCEPT ![h] = "live"]
          /\ using' = [using EXCEPT ![a] = h]
          /\ pc' = [pc EXCEPT ![a] = "alone"]
          /\ UNCHANGED <<host, spoiled, mu, fsMu, kind>>
    BY DEF StartOwn, Goto, mutexes
  <1> USE HostAssumption DEF IInv, TypeOK, Placed, Guarded, Apart, NoStrayHost, Spoiled, Alive,
                             Goto, Return, NextCaseOrReturn, hosts, mutexes, Kind, Filing
  <1>1. CASE Started(a)
    BY <1>1 DEF Started, Unknown
  <1>2. CASE StartFails(a)
    BY <1>2 DEF StartFails
  <1>3. CASE StartOwn(a)
    <2>1. PICK h \in Host :
            /\ pc[a] = "own" /\ Unknown(h)
            /\ state' = [state EXCEPT ![h] = "live"]
            /\ using' = [using EXCEPT ![a] = h]
            /\ pc' = [pc EXCEPT ![a] = "alone"]
            /\ UNCHANGED <<host, spoiled, mu, fsMu, kind>>
      BY <1>0, <1>3
    <2>2. using[a] = None /\ (kind[a] \in Filing <=> fsMu = a)
      BY <2>1
    <2>3. TypeOK'
      BY <2>1, <2>2
    <2>4. Placed' /\ Guarded' /\ Spoiled'
      BY <2>1, <2>2 DEF Unknown
    <2>5. Apart' /\ NoStrayHost'
      BY <2>1, <2>2 DEF Unknown
    <2> QED BY <2>3, <2>4, <2>5
  <1>4. CASE OwnFails(a)
    BY <1>4 DEF OwnFails
  <1>5. CASE OwnEnds(a)
    BY <1>5 DEF OwnEnds, Ends
  <1>6. CASE Done(a)
    BY <1>6 DEF Done, Working
  <1>7. CASE Failed(a)
    BY <1>7 DEF Failed, Working
  <1>8. CASE Closed(a)
    BY <1>8 DEF Closed
  <1>9. CASE HandOff(a)
    BY <1>9 DEF HandOff
  <1> QED BY <1>1, <1>2, <1>3, <1>4, <1>5, <1>6, <1>7, <1>8, <1>9 DEF Proceed

\* And the arrival of a request, and what happens to hosts and sessions.
LEMMA OtherStep ==
  ASSUME IInv,
         \/ \E a \in Caller, k \in Kind : Request(a, k)
         \/ Shutdown \/ \E h \in Host : WordExits(h) \/ HostEnds(h) \/ UserQuits(h)
  PROVE  IInv'
  <1> USE HostAssumption DEF IInv, TypeOK, Placed, Guarded, Apart, NoStrayHost, Spoiled, Alive,
                             Goto, hosts, mutexes, Kind, Filing
  <1>1. ASSUME NEW a \in Caller, NEW k \in Kind, Request(a, k) PROVE IInv'
    BY <1>1 DEF Request
  <1>2. CASE Shutdown
    BY <1>2 DEF Shutdown, Ends
  <1>3. ASSUME NEW h \in Host, WordExits(h) PROVE IInv'
    BY <1>3 DEF WordExits
  <1>4. ASSUME NEW h \in Host, HostEnds(h) PROVE IInv'
    BY <1>4 DEF HostEnds, Ends
  <1>5. ASSUME NEW h \in Host, UserQuits(h) PROVE IInv'
    BY <1>5 DEF UserQuits, Ends
  <1> QED BY <1>1, <1>2, <1>3, <1>4, <1>5

LEMMA Step == IInv /\ [Next]_vars => IInv'
  <1>1. ASSUME IInv, Next PROVE IInv'
    BY <1>1, LockStep, ProceedStep, OtherStep DEF Next
  <1>2. ASSUME IInv, UNCHANGED vars PROVE IInv'
    BY <1>2 DEF vars, hosts, mutexes, IInv, TypeOK, Placed, Guarded, Apart, NoStrayHost, Spoiled, Alive
  <1> QED BY <1>1, <1>2

LEMMA Always == Spec => []IInv
  BY Initially, Step, PTL DEF Spec

\* A mutex is held exactly by the request between its lock and its unlock, on
\* every path through the engine.
THEOREM TypeCorrect == Spec => []TypeOK
  <1>1. IInv => TypeOK
    BY DEF IInv
  <1> QED BY <1>1, Always, PTL

\* Whatever the requests of a session do to its hosts, every Word that lives is
\* the one the next stop closes, or one running request's own.
THEOREM NoHostIsStray == Spec => []NoStrayHost
  <1>1. IInv => NoStrayHost
    BY DEF IInv
  <1> QED BY <1>1, Always, PTL

\* No case of a corpus runs in a host in which an earlier case failed.
THEOREM CaseHostIsAlwaysClean == Spec => []CaseHostIsClean
  <1>1. ASSUME IInv, NEW a \in Caller, Working(a), kind[a] = "corpus"
        PROVE  using[a] # spoiled
    <2>1. using[a] # None /\ fsMu = a
      BY <1>1 DEF IInv, TypeOK, Working, Filing
    <2>2. spoiled = None
      <3>1. ASSUME NEW b \in Caller, fsMu = b, pc[b] = "close" PROVE FALSE
        BY <1>1, <2>1, <3>1 DEF Working
      <3> QED BY <1>1, <3>1 DEF IInv, Spoiled
    <2> QED BY <2>1, <2>2
  <1>2. IInv => CaseHostIsClean
    BY <1>1 DEF CaseHostIsClean
  <1> QED BY <1>2, Always, PTL
=============================================================================
