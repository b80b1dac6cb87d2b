------------------------ MODULE WorkspaceBuildProofs ------------------------
(***************************************************************************)
(* The source memo of a workspace never outlives a change of its file, on  *)
(* platforms that keep a change time, and a build that no edit disturbs    *)
(* answers with the package of the files as they are, from whatever memo,  *)
(* report or package of its own: for any files, contents and edits.        *)
(***************************************************************************)
EXTENDS WorkspaceBuild, TLAPS

\* A request that needs a memo, a package or a file that cannot be away has it.
Placed ==
  /\ pc = "memo" => buildMemo # None
  /\ pc \in {"write", "report", "memoize"} => package # None
  /\ \A f \in Always : disk[f].data # None

TInv == TypeOK /\ Placed

-----------------------------------------------------------------------------
\* Types.

LEMMA Nones ==
  /\ None \notin Data /\ None \notin Stamps /\ None \notin Snapshots /\ None \notin SourceMaps
  /\ None \notin Packages /\ None \notin Memos /\ None \notin Reports
  BY DataAssumption, NoneAssumption

LEMMA Empty == NoSnapshot \in Snapshots /\ NoFiles \in SourceMaps
  BY DEF NoSnapshot, NoFiles, Snapshots, SourceMaps

\* A walk compares with stamps.
LEMMA PreviousIsSnapshot == TInv => Previous \in Snapshots
  <1> SUFFICES ASSUME TInv PROVE Previous \in Snapshots
    OBVIOUS
  <1>1. CASE pc = "memo"
    BY <1>1 DEF TInv, TypeOK, Placed, Previous, Memos
  <1>2. CASE pc \in {"stamp", "memoize"} /\ sourceStamp # None
    BY <1>2 DEF TInv, TypeOK, Previous
  <1>3. CASE pc # "memo" /\ ~(pc \in {"stamp", "memoize"} /\ sourceStamp # None)
    BY <1>3, Empty DEF Previous
  <1> QED BY <1>1, <1>2, <1>3

\* A stamp is of the file as it is now.
LEMMA StampOf ==
  ASSUME TInv, NEW f \in File
  PROVE  /\ Stamp(f, Previous) \in Stamps \cup {None}
         /\ disk[f].data = None => Stamp(f, Previous) = None
         /\ disk[f].data # None => Stamp(f, Previous) # None /\ Stamp(f, Previous).at = disk[f].at
  <1>1. Previous[f] \in Stamps \cup {None}
    BY PreviousIsSnapshot DEF Snapshots
  <1>2. disk[f].data \in Data \cup {None} /\ disk[f].at \in 0..MaxEdits
    BY DEF TInv, TypeOK
  <1>3. CASE disk[f].data = None
    BY <1>3 DEF Stamp
  <1>4. CASE disk[f].data # None
    <2> DEFINE h == IF reliable /\ Previous[f] # None /\ Previous[f].at = disk[f].at
                    THEN Previous[f].hash ELSE disk[f].data
    <2>1. h \in Data
      BY <1>1, <1>2, <1>4 DEF Stamps
    <2>2. Stamp(f, Previous) = [at |-> disk[f].at, hash |-> h]
      BY <1>4 DEF Stamp
    <2> HIDE DEF h
    <2>3. Stamp(f, Previous) \in Stamps
      BY <1>2, <2>1, <2>2 DEF Stamps
    <2> QED BY <1>4, <2>2, <2>3, Nones
  <1> QED BY <1>3, <1>4

LEMMA Initially == Init => TInv
  <1> SUFFICES ASSUME Init PROVE TInv
    OBVIOUS
  <1>1. TypeOK
    <2>1. disk \in [File -> [data : Data \cup {None}, at : 0..MaxEdits]]
      <3>1. [data : Data, at : {0}] \subseteq [data : Data \cup {None}, at : 0..MaxEdits]
        BY BoundAssumption
      <3> QED BY <3>1 DEF Init
    <2>2. clock \in 0..MaxEdits
      BY BoundAssumption DEF Init
    <2>3. seen \in [File -> SUBSET (Data \cup {None})]
      BY DEF Init
    <2> QED BY <2>1, <2>2, <2>3, Empty DEF Init, TypeOK
  <1>2. Placed
    BY DataAssumption DEF Init, Placed, Always, Metadata, File, Readable
  <1> QED BY <1>1, <1>2 DEF TInv

\* The steps of a request that read and remember sources.
LEMMA ReadStep ==
  ASSUME TInv,
         \/ \E kind \in {"files", "build"} : Request(kind)
         \/ Open \/ (\E f \in File : StampFile(f) \/ ReadFile(f))
         \/ Stamped \/ Restamped \/ ReadDone
  PROVE  TInv'
  <1> USE Nones, Empty DEF TInv, TypeOK, Placed, Walk, Answer, storage, memory, locals, history
  <1>1. ASSUME NEW kind \in {"files", "build"}, Request(kind) PROVE TInv'
    BY <1>1 DEF Request
  <1>2. CASE Open
    <2>1. disk[Base].data \in Data
      BY DEF Always, Metadata, File, Readable
    <2> QED BY <1>2, <2>1 DEF Open
  <1>3. ASSUME NEW f \in File, StampFile(f) PROVE TInv'
    <2>1. snapshot' \in Snapshots
      BY <1>3, StampOf DEF StampFile, Snapshots
    <2> QED BY <1>3, <2>1 DEF StampFile
  <1>4. ASSUME NEW f \in File, ReadFile(f) PROVE TInv'
    <2>1. files' \in SourceMaps
      BY <1>4 DEF ReadFile, SourceMaps
    <2> QED BY <1>4, <2>1 DEF ReadFile
  <1>5. Kept \in SourceMaps /\ Stale \subseteq File
    BY DEF Kept, Stale, SourceMaps, File
  <1>6. CASE Stamped
    BY <1>5, <1>6 DEF Stamped
  <1>7. CASE Restamped
    BY <1>5, <1>7 DEF Restamped
  <1>8. CASE ReadDone
    BY <1>8 DEF ReadDone, Results
  <1> QED BY <1>1, <1>2, <1>3, <1>4, <1>6, <1>7, <1>8

\* The steps of a build.
LEMMA BuildStep ==
  ASSUME TInv,
         \/ MemoHit \/ MemoMiss \/ MemoUnread \/ Refresh \/ reloadMetadata
         \/ PriorHit \/ Compose \/ WriteArtifact \/ WriteReport \/ Memoize \/ MemoizeNot
         \/ Fail \/ Restart
  PROVE  TInv'
  <1> USE Nones, Empty DEF TInv, TypeOK, Placed, Walk, Answer, Built, storage, memory, locals, history
  <1>1. disk[Base].data \in Data
    BY DEF Always, Metadata, File, Readable
  <1>2. CASE MemoHit
    BY <1>2 DEF MemoHit, Results, Memos
  <1>3. CASE MemoMiss
    BY <1>3 DEF MemoMiss
  <1>4. CASE MemoUnread
    BY <1>4 DEF MemoUnread
  <1>5. CASE Refresh
    BY <1>1, <1>5 DEF Refresh
  <1>6. CASE reloadMetadata
    BY <1>1, <1>6 DEF reloadMetadata
  <1>7. CASE PriorHit
    BY <1>7 DEF PriorHit, PriorHolds, Results, Reports
  <1>8. CASE Compose
    <2>1. package' \in Packages
      <3>1. /\ baseline \in Data
            /\ [f \in Readable \ {Lock} |-> files[f]] \in [Readable \ {Lock} -> Data \cup {None}]
            /\ disk[Lock].data \in Data \cup {None}
        BY <1>8 DEF Compose, SourceMaps, File, Readable
      <3> QED BY <1>8, <3>1 DEF Compose, Packages
    <2> QED BY <1>8, <2>1 DEF Compose
  <1>9. CASE WriteArtifact
    BY <1>9 DEF WriteArtifact
  <1>10. CASE WriteReport
    <2>1. Fingerprint \in SourceMaps
      BY DEF Fingerprint, SourceMaps, Snapshots, Stamps, File
    <2>2. report' \in Reports
      BY <1>10, <2>1 DEF WriteReport, Reports
    <2> QED BY <1>10, <2>2 DEF WriteReport
  <1>11. CASE Memoize
    <2>1. buildMemo' \in Memos /\ Built("new", package) \in Results
      BY <1>11 DEF Memoize, Memos, Results
    <2> QED BY <1>11, <2>1 DEF Memoize
  <1>12. CASE MemoizeNot
    <2>1. Built("new", package) \in Results
      BY <1>12 DEF MemoizeNot, Results
    <2> QED BY <1>12, <2>1 DEF MemoizeNot
  <1>13. CASE Fail
    BY <1>13 DEF Fail, Results
  <1>14. CASE Restart
    BY <1>14 DEF Restart
  <1> QED BY <1>2, <1>3, <1>4, <1>5, <1>6, <1>7, <1>8, <1>9, <1>10, <1>11, <1>12, <1>13, <1>14

\* The steps of everybody else.
LEMMA OutsideStep ==
  ASSUME TInv, (\E f \in File : Edit(f)) \/ Tamper
  PROVE  TInv'
  <1>0. Tamper => /\ clock' = clock + 1 /\ clock < MaxEdits
                  /\ artifact' = None /\ quiet' = FALSE /\ result' = None
                  /\ UNCHANGED <<disk, report, reliable, pc, op, seen, tornReport>>
                  /\ UNCHANGED <<baseline, sourceMemo, sourceStamp, buildMemo>>
                  /\ UNCHANGED <<todo, snapshot, files, package>>
    BY DEF Tamper, memory, locals
  <1> USE Nones, BoundAssumption DEF TInv, TypeOK, Placed, memory, locals
  <1>1. ASSUME NEW f \in File, Edit(f) PROVE TInv'
    <2>1. PICK d \in (IF f \in Always THEN Data ELSE Data \cup {None}), restored \in BOOLEAN :
            /\ disk' = [disk EXCEPT ![f] = [data |-> d, at |-> IF restored THEN disk[f].at ELSE clock + 1]]
            /\ seen' = [seen EXCEPT ![f] = @ \cup {d}]
            /\ torn' = (torn \/ (pc # "idle" /\ (op = "build" \/ ~reliable))
                             \/ (f = Base /\ baseline # None /\ sourceStamp = None))
      BY <1>1 DEF Edit
    <2>2. /\ clock' = clock + 1 /\ clock < MaxEdits
          /\ quiet' = FALSE /\ result' = None
          /\ UNCHANGED <<artifact, marked, report, reliable, pc, op, tornReport>>
          /\ UNCHANGED <<baseline, sourceMemo, sourceStamp, buildMemo>>
          /\ UNCHANGED <<todo, snapshot, files, package>>
      BY <1>1 DEF Edit
    <2>3. disk' \in [File -> [data : Data \cup {None}, at : 0..MaxEdits]]
      BY <2>1, <2>2
    <2>4. seen' \in [File -> SUBSET (Data \cup {None})]
      BY <2>1
    <2>5. \A g \in Always : g \in File /\ disk'[g].data # None
      BY <2>1 DEF Always, Metadata, File, Readable
    <2>6. torn' \in BOOLEAN /\ quiet' \in BOOLEAN
      BY <2>1, <2>2
    <2>7. clock' \in 0..MaxEdits
      BY <2>2
    <2>8. TypeOK'
      BY <2>2, <2>3, <2>4, <2>6, <2>7
    <2> QED BY <2>2, <2>5, <2>8
  <1>2. CASE Tamper
    <2>1. marked' \in BOOLEAN /\ torn' \in BOOLEAN
      BY <1>2 DEF Tamper
    <2>2. /\ clock' = clock + 1 /\ clock < MaxEdits
          /\ artifact' = None /\ quiet' = FALSE /\ result' = None
          /\ UNCHANGED <<disk, report, reliable, pc, op, seen, tornReport>>
          /\ UNCHANGED <<baseline, sourceMemo, sourceStamp, buildMemo>>
          /\ UNCHANGED <<todo, snapshot, files, package>>
      BY <1>0, <1>2
    <2>3. clock' \in 0..MaxEdits
      BY <2>2
    <2>4. quiet' \in BOOLEAN
      BY <2>2
    <2>5. TypeOK'
      BY <2>1, <2>2, <2>3, <2>4
    <2> QED BY <2>2, <2>5
  <1> QED BY <1>1, <1>2

LEMMA TStep == TInv /\ [Next]_vars => TInv'
  <1>1. ASSUME TInv, Next PROVE TInv'
    BY <1>1, ReadStep, BuildStep, OutsideStep DEF Next
  <1>2. ASSUME TInv, UNCHANGED vars PROVE TInv'
    BY <1>2 DEF TInv, TypeOK, Placed, vars, storage, memory, locals, history
  <1> QED BY <1>1, <1>2

LEMMA TAlways == Spec => []TInv
  BY Initially, TStep, PTL DEF Spec

\* The workspace keeps its shape: a source memo never without the stamps it was
\* taken with, a package whenever one is written, a place only in a request.
THEOREM TypeCorrect == Spec => []TypeOK
  <1>1. TInv => TypeOK
    BY DEF TInv
  <1> QED BY <1>1, TAlways, PTL

-----------------------------------------------------------------------------
\* The snapshot of a call.

\* A stamp is never younger than the clock.
Dated ==
  \A f \in File :
    /\ disk[f].at <= clock
    /\ snapshot[f] # None => snapshot[f].at <= clock
    /\ sourceStamp # None => (sourceStamp[f] # None => sourceStamp[f].at <= clock)

\* A call has seen what the files are.
Witnessed == pc # "idle" => \A f \in File : disk[f].data \in seen[f]

\* The source memo is right about every file whose stamp has not moved.
Remembered ==
  sourceMemo # None => \A f \in Readable :
    sourceStamp[f] # None /\ sourceStamp[f].at = disk[f].at => sourceMemo[f] = disk[f].data

\* What a walk found away was away during the call, and where it found the stamp
\* of the memo, the memo was right.
Walked ==
  pc \in {"memo", "refresh", "check", "stamp", "restamp"} => \A f \in Readable \ todo :
    /\ snapshot[f] = None => None \in seen[f]
    /\ snapshot[f] # None /\ sourceMemo # None /\ sourceStamp[f] = snapshot[f] => sourceMemo[f] \in seen[f]

\* What is read, or taken from the memo, was there during the call, and still is
\* if the stamp has not moved.
Collected ==
  pc = "read" => \A f \in Readable \ todo :
    /\ files[f] \in seen[f]
    /\ snapshot[f] # None /\ snapshot[f].at = disk[f].at => files[f] = disk[f].data

SInv ==
  /\ TInv
  /\ reliable => Dated /\ Witnessed /\ Remembered /\ Walked /\ Collected
  /\ SnapshotIsOfThisCall

LEMMA SInitially == Init => SInv
  <1> SUFFICES ASSUME Init PROVE SInv
    OBVIOUS
  <1>1. TInv /\ SnapshotIsOfThisCall
    BY Initially DEF Init, SnapshotIsOfThisCall
  <1>2. Dated /\ Witnessed /\ Remembered /\ Walked /\ Collected
    BY DEF Init, Dated, Witnessed, Remembered, Walked, Collected, NoSnapshot
  <1> QED BY <1>1, <1>2 DEF SInv

LEMMA SReadStep ==
  ASSUME SInv, reliable,
         \/ \E kind \in {"files", "build"} : Request(kind)
         \/ Open \/ (\E f \in File : StampFile(f) \/ ReadFile(f))
         \/ Stamped \/ Restamped \/ ReadDone
  PROVE  Dated' /\ Witnessed' /\ Remembered' /\ Walked' /\ Collected' /\ SnapshotIsOfThisCall'
  <1>0. /\ Readable \subseteq File
        /\ snapshot \in [File -> Stamps \cup {None}] /\ files \in [Readable -> Data \cup {None}]
        /\ seen \in [File -> SUBSET (Data \cup {None})]
    BY DEF SInv, TInv, TypeOK, Snapshots, SourceMaps, File
  <1> USE Nones, <1>0 DEF SInv, Dated, Witnessed, Remembered, Walked, Collected, SnapshotIsOfThisCall,
                   Walk, Answer, NoSnapshot, storage, memory, locals, history
  <1>1. ASSUME NEW kind \in {"files", "build"}, Request(kind)
        PROVE  Dated' /\ Witnessed' /\ Remembered' /\ Walked' /\ Collected' /\ SnapshotIsOfThisCall'
    BY <1>1 DEF Request
  <1>2. CASE Open
    BY <1>2 DEF Open
  <1>3. ASSUME NEW f \in File, StampFile(f)
        PROVE  Dated' /\ Witnessed' /\ Remembered' /\ Walked' /\ Collected' /\ SnapshotIsOfThisCall'
    BY <1>3, StampOf DEF StampFile
  <1>4. ASSUME NEW f \in File, ReadFile(f)
        PROVE  Dated' /\ Witnessed' /\ Remembered' /\ Walked' /\ Collected' /\ SnapshotIsOfThisCall'
    BY <1>4 DEF ReadFile
  <1>5. CASE Stamped
    BY <1>5 DEF Stamped, Stale, Kept, NoFiles
  <1>6. CASE Restamped
    BY <1>6 DEF Restamped, Stale, Kept, NoFiles
  <1>7. CASE ReadDone
    BY <1>7 DEF ReadDone
  <1> QED BY <1>1, <1>2, <1>3, <1>4, <1>5, <1>6, <1>7

\* A build does not take part, other than by forgetting.
LEMMA SBuildStep ==
  ASSUME SInv, reliable,
         \/ MemoHit \/ MemoMiss \/ MemoUnread \/ Refresh \/ reloadMetadata
         \/ PriorHit \/ Compose \/ WriteArtifact \/ WriteReport \/ Memoize \/ MemoizeNot
         \/ Fail \/ Restart
  PROVE  Dated' /\ Witnessed' /\ Remembered' /\ Walked' /\ Collected' /\ SnapshotIsOfThisCall'
  <1>1. CASE MemoHit \/ PriorHit \/ MemoizeNot \/ Memoize \/ Fail
    <2>1. /\ pc' = "idle" /\ snapshot' = NoSnapshot
          /\ UNCHANGED <<disk, clock, sourceMemo, sourceStamp, seen>>
      BY <1>1 DEF MemoHit, PriorHit, MemoizeNot, Memoize, Fail, Answer, storage, memory, history
    <2>2. result'.kind # "files"
      <3>1. CASE Fail
        BY <3>1 DEF Fail, Answer
      <3>2. CASE ~Fail
        <4>1. PICK how, content : result' = Built(how, content)
          BY <1>1, <3>2 DEF MemoHit, PriorHit, MemoizeNot, Memoize, Answer
        <4> QED BY <4>1 DEF Built
      <3> QED BY <3>1, <3>2
    <2> QED BY <2>1, <2>2 DEF SInv, Dated, Witnessed, Remembered, Walked, Collected, SnapshotIsOfThisCall, NoSnapshot
  <1>2. CASE MemoMiss \/ MemoUnread \/ Compose \/ WriteArtifact
    <2>1. /\ pc' # "idle" /\ pc # "idle" /\ pc' # "read"
          /\ pc' \in {"refresh", "check"} => pc = "memo"
          /\ pc' \notin {"memo", "stamp", "restamp"}
      BY <1>2 DEF MemoMiss, MemoUnread, Compose, WriteArtifact
    <2>2. UNCHANGED <<disk, clock, sourceMemo, sourceStamp, seen, todo, snapshot, result>>
      BY <1>2 DEF MemoMiss, MemoUnread, Compose, WriteArtifact, storage, memory, locals, history
    <2>3. Dated' /\ Witnessed' /\ Remembered' /\ Collected' /\ SnapshotIsOfThisCall'
      BY <2>1, <2>2 DEF SInv, Dated, Witnessed, Remembered, Collected, SnapshotIsOfThisCall
    <2>4. Walked'
      BY <2>1, <2>2 DEF SInv, Walked
    <2> QED BY <2>3, <2>4
  <1>3. CASE Refresh \/ reloadMetadata
    <2>1. /\ pc # "idle" /\ pc' # "read"
          /\ \/ pc = "refresh" /\ todo' = todo /\ snapshot' = snapshot
             \/ todo' = File /\ snapshot' = NoSnapshot
          /\ sourceMemo' = None /\ sourceStamp' = None
          /\ UNCHANGED <<disk, clock, seen, result>>
      BY <1>3 DEF Refresh, reloadMetadata, Walk, storage, history
    <2>2. Dated' /\ Witnessed' /\ Remembered' /\ Collected' /\ SnapshotIsOfThisCall'
      BY <2>1 DEF SInv, Dated, Witnessed, Remembered, Collected, SnapshotIsOfThisCall, NoSnapshot
    <2>3. Walked'
      BY <2>1 DEF SInv, Walked, File
    <2> QED BY <2>2, <2>3
  <1>4. CASE WriteReport
    <2>1. /\ pc # "idle" /\ pc' = "memoize" /\ snapshot' = NoSnapshot
          /\ UNCHANGED <<disk, clock, sourceMemo, sourceStamp, seen, result>>
      BY <1>4 DEF WriteReport, Walk, storage, memory, history
    <2> QED BY <2>1 DEF SInv, Dated, Witnessed, Remembered, Walked, Collected, SnapshotIsOfThisCall, NoSnapshot
  <1>5. CASE Restart
    <2>1. /\ pc' = "idle" /\ snapshot' = NoSnapshot /\ result' = None
          /\ sourceMemo' = None /\ sourceStamp' = None
          /\ UNCHANGED <<disk, clock, seen>>
      BY <1>5 DEF Restart, Answer, history
    <2> QED BY <2>1 DEF SInv, Dated, Witnessed, Remembered, Walked, Collected, SnapshotIsOfThisCall, NoSnapshot
  <1> QED BY <1>1, <1>2, <1>3, <1>4, <1>5

\* An edit moves the change time of its file past every stamp.
LEMMA SOutsideStep ==
  ASSUME SInv, reliable, (\E f \in File : Edit(f)) \/ Tamper
  PROVE  Dated' /\ Witnessed' /\ Remembered' /\ Walked' /\ Collected' /\ SnapshotIsOfThisCall'
  <1>1. ASSUME NEW f \in File, Edit(f)
        PROVE  Dated' /\ Witnessed' /\ Remembered' /\ Walked' /\ Collected' /\ SnapshotIsOfThisCall'
    <2>1. /\ clock \in Nat
          /\ disk \in [File -> [data : Data \cup {None}, at : 0..MaxEdits]]
          /\ seen \in [File -> SUBSET (Data \cup {None})]
          /\ \A g \in File : snapshot[g] # None => snapshot[g].at \in Nat
          /\ sourceStamp # None => \A g \in File : sourceStamp[g] # None => sourceStamp[g].at \in Nat
      BY BoundAssumption DEF SInv, TInv, TypeOK, Snapshots, Stamps
    <2>2. PICK d : /\ disk' = [disk EXCEPT ![f] = [data |-> d, at |-> clock + 1]]
                   /\ seen' = [seen EXCEPT ![f] = @ \cup {d}]
      BY <1>1 DEF Edit
    <2>3. /\ clock' = clock + 1 /\ result' = None
          /\ UNCHANGED <<sourceMemo, sourceStamp, pc, todo, snapshot, files>>
      BY <1>1 DEF Edit, memory, locals
    <2>4. /\ disk'[f].at = clock + 1 /\ disk'[f].data \in seen'[f]
          /\ \A g \in File \ {f} : disk'[g] = disk[g]
          /\ \A g \in File : seen[g] \subseteq seen'[g] /\ disk[g].at \in Nat
      BY <2>1, <2>2
    <2> HIDE <2>2
    <2>5. Dated' /\ Witnessed' /\ SnapshotIsOfThisCall'
      BY <2>1, <2>3, <2>4 DEF SInv, Dated, Witnessed, SnapshotIsOfThisCall
    <2>6. \A g \in Readable : g \in File
      BY DEF File
    <2>7. Walked'
      BY <2>3, <2>4, <2>6 DEF SInv, Walked
    <2>9. Remembered'
      <3> SUFFICES ASSUME sourceMemo # None, NEW g \in Readable,
                          sourceStamp[g] # None, sourceStamp[g].at = disk'[g].at
                   PROVE  sourceMemo[g] = disk'[g].data
        BY <2>3 DEF Remembered
      <3>1. sourceStamp # None /\ g \in File
        BY <2>6 DEF SInv, TInv, TypeOK
      <3>2. g # f
        BY <2>1, <2>4, <3>1 DEF SInv, Dated
      <3> QED BY <2>4, <3>1, <3>2 DEF SInv, Remembered
    <2>8. Collected'
      BY <2>1, <2>3, <2>4, <2>6 DEF SInv, Dated, Collected
    <2> QED BY <2>5, <2>7, <2>8, <2>9
  <1>2. CASE Tamper
    <2>1. /\ clock' = clock + 1 /\ result' = None
          /\ UNCHANGED <<disk, seen, sourceMemo, sourceStamp, pc, todo, snapshot, files>>
      BY <1>2 DEF Tamper, memory, locals
    <2>2. clock \in Nat /\ \A f \in File : disk[f].at \in Nat
      BY BoundAssumption DEF SInv, TInv, TypeOK
    <2>3. /\ snapshot \in [File -> Stamps \cup {None}]
          /\ sourceStamp # None => sourceStamp \in [File -> Stamps \cup {None}]
      BY DEF SInv, TInv, TypeOK, Snapshots
    <2>4. Dated'
      BY <2>1, <2>2, <2>3 DEF SInv, Dated, Stamps
    <2> QED BY <2>1, <2>4 DEF SInv, Witnessed, Remembered, Walked, Collected, SnapshotIsOfThisCall
  <1> QED BY <1>1, <1>2

LEMMA SStep == SInv /\ [Next]_vars => SInv'
  <1>1. ASSUME SInv, Next, reliable PROVE SInv'
    <2>1. TInv'
      BY <1>1, TStep DEF SInv
    <2> QED BY <1>1, <2>1, SReadStep, SBuildStep, SOutsideStep DEF SInv, Next
  <1>2. ASSUME SInv, Next, ~reliable PROVE SInv'
    <2>1. TInv'
      BY <1>2, TStep DEF SInv
    <2>2. reliable' = reliable
      BY <1>2 DEF Next, Request, Open, StampFile, ReadFile, MemoHit, MemoMiss, MemoUnread, Refresh,
         Stamped, reloadMetadata, Restamped, ReadDone, PriorHit, Compose, WriteArtifact, WriteReport,
         Memoize, MemoizeNot, Fail, Restart, Edit, Tamper
    <2> QED BY <1>2, <2>1, <2>2 DEF SInv, SnapshotIsOfThisCall
  <1>3. ASSUME SInv, UNCHANGED vars PROVE SInv'
    <2>1. TInv'
      BY <1>3, TStep DEF SInv
    <2> QED BY <1>3, <2>1 DEF SInv, Dated, Witnessed, Remembered, Walked, Collected,
                              SnapshotIsOfThisCall, vars, storage, memory, locals, history
  <1> QED BY <1>1, <1>2, <1>3

\* Where the platform keeps a change time, what SourceFilesCached returns for a
\* file is what that file held at some moment of the call, whatever was edited,
\* built or restarted before and meanwhile.
THEOREM SnapshotIsAlwaysOfThisCall == Spec => []SnapshotIsOfThisCall
  <1>1. SInv => SnapshotIsOfThisCall
    BY DEF SInv
  <1> QED BY <1>1, SInitially, SStep, PTL DEF Spec

-----------------------------------------------------------------------------
(* What a build answers with.  As long as no edit disturbs a build, a walk of
   it takes the stamps of the files as they are, so that its sources, its
   package and its report agree with the disk; a memo or a report agrees with
   the stamps it was taken with, whatever happens to the files afterwards. *)

Now(f) == IF disk[f].data = None THEN None ELSE [at |-> disk[f].at, hash |-> disk[f].data]
HashOf(s) == IF s = None THEN None ELSE s.hash

\* The package whose files have the hashes of a snapshot.
Of(s) == [base   |-> HashOf(s[Base]),
          files  |-> [f \in Readable \ {Lock} |-> HashOf(s[f])],
          ribbon |-> HashOf(s[Lock])]

\* Where the change time is kept, a stamp that has not moved has the right hash.
Honest(s) ==
  \A f \in File : s[f] # None =>
    s[f].at <= clock /\ (s[f].at = disk[f].at => s[f].hash = disk[f].data)
Honesty ==
  reliable => /\ Honest(snapshot)
              /\ sourceStamp # None => Honest(sourceStamp)
              /\ buildMemo # None => Honest(buildMemo.sources)

\* Only a build gets past the source files, a workspace is opened once, and
\* reloaded metadata leaves no memo.
Ops ==
  /\ pc = "open" => baseline = None
  /\ pc \in {"memo", "refresh", "refreshAll", "check", "decide", "write", "report", "memoize"}
       => op = "build"
  /\ pc = "restamp" => sourceStamp = None

\* A request that an edit would tear finds everything as it is.
Calm == ~torn /\ (op = "build" \/ ~reliable)
Current ==
  Calm =>
    /\ pc \in {"memo", "refresh", "check", "stamp", "restamp", "memoize"} =>
         \A f \in File \ todo : snapshot[f] = Now(f)
    /\ pc \in {"read", "decide", "write", "report"} => \A f \in File : snapshot[f] = Now(f)
    /\ pc = "read" => \A f \in Readable \ todo : files[f] = disk[f].data
    /\ pc \in {"decide", "write", "report"} => \A f \in Readable : files[f] = disk[f].data
    /\ pc \in {"decide", "write", "report"} => baseline = disk[Base].data
    /\ pc \in {"write", "report", "memoize"} => package = Fresh
    /\ pc \in {"report", "memoize"} => artifact = package

\* What Open read of the baseline is what the source stamps say of it.
Based ==
  ~torn /\ baseline # None =>
    /\ sourceStamp = None => baseline = disk[Base].data
    /\ sourceStamp # None => baseline = HashOf(sourceStamp[Base])
    /\ pc \in {"stamp", "restamp", "check"} /\ sourceStamp = None /\ Base \notin todo =>
         HashOf(snapshot[Base]) = disk[Base].data
    /\ pc = "read" => baseline = HashOf(snapshot[Base])

\* What is kept from one request to the next goes with the stamps kept with it;
\* what is kept on disk, with its fingerprint.
Together ==
  /\ ~torn =>
       /\ buildMemo # None => buildMemo.content = Of(buildMemo.sources)
       /\ reliable /\ marked /\ buildMemo # None => artifact = buildMemo.content
       /\ ~reliable /\ sourceMemo # None => \A f \in Readable : sourceMemo[f] = HashOf(sourceStamp[f])
  /\ ~tornReport /\ report # None =>
       /\ report.content.files = [f \in Readable \ {Lock} |-> report.fingerprint[f]]
       /\ report.content.ribbon = report.fingerprint[Lock]

CInv == SInv /\ Honesty /\ Ops /\ Current /\ Based /\ Together /\ BuildIsCurrent

\* The hash of the present stamp of a file is its contents.
LEMMA HashOfNow ==
  ASSUME TInv, NEW f \in File
  PROVE  /\ HashOf(Now(f)) = disk[f].data
         /\ disk[f].data # None => Now(f) # None /\ Now(f).at = disk[f].at /\ Now(f).hash = disk[f].data
  <1>1. disk[f].data \in Data \cup {None} /\ disk[f].at \in 0..MaxEdits
    BY DEF TInv, TypeOK
  <1>2. CASE disk[f].data = None
    BY <1>2 DEF HashOf, Now
  <1>3. CASE disk[f].data # None
    <2>1. [at |-> disk[f].at, hash |-> disk[f].data] \in Stamps
      BY <1>1, <1>3 DEF Stamps
    <2> QED BY <1>3, <2>1, Nones DEF HashOf, Now
  <1> QED BY <1>2, <1>3

\* A stamp that is taken is that of the file as it is, reused hash or not.
LEMMA StampIsNow ==
  ASSUME TInv, Honesty, NEW f \in File
  PROVE  Stamp(f, Previous) = Now(f)
  <1>1. ASSUME reliable, Previous[f] # None, Previous[f].at = disk[f].at
        PROVE  Previous[f].hash = disk[f].data
    <2>1. CASE pc = "memo"
      BY <1>1, <2>1 DEF Previous, TInv, Placed, Honesty, Honest
    <2>2. CASE pc \in {"stamp", "memoize"} /\ sourceStamp # None
      BY <1>1, <2>2 DEF Previous, Honesty, Honest
    <2>3. CASE pc # "memo" /\ ~(pc \in {"stamp", "memoize"} /\ sourceStamp # None)
      BY <1>1, <2>3 DEF Previous, NoSnapshot
    <2> QED BY <2>1, <2>2, <2>3
  <1> QED BY <1>1 DEF Stamp, Now

\* A snapshot of the files as they are is that of a new package.
LEMMA OfNow ==
  ASSUME TInv, NEW s, \A f \in File : s[f] = Now(f)
  PROVE  Of(s) = Fresh
  <1>1. \A f \in File : HashOf(s[f]) = disk[f].data
    BY HashOfNow
  <1>2. Readable \subseteq File /\ Base \in File /\ Lock \in File
    BY DEF File, Readable
  <1> QED BY <1>1, <1>2 DEF Of, Fresh

\* The steps of the engine leave the files alone.
LEMMA EngineSteps ==
  ASSUME Next
  PROVE  \/ UNCHANGED <<disk, clock, reliable>>
         \/ (\E f \in File : Edit(f)) \/ Tamper
  <1> USE DEF storage, history
  <1>1. CASE \/ \E kind \in {"files", "build"} : Request(kind)
             \/ Open \/ (\E f \in File : StampFile(f) \/ ReadFile(f)) \/ MemoHit \/ MemoMiss \/ MemoUnread
    BY <1>1 DEF Request, Open, StampFile, ReadFile, MemoHit, MemoMiss, MemoUnread
  <1>2. CASE Refresh \/ Stamped \/ reloadMetadata \/ Restamped \/ ReadDone \/ PriorHit \/ Compose
    BY <1>2 DEF Refresh, Stamped, reloadMetadata, Restamped, ReadDone, PriorHit, Compose
  <1>3. CASE WriteArtifact \/ WriteReport \/ Memoize \/ MemoizeNot \/ Fail \/ Restart
    BY <1>3 DEF WriteArtifact, WriteReport, Memoize, MemoizeNot, Fail, Restart
  <1> QED BY <1>1, <1>2, <1>3 DEF Next

\* What a step does to the stamps.
LEMMA StampSteps ==
  ASSUME Next
  PROVE  \/ \E f \in File : StampFile(f)
         \/ /\ snapshot' \in {snapshot, NoSnapshot} /\ sourceStamp' \in {sourceStamp, snapshot, None}
            /\ buildMemo' \in {buildMemo, None, [sources |-> snapshot, content |-> package]}
  <1> USE DEF memory, locals, Walk, Answer
  <1>1. CASE \/ \E kind \in {"files", "build"} : Request(kind)
             \/ Open \/ (\E f \in File : ReadFile(f)) \/ MemoHit \/ MemoMiss \/ MemoUnread
    BY <1>1 DEF Request, Open, ReadFile, MemoHit, MemoMiss, MemoUnread
  <1>2. CASE Refresh \/ Stamped \/ reloadMetadata \/ Restamped \/ ReadDone \/ PriorHit \/ Compose
    BY <1>2 DEF Refresh, Stamped, reloadMetadata, Restamped, ReadDone, PriorHit, Compose
  <1>3. CASE WriteArtifact \/ WriteReport \/ Memoize \/ MemoizeNot \/ Fail \/ Restart
    BY <1>3 DEF WriteArtifact, WriteReport, Memoize, MemoizeNot, Fail, Restart
  <1>4. CASE (\E f \in File : Edit(f)) \/ Tamper
    BY <1>4 DEF Edit, Tamper
  <1> QED BY <1>1, <1>2, <1>3, <1>4 DEF Next

\* Every stamp that is kept goes on to be honest: an edit leaves it behind.
LEMMA HonestStep ==
  ASSUME SInv, Honesty, Next
  PROVE  Honesty'
  <1>0. /\ clock \in Nat /\ snapshot \in Snapshots /\ (sourceStamp # None => sourceStamp \in Snapshots)
        /\ (buildMemo # None => buildMemo.sources \in Snapshots)
        /\ \A s \in Snapshots : \A f \in File : s[f] # None => s[f].at \in Nat
        /\ \A f \in File : disk[f].at \in Nat
    BY BoundAssumption DEF SInv, TInv, TypeOK, Snapshots, Stamps, Memos
  <1>1. ASSUME NEW s \in Snapshots, reliable, Honest(s) PROVE Honest(s)'
    <2> SUFFICES ASSUME NEW f \in File, s[f] # None
                 PROVE  s[f].at <= clock' /\ (s[f].at = disk'[f].at => s[f].hash = disk'[f].data)
      BY DEF Honest
    <2>1. s[f].at \in Nat /\ s[f].at <= clock /\ (s[f].at = disk[f].at => s[f].hash = disk[f].data)
      BY <1>0, <1>1 DEF Honest
    <2>2. CASE UNCHANGED <<disk, clock>>
      BY <2>1, <2>2
    <2>3. ASSUME NEW g \in File, Edit(g)
          PROVE  s[f].at <= clock' /\ (s[f].at = disk'[f].at => s[f].hash = disk'[f].data)
      <3>1. PICK d : disk' = [disk EXCEPT ![g] = [data |-> d, at |-> clock + 1]]
        BY <1>1, <2>3 DEF Edit
      <3>2. clock' = clock + 1 /\ (f # g => disk'[f] = disk[f])
        BY <2>3, <3>1 DEF Edit
      <3>3. f = g => disk'[f].at = clock + 1
        BY <3>1 DEF SInv, TInv, TypeOK
      <3> QED BY <1>0, <2>1, <3>2, <3>3
    <2>4. CASE Tamper
      <3>1. disk' = disk /\ clock' = clock + 1
        BY <2>4 DEF Tamper
      <3> QED BY <1>0, <2>1, <3>1
    <2> QED BY <2>2, <2>3, <2>4, EngineSteps
  <1>2. reliable' = reliable
    BY EngineSteps DEF Edit, Tamper
  <1>3. ASSUME NEW f \in File, StampFile(f), reliable PROVE Honest(snapshot)'
    <2>1. snapshot' = [snapshot EXCEPT ![f] = Now(f)] /\ UNCHANGED <<disk, clock>>
      BY <1>3, StampIsNow DEF StampFile, storage, SInv
    <2>2. disk[f].at <= clock /\ (Now(f) # None => Now(f).at = disk[f].at /\ Now(f).hash = disk[f].data)
      BY <1>3, HashOfNow DEF SInv, Dated, Now
    <2>3. ASSUME NEW g \in File, snapshot'[g] # None
          PROVE  snapshot'[g].at <= clock /\ (snapshot'[g].at = disk[g].at => snapshot'[g].hash = disk[g].data)
      BY <1>0, <1>3, <2>1, <2>2, <2>3 DEF Honesty, Honest, Snapshots
    <2> QED BY <2>1, <2>3 DEF Honest
  <1>4. Honest(NoSnapshot) /\ NoSnapshot \in Snapshots
    BY Empty DEF Honest, NoSnapshot
  <1>5. ASSUME reliable, snapshot' \in {snapshot, NoSnapshot} PROVE Honest(snapshot)'
    <2>1. PICK s \in Snapshots : s = snapshot' /\ Honest(s)
      BY <1>0, <1>4, <1>5 DEF Honesty
    <2>2. Honest(s)'
      BY <1>1, <1>5, <2>1
    <2> QED BY <2>1, <2>2 DEF Honest
  <1>6. ASSUME reliable, sourceStamp' # None, sourceStamp' \in {sourceStamp, snapshot} PROVE Honest(sourceStamp)'
    <2>1. PICK s \in Snapshots : s = sourceStamp' /\ Honest(s)
      BY <1>0, <1>6 DEF Honesty
    <2>2. Honest(s)'
      BY <1>1, <1>6, <2>1
    <2> QED BY <2>1, <2>2 DEF Honest
  <1>7. ASSUME reliable, buildMemo' # None, buildMemo' \in {buildMemo, [sources |-> snapshot, content |-> package]}
        PROVE  Honest(buildMemo.sources)'
    <2>1. PICK s \in Snapshots : s = buildMemo'.sources /\ Honest(s)
      BY <1>0, <1>7 DEF Honesty
    <2>2. Honest(s)'
      BY <1>1, <1>7, <2>1
    <2> QED BY <2>1, <2>2 DEF Honest
  <1>8. ASSUME NEW f \in File, StampFile(f) PROVE UNCHANGED <<sourceStamp, buildMemo>>
    BY <1>8 DEF StampFile, memory
  <1> QED BY <1>2, <1>3, <1>5, <1>6, <1>7, <1>8, StampSteps DEF Honesty

\* The places that only a build gets to.
LEMMA OpsStep ==
  ASSUME TInv, Ops, Next
  PROVE  Ops'
  <1> USE DEF Ops, Walk, Answer, memory, locals
  <1>1. CASE \/ \E kind \in {"files", "build"} : Request(kind)
             \/ Open \/ (\E f \in File : StampFile(f) \/ ReadFile(f)) \/ MemoHit \/ MemoMiss \/ MemoUnread
    BY <1>1 DEF Request, Open, StampFile, ReadFile, MemoHit, MemoMiss, MemoUnread
  <1>2. CASE Refresh \/ Stamped \/ reloadMetadata \/ Restamped \/ ReadDone \/ PriorHit \/ Compose
    BY <1>2 DEF Refresh, Stamped, reloadMetadata, Restamped, ReadDone, PriorHit, Compose, TInv, TypeOK
  <1>3. CASE WriteArtifact \/ WriteReport \/ Memoize \/ MemoizeNot \/ Fail \/ Restart
    BY <1>3 DEF WriteArtifact, WriteReport, Memoize, MemoizeNot, Fail, Restart
  <1>4. CASE (\E f \in File : Edit(f)) \/ Tamper
    BY <1>4 DEF Edit, Tamper
  <1> QED BY <1>1, <1>2, <1>3, <1>4 DEF Next

\* An edit that changes nothing for a request tears it, unless it is idle or a
\* walk of the sources where stamps can be trusted.
LEMMA CalmStep ==
  ASSUME TypeOK, (\E f \in File : Edit(f)) \/ Tamper
  PROVE  /\ result' = None /\ UNCHANGED <<reliable, pc, op, todo, snapshot, files, package>>
         /\ UNCHANGED <<baseline, sourceMemo, sourceStamp, buildMemo, report, tornReport>>
         /\ ~torn' => /\ ~torn /\ (op = "build" => pc = "idle")
                      /\ ~reliable /\ pc # "idle" => disk' = disk
                      /\ disk'[Base] # disk[Base] => baseline = None \/ sourceStamp # None
         /\ reliable /\ marked' => marked /\ artifact' = artifact
  <1>1. ASSUME NEW f \in File, Edit(f)
        PROVE  /\ ~torn' => ~torn /\ ~(pc # "idle" /\ (op = "build" \/ ~reliable))
               /\ ~torn' /\ f = Base => baseline = None \/ sourceStamp # None
               /\ f # Base => disk'[Base] = disk[Base]
               /\ UNCHANGED <<marked, artifact, report, tornReport>>
               /\ result' = None /\ UNCHANGED <<reliable, memory, pc, op, locals>>
    BY <1>1 DEF Edit, TypeOK, File
  <1>2. CASE Tamper
    <2>1. /\ result' = None /\ disk' = disk
          /\ UNCHANGED <<report, reliable, memory, pc, op, locals, tornReport>>
      BY <1>2 DEF Tamper
    <2>2. ~torn' => ~torn /\ (op = "build" => pc = "idle")
      BY <1>2 DEF Tamper
    <2>3. reliable /\ marked' => marked /\ artifact' = artifact
      BY <1>2 DEF Tamper, TypeOK
    <2> QED BY <2>1, <2>2, <2>3 DEF memory, locals
  <1> QED BY <1>1, <1>2 DEF memory, locals

\* What the read of the sources starts from is right: what it keeps of the memo
\* has not changed.
LEMMA KeptIsCurrent ==
  ASSUME SInv, Together, Calm, \A f \in File : snapshot[f] = Now(f), NEW f \in Readable \ Stale
  PROVE  Kept[f] = disk[f].data
  <1>0. f \in File /\ sourceMemo # None /\ sourceStamp # None
    BY DEF Stale, File, SInv, TInv, TypeOK
  <1>1. CASE snapshot[f] = None
    <2>1. Kept[f] = None
      BY <1>0, <1>1 DEF Kept
    <2> QED BY <1>0, <1>1, <2>1, HashOfNow DEF SInv
  <1>2. CASE snapshot[f] # None
    <2>1. sourceStamp[f] = snapshot[f] /\ Kept[f] = sourceMemo[f]
      BY <1>0, <1>2 DEF Stale, Kept
    <2>2. disk[f].data # None /\ snapshot[f].at = disk[f].at /\ HashOf(snapshot[f]) = disk[f].data
      BY <1>0, <1>2, HashOfNow DEF SInv, Now
    <2>3. CASE reliable
      BY <1>0, <1>2, <2>1, <2>2, <2>3 DEF SInv, Remembered
    <2>4. CASE ~reliable
      BY <1>0, <2>1, <2>2, <2>4 DEF Together, Calm
    <2> QED BY <2>3, <2>4
  <1> QED BY <1>1, <1>2

\* Every step of a request that finds everything as it is leaves it so.
LEMMA CurrentStep ==
  ASSUME SInv, Honesty, Ops, Current, Based, Together, Next
  PROVE  Current'
  <1>0. /\ TInv /\ TypeOK /\ Readable \subseteq File /\ Base \in File /\ Lock \in File
        /\ snapshot \in [File -> Stamps \cup {None}] /\ files \in [Readable -> Data \cup {None}]
    BY DEF SInv, TInv, TypeOK, Snapshots, SourceMaps, File, Readable
  <1>1. ASSUME UNCHANGED <<disk, reliable, torn>>, pc' \in {"idle", "open", "refreshAll", "reload"} PROVE Current'
    BY <1>1 DEF Current
  <1>2. ASSUME UNCHANGED <<disk, reliable, torn>>, pc' \in {"memo", "stamp", "restamp"}, todo' = File
        PROVE  Current'
    BY <1>2 DEF Current
  <1>3. ASSUME UNCHANGED disk PROVE Fresh' = Fresh /\ \A f : Now(f)' = Now(f)
    BY <1>3 DEF Fresh, Now
  <1>4. ASSUME NEW kind \in {"files", "build"}, Request(kind) PROVE Current'
    BY <1>1, <1>2, <1>4 DEF Request, Walk, storage
  <1>5. CASE Open
    BY <1>2, <1>5 DEF Open, Walk, storage, history
  <1>6. ASSUME NEW f \in File, StampFile(f) PROVE Current'
    <2>1. /\ snapshot' = [snapshot EXCEPT ![f] = Now(f)] /\ todo' = todo \ {f}
          /\ pc \in {"memo", "stamp", "restamp", "memoize"}
          /\ UNCHANGED <<disk, artifact, reliable, torn, pc, op, package>>
      BY <1>0, <1>6, StampIsNow DEF StampFile, storage, locals, history
    <2>2. \A g \in File : snapshot'[g] = IF g = f THEN Now(f) ELSE snapshot[g]
      BY <1>0, <2>1
    <2> QED BY <1>3, <2>1, <2>2 DEF Current, Calm
  <1>7. ASSUME NEW f \in File, ReadFile(f) PROVE Current'
    <2>1. /\ files' = [files EXCEPT ![f] = disk[f].data] /\ todo' = todo \ {f} /\ pc = "read"
          /\ UNCHANGED <<disk, reliable, torn, pc, op, snapshot>>
      BY <1>7 DEF ReadFile, storage, history
    <2>2. \A g \in Readable : files'[g] = IF g = f THEN disk[f].data ELSE files[g]
      BY <1>0, <2>1
    <2> QED BY <1>3, <2>1, <2>2 DEF Current, Calm
  <1>8. CASE MemoHit \/ PriorHit \/ Memoize \/ MemoizeNot \/ Fail
    BY <1>1, <1>8 DEF MemoHit, PriorHit, Memoize, MemoizeNot, Fail, Answer, storage, history
  <1>20. CASE Restart
    BY <1>20 DEF Restart, Answer, Current
  <1>9. CASE MemoMiss
    <2>1. /\ pc = "memo" /\ pc' \in {"refresh", "check"}
          /\ UNCHANGED <<disk, reliable, torn, op, snapshot, todo>>
      BY <1>9 DEF MemoMiss, storage, locals, history
    <2> QED BY <1>3, <2>1 DEF Current, Calm
  <1>10. CASE MemoUnread
    BY <1>1, <1>10 DEF MemoUnread, storage, history
  <1>11. CASE Refresh
    <2>1. UNCHANGED <<disk, reliable, torn, op>>
      BY <1>11 DEF Refresh, storage, history
    <2>2. CASE pc = "refresh"
      <3>1. pc' = "check" /\ UNCHANGED <<todo, snapshot>>
        BY <1>11, <2>2 DEF Refresh
      <3> QED BY <1>3, <2>1, <2>2, <3>1 DEF Current, Calm
    <2>3. CASE pc # "refresh"
      BY <1>2, <1>11, <2>1, <2>3 DEF Refresh, Walk
    <2> QED BY <2>2, <2>3
  <1>12. CASE reloadMetadata
    BY <1>2, <1>12 DEF reloadMetadata, Walk, storage, history
  <1>13. CASE Stamped \/ Restamped
    <2>1. /\ todo = {} /\ pc \in {"stamp", "check", "restamp"}
          /\ UNCHANGED <<disk, reliable, torn, op, snapshot>>
      BY <1>13 DEF Stamped, Restamped, storage, history
    <2>2. CASE pc' = "reload"
      BY <1>1, <2>1, <2>2
    <2>3. CASE pc' = "read" /\ todo' = Stale /\ files' = Kept
      <3> SUFFICES ASSUME Calm
                   PROVE  /\ \A f \in File : snapshot[f] = Now(f)
                          /\ \A f \in Readable \ Stale : Kept[f] = disk[f].data
        BY <1>3, <2>1, <2>3 DEF Current, Calm
      <3>1. \A f \in File : snapshot[f] = Now(f)
        BY <2>1 DEF Current
      <3> QED BY <3>1, KeptIsCurrent
    <2> QED BY <1>13, <2>2, <2>3 DEF Stamped, Restamped
  <1>14. CASE ReadDone
    <2>1. pc = "read" /\ todo = {} /\ UNCHANGED <<disk, reliable, torn, op, baseline>>
      BY <1>14 DEF ReadDone, storage, history
    <2>2. CASE pc' = "decide" /\ UNCHANGED <<snapshot, files>>
      <3> SUFFICES ASSUME Calm PROVE baseline = disk[Base].data
        BY <1>3, <2>1, <2>2 DEF Current, Calm
      <3>1. baseline # None
        BY <1>0, <2>1 DEF TypeOK
      <3>2. baseline = HashOf(snapshot[Base])
        BY <2>1, <3>1 DEF Based, Calm
      <3>3. snapshot[Base] = Now(Base)
        BY <1>0, <2>1 DEF Current
      <3> QED BY <1>0, <3>2, <3>3, HashOfNow
    <2> QED BY <1>1, <1>14, <2>1, <2>2 DEF ReadDone, Answer, locals
  <1>15. CASE Compose
    <2>1. /\ pc = "decide" /\ pc' = "write"
          /\ package' = [base   |-> baseline,
                         files  |-> [f \in Readable \ {Lock} |-> files[f]],
                         ribbon |-> disk[Lock].data]
          /\ UNCHANGED <<disk, reliable, torn, op, baseline, snapshot, files>>
      BY <1>15 DEF Compose, storage, memory, history
    <2>2. Calm => package' = Fresh
      BY <2>1 DEF Current, Fresh
    <2> QED BY <1>3, <2>1, <2>2 DEF Current, Calm
  <1>16. CASE WriteArtifact
    BY <1>3, <1>16 DEF WriteArtifact, memory, locals, history, Current, Calm
  <1>17. CASE WriteReport
    <2>1. /\ pc = "report" /\ pc' = "memoize" /\ todo' = File
          /\ UNCHANGED <<disk, artifact, reliable, torn, op, package>>
      BY <1>17 DEF WriteReport, Walk, history
    <2> QED BY <1>3, <2>1 DEF Current, Calm
  <1>18. CASE (\E f \in File : Edit(f)) \/ Tamper
    <2>1. /\ UNCHANGED <<reliable, pc, op, todo, snapshot, files, package, baseline>>
          /\ ~torn' => /\ ~torn /\ (op = "build" => pc = "idle")
                       /\ ~reliable /\ pc # "idle" => disk' = disk
      BY <1>0, <1>18, CalmStep
    <2> SUFFICES ASSUME Calm', pc # "idle" PROVE Current'
      BY <2>1 DEF Current
    <2>2. Calm /\ op # "build" /\ disk' = disk
      BY <2>1 DEF Calm
    <2> QED BY <1>3, <2>1, <2>2 DEF Current, Ops
  <1> QED BY <1>4, <1>5, <1>6, <1>7, <1>8, <1>9, <1>10, <1>11, <1>12, <1>13, <1>14, <1>15, <1>16,
             <1>17, <1>18, <1>20 DEF Next

\* The baseline goes on to be what the stamps say of it.
LEMMA BasedStep ==
  ASSUME SInv, Honesty, Ops, Current, Based, Next
  PROVE  Based'
  <1>0. /\ TInv /\ TypeOK /\ Base \in File /\ disk[Base].data \in Data
        /\ snapshot \in [File -> Stamps \cup {None}]
    BY DEF SInv, TInv, TypeOK, Placed, Always, Metadata, Snapshots, File, Readable
  <1>1. NoSnapshot # None
    BY Empty, Nones
  <1>2. ASSUME UNCHANGED <<disk, torn, baseline, sourceStamp>>, pc' \notin {"stamp", "restamp", "check", "read"}
        PROVE  Based'
    BY <1>2 DEF Based
  <1>3. ASSUME UNCHANGED <<disk, torn, baseline, sourceStamp>>, todo' = File PROVE pc' # "read" => Based'
    BY <1>0, <1>3 DEF Based
  <1>4. ASSUME disk' = disk, baseline' = disk[Base].data, sourceStamp' = None, todo' = File, pc' # "read"
        PROVE  Based'
    BY <1>0, <1>4 DEF Based
  <1>5. ASSUME NEW kind \in {"files", "build"}, Request(kind) PROVE Based'
    <2>1. UNCHANGED <<disk, torn, baseline, sourceStamp>>
      BY <1>5 DEF Request, storage, memory
    <2>2. pc' = "open" \/ (pc' # "read" /\ todo' = File)
      BY <1>5 DEF Request, Walk
    <2> QED BY <1>2, <1>3, <2>1, <2>2
  <1>6. CASE Open
    BY <1>0, <1>4, <1>6 DEF Open, Walk, storage, Ops, TypeOK
  <1>7. ASSUME NEW f \in File, StampFile(f) PROVE Based'
    <2>1. /\ snapshot' = [snapshot EXCEPT ![f] = Now(f)] /\ todo' = todo \ {f} /\ pc # "read"
          /\ UNCHANGED <<disk, torn, baseline, sourceStamp, pc>>
      BY <1>0, <1>7, StampIsNow DEF StampFile, storage, memory, history
    <2>2. f = Base => HashOf(snapshot'[Base]) = disk[Base].data
      BY <1>0, <2>1, HashOfNow
    <2>3. f # Base => snapshot'[Base] = snapshot[Base] /\ (Base \notin todo' => Base \notin todo)
      BY <1>0, <2>1
    <2> QED BY <2>1, <2>2, <2>3 DEF Based
  <1>8. ASSUME NEW f \in File, ReadFile(f) PROVE Based'
    BY <1>8 DEF ReadFile, storage, memory, history, Based
  <1>9. CASE MemoHit \/ MemoUnread \/ PriorHit \/ Compose \/ MemoizeNot \/ Memoize \/ Fail
    BY <1>2, <1>9 DEF MemoHit, MemoUnread, PriorHit, Compose, MemoizeNot, Memoize, Fail, Answer,
       storage, memory, history
  <1>10. CASE WriteArtifact \/ WriteReport
    BY <1>2, <1>10 DEF WriteArtifact, WriteReport, Walk, memory, history
  <1>11. CASE MemoMiss
    <2>1. /\ pc = "memo" /\ todo = {} /\ pc' \in {"refresh", "check"}
          /\ UNCHANGED <<disk, torn, baseline, sourceStamp, snapshot, todo>>
      BY <1>11 DEF MemoMiss, storage, locals, history
    <2>2. ~torn => HashOf(snapshot[Base]) = disk[Base].data
      BY <1>0, <2>1, HashOfNow DEF Current, Calm, Ops
    <2> QED BY <2>1, <2>2 DEF Based
  <1>12. CASE Refresh
    <2>1. UNCHANGED <<disk, torn>> /\ baseline' = disk[Base].data /\ sourceStamp' = None
      BY <1>12 DEF Refresh, storage, history
    <2>2. CASE pc = "refresh"
      <3>1. pc' = "check" /\ UNCHANGED <<todo, snapshot>>
        BY <1>12, <2>2 DEF Refresh
      <3>2. ~torn /\ Base \notin todo => HashOf(snapshot[Base]) = disk[Base].data
        BY <1>0, <2>2, HashOfNow DEF Current, Calm, Ops
      <3> QED BY <2>1, <3>1, <3>2 DEF Based
    <2>3. CASE pc # "refresh"
      BY <1>4, <1>12, <2>1, <2>3 DEF Refresh, Walk
    <2> QED BY <2>2, <2>3
  <1>13. CASE reloadMetadata
    BY <1>4, <1>13 DEF reloadMetadata, Walk, storage
  <1>14. CASE Stamped \/ Restamped
    <2>1. /\ todo = {} /\ pc \in {"stamp", "check", "restamp"}
          /\ UNCHANGED <<disk, torn, baseline, sourceStamp, snapshot>>
      BY <1>14 DEF Stamped, Restamped, storage, memory, history
    <2>2. CASE pc' = "reload"
      BY <1>2, <2>1, <2>2
    <2>3. CASE pc' = "read"
      <3>1. sourceStamp = None \/ snapshot[Base] = sourceStamp[Base]
        BY <1>14, <2>3 DEF Stamped, Restamped, metadataChanged, Metadata, Ops
      <3> QED BY <2>1, <2>3, <3>1 DEF Based
    <2> QED BY <1>14, <2>2, <2>3 DEF Stamped, Restamped
  <1>15. CASE ReadDone
    <2>1. /\ pc = "read" /\ pc' \in {"idle", "decide"} /\ sourceStamp' = snapshot
          /\ UNCHANGED <<disk, torn, baseline>>
      BY <1>15 DEF ReadDone, Answer, storage, history
    <2>2. snapshot # None
      BY <1>0, Nones DEF Snapshots
    <2> QED BY <2>1, <2>2 DEF Based
  <1>16. CASE Restart
    <2>1. baseline' = None
      BY <1>16 DEF Restart
    <2> QED BY <2>1 DEF Based
  <1>17. CASE (\E f \in File : Edit(f)) \/ Tamper
    <2>1. /\ UNCHANGED <<pc, todo, snapshot, baseline, sourceStamp>>
          /\ ~torn' => /\ ~torn
                       /\ disk'[Base] # disk[Base] => baseline = None \/ sourceStamp # None
      BY <1>0, <1>17, CalmStep
    <2> QED BY <2>1 DEF Based
  <1> QED BY <1>5, <1>6, <1>7, <1>8, <1>9, <1>10, <1>11, <1>12, <1>13, <1>14, <1>15, <1>16, <1>17 DEF Next

\* The memos and the report go with their stamps.
LEMMA TogetherStep ==
  ASSUME SInv, Ops, Current, Together, Next
  PROVE  Together'
  <1>0. /\ TInv /\ TypeOK /\ Readable \subseteq File /\ Base \in File /\ Lock \in File
        /\ None \notin Packages
    BY Nones DEF SInv, TInv, TypeOK, File, Readable
  <1>1. ASSUME buildMemo' \in {buildMemo, None}, marked' = marked \/ ~marked', torn' = torn, tornReport' = tornReport,
               \/ UNCHANGED <<sourceMemo, sourceStamp>>
               \/ sourceMemo' = None,
               UNCHANGED <<reliable, report>>, ~marked' \/ artifact' = artifact
        PROVE  Together'
    BY <1>1 DEF Together, Of
  <1>2. CASE \/ \E kind \in {"files", "build"} : Request(kind)
             \/ Open \/ (\E f \in File : StampFile(f) \/ ReadFile(f)) \/ MemoHit \/ MemoUnread
    BY <1>1, <1>2 DEF Request, Open, StampFile, ReadFile, MemoHit, MemoUnread, storage, memory, history
  <1>3. CASE MemoMiss \/ Refresh \/ Stamped \/ reloadMetadata \/ Restamped
    BY <1>1, <1>3 DEF MemoMiss, Refresh, Stamped, reloadMetadata, Restamped, storage, memory, history
  <1>4. CASE PriorHit \/ Compose \/ WriteArtifact \/ MemoizeNot \/ Fail
    BY <1>1, <1>4 DEF PriorHit, Compose, WriteArtifact, MemoizeNot, Fail, storage, memory, history
  <1>9. CASE Restart
    <2>1. buildMemo' = None /\ sourceMemo' = None /\ UNCHANGED <<report, tornReport>>
      BY <1>9 DEF Restart
    <2> QED BY <2>1 DEF Together
  <1>5. CASE ReadDone
    <2>1. /\ pc = "read" /\ todo = {} /\ sourceMemo' = files /\ sourceStamp' = snapshot
          /\ UNCHANGED <<disk, reliable, torn, tornReport, artifact, marked, report, buildMemo>>
      BY <1>5 DEF ReadDone, storage, history
    <2>2. ~torn /\ ~reliable => \A f \in Readable : files[f] = HashOf(snapshot[f])
      BY <1>0, <2>1, HashOfNow DEF Current, Calm
    <2> QED BY <2>1, <2>2 DEF Together, Of
  <1>6. CASE WriteReport
    <2>1. /\ pc = "report" /\ report' = [fingerprint |-> Fingerprint, content |-> package] /\ marked' = FALSE
          /\ tornReport' = torn /\ UNCHANGED <<reliable, torn, artifact, buildMemo, sourceMemo, sourceStamp>>
      BY <1>6 DEF WriteReport, memory, history
    <2>2. ASSUME ~torn
          PROVE  /\ package.files = [f \in Readable \ {Lock} |-> Fingerprint[f]]
                 /\ package.ribbon = Fingerprint[Lock]
      <3>1. \A f \in Readable : Fingerprint[f] = disk[f].data
        <4>1. \A f \in Readable : snapshot[f] = Now(f) /\ files[f] = disk[f].data
          BY <1>0, <2>1, <2>2 DEF Current, Calm, Ops
        <4> QED BY <1>0, <4>1, HashOfNow DEF Fingerprint
      <3>2. package = Fresh
        BY <2>1, <2>2 DEF Current, Calm, Ops
      <3> QED BY <3>1, <3>2 DEF Fresh, Readable
    <2> QED BY <2>1, <2>2 DEF Together, Of
  <1>7. CASE Memoize
    <2>1. /\ pc = "memoize" /\ todo = {} /\ buildMemo' = [sources |-> snapshot, content |-> package]
          /\ UNCHANGED <<reliable, torn, tornReport, artifact, report, sourceMemo, sourceStamp>>
      BY <1>7 DEF Memoize, history
    <2>2. ~torn => package = Of(snapshot) /\ artifact = package
      <3> SUFFICES ASSUME ~torn PROVE package = Of(snapshot) /\ artifact = package
        OBVIOUS
      <3>1. (\A f \in File : snapshot[f] = Now(f)) /\ package = Fresh /\ artifact = package
        BY <2>1 DEF Current, Calm, Ops
      <3> QED BY <1>0, <3>1, OfNow
    <2> QED BY <2>1, <2>2 DEF Together, Of
  <1>8. CASE (\E f \in File : Edit(f)) \/ Tamper
    <2>1. /\ UNCHANGED <<reliable, sourceMemo, sourceStamp, buildMemo, report, tornReport>>
          /\ (~torn' => ~torn) /\ (reliable /\ marked' => marked /\ artifact' = artifact)
      BY <1>0, <1>8, CalmStep
    <2> QED BY <2>1 DEF Together, Of
  <1> QED BY <1>2, <1>3, <1>4, <1>5, <1>6, <1>7, <1>8, <1>9 DEF Next

\* What a build answers with, it found on disk or wrote there.
LEMMA AnswerStep ==
  ASSUME SInv, Honesty, Ops, Current, Together, BuildIsCurrent, Next
  PROVE  BuildIsCurrent'
  <1>0. /\ TInv /\ TypeOK /\ Readable \subseteq File /\ Lock \in File
        /\ result # None => pc = "idle"
    BY DEF SInv, TInv, TypeOK, File, Readable
  <1>1. ASSUME result' = None PROVE BuildIsCurrent'
    BY <1>1 DEF BuildIsCurrent
  <1>2. ASSUME pc # "idle", result' = result PROVE BuildIsCurrent'
    <2>1. result' = None
      BY <1>0, <1>2
    <2> QED BY <1>1, <2>1
  <1>3. ASSUME NEW how, NEW content, result' = Built(how, content), UNCHANGED <<disk, artifact, torn, tornReport>>,
               ~torn => /\ artifact = content
                        /\ \/ how = "prior" /\ tornReport
                           \/ content.files = Fresh.files /\ content.ribbon = Fresh.ribbon
                        /\ how = "prior" \/ content.base = Fresh.base
        PROVE  BuildIsCurrent'
    BY <1>3 DEF BuildIsCurrent, Built, Fresh
  <1>4. CASE (\E kind \in {"files", "build"} : Request(kind)) \/ Restart
    BY <1>1, <1>4 DEF Request, Restart, Answer
  <1>5. CASE \/ Open \/ (\E f \in File : StampFile(f) \/ ReadFile(f)) \/ MemoMiss \/ MemoUnread
             \/ Refresh \/ Stamped \/ reloadMetadata \/ Restamped
    BY <1>2, <1>5 DEF Open, StampFile, ReadFile, MemoMiss, MemoUnread, Refresh, Stamped,
       reloadMetadata, Restamped
  <1>6. CASE Compose \/ WriteArtifact \/ WriteReport
    BY <1>2, <1>6 DEF Compose, WriteArtifact, WriteReport
  <1>7. CASE MemoHit
    <2>1. /\ pc = "memo" /\ todo = {} /\ snapshot = buildMemo.sources /\ buildMemo # None
          /\ marked /\ (reliable \/ artifact = buildMemo.content)
          /\ result' = Built("memo", buildMemo.content) /\ UNCHANGED <<disk, artifact, torn, tornReport>>
      BY <1>0, <1>7 DEF MemoHit, MemoHolds, Answer, storage, history, TInv, Placed
    <2>2. ~torn => artifact = buildMemo.content /\ buildMemo.content = Fresh
      <3> SUFFICES ASSUME ~torn PROVE artifact = buildMemo.content /\ buildMemo.content = Fresh
        OBVIOUS
      <3>1. \A f \in File : snapshot[f] = Now(f)
        BY <2>1 DEF Current, Calm, Ops
      <3>2. Of(snapshot) = Fresh
        BY <1>0, <3>1, OfNow
      <3> QED BY <2>1, <3>2 DEF Together
    <2> QED BY <1>3, <2>1, <2>2
  <1>8. CASE PriorHit
    <2>1. /\ pc = "decide" /\ report # None /\ report.fingerprint = Fingerprint /\ report.content = artifact
          /\ result' = Built("prior", report.content) /\ UNCHANGED <<disk, artifact, torn, tornReport>>
      BY <1>8 DEF PriorHit, PriorHolds, Answer, storage, history
    <2>2. ASSUME ~torn, ~tornReport PROVE report.content.files = Fresh.files /\ report.content.ribbon = Fresh.ribbon
      <3>1. \A f \in Readable : snapshot[f] = Now(f) /\ files[f] = disk[f].data
        BY <1>0, <2>1, <2>2 DEF Current, Calm, Ops
      <3>2. \A f \in Readable : Fingerprint[f] = disk[f].data
        BY <1>0, <3>1, HashOfNow DEF Fingerprint
      <3> QED BY <2>1, <2>2, <3>2 DEF Together, Fresh, Readable
    <2> QED BY <1>3, <2>1, <2>2
  <1>9. CASE Memoize \/ MemoizeNot
    <2>1. pc = "memoize" /\ result' = Built("new", package) /\ UNCHANGED <<disk, artifact, torn, tornReport>>
      BY <1>9 DEF Memoize, MemoizeNot, Answer, storage, history
    <2>2. ~torn => artifact = package /\ package = Fresh
      BY <2>1 DEF Current, Calm, Ops
    <2> QED BY <1>3, <2>1, <2>2
  <1>10. CASE ReadDone \/ Fail
    <2>1. result' = result \/ result'.kind # "build"
      BY <1>10 DEF ReadDone, Fail, Answer, locals
    <2>2. pc # "idle"
      BY <1>10 DEF ReadDone, Fail
    <2> QED BY <1>2, <2>1, <2>2 DEF BuildIsCurrent
  <1>11. CASE (\E f \in File : Edit(f)) \/ Tamper
    BY <1>0, <1>1, <1>11, CalmStep
  <1> QED BY <1>4, <1>5, <1>6, <1>7, <1>8, <1>9, <1>10, <1>11 DEF Next

LEMMA CStep == CInv /\ [Next]_vars => CInv'
  <1>1. ASSUME CInv, Next PROVE CInv'
    BY <1>1, SStep, HonestStep, OpsStep, CurrentStep, BasedStep, TogetherStep, AnswerStep DEF CInv, SInv
  <1>2. ASSUME CInv, UNCHANGED vars PROVE CInv'
    <2>1. SInv'
      BY <1>2, SStep DEF CInv
    <2>2. Fresh' = Fresh /\ \A f : Now(f)' = Now(f)
      BY <1>2 DEF vars, storage, Fresh, Now
    <2> QED BY <1>2, <2>1, <2>2
            DEF CInv, Honesty, Honest, Ops, Current, Calm, Based, Together, Of, BuildIsCurrent,
                vars, storage, memory, locals, history
  <1> QED BY <1>1, <1>2

LEMMA CInitially == Init => CInv
  <1> SUFFICES ASSUME Init PROVE CInv
    OBVIOUS
  <1>1. Honesty
    BY DEF Init, Honesty, Honest, NoSnapshot
  <1>2. Ops /\ Current /\ Based /\ Together /\ BuildIsCurrent
    BY DEF Init, Ops, Current, Based, Together, BuildIsCurrent
  <1> QED BY <1>1, <1>2, SInitially DEF CInv

\* Whatever was edited, restored, rebuilt or restarted before this process: as
\* long as no file changes under one of its builds (nor Base while it is open and
\* unstamped), every build of it answers with the package a build without caches
\* would write now, and it is the package on disk; only an answer taken from the
\* report may have another baseline, or, where an earlier process left it after a
\* torn build, other contents.
THEOREM BuildsAreCurrent == Spec => []BuildIsCurrent
  <1>1. CInv => BuildIsCurrent
    BY DEF CInv
  <1> QED BY <1>1, CInitially, CStep, PTL DEF Spec
=============================================================================
