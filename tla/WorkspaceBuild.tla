--------------------------- MODULE WorkspaceBuild ---------------------------
(***************************************************************************)
(* internal/project: the workspace an engine keeps open, its source memo   *)
(* (SourceFilesCached) and its three answers to a build: the memo of the   *)
(* last one, the report left on disk, or a new package.  The engine runs   *)
(* one file request at a time (Engine.fsMu); editors, git and other        *)
(* processes change the files at any moment.                               *)
(*                                                                         *)
(* A file is its contents and the stamp the platform keeps for it.  Base   *)
(* stands for base.opc with index.json: what Open keeps of a workspace.    *)
(* A package is what composition depends on: the baseline, the sources and *)
(* the Ribbon merges of the component lock.  A hash is what it is a hash   *)
(* of.                                                                     *)
(***************************************************************************)
EXTENDS Naturals

CONSTANTS
  Source,   \* the files below vba, forms and package
  Manifest, \* project.json: a source, and metadata
  Lock,     \* components.json
  Base,
  Data,     \* contents of a file
  None,
  MaxEdits  \* bound of the model

Readable == Source \cup {Manifest, Lock} \* what a snapshot holds
File == Readable \cup {Base}
Metadata == {Manifest, Base}             \* workspaceMetadataPaths
Always == Metadata                       \* a workspace without them does not open

ASSUME NamesAssumption == Manifest \notin Source /\ Lock \notin Source \cup {Manifest} /\ Base \notin Readable

\* What fileStamp keeps of a file, what the memory and the disk hold, and what a
\* request answers.
Stamps == [at : 0..MaxEdits, hash : Data]
Snapshots == [File -> Stamps \cup {None}]
SourceMaps == [Readable -> Data \cup {None}]
Packages == [base : Data, files : [Readable \ {Lock} -> Data \cup {None}], ribbon : Data \cup {None}]
Memos == [sources : Snapshots, content : Packages]
Reports == [fingerprint : SourceMaps, content : Packages]
Results ==
  [kind : {"error"}] \cup [kind : {"files"}, files : SourceMaps]
  \cup [kind : {"build"}, how : {"memo", "prior", "new"}, content : Packages]

ASSUME DataAssumption == Data # {} /\ None \notin Data
ASSUME NoneAssumption == None \notin Stamps \cup Snapshots \cup SourceMaps \cup Packages \cup Memos \cup Reports
ASSUME BoundAssumption == MaxEdits \in Nat

VARIABLES
  disk, clock,   \* the files; the number of edits so far
  reliable,      \* does the platform keep a change time no editor can restore
  artifact,      \* the package at the output path, or None
  marked,        \* do artifact and report still have the stamps buildMemo took
  report,        \* reports/build.json, or None
  baseline,      \* what Open read, None before
  sourceMemo, sourceStamp, buildMemo,
  pc, op,        \* the request's place and kind
  todo, snapshot, files, package,
  result,        \* the last answer, until a file changes
  seen, quiet, torn, tornReport \* history: see Edit

memory == <<baseline, sourceMemo, sourceStamp, buildMemo>>
locals == <<todo, snapshot, files, package>>
history == <<seen, quiet, torn, tornReport>>
storage == <<disk, clock, artifact, marked, report>>
vars == <<storage, reliable, memory, pc, op, locals, result, history>>

NoSnapshot == [f \in File |-> None]
NoFiles == [f \in Readable |-> None]

Init ==
  /\ disk \in [File -> [data : Data, at : {0}]]
  /\ clock = 0 /\ reliable \in BOOLEAN
  /\ artifact = None /\ marked = FALSE /\ report = None
  /\ baseline = None /\ sourceMemo = None /\ sourceStamp = None /\ buildMemo = None
  /\ pc = "idle" /\ op = "files"
  /\ todo = {} /\ snapshot = NoSnapshot /\ files = NoFiles /\ package = None
  /\ result = None
  /\ seen = [f \in File |-> {}] /\ quiet = TRUE /\ torn = FALSE /\ tornReport = FALSE

-----------------------------------------------------------------------------
\* fileStamp: a hash is reused while a reliable stamp has not moved.
Stamp(f, previous) ==
  IF disk[f].data = None THEN None
  ELSE [at   |-> disk[f].at,
        hash |-> IF reliable /\ previous[f] # None /\ previous[f].at = disk[f].at
                 THEN previous[f].hash ELSE disk[f].data]

\* The stamps a walk compares with.
Previous ==
  CASE pc = "memo" -> buildMemo.sources
    [] pc \in {"stamp", "memoize"} /\ sourceStamp # None -> sourceStamp
    [] OTHER -> NoSnapshot

metadataChanged == sourceStamp # None /\ \E f \in Metadata : snapshot[f] # sourceStamp[f]

\* Mutant: stamps are compared by their hashes only.
StaleByHash == IF sourceMemo = None THEN Readable
               ELSE {f \in Readable : snapshot[f] # None /\ (sourceStamp[f] = None \/ sourceStamp[f].hash # snapshot[f].hash)}

\* The files buildSourceFiles reads, and those it keeps from the memo.
Stale == IF sourceMemo = None THEN Readable
         ELSE {f \in Readable : snapshot[f] # None /\ sourceStamp[f] # snapshot[f]}
Kept == IF sourceMemo = None THEN NoFiles
        ELSE [f \in Readable |-> IF snapshot[f] = None THEN None ELSE sourceMemo[f]]

Fingerprint ==
  [f \in Readable |-> IF files[f] # None /\ snapshot[f] # None THEN snapshot[f].hash ELSE files[f]]

\* What a build without any cache would write.
Fresh == [base   |-> disk[Base].data,
          files  |-> [f \in Readable \ {Lock} |-> disk[f].data],
          ribbon |-> disk[Lock].data]

Walk(place) == pc' = place /\ todo' = File /\ snapshot' = NoSnapshot

Answer(r) ==
  /\ pc' = "idle" /\ todo' = {} /\ snapshot' = NoSnapshot /\ files' = NoFiles /\ package' = None
  /\ result' = r

Built(how, content) == [kind |-> "build", how |-> how, content |-> content]

-----------------------------------------------------------------------------
\* openWorkspace, then SourceFilesCached ("files") or Build ("build").
Request(kind) ==
  /\ pc = "idle"
  /\ op' = kind /\ result' = None
  /\ seen' = [f \in File |-> {disk[f].data}] /\ quiet' = TRUE
  /\ IF baseline = None THEN pc' = "open" /\ UNCHANGED <<todo, snapshot>>
     ELSE Walk(IF kind = "build" /\ buildMemo # None THEN "memo" ELSE "stamp")
  /\ UNCHANGED <<storage, reliable, memory, files, package, torn, tornReport>>

Open ==
  /\ pc = "open"
  /\ baseline' = disk[Base].data
  /\ Walk("stamp")
  /\ UNCHANGED <<storage, reliable, sourceMemo, sourceStamp, buildMemo, op, files, package, result, history>>

\* sourceStamps, one file at a time.
StampFile(f) ==
  /\ pc \in {"memo", "stamp", "restamp", "memoize"} /\ f \in todo
  /\ snapshot' = [snapshot EXCEPT ![f] = Stamp(f, Previous)]
  /\ todo' = todo \ {f}
  /\ UNCHANGED <<storage, reliable, memory, pc, op, files, package, result, history>>

\* Mutant: the artifact is trusted without its stamp or its hash.
MemoHoldsUntouched == snapshot = buildMemo.sources

MemoHolds ==
  snapshot = buildMemo.sources /\ marked /\ (reliable \/ artifact = buildMemo.content)

MemoHit ==
  /\ pc = "memo" /\ todo = {} /\ MemoHolds
  /\ Answer(Built("memo", buildMemo.content))
  /\ UNCHANGED <<storage, reliable, memory, op, history>>

MemoMiss ==
  /\ pc = "memo" /\ todo = {} /\ ~MemoHolds
  /\ IF snapshot[Base] # buildMemo.sources[Base]
     THEN pc' = "refresh" /\ UNCHANGED buildMemo
     ELSE pc' = "check" /\ buildMemo' = None
  /\ UNCHANGED <<storage, reliable, baseline, sourceMemo, sourceStamp, op, locals, result, history>>

\* The walk of the memo check failed: everything is opened and walked again.
MemoUnread ==
  /\ pc = "memo"
  /\ pc' = "refreshAll"
  /\ UNCHANGED <<storage, reliable, memory, op, locals, result, history>>

\* Build's own reload keeps the stamps it has just taken.
Refresh ==
  /\ pc \in {"refresh", "refreshAll"}
  /\ baseline' = disk[Base].data
  /\ sourceMemo' = None /\ sourceStamp' = None /\ buildMemo' = None
  /\ IF pc = "refresh" THEN pc' = "check" /\ UNCHANGED <<todo, snapshot>> ELSE Walk("stamp")
  /\ UNCHANGED <<storage, reliable, op, files, package, result, history>>

Stamped ==
  /\ pc \in {"stamp", "check"} /\ todo = {}
  /\ IF metadataChanged THEN pc' = "reload" /\ UNCHANGED <<todo, files>>
     ELSE pc' = "read" /\ todo' = Stale /\ files' = Kept
  /\ UNCHANGED <<storage, reliable, memory, op, snapshot, package, result, history>>

\* Mutant: the stamps of the dropped memo are kept.
reloadMetadataKeepingStamps ==
  /\ pc = "reload"
  /\ baseline' = disk[Base].data
  /\ sourceMemo' = None /\ buildMemo' = None
  /\ Walk("restamp")
  /\ UNCHANGED <<storage, reliable, sourceStamp, op, files, package, result, history>>

reloadMetadata ==
  /\ pc = "reload"
  /\ baseline' = disk[Base].data
  /\ sourceMemo' = None /\ sourceStamp' = None /\ buildMemo' = None
  /\ Walk("restamp")
  /\ UNCHANGED <<storage, reliable, op, files, package, result, history>>

Restamped ==
  /\ pc = "restamp" /\ todo = {}
  /\ pc' = "read" /\ todo' = Stale /\ files' = Kept
  /\ UNCHANGED <<storage, reliable, memory, op, snapshot, package, result, history>>

\* With a memo every path to read has a stamp: its absence is an error (Fail).
ReadFile(f) ==
  /\ pc = "read" /\ f \in todo
  /\ sourceMemo = None \/ disk[f].data # None
  /\ files' = [files EXCEPT ![f] = disk[f].data]
  /\ todo' = todo \ {f}
  /\ UNCHANGED <<storage, reliable, memory, pc, op, snapshot, package, result, history>>

ReadDone ==
  /\ pc = "read" /\ todo = {}
  /\ sourceMemo' = files /\ sourceStamp' = snapshot
  /\ IF op = "files" THEN Answer([kind |-> "files", files |-> files])
     ELSE pc' = "decide" /\ UNCHANGED <<locals, result>>
  /\ UNCHANGED <<storage, reliable, baseline, buildMemo, op, history>>

PriorHolds == report # None /\ report.fingerprint = Fingerprint /\ report.content = artifact

PriorHit ==
  /\ pc = "decide" /\ PriorHolds
  /\ Answer(Built("prior", report.content))
  /\ UNCHANGED <<storage, reliable, memory, op, history>>

\* The Ribbon merges come from the lock on disk, not from the snapshot.
Compose ==
  /\ pc = "decide" /\ ~PriorHolds
  /\ package' = [base   |-> baseline,
                 files  |-> [f \in Readable \ {Lock} |-> files[f]],
                 ribbon |-> disk[Lock].data]
  /\ pc' = "write"
  /\ UNCHANGED <<storage, reliable, memory, op, todo, snapshot, files, result, history>>

WriteArtifact ==
  /\ pc = "write"
  /\ artifact' = package /\ marked' = FALSE /\ pc' = "report"
  /\ UNCHANGED <<disk, clock, report, reliable, memory, op, locals, result, history>>

WriteReport ==
  /\ pc = "report"
  /\ report' = [fingerprint |-> Fingerprint, content |-> package] /\ marked' = FALSE
  /\ tornReport' = torn
  /\ Walk("memoize")
  /\ UNCHANGED <<disk, clock, artifact, reliable, memory, op, files, package, result, seen, quiet, torn>>

\* The memo's stamps are taken now, not when the sources were read.
Memoize ==
  /\ pc = "memoize" /\ todo = {}
  /\ buildMemo' = [sources |-> snapshot, content |-> package]
  /\ marked' = TRUE
  /\ Answer(Built("new", package))
  /\ UNCHANGED <<disk, clock, artifact, report, reliable, baseline, sourceMemo, sourceStamp, op, history>>

\* Stamps that cannot be taken leave the build without a memo, and succeed.
MemoizeNot ==
  /\ pc = "memoize"
  /\ Answer(Built("new", package))
  /\ UNCHANGED <<storage, reliable, memory, op, history>>

\* Every other read, stamp, parse or write ends the request with its error.
Fail ==
  /\ pc \notin {"idle", "memo", "memoize"}
  /\ Answer([kind |-> "error"])
  /\ UNCHANGED <<storage, reliable, memory, op, history>>

\* The engine's process ends; a new one knows only what is on disk.
Restart ==
  /\ baseline' = None /\ sourceMemo' = None /\ sourceStamp' = None /\ buildMemo' = None
  /\ marked' = FALSE /\ torn' = FALSE
  /\ Answer(None)
  /\ UNCHANGED <<disk, clock, artifact, report, reliable, op, seen, quiet, tornReport>>

-----------------------------------------------------------------------------
\* A file is created, changed or removed.  Where the change time is not kept
\* an editor may restore the time and size of what it overwrote.  The history:
\* seen is what a file held since the request began, quiet that none changed
\* since; torn that in this process a build was under way at a change (where
\* stamps can be restored, any request), or that Base changed while it was open
\* and unstamped; tornReport that the process that left the report was torn.
Edit(f) == \E d \in (IF f \in Always THEN Data ELSE Data \cup {None}), restored \in BOOLEAN :
  /\ clock < MaxEdits /\ d # disk[f].data
  /\ restored => ~reliable /\ disk[f].data # None
  /\ clock' = clock + 1
  /\ disk' = [disk EXCEPT ![f] = [data |-> d, at |-> IF restored THEN disk[f].at ELSE clock + 1]]
  /\ seen' = [seen EXCEPT ![f] = @ \cup {d}]
  /\ quiet' = FALSE
  /\ torn' = (torn \/ (pc # "idle" /\ (op = "build" \/ ~reliable))
                   \/ (f = Base /\ baseline # None /\ sourceStamp = None))
  /\ result' = None
  /\ UNCHANGED <<artifact, marked, report, reliable, memory, pc, op, locals, tornReport>>

\* Something else replaces or removes the artifact.
Tamper == \E restored \in BOOLEAN :
  /\ artifact # None /\ clock < MaxEdits
  /\ restored => ~reliable
  /\ clock' = clock + 1
  /\ artifact' = None
  /\ marked' = (marked /\ restored)
  /\ quiet' = FALSE
  /\ torn' = (torn \/ (op = "build" /\ pc # "idle"))
  /\ result' = None
  /\ UNCHANGED <<disk, report, reliable, memory, pc, op, locals, seen, tornReport>>

Next ==
  \/ \E kind \in {"files", "build"} : Request(kind)
  \/ Open \/ (\E f \in File : StampFile(f) \/ ReadFile(f))
  \/ MemoHit \/ MemoMiss \/ MemoUnread \/ Refresh
  \/ Stamped \/ reloadMetadata \/ Restamped \/ ReadDone
  \/ PriorHit \/ Compose \/ WriteArtifact \/ WriteReport \/ Memoize \/ MemoizeNot
  \/ Fail \/ Restart
  \/ (\E f \in File : Edit(f)) \/ Tamper

Spec == Init /\ [][Next]_vars

-----------------------------------------------------------------------------
\* Properties.

\* Every variable has its type; the source memo and its stamps come together,
\* only an opened workspace has them, and only a request has a place.
TypeOK ==
  /\ disk \in [File -> [data : Data \cup {None}, at : 0..MaxEdits]]
  /\ clock \in 0..MaxEdits /\ reliable \in BOOLEAN /\ marked \in BOOLEAN
  /\ artifact \in Packages \cup {None} /\ report \in Reports \cup {None}
  /\ baseline \in Data \cup {None} /\ buildMemo \in Memos \cup {None}
  /\ sourceMemo \in SourceMaps \cup {None} /\ sourceStamp \in Snapshots \cup {None}
  /\ (sourceMemo = None) = (sourceStamp = None)
  /\ baseline = None => sourceMemo = None /\ buildMemo = None /\ pc \in {"idle", "open"}
  /\ pc \in {"idle", "open", "memo", "stamp", "refresh", "refreshAll", "check", "reload", "restamp",
             "read", "decide", "write", "report", "memoize"}
  /\ op \in {"files", "build"} /\ todo \subseteq File /\ snapshot \in Snapshots
  /\ files \in SourceMaps /\ package \in Packages \cup {None}
  /\ result \in Results \cup {None} /\ (result # None => pc = "idle")
  /\ seen \in [File -> SUBSET (Data \cup {None})] /\ quiet \in BOOLEAN
  /\ torn \in BOOLEAN /\ tornReport \in BOOLEAN

\* Where the change time is kept, what SourceFilesCached returns for a file is
\* what that file held at some moment of the call, whatever was edited before
\* or meanwhile: a memo never outlives a change of its file.
SnapshotIsOfThisCall ==
  reliable /\ result # None /\ result.kind = "files" => \A f \in Readable : result.files[f] \in seen[f]

\* In a process under none of whose builds a file changed, nor Base while it was
\* open and unstamped, every build answers with the package a build without
\* caches would write now, and that is the package on disk, whatever earlier
\* processes left.  Excepted is what the report on disk cannot tell: it does not
\* know the baseline, and one that a torn process left (workspace.go:935) has
\* the fingerprint of other contents than its package.
BuildIsCurrent ==
  ~torn /\ result # None /\ result.kind = "build" =>
    /\ artifact = result.content
    /\ (result.how = "prior" /\ tornReport)
       \/ (result.content.files = Fresh.files /\ result.content.ribbon = Fresh.ribbon)
    /\ result.how = "prior" \/ result.content.base = Fresh.base

\* workspace.go:882-884: a build that no edit disturbed answers from the memo
\* only with what a fresh process would build.
ResidentObservesEdits ==
  quiet /\ result # None /\ result.kind = "build" /\ result.how = "memo" => result.content = Fresh

=============================================================================
