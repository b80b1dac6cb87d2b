-------------------------- MODULE ComponentInstall --------------------------
(***************************************************************************)
(* internal/component: AddWith, its requirements and install.  Installers  *)
(* are processes (an engine runs one request at a time); a file on disk,   *)
(* component-install.lock, is their lease.  Users edit the sources at any  *)
(* moment.  A component's text depends on its adaptation values.           *)
(*                                                                         *)
(* The checks of a manifest that only read (paths, forms, identifiers,     *)
(* Ribbon merges) either pass or end the installation: see CheckFails.     *)
(***************************************************************************)
EXTENDS Naturals

CONSTANTS
  Component,
  Requires, \* the components a component requires
  File,
  FilesOf,  \* the files of a component
  Value,    \* adaptation values: the module prefix
  Installer,
  None, User, Partial, \* nothing; written by a user; half a copy
  MaxEdits, MaxCrashes \* bounds of the model

ASSUME CatalogAssumption ==
  /\ Requires \in [Component -> SUBSET Component] /\ FilesOf \in [Component -> SUBSET File]
  /\ \A c \in Component : \A r \in Requires[c] : Requires[r] = {} \* builtin(): one level
ASSUME NoneAssumption ==
  /\ None \notin Value /\ None \notin Component /\ None \notin File
  /\ \A c \in Component, v \in Value : {None, User, Partial} \cap {[of |-> c, with |-> v]} = {}
  /\ None # User /\ None # Partial /\ User # Partial
ASSUME BoundsAssumption == MaxEdits \in Nat /\ MaxCrashes \in Nat

VARIABLES
  file,    \* what a path holds: None, or who wrote it: see Contents
  entry,   \* components.json: the values a component was installed with, or None
  lease,   \* does component-install.lock exist
  pc,      \* an installer's place
  main, value,       \* what it was asked for
  queue, current,    \* the requirements it still needs, and what it installs now
  lock,    \* the entries it read
  todo, created,     \* files to copy, and copied
  looked,  \* the file its rollback found unchanged
  edits, crashes,
  touched, left \* history: files a user changed; files an installation said it left

disk == <<file, entry, lease>>
request == <<main, value>>
plan == <<queue, current>>
copying == <<lock, todo, created, looked>>
history == <<edits, crashes, touched, left>>
vars == <<disk, pc, request, plan, copying, history>>

Whole(c, v) == [of |-> c, with |-> v]
Contents == [of : Component, with : Value] \cup {User, Partial, None}

NoEntry == [c \in Component |-> None]

Init ==
  /\ file \in [File -> {None, User}]
  /\ entry = NoEntry /\ lease = FALSE
  /\ pc = [i \in Installer |-> "idle"]
  /\ main = [i \in Installer |-> None] /\ value = [i \in Installer |-> None]
  /\ queue = [i \in Installer |-> {}] /\ current = [i \in Installer |-> None]
  /\ lock = [i \in Installer |-> NoEntry]
  /\ todo = [i \in Installer |-> {}] /\ created = [i \in Installer |-> {}]
  /\ looked = [i \in Installer |-> None]
  /\ edits = 0 /\ crashes = 0 /\ touched = {} /\ left = {}

Goto(i, from, to) == pc[i] = from /\ pc' = [pc EXCEPT ![i] = to]
Copy(i) == Whole(current[i], value[i])
Holding(i) == pc[i] \in {"check", "create", "rollback", "remove", "release", "failed"}

\* install's variables go, and with the request all of them.
Return(i) ==
  /\ lock' = [lock EXCEPT ![i] = NoEntry] /\ looked' = [looked EXCEPT ![i] = None]
  /\ todo' = [todo EXCEPT ![i] = {}] /\ created' = [created EXCEPT ![i] = {}]
  /\ current' = [current EXCEPT ![i] = None]
End(i) ==
  /\ Return(i)
  /\ pc' = [pc EXCEPT ![i] = "idle"] /\ queue' = [queue EXCEPT ![i] = {}]
  /\ main' = [main EXCEPT ![i] = None] /\ value' = [value EXCEPT ![i] = None]

-----------------------------------------------------------------------------
\* AddWith: a catalog component, with values for its parameters.
Add(i, c, v) ==
  /\ Goto(i, "idle", "requirements")
  /\ main' = [main EXCEPT ![i] = c] /\ value' = [value EXCEPT ![i] = v]
  /\ UNCHANGED <<disk, plan, copying, history>>

\* ensureRequirements reads the lock without the lease, once.
ensureRequirements(i) ==
  /\ Goto(i, "requirements", "next")
  /\ queue' = [queue EXCEPT ![i] = {r \in Requires[main[i]] : entry[r] = None}]
  /\ UNCHANGED <<disk, request, current, copying, history>>

NextInstall(i) ==
  /\ Goto(i, "next", "lease")
  /\ \E c \in (IF queue[i] = {} THEN {main[i]} ELSE queue[i]) :
       /\ current' = [current EXCEPT ![i] = c]
       /\ queue' = [queue EXCEPT ![i] = @ \ {c}]
  /\ UNCHANGED <<disk, request, copying, history>>

\* Mutant: the lease is created whether or not it exists.
TakeAnyLease(i) ==
  /\ Goto(i, "lease", "check")
  /\ lease' = TRUE
  /\ UNCHANGED <<file, entry, request, plan, copying, history>>

\* The lease file is created exclusively.
TakeLease(i) ==
  /\ Goto(i, "lease", "check") /\ ~lease
  /\ lease' = TRUE
  /\ UNCHANGED <<file, entry, request, plan, copying, history>>

LeaseTaken(i) ==
  /\ pc[i] = "lease" /\ lease
  /\ End(i)
  /\ UNCHANGED <<disk, history>>

\* An installed component is accepted as it is when its files are clean and it
\* was adapted alike.
AlreadyInstalled(i) ==
  /\ Goto(i, "check", "release")
  /\ entry[current[i]] = value[i] /\ \A f \in FilesOf[current[i]] : file[f] = Copy(i)
  /\ UNCHANGED <<disk, request, plan, copying, history>>

Preflight(i) ==
  /\ Goto(i, "check", "create")
  /\ entry[current[i]] = None /\ \A f \in FilesOf[current[i]] : file[f] = None
  /\ lock' = [lock EXCEPT ![i] = entry]
  /\ todo' = [todo EXCEPT ![i] = FilesOf[current[i]]]
  /\ UNCHANGED <<disk, request, plan, created, looked, history>>

\* A component that differs from its record, a file that exists, or a read or a
\* check that fails.
CheckFails(i) ==
  /\ Goto(i, "check", "failed")
  /\ UNCHANGED <<disk, request, plan, copying, history>>

\* A file is created exclusively, written and synced.
Create(i, f) ==
  /\ pc[i] = "create" /\ f \in todo[i] /\ file[f] = None
  /\ file' = [file EXCEPT ![f] = Copy(i)]
  /\ todo' = [todo EXCEPT ![i] = @ \ {f}]
  /\ created' = [created EXCEPT ![i] = @ \cup {f}]
  /\ UNCHANGED <<entry, lease, pc, request, plan, lock, looked, history>>

\* A copy that stops half way is not one of the created files.
CreatePart(i, f) ==
  /\ Goto(i, "create", "rollback") /\ f \in todo[i] /\ file[f] = None
  /\ file' = [file EXCEPT ![f] = Partial]
  /\ left' = left \cup {f}
  /\ UNCHANGED <<entry, lease, request, plan, copying, edits, crashes, touched>>

\* The path exists by now, cannot be created, or the lock cannot be written.
InstallFails(i) ==
  /\ Goto(i, "create", "rollback")
  /\ UNCHANGED <<disk, request, plan, copying, history>>

\* Mutant: the lock is written before the last file.
RecordEarly(i) ==
  /\ Goto(i, "create", "release") /\ \A f, g \in todo[i] : f = g
  /\ entry' = [lock[i] EXCEPT ![current[i]] = value[i]]
  /\ UNCHANGED <<file, lease, request, plan, copying, history>>

\* components.json is replaced, from the entries read before.
Record(i) ==
  /\ Goto(i, "create", "release") /\ todo[i] = {}
  /\ entry' = [lock[i] EXCEPT ![current[i]] = value[i]]
  /\ UNCHANGED <<file, lease, request, plan, copying, history>>

\* Mutant: the file compared is not the one remembered.
LookPast(i, f) ==
  /\ Goto(i, "rollback", "remove") /\ f \in created[i] /\ file[f] = Copy(i)
  /\ UNCHANGED <<disk, request, plan, copying, history>>

\* rollback compares each created file with what was written, then removes it.
Look(i, f) ==
  /\ Goto(i, "rollback", "remove") /\ f \in created[i] /\ file[f] = Copy(i)
  /\ looked' = [looked EXCEPT ![i] = f]
  /\ UNCHANGED <<disk, request, plan, lock, todo, created, history>>

Preserve(i, f) ==
  /\ pc[i] = "rollback" /\ f \in created[i] /\ file[f] # Copy(i)
  /\ created' = [created EXCEPT ![i] = @ \ {f}]
  /\ left' = left \cup {f}
  /\ UNCHANGED <<disk, pc, request, plan, lock, todo, looked, edits, crashes, touched>>

\* The removal may fail; it says so.
Remove(i) == \E ok \in BOOLEAN :
  /\ Goto(i, "remove", "rollback")
  /\ IF ok /\ file[looked[i]] # None
     THEN file' = [file EXCEPT ![looked[i]] = None] /\ UNCHANGED left
     ELSE left' = left \cup {looked[i]} /\ UNCHANGED file
  /\ created' = [created EXCEPT ![i] = @ \ {looked[i]}]
  /\ UNCHANGED <<entry, lease, request, plan, lock, todo, looked, edits, crashes, touched>>

\* Mutant: rollback stops after its first file.
RolledBackEarly(i) ==
  /\ Goto(i, "rollback", "failed") /\ \A f, g \in created[i] : f = g
  /\ UNCHANGED <<disk, request, plan, copying, history>>

RolledBack(i) ==
  /\ Goto(i, "rollback", "failed") /\ created[i] = {}
  /\ UNCHANGED <<disk, request, plan, copying, history>>

\* The deferred removal of the lease.  A requirement installed, what needs it is next.
Release(i) ==
  /\ pc[i] \in {"release", "failed"}
  /\ lease' = FALSE
  /\ IF pc[i] = "release" /\ current[i] # main[i]
     THEN Goto(i, "release", "next") /\ Return(i) /\ UNCHANGED <<request, queue>>
     ELSE End(i)
  /\ UNCHANGED <<file, entry, history>>

install(i) ==
  \/ TakeLease(i) \/ LeaseTaken(i) \/ AlreadyInstalled(i) \/ Preflight(i) \/ CheckFails(i)
  \/ (\E f \in File : Create(i, f) \/ CreatePart(i, f) \/ Look(i, f) \/ Preserve(i, f))
  \/ InstallFails(i) \/ Record(i) \/ Remove(i) \/ RolledBack(i) \/ Release(i)

-----------------------------------------------------------------------------
\* The process dies, perhaps half way through a file; its lease stays.
Crash(i) == \E part \in SUBSET {f \in todo[i] : pc[i] = "create" /\ file[f] = None} :
  /\ pc[i] # "idle" /\ crashes < MaxCrashes
  /\ \A f, g \in part : f = g
  /\ crashes' = crashes + 1
  /\ file' = [f \in File |-> IF f \in part THEN Partial ELSE file[f]]
  /\ left' = left \cup part \cup (IF pc[i] \in {"create", "rollback", "remove"} THEN created[i] ELSE {})
  /\ End(i)
  /\ UNCHANGED <<entry, lease, edits, touched>>

\* Someone deletes the lease of an interrupted installation.
ClearLease ==
  /\ lease /\ \A i \in Installer : ~Holding(i)
  /\ lease' = FALSE
  /\ UNCHANGED <<file, entry, pc, request, plan, copying, history>>

Edit(f) == \E c \in {None, User} :
  /\ edits < MaxEdits /\ c # file[f]
  /\ edits' = edits + 1
  /\ file' = [file EXCEPT ![f] = c]
  /\ touched' = touched \cup {f}
  /\ UNCHANGED <<entry, lease, pc, request, plan, copying, crashes, left>>

Next ==
  \/ \E i \in Installer :
       \/ \E c \in Component, v \in Value : Add(i, c, v)
       \/ ensureRequirements(i) \/ NextInstall(i) \/ install(i) \/ Crash(i)
  \/ ClearLease \/ (\E f \in File : Edit(f))

Spec == Init /\ [][Next]_vars

-----------------------------------------------------------------------------
\* Properties.

\* Every variable has its type.
TypeOK ==
  /\ file \in [File -> Contents] /\ entry \in [Component -> Value \cup {None}] /\ lease \in BOOLEAN
  /\ pc \in [Installer -> {"idle", "requirements", "next", "lease", "check", "create", "rollback",
                           "remove", "release", "failed"}]
  /\ \A i \in Installer :
       /\ pc[i] = "idle" => main[i] = None /\ value[i] = None
       /\ pc[i] # "idle" => main[i] \in Component /\ value[i] \in Value
       /\ pc[i] = "lease" \/ Holding(i) => current[i] \in Component
       /\ pc[i] = "remove" => looked[i] \in created[i]
  /\ main \in [Installer -> Component \cup {None}] /\ value \in [Installer -> Value \cup {None}]
  /\ queue \in [Installer -> SUBSET Component] /\ current \in [Installer -> Component \cup {None}]
  /\ lock \in [Installer -> [Component -> Value \cup {None}]]
  /\ todo \in [Installer -> SUBSET File] /\ created \in [Installer -> SUBSET File]
  /\ looked \in [Installer -> File \cup {None}]
  /\ edits \in 0..MaxEdits /\ crashes \in 0..MaxCrashes
  /\ touched \subseteq File /\ left \subseteq File

\* However installers interleave, fail and crash, the component lock is the
\* registry ComponentRegistry describes: no installer loses another's entry, and
\* no entry precedes what it requires.
Registry == INSTANCE ComponentRegistry
LockIsRegistry == Registry!Spec

\* An entry means every file of the component was copied whole and is still
\* there, unless a user changed it: no crash, failure or rollback, of this or
\* another installation, breaks an installed component.
RecordedIsWhole ==
  \A c \in Component : entry[c] # None =>
    \A f \in FilesOf[c] \ touched : file[f] = Whole(c, entry[c])

\* A copy no entry accounts for, and nobody is working on, was left by a crash or
\* named in an error: an installation that fails otherwise takes back all it did.
LeftoversAreReported ==
  \A f \in File \ (left \cup touched) :
    \/ file[f] \in {None, User}
    \/ \E c \in Component : entry[c] # None /\ file[f] = Whole(c, entry[c])
    \/ \E i \in Installer : pc[i] \in {"create", "rollback", "remove"} /\ f \in created[i]
=============================================================================
