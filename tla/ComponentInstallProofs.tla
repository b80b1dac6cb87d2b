----------------------- MODULE ComponentInstallProofs -----------------------
(***************************************************************************)
(* What the component lock records is whole, what it does not record is    *)
(* reported, and it is the registry of ComponentRegistry: for any number   *)
(* of installers, components, files and crashes.                           *)
(***************************************************************************)
EXTENDS ComponentInstall, TLAPS

\* The lease has one holder.
Leased ==
  /\ \A i \in Installer : Holding(i) => lease
  /\ \A i, j \in Installer : Holding(i) /\ Holding(j) => i = j

\* Between the preflight and the record the entries do not move, and what was
\* copied is there unless a user changed it.
Copying ==
  \A i \in Installer : pc[i] \in {"create", "rollback", "remove"} =>
    /\ lock[i] = entry /\ entry[current[i]] = None
    /\ \A f \in created[i] \ touched : file[f] = Copy(i)

Copied ==
  \A i \in Installer :
    /\ pc[i] = "create" => FilesOf[current[i]] \subseteq todo[i] \cup created[i]
    /\ pc[i] \in {"idle", "requirements", "next", "lease", "check"} => created[i] = {}

\* What a component requires is installed, being installed or still to be.
Required ==
  \A i \in Installer :
    /\ pc[i] \notin {"idle", "requirements"} =>
         /\ queue[i] \subseteq Requires[main[i]]
         /\ \A r \in Requires[main[i]] :
              \/ entry[r] # None \/ r \in queue[i]
              \/ pc[i] # "next" /\ r = current[i]
    /\ pc[i] = "lease" \/ Holding(i) =>
         (current[i] = main[i] /\ queue[i] = {}) \/ current[i] \in Requires[main[i]]
    /\ pc[i] = "release" => entry[current[i]] # None

IInv == TypeOK /\ Leased /\ Copying /\ Copied /\ Required /\ RecordedIsWhole /\ LeftoversAreReported

Step(i) ==
  \/ \E c \in Component, v \in Value : Add(i, c, v)
  \/ ensureRequirements(i) \/ NextInstall(i) \/ install(i)

-----------------------------------------------------------------------------
LEMMA Initially == Init => IInv
  <1> SUFFICES ASSUME Init PROVE IInv
    OBVIOUS
  <1>1. TypeOK
    <2>1. file \in [File -> Contents]
      BY DEF Init, Contents
    <2>2. edits \in 0..MaxEdits /\ crashes \in 0..MaxCrashes
      BY BoundsAssumption DEF Init
    <2> QED BY <2>1, <2>2 DEF Init, TypeOK, NoEntry, Holding
  <1>2. Leased /\ Copying /\ Copied /\ Required
    BY DEF Init, Leased, Copying, Copied, Required, Holding
  <1>3. RecordedIsWhole /\ LeftoversAreReported
    BY DEF Init, RecordedIsWhole, LeftoversAreReported, NoEntry
  <1> QED BY <1>1, <1>2, <1>3 DEF IInv

\* The types survive the end of a request.
LEMMA TypeEnd ==
  ASSUME TypeOK, NEW i \in Installer, End(i), entry' = entry, lease' \in BOOLEAN,
         file' \in [File -> Contents], touched' \subseteq File, left' \subseteq File,
         edits' \in 0..MaxEdits, crashes' \in 0..MaxCrashes
  PROVE  TypeOK'
  <1>1. /\ pc' = [pc EXCEPT ![i] = "idle"] /\ queue' = [queue EXCEPT ![i] = {}]
        /\ main' = [main EXCEPT ![i] = None] /\ value' = [value EXCEPT ![i] = None]
        /\ lock' = [lock EXCEPT ![i] = NoEntry] /\ looked' = [looked EXCEPT ![i] = None]
        /\ todo' = [todo EXCEPT ![i] = {}] /\ created' = [created EXCEPT ![i] = {}]
        /\ current' = [current EXCEPT ![i] = None]
    BY DEF End, Return
  <1>2. NoEntry \in [Component -> Value \cup {None}]
    BY DEF NoEntry
  <1>3. pc'[i] = "idle" /\ main'[i] = None /\ value'[i] = None
    BY <1>1 DEF TypeOK
  <1>4. \A j \in Installer \ {i} :
          /\ pc'[j] = pc[j] /\ main'[j] = main[j] /\ value'[j] = value[j] /\ current'[j] = current[j]
          /\ looked'[j] = looked[j] /\ created'[j] = created[j]
    BY <1>1 DEF TypeOK
  <1>5. \A j \in Installer :
          /\ pc'[j] = "idle" => main'[j] = None /\ value'[j] = None
          /\ pc'[j] # "idle" => main'[j] \in Component /\ value'[j] \in Value
          /\ pc'[j] = "lease" \/ (Holding(j))' => current'[j] \in Component
          /\ pc'[j] = "remove" => looked'[j] \in created'[j]
    BY <1>3, <1>4 DEF TypeOK, Holding
  <1>6. /\ pc' \in [Installer -> {"idle", "requirements", "next", "lease", "check", "create", "rollback",
                                  "remove", "release", "failed"}]
        /\ main' \in [Installer -> Component \cup {None}] /\ value' \in [Installer -> Value \cup {None}]
        /\ queue' \in [Installer -> SUBSET Component] /\ current' \in [Installer -> Component \cup {None}]
        /\ todo' \in [Installer -> SUBSET File] /\ created' \in [Installer -> SUBSET File]
        /\ looked' \in [Installer -> File \cup {None}]
    BY <1>1 DEF TypeOK
  <1>7. lock' \in [Installer -> [Component -> Value \cup {None}]]
    BY <1>1, <1>2 DEF TypeOK
  <1>8. entry' \in [Component -> Value \cup {None}]
    BY DEF TypeOK
  <1> QED BY <1>5, <1>6, <1>7, <1>8 DEF TypeOK

\* Every step of an installer keeps the types.
LEMMA TypeStep ==
  ASSUME TypeOK, NEW i \in Installer, Step(i)
  PROVE  TypeOK'
  <1> USE NoneAssumption DEF TypeOK, Goto, Return, End, Holding, disk, request, plan, copying, history
  <1>1. CASE \E c \in Component, v \in Value : Add(i, c, v)
    BY <1>1 DEF Add
  <1>2. CASE ensureRequirements(i)
    BY <1>2, CatalogAssumption DEF ensureRequirements
  <1>3. CASE NextInstall(i)
    BY <1>3 DEF NextInstall
  <1>4. CASE TakeLease(i)
    BY <1>4 DEF TakeLease
  <1>5. CASE LeaseTaken(i)
    BY <1>5, TypeEnd DEF LeaseTaken
  <1>6. CASE AlreadyInstalled(i)
    BY <1>6 DEF AlreadyInstalled
  <1>7. CASE Preflight(i)
    BY <1>7, CatalogAssumption DEF Preflight
  <1>8. CASE CheckFails(i)
    BY <1>8 DEF CheckFails
  <1>9. ASSUME NEW f \in File, Create(i, f) PROVE TypeOK'
    <2>1. Copy(i) \in Contents
      BY <1>9 DEF Create, Copy, Whole, Contents
    <2> QED BY <1>9, <2>1 DEF Create
  <1>10. ASSUME NEW f \in File, CreatePart(i, f) PROVE TypeOK'
    BY <1>10 DEF CreatePart, Contents
  <1>11. CASE InstallFails(i)
    BY <1>11 DEF InstallFails
  <1>12. CASE Record(i)
    BY <1>12 DEF Record
  <1>13. ASSUME NEW f \in File, Look(i, f) PROVE TypeOK'
    BY <1>13 DEF Look
  <1>14. ASSUME NEW f \in File, Preserve(i, f) PROVE TypeOK'
    BY <1>14 DEF Preserve
  <1>15. CASE Remove(i)
    <2>1. PICK ok \in BOOLEAN :
            IF ok /\ file[looked[i]] # None
            THEN file' = [file EXCEPT ![looked[i]] = None] /\ left' = left
            ELSE left' = left \cup {looked[i]} /\ file' = file
      BY <1>15 DEF Remove
    <2>2. pc[i] = "remove" /\ looked[i] \in File
      BY <1>15 DEF Remove
    <2>3. file' \in [File -> Contents]
      <3>1. file \in [File -> Contents] /\ None \in Contents
        BY DEF Contents
      <3>2. [file EXCEPT ![looked[i]] = None] \in [File -> Contents]
        BY <3>1, <2>2
      <3> QED BY <2>1, <3>1, <3>2
    <2>31. left' \subseteq File
      BY <2>1, <2>2
    <2>4. /\ pc' = [pc EXCEPT ![i] = "rollback"] /\ created' = [created EXCEPT ![i] = @ \ {looked[i]}]
          /\ UNCHANGED <<entry, lease, main, value, queue, current, lock, todo, looked, edits, crashes, touched>>
      BY <1>15 DEF Remove
    <2> QED BY <2>2, <2>3, <2>31, <2>4
  <1>16. CASE RolledBack(i)
    BY <1>16 DEF RolledBack
  <1>17. CASE Release(i)
    <2>1. CASE pc[i] = "release" /\ current[i] # main[i]
      <3>1. Goto(i, "release", "next") /\ Return(i) /\ UNCHANGED <<request, queue, file, entry, history>>
        BY <1>17, <2>1 DEF Release
      <3>2. lease' = FALSE
        BY <1>17 DEF Release
      <3>3. NoEntry \in [Component -> Value \cup {None}]
        BY DEF NoEntry
      <3> QED BY <3>1, <3>2, <3>3
    <2>2. CASE ~(pc[i] = "release" /\ current[i] # main[i])
      <3>1. End(i) /\ lease' = FALSE /\ UNCHANGED <<file, entry, history>>
        BY <1>17, <2>2 DEF Release
      <3> QED BY <3>1, TypeEnd
    <2> QED BY <2>1, <2>2
  <1> QED BY <1>1, <1>2, <1>3, <1>4, <1>5, <1>6, <1>7, <1>8, <1>9, <1>10, <1>11, <1>12, <1>13,
             <1>14, <1>15, <1>16, <1>17 DEF Step, install

\* So does everything else.
LEMMA TypeOutside ==
  ASSUME TypeOK, (\E i \in Installer : Crash(i)) \/ ClearLease \/ (\E f \in File : Edit(f))
  PROVE  TypeOK'
  <1> USE NoneAssumption, BoundsAssumption
      DEF TypeOK, Goto, Return, End, Holding, disk, request, plan, copying, history
  <1>1. ASSUME NEW i \in Installer, Crash(i) PROVE TypeOK'
    <2>1. PICK part \in SUBSET {f \in todo[i] : pc[i] = "create" /\ file[f] = None} :
            /\ crashes < MaxCrashes /\ crashes' = crashes + 1
            /\ file' = [f \in File |-> IF f \in part THEN Partial ELSE file[f]]
            /\ left' = left \cup part \cup (IF pc[i] \in {"create", "rollback", "remove"} THEN created[i] ELSE {})
            /\ End(i)
            /\ UNCHANGED <<entry, lease, edits, touched>>
      BY <1>1 DEF Crash
    <2>2. file' \in [File -> Contents] /\ left' \subseteq File
      BY <2>1 DEF Contents
    <2>3. crashes' \in 0..MaxCrashes
      BY <2>1
    <2> QED BY <2>1, <2>2, <2>3, TypeEnd
  <1>2. CASE ClearLease
    BY <1>2 DEF ClearLease
  <1>3. ASSUME NEW f \in File, Edit(f) PROVE TypeOK'
    BY <1>3 DEF Edit, Contents
  <1> QED BY <1>1, <1>2, <1>3

-----------------------------------------------------------------------------
\* An installer's step leaves the others alone.
LEMMA OthersKeep ==
  ASSUME TypeOK, NEW i \in Installer, Step(i) \/ Crash(i), NEW j \in Installer \ {i}
  PROVE  /\ pc'[j] = pc[j] /\ main'[j] = main[j] /\ value'[j] = value[j]
         /\ queue'[j] = queue[j] /\ current'[j] = current[j]
         /\ lock'[j] = lock[j] /\ todo'[j] = todo[j] /\ created'[j] = created[j]
  <1> DEFINE Same == /\ pc'[j] = pc[j] /\ main'[j] = main[j] /\ value'[j] = value[j]
                     /\ queue'[j] = queue[j] /\ current'[j] = current[j]
                     /\ lock'[j] = lock[j] /\ todo'[j] = todo[j] /\ created'[j] = created[j]
  <1>1. ASSUME End(i) PROVE Same
    BY <1>1 DEF End, Return, TypeOK
  <1>2. CASE \E c \in Component, v \in Value : Add(i, c, v)
    BY <1>2 DEF Add, Goto, TypeOK, plan, copying
  <1>3. CASE ensureRequirements(i) \/ NextInstall(i)
    BY <1>3 DEF ensureRequirements, NextInstall, Goto, TypeOK, request, copying
  <1>4. CASE LeaseTaken(i) \/ Crash(i)
    BY <1>4, <1>1 DEF LeaseTaken, Crash
  <1>5. CASE TakeLease(i) \/ AlreadyInstalled(i) \/ Preflight(i) \/ CheckFails(i)
    BY <1>5 DEF TakeLease, AlreadyInstalled, Preflight, CheckFails, Goto, TypeOK, request, plan, copying
  <1>6. CASE \E f \in File : Create(i, f) \/ CreatePart(i, f) \/ Look(i, f) \/ Preserve(i, f)
    BY <1>6 DEF Create, CreatePart, Look, Preserve, Goto, TypeOK, request, plan, copying
  <1>7. CASE InstallFails(i) \/ Record(i) \/ Remove(i) \/ RolledBack(i)
    BY <1>7 DEF InstallFails, Record, Remove, RolledBack, Goto, TypeOK, request, plan, copying
  <1>8. CASE Release(i)
    <2>1. CASE pc[i] = "release" /\ current[i] # main[i]
      <3>1. Goto(i, "release", "next") /\ Return(i) /\ UNCHANGED <<request, queue>>
        BY <1>8, <2>1 DEF Release
      <3> QED BY <3>1 DEF Goto, Return, TypeOK, request
    <2>2. CASE ~(pc[i] = "release" /\ current[i] # main[i])
      BY <1>1, <1>8, <2>2 DEF Release
    <2> QED BY <2>1, <2>2
  <1> QED BY <1>2, <1>3, <1>4, <1>5, <1>6, <1>7, <1>8 DEF Step, install

\* Who does not hold the lease changes nothing on disk.
LEMMA Outsider ==
  ASSUME TypeOK, NEW i \in Installer, Step(i) \/ Crash(i), ~Holding(i)
  PROVE  file' = file /\ entry' = entry
  <1>0. pc[i] \notin {"check", "create", "rollback", "remove", "release", "failed"}
    BY DEF Holding
  <1>1. CASE (\E c \in Component, v \in Value : Add(i, c, v)) \/ ensureRequirements(i) \/ NextInstall(i)
    BY <1>1 DEF Add, ensureRequirements, NextInstall, disk
  <1>2. CASE Crash(i)
    <2>1. PICK part \in SUBSET {f \in todo[i] : pc[i] = "create" /\ file[f] = None} :
            file' = [f \in File |-> IF f \in part THEN Partial ELSE file[f]]
      BY <1>2 DEF Crash
    <2>2. part = {}
      BY <2>1, <1>0
    <2>3. file' = file
      BY <2>1, <2>2 DEF TypeOK
    <2> QED BY <2>3, <1>2 DEF Crash
  <1>3. CASE TakeLease(i) \/ LeaseTaken(i)
    BY <1>3 DEF TakeLease, LeaseTaken, disk
  <1>4. ~AlreadyInstalled(i) /\ ~Preflight(i) /\ ~CheckFails(i)
    BY <1>0 DEF AlreadyInstalled, Preflight, CheckFails, Goto
  <1>5. ~(\E f \in File : Create(i, f) \/ CreatePart(i, f) \/ Look(i, f) \/ Preserve(i, f))
    BY <1>0 DEF Create, CreatePart, Look, Preserve, Goto
  <1>6. ~InstallFails(i) /\ ~Record(i) /\ ~Remove(i) /\ ~RolledBack(i)
    BY <1>0 DEF InstallFails, Record, Remove, RolledBack, Goto
  <1>7. ~Release(i)
    BY <1>0 DEF Release
  <1> QED BY <1>1, <1>2, <1>3, <1>4, <1>5, <1>6, <1>7 DEF Step, install

\* The lease is kept, taken when there is none, or dropped by its holder.
LEMMA LeaseMoves ==
  ASSUME TypeOK, NEW i \in Installer, Step(i) \/ Crash(i)
  PROVE  \/ lease' = lease /\ (Holding(i)' => Holding(i))
         \/ ~lease /\ lease'
         \/ Holding(i) /\ ~(Holding(i)')
  <1>0. pc \in [Installer -> {"idle", "requirements", "next", "lease", "check", "create", "rollback",
                              "remove", "release", "failed"}]
    BY DEF TypeOK
  <1>1. CASE TakeLease(i)
    BY <1>1 DEF TakeLease
  <1>2. CASE Release(i)
    <2>1. pc[i] \in {"release", "failed"}
      BY <1>2 DEF Release
    <2>2. pc'[i] \in {"next", "idle"}
      BY <1>0, <1>2 DEF Release, Goto, End
    <2> QED BY <2>1, <2>2 DEF Holding
  <1>3. CASE ~TakeLease(i) /\ ~Release(i)
    <2>1. lease' = lease
      BY <1>3 DEF Step, install, Crash, Add, ensureRequirements, NextInstall, LeaseTaken,
        AlreadyInstalled, Preflight, CheckFails, Create, CreatePart, Look, Preserve, InstallFails, Record,
        Remove, RolledBack, disk
    <2>2. Holding(i)' => Holding(i)
      <3>1. ASSUME End(i) PROVE pc'[i] = "idle"
        BY <3>1, <1>0 DEF End
      <3>2. CASE (\E c \in Component, v \in Value : Add(i, c, v)) \/ ensureRequirements(i) \/ NextInstall(i)
        BY <3>2, <1>0 DEF Add, ensureRequirements, NextInstall, Goto, Holding
      <3>3. CASE LeaseTaken(i) \/ Crash(i)
        BY <3>1, <3>3 DEF LeaseTaken, Crash, Holding
      <3>4. CASE AlreadyInstalled(i) \/ Preflight(i) \/ CheckFails(i)
        BY <3>4 DEF AlreadyInstalled, Preflight, CheckFails, Goto, Holding
      <3>5. CASE \E f \in File : Create(i, f) \/ CreatePart(i, f) \/ Look(i, f) \/ Preserve(i, f)
        BY <3>5 DEF Create, CreatePart, Look, Preserve, Goto, Holding
      <3>6. CASE InstallFails(i) \/ Record(i) \/ Remove(i) \/ RolledBack(i)
        BY <3>6 DEF InstallFails, Record, Remove, RolledBack, Goto, Holding
      <3> QED BY <1>3, <3>2, <3>3, <3>4, <3>5, <3>6 DEF Step, install
    <2> QED BY <2>1, <2>2
  <1> QED BY <1>1, <1>2, <1>3

LEMMA LeasedStep ==
  ASSUME TypeOK, Leased, NEW i \in Installer, Step(i) \/ Crash(i)
  PROVE  Leased'
  <1>1. \A j \in Installer \ {i} : Holding(j)' <=> Holding(j)
    BY OthersKeep DEF Holding
  <1>2. CASE lease' = lease /\ (Holding(i)' => Holding(i))
    BY <1>1, <1>2 DEF Leased
  <1>3. CASE ~lease /\ lease'
    BY <1>1, <1>3 DEF Leased
  <1>4. CASE Holding(i) /\ ~(Holding(i)')
    BY <1>1, <1>4 DEF Leased
  <1> QED BY <1>2, <1>3, <1>4, LeaseMoves

\* Entries are only added, by their installer.
LEMMA EntryStep ==
  ASSUME TypeOK, Copying, NEW i \in Installer, Step(i) \/ Crash(i)
  PROVE  \/ entry' = entry
         \/ /\ Record(i) /\ entry[current[i]] = None /\ current[i] \in Component /\ value[i] \in Value
            /\ entry' = [entry EXCEPT ![current[i]] = value[i]]
  <1>1. Record(i) \/ entry' = entry
    BY DEF Step, install, Crash, Add, ensureRequirements, NextInstall, TakeLease, LeaseTaken,
      AlreadyInstalled, Preflight, CheckFails, Create, CreatePart, Look, Preserve, InstallFails, Remove,
      RolledBack, Release, disk
  <1>2. CASE Record(i)
    <2>1. pc[i] = "create"
      BY <1>2 DEF Record, Goto
    <2>2. current[i] \in Component /\ value[i] \in Value
      BY <2>1 DEF TypeOK, Holding
    <2> QED BY <1>2, <2>1, <2>2 DEF Record, Copying
  <1> QED BY <1>1, <1>2

LEMMA EntriesStay ==
  ASSUME TypeOK, Copying, NEW i \in Installer, Step(i) \/ Crash(i)
  PROVE  \A c \in Component : entry[c] # None => entry'[c] = entry[c]
  BY EntryStep, NoneAssumption DEF TypeOK

LEMMA CopyingStep ==
  ASSUME TypeOK, Leased, Copying, Copied, NEW i \in Installer, Step(i) \/ Crash(i)
  PROVE  Copying'
  <1> DEFINE At(j) == pc[j] \in {"create", "rollback", "remove"}
  <1> DEFINE Done(j) == /\ lock[j] = entry /\ entry[current[j]] = None
                        /\ \A f \in created[j] \ touched : file[f] = Whole(current[j], value[j])
  <1>0. \A j \in Installer : At(j) => Done(j)
    BY DEF Copying, Copy
  <1>1. touched' = touched
    BY DEF Step, install, Crash, Add, ensureRequirements, NextInstall, TakeLease, LeaseTaken,
      AlreadyInstalled, Preflight, CheckFails, Create, CreatePart, Look, Preserve, InstallFails, Record,
      Remove, RolledBack, Release, history
  <1>2. ASSUME NEW j \in Installer \ {i}, At(j)' PROVE Done(j)'
    <2>1. At(j) /\ Holding(j)
      BY <1>2, OthersKeep DEF Holding
    <2>2. ~Holding(i)
      BY <2>1, <1>2 DEF Leased
    <2>3. file' = file /\ entry' = entry
      BY <2>2, Outsider
    <2> QED BY <1>0, <1>1, <1>2, <2>1, <2>3, OthersKeep
  <1>3. ASSUME At(i)' PROVE Done(i)'
    <2>0. pc \in [Installer -> {"idle", "requirements", "next", "lease", "check", "create", "rollback",
                                "remove", "release", "failed"}]
      BY DEF TypeOK
    <2>1. CASE Preflight(i)
      <3>1. pc[i] = "check" /\ UNCHANGED <<file, entry, current, created>>
        BY <2>1 DEF Preflight, Goto, disk, plan
      <3>2. lock'[i] = entry /\ entry[current[i]] = None
        BY <2>1 DEF Preflight, TypeOK
      <3>3. created[i] = {}
        BY <3>1 DEF Copied
      <3> QED BY <3>1, <3>2, <3>3
    <2>2. ASSUME NEW f \in File, Create(i, f) PROVE Done(i)'
      <3>1. At(i) /\ UNCHANGED <<entry, current, value, lock>>
        BY <2>2 DEF Create, request, plan
      <3>2. /\ file' = [file EXCEPT ![f] = Whole(current[i], value[i])]
            /\ created' = [created EXCEPT ![i] = @ \cup {f}]
        BY <2>2 DEF Create, Copy
      <3>3. file \in [File -> Contents] /\ created \in [Installer -> SUBSET File]
        BY DEF TypeOK
      <3> QED BY <1>0, <1>1, <3>1, <3>2, <3>3
    <2>3. ASSUME NEW f \in File, CreatePart(i, f) PROVE Done(i)'
      <3>1. At(i) /\ UNCHANGED <<entry, current, value, lock, created>>
        BY <2>3 DEF CreatePart, Goto, request, plan, copying
      <3>2. file' = [file EXCEPT ![f] = Partial] /\ file[f] = None
        BY <2>3 DEF CreatePart
      <3>3. file \in [File -> Contents] /\ created \in [Installer -> SUBSET File]
        BY DEF TypeOK
      <3>4. At(i) => current[i] \in Component /\ value[i] \in Value
        BY DEF TypeOK, Holding
      <3>5. Whole(current[i], value[i]) # None
        BY <3>1, <3>4, NoneAssumption DEF Whole
      <3> QED BY <1>0, <1>1, <3>1, <3>2, <3>3, <3>5
    <2>4. ASSUME NEW f \in File, Look(i, f) \/ Preserve(i, f) PROVE Done(i)'
      <3>1. At(i) /\ UNCHANGED <<file, entry, current, value, lock>>
        BY <2>4 DEF Look, Preserve, Goto, request, plan, disk
      <3>2. created'[i] \subseteq created[i]
        BY <2>4 DEF Look, Preserve, TypeOK
      <3> QED BY <1>0, <1>1, <3>1, <3>2
    <2>5. CASE InstallFails(i)
      BY <1>0, <1>1, <2>5 DEF InstallFails, Goto, request, plan, disk, copying
    <2>6. CASE Remove(i)
      <3>1. pc[i] = "remove" /\ UNCHANGED <<entry, current, value, lock>>
        BY <2>6 DEF Remove, Goto, request, plan
      <3>2. looked[i] \in File /\ created'[i] = created[i] \ {looked[i]}
        BY <2>6, <3>1 DEF Remove, TypeOK
      <3>3. \A f \in File \ {looked[i]} : file'[f] = file[f]
        BY <2>6, <3>2 DEF Remove, TypeOK
      <3>4. created[i] \subseteq File
        BY DEF TypeOK
      <3> QED BY <1>0, <1>1, <3>1, <3>2, <3>3, <3>4
    <2>7. CASE Add(i, main'[i], value'[i]) \/ ensureRequirements(i) \/ NextInstall(i)
      BY <1>3, <2>0, <2>7 DEF Add, ensureRequirements, NextInstall, Goto
    <2>71. ~(\E c \in Component, v \in Value : Add(i, c, v))
      BY <1>3, <2>0 DEF Add, Goto
    <2>8. ASSUME End(i) PROVE pc'[i] = "idle"
      BY <2>8, <2>0 DEF End
    <2>9. ~LeaseTaken(i) /\ ~Crash(i)
      BY <1>3, <2>8 DEF LeaseTaken, Crash
    <2>10. ~TakeLease(i) /\ ~AlreadyInstalled(i) /\ ~CheckFails(i) /\ ~Record(i) /\ ~RolledBack(i)
      BY <1>3, <2>0 DEF TakeLease, AlreadyInstalled, CheckFails, Record, RolledBack, Goto
    <2>11. ~Release(i)
      BY <1>3, <2>0, <2>8 DEF Release, Goto
    <2> QED BY <2>1, <2>2, <2>3, <2>4, <2>5, <2>6, <2>7, <2>71, <2>9, <2>10, <2>11 DEF Step, install
  <1>4. \A j \in Installer : At(j)' => Done(j)'
    BY <1>2, <1>3
  <1> QED BY <1>4 DEF Copying, Copy

LEMMA CopiedStep ==
  ASSUME TypeOK, Copied, NEW i \in Installer, Step(i) \/ Crash(i)
  PROVE  Copied'
  <1> DEFINE All(j) == pc[j] = "create" => FilesOf[current[j]] \subseteq todo[j] \cup created[j]
  <1> DEFINE Fresh(j) == pc[j] \in {"idle", "requirements", "next", "lease", "check"} => created[j] = {}
  <1>1. \A j \in Installer \ {i} : All(j)' /\ Fresh(j)'
    BY OthersKeep DEF Copied
  <1>2. All(i)' /\ Fresh(i)'
    <2>0. /\ pc \in [Installer -> {"idle", "requirements", "next", "lease", "check", "create", "rollback",
                                   "remove", "release", "failed"}]
          /\ created \in [Installer -> SUBSET File] /\ todo \in [Installer -> SUBSET File]
          /\ All(i) /\ Fresh(i)
      BY DEF TypeOK, Copied
    <2>1. ASSUME End(i) PROVE pc'[i] = "idle" /\ created'[i] = {}
      BY <2>0, <2>1 DEF End, Return
    <2>2. CASE LeaseTaken(i) \/ Crash(i)
      BY <2>1, <2>2 DEF LeaseTaken, Crash
    <2>3. CASE (\E c \in Component, v \in Value : Add(i, c, v)) \/ ensureRequirements(i) \/ NextInstall(i)
      BY <2>0, <2>3 DEF Add, ensureRequirements, NextInstall, Goto, copying
    <2>4. CASE TakeLease(i) \/ AlreadyInstalled(i) \/ CheckFails(i)
      BY <2>0, <2>4 DEF TakeLease, AlreadyInstalled, CheckFails, Goto, copying
    <2>5. CASE Preflight(i)
      <3>1. pc'[i] = "create" /\ todo'[i] = FilesOf[current[i]] /\ current' = current
        BY <2>0, <2>5 DEF Preflight, Goto, plan
      <3> QED BY <3>1
    <2>6. CASE \E f \in File : Create(i, f)
      <3>1. PICK f \in File : Create(i, f)
        BY <2>6
      <3>2. /\ pc[i] = "create" /\ UNCHANGED <<pc, current>>
            /\ todo'[i] = todo[i] \ {f} /\ created'[i] = created[i] \cup {f}
        BY <2>0, <3>1 DEF Create, plan
      <3> QED BY <2>0, <3>2
    <2>7. CASE \E f \in File : CreatePart(i, f) \/ Look(i, f) \/ Preserve(i, f)
      BY <2>0, <2>7 DEF CreatePart, Look, Preserve, Goto
    <2>8. CASE InstallFails(i) \/ Record(i) \/ Remove(i) \/ RolledBack(i)
      BY <2>0, <2>8 DEF InstallFails, Record, Remove, RolledBack, Goto
    <2>9. CASE Release(i)
      <3>1. created'[i] = {} /\ pc'[i] # "create"
        BY <2>0, <2>1, <2>9 DEF Release, Return, Goto
      <3> QED BY <3>1
    <2> QED BY <2>2, <2>3, <2>4, <2>5, <2>6, <2>7, <2>8, <2>9 DEF Step, install
  <1>3. \A j \in Installer : All(j)' /\ Fresh(j)'
    BY <1>1, <1>2
  <1> QED BY <1>3 DEF Copied

LEMMA RequiredStep ==
  ASSUME TypeOK, Copying, Required, NEW i \in Installer, Step(i) \/ Crash(i)
  PROVE  Required'
  <1> DEFINE Queued(j) ==
        pc[j] \notin {"idle", "requirements"} =>
          /\ queue[j] \subseteq Requires[main[j]]
          /\ \A r \in Requires[main[j]] :
               entry[r] # None \/ r \in queue[j] \/ (pc[j] # "next" /\ r = current[j])
  <1> DEFINE Asked(j) ==
        pc[j] = "lease" \/ Holding(j) =>
          (current[j] = main[j] /\ queue[j] = {}) \/ current[j] \in Requires[main[j]]
  <1> DEFINE Known(j) == pc[j] = "release" => entry[current[j]] # None
  <1>0. \A j \in Installer : Queued(j) /\ Asked(j) /\ Known(j)
    BY DEF Required
  <1>1. \A c \in Component : entry[c] # None => entry'[c] # None
    BY EntriesStay
  <1>2. ASSUME NEW j \in Installer \ {i} PROVE (Queued(j) /\ Asked(j) /\ Known(j))'
    <2>0. /\ pc'[j] = pc[j] /\ main'[j] = main[j] /\ queue'[j] = queue[j] /\ current'[j] = current[j]
          /\ Queued(j) /\ Asked(j) /\ Known(j)
      BY <1>0, OthersKeep
    <2>1. pc[j] \notin {"idle", "requirements"} => Requires[main[j]] \subseteq Component
      BY CatalogAssumption DEF TypeOK
    <2>2. Queued(j)'
      BY <1>1, <2>0, <2>1
    <2>3. Asked(j)'
      BY <2>0 DEF Holding
    <2>4. Known(j)'
      <3>1. pc[j] = "release" => current[j] \in Component
        BY DEF TypeOK, Holding
      <3> QED BY <1>1, <2>0, <3>1
    <2> QED BY <2>2, <2>3, <2>4
  <1>3. (Queued(i) /\ Asked(i) /\ Known(i))'
    <2>0. /\ pc \in [Installer -> {"idle", "requirements", "next", "lease", "check", "create", "rollback",
                                   "remove", "release", "failed"}]
          /\ main \in [Installer -> Component \cup {None}] /\ queue \in [Installer -> SUBSET Component]
          /\ current \in [Installer -> Component \cup {None}]
          /\ Queued(i) /\ Asked(i) /\ Known(i)
      BY <1>0 DEF TypeOK
    <2>01. pc[i] # "idle" => main[i] \in Component /\ Requires[main[i]] \subseteq Component
      BY CatalogAssumption DEF TypeOK
    <2>1. ASSUME End(i) PROVE pc'[i] = "idle"
      BY <2>0, <2>1 DEF End
    <2>2. CASE LeaseTaken(i) \/ Crash(i)
      BY <2>1, <2>2 DEF LeaseTaken, Crash, Holding
    <2>3. CASE \E c \in Component, v \in Value : Add(i, c, v)
      <3>1. pc'[i] = "requirements"
        BY <2>0, <2>3 DEF Add, Goto
      <3> QED BY <3>1 DEF Holding
    <2>4. CASE ensureRequirements(i)
      <3>1. /\ pc'[i] = "next" /\ main' = main /\ entry' = entry
            /\ queue'[i] = {r \in Requires[main[i]] : entry[r] = None}
        BY <2>0, <2>4 DEF ensureRequirements, Goto, request, disk
      <3> QED BY <3>1 DEF Holding
    <2>5. CASE NextInstall(i)
      <3>1. pc[i] = "next" /\ pc'[i] = "lease" /\ main' = main /\ entry' = entry
        BY <2>0, <2>5 DEF NextInstall, Goto, request, disk
      <3>2. PICK c \in (IF queue[i] = {} THEN {main[i]} ELSE queue[i]) :
              current'[i] = c /\ queue'[i] = queue[i] \ {c}
        BY <2>0, <2>5 DEF NextInstall
      <3>3. (c = main[i] /\ queue'[i] = {}) \/ c \in Requires[main[i]]
        BY <2>0, <3>1, <3>2
      <3>4. /\ queue'[i] \subseteq Requires[main[i]]
            /\ \A r \in Requires[main[i]] : entry[r] # None \/ r \in queue'[i] \/ r = c
        BY <2>0, <3>1, <3>2
      <3> QED BY <3>1, <3>2, <3>3, <3>4 DEF Holding
    <2>6. CASE TakeLease(i) \/ Preflight(i) \/ CheckFails(i)
      <3>1. /\ UNCHANGED <<main, queue, current, entry>>
            /\ pc[i] \in {"lease", "check"} /\ pc'[i] \in {"check", "create", "failed"}
        BY <2>0, <2>6 DEF TakeLease, Preflight, CheckFails, Goto, request, plan, disk
      <3> QED BY <2>0, <3>1 DEF Holding
    <2>7. CASE AlreadyInstalled(i)
      <3>1. /\ UNCHANGED <<main, queue, current, entry>>
            /\ pc[i] = "check" /\ pc'[i] = "release" /\ entry[current[i]] = value[i]
        BY <2>0, <2>7 DEF AlreadyInstalled, Goto, request, plan, disk
      <3>2. value[i] # None
        BY <3>1, NoneAssumption DEF TypeOK
      <3> QED BY <2>0, <3>1, <3>2 DEF Holding
    <2>8. CASE \/ \E f \in File : Create(i, f) \/ CreatePart(i, f) \/ Look(i, f) \/ Preserve(i, f)
               \/ InstallFails(i) \/ Remove(i) \/ RolledBack(i)
      <3>1. UNCHANGED <<main, queue, current, entry>>
        BY <2>8 DEF Create, CreatePart, Look, Preserve, InstallFails, Remove, RolledBack, request, plan, disk
      <3>2. /\ pc[i] \in {"create", "rollback", "remove"}
            /\ pc'[i] \in {"create", "rollback", "remove", "failed"}
        BY <2>0, <2>8 DEF Create, CreatePart, Look, Preserve, InstallFails, Remove, RolledBack, Goto
      <3> QED BY <2>0, <3>1, <3>2 DEF Holding
    <2>9. CASE Record(i)
      <3>1. UNCHANGED <<main, queue, current>> /\ pc[i] = "create" /\ pc'[i] = "release"
        BY <2>0, <2>9 DEF Record, Goto, request, plan
      <3>2. /\ entry' = [lock[i] EXCEPT ![current[i]] = value[i]]
            /\ lock \in [Installer -> [Component -> Value \cup {None}]]
            /\ current[i] \in Component /\ value[i] \in Value
        BY <2>9, <3>1 DEF Record, TypeOK, Holding
      <3>3. entry'[current[i]] # None
        BY <3>2, NoneAssumption
      <3>4. /\ queue[i] \subseteq Requires[main[i]]
            /\ \A r \in Requires[main[i]] : entry[r] # None \/ r \in queue[i] \/ r = current[i]
            /\ (current[i] = main[i] /\ queue[i] = {}) \/ current[i] \in Requires[main[i]]
        BY <2>0, <3>1 DEF Holding
      <3>5. \A r \in Requires[main[i]] : entry[r] # None => entry'[r] # None
        BY <1>1, <2>01, <3>1
      <3> QED BY <3>1, <3>3, <3>4, <3>5 DEF Holding
    <2>10. CASE Release(i)
      <3>1. CASE pc[i] = "release" /\ current[i] # main[i]
        <4>1. pc'[i] = "next" /\ UNCHANGED <<main, queue, entry>>
          BY <2>0, <2>10, <3>1 DEF Release, Goto, request
        <4>2. /\ queue[i] \subseteq Requires[main[i]] /\ entry[current[i]] # None
              /\ \A r \in Requires[main[i]] : entry[r] # None \/ r \in queue[i] \/ r = current[i]
          BY <2>0, <3>1
        <4> QED BY <4>1, <4>2 DEF Holding
      <3>2. CASE ~(pc[i] = "release" /\ current[i] # main[i])
        <4>1. pc'[i] = "idle"
          BY <2>1, <2>10, <3>2 DEF Release
        <4> QED BY <4>1 DEF Holding
      <3> QED BY <3>1, <3>2
    <2> QED BY <2>2, <2>3, <2>4, <2>5, <2>6, <2>7, <2>8, <2>9, <2>10 DEF Step, install
  <1>4. \A j \in Installer : (Queued(j) /\ Asked(j) /\ Known(j))'
    BY <1>2, <1>3
  <1> QED BY <1>4 DEF Required

\* Only absent files are written, and only what was copied and looked at removed.
LEMMA FileStep ==
  ASSUME TypeOK, NEW i \in Installer, Step(i) \/ Crash(i), NEW f \in File, file'[f] # file[f]
  PROVE  file[f] = None \/ (Remove(i) /\ f = looked[i])
  <1>1. CASE Crash(i)
    <2>1. PICK part \in SUBSET {g \in todo[i] : pc[i] = "create" /\ file[g] = None} :
            file' = [g \in File |-> IF g \in part THEN Partial ELSE file[g]]
      BY <1>1 DEF Crash
    <2> QED BY <2>1
  <1>2. ASSUME NEW g \in File, Create(i, g) \/ CreatePart(i, g) PROVE file[f] = None
    BY <1>2 DEF Create, CreatePart, TypeOK
  <1>3. CASE Remove(i)
    <2>1. looked[i] \in File
      BY <1>3 DEF Remove, Goto, TypeOK
    <2> QED BY <1>3, <2>1 DEF Remove, TypeOK
  <1>4. CASE /\ ~Crash(i) /\ ~Remove(i)
             /\ ~(\E g \in File : Create(i, g) \/ CreatePart(i, g))
    <2>1. file' = file
      BY <1>4 DEF Step, install, Add, ensureRequirements, NextInstall, TakeLease, LeaseTaken,
        AlreadyInstalled, Preflight, CheckFails, Look, Preserve, InstallFails, Record, RolledBack,
        Release, disk
    <2> QED BY <2>1
  <1> QED BY <1>1, <1>2, <1>3, <1>4

LEMMA TouchedStays ==
  ASSUME NEW i \in Installer, Step(i) \/ Crash(i)
  PROVE  touched' = touched
  BY DEF Step, install, Crash, Add, ensureRequirements, NextInstall, TakeLease, LeaseTaken,
    AlreadyInstalled, Preflight, CheckFails, Create, CreatePart, Look, Preserve, InstallFails, Record,
    Remove, RolledBack, Release, history

LEMMA WholeStep ==
  ASSUME TypeOK, Copying, Copied, RecordedIsWhole, NEW i \in Installer, Step(i) \/ Crash(i)
  PROVE  RecordedIsWhole'
  <1> SUFFICES ASSUME NEW c \in Component, entry'[c] # None, NEW f \in FilesOf[c] \ touched'
               PROVE  file'[f] = Whole(c, entry'[c])
    BY DEF RecordedIsWhole, Whole
  <1>0. f \in File /\ f \notin touched /\ FilesOf[c] \subseteq File
    BY TouchedStays, CatalogAssumption
  <1>1. CASE entry[c] # None
    <2>1. entry'[c] = entry[c] /\ entry[c] \in Value
      BY <1>1, EntriesStay DEF TypeOK
    <2>2. file[f] = Whole(c, entry[c]) /\ file[f] # None
      BY <1>0, <1>1, <2>1, NoneAssumption DEF RecordedIsWhole, Whole
    <2>3. file'[f] = file[f]
      <3>1. SUFFICES ASSUME Remove(i), f = looked[i] PROVE FALSE
        BY <1>0, <2>2, FileStep
      <3>2. pc[i] = "remove" /\ f \in created[i]
        BY <3>1 DEF Remove, Goto, TypeOK
      <3>3. file[f] = Whole(current[i], value[i]) /\ entry[current[i]] = None
        BY <1>0, <3>2 DEF Copying, Copy
      <3> QED BY <1>1, <2>2, <3>3 DEF Whole
    <2> QED BY <2>1, <2>2, <2>3
  <1>2. CASE entry[c] = None
    <2>1. /\ Record(i) /\ c = current[i] /\ entry'[c] = value[i]
      BY <1>2, EntryStep DEF TypeOK
    <2>2. pc[i] = "create" /\ todo[i] = {} /\ file' = file
      BY <2>1 DEF Record, Goto
    <2>3. f \in created[i]
      BY <2>1, <2>2 DEF Copied
    <2>4. file[f] = Copy(i)
      BY <1>0, <2>2, <2>3 DEF Copying
    <2> QED BY <2>1, <2>2, <2>4 DEF Copy
  <1> QED BY <1>1, <1>2

\* What an installer copied it either still has, reported or recorded.
LEMMA OwnedStep ==
  ASSUME TypeOK, Copying, NEW i \in Installer, Step(i) \/ Crash(i),
         NEW f \in created[i], pc[i] \in {"create", "rollback", "remove"}, f \notin touched'
  PROVE  \/ f \in left' \/ file'[f] = None
         \/ pc'[i] \in {"create", "rollback", "remove"} /\ f \in created'[i]
         \/ \E c \in Component : entry'[c] # None /\ file'[f] = Whole(c, entry'[c])
  <1>0. /\ pc \in [Installer -> {"idle", "requirements", "next", "lease", "check", "create", "rollback",
                                 "remove", "release", "failed"}]
        /\ created \in [Installer -> SUBSET File] /\ f \in File /\ f \notin touched
    BY TouchedStays DEF TypeOK
  <1>1. CASE \E g \in File : Create(i, g)
    BY <1>0, <1>1 DEF Create
  <1>2. CASE \E g \in File : CreatePart(i, g) \/ Look(i, g)
    BY <1>0, <1>2 DEF CreatePart, Look, Goto, copying
  <1>3. CASE \E g \in File : Preserve(i, g)
    BY <1>0, <1>3 DEF Preserve
  <1>4. CASE InstallFails(i)
    BY <1>0, <1>4 DEF InstallFails, Goto, copying
  <1>5. CASE Remove(i)
    <2>1. pc'[i] = "rollback" /\ created'[i] = created[i] \ {looked[i]} /\ looked[i] \in File
      BY <1>0, <1>5 DEF Remove, Goto, TypeOK
    <2>2. looked[i] \in left' \/ file' = [file EXCEPT ![looked[i]] = None]
      BY <1>5 DEF Remove
    <2>3. looked[i] \in left' \/ file'[looked[i]] = None
      BY <2>1, <2>2 DEF TypeOK
    <2> QED BY <2>1, <2>3
  <1>6. CASE Record(i)
    <2>1. /\ entry' = [entry EXCEPT ![current[i]] = value[i]] /\ file' = file
          /\ current[i] \in Component /\ value[i] \in Value
      BY <1>6 DEF Record, Goto, Copying, TypeOK, Holding
    <2>2. entry'[current[i]] = value[i] /\ value[i] # None
      BY <2>1, NoneAssumption DEF TypeOK
    <2>3. file[f] = Whole(current[i], value[i])
      BY <1>0 DEF Copying, Copy
    <2> QED BY <2>1, <2>2, <2>3
  <1>7. CASE RolledBack(i)
    BY <1>7 DEF RolledBack, Goto
  <1>8. CASE Crash(i)
    BY <1>8 DEF Crash
  <1>9. ~(\E c \in Component, v \in Value : Add(i, c, v)) /\ ~ensureRequirements(i) /\ ~NextInstall(i)
    BY DEF Add, ensureRequirements, NextInstall, Goto
  <1>10. ~TakeLease(i) /\ ~LeaseTaken(i) /\ ~AlreadyInstalled(i) /\ ~Preflight(i) /\ ~CheckFails(i) /\ ~Release(i)
    BY DEF TakeLease, LeaseTaken, AlreadyInstalled, Preflight, CheckFails, Release, Goto
  <1> QED BY <1>1, <1>2, <1>3, <1>4, <1>5, <1>6, <1>7, <1>8, <1>9, <1>10 DEF Step, install

LEMMA LeftGrows ==
  ASSUME NEW i \in Installer, Step(i) \/ Crash(i)
  PROVE  left \subseteq left'
  <1>1. CASE Crash(i) \/ Remove(i) \/ (\E f \in File : CreatePart(i, f) \/ Preserve(i, f))
    BY <1>1 DEF Crash, Remove, CreatePart, Preserve
  <1>2. CASE ~(Crash(i) \/ Remove(i) \/ (\E f \in File : CreatePart(i, f) \/ Preserve(i, f)))
    <2>1. left' = left
      BY <1>2 DEF Step, install, Add, ensureRequirements, NextInstall, TakeLease, LeaseTaken,
        AlreadyInstalled, Preflight, CheckFails, Create, Look, InstallFails, Record, RolledBack,
        Release, history
    <2> QED BY <2>1
  <1> QED BY <1>1, <1>2

\* What a step writes is copied whole by it, or reported.
LEMMA WrittenStep ==
  ASSUME TypeOK, NEW i \in Installer, Step(i) \/ Crash(i), NEW f \in File,
         file'[f] # file[f], file'[f] # None
  PROVE  f \in left' \/ (pc'[i] = "create" /\ f \in created'[i])
  <1>1. CASE Crash(i)
    <2>1. PICK part \in SUBSET {g \in todo[i] : pc[i] = "create" /\ file[g] = None} :
            /\ file' = [g \in File |-> IF g \in part THEN Partial ELSE file[g]]
            /\ left' = left \cup part \cup (IF pc[i] \in {"create", "rollback", "remove"} THEN created[i] ELSE {})
      BY <1>1 DEF Crash
    <2> QED BY <2>1
  <1>2. ASSUME NEW g \in File, Create(i, g) PROVE pc'[i] = "create" /\ f \in created'[i]
    BY <1>2 DEF Create, TypeOK
  <1>3. ASSUME NEW g \in File, CreatePart(i, g) PROVE f \in left'
    BY <1>3 DEF CreatePart, TypeOK
  <1>4. ~Remove(i)
    BY DEF Remove, Goto, TypeOK
  <1>5. CASE ~Crash(i) /\ ~(\E g \in File : Create(i, g) \/ CreatePart(i, g))
    <2>1. file' = file
      BY <1>4, <1>5 DEF Step, install, Add, ensureRequirements, NextInstall, TakeLease, LeaseTaken,
        AlreadyInstalled, Preflight, CheckFails, Look, Preserve, InstallFails, Record, RolledBack,
        Release, disk
    <2> QED BY <2>1
  <1> QED BY <1>1, <1>2, <1>3, <1>5

LEMMA LeftoverStep ==
  ASSUME TypeOK, Copying, LeftoversAreReported, NEW i \in Installer, Step(i) \/ Crash(i)
  PROVE  LeftoversAreReported'
  <1> SUFFICES ASSUME NEW f \in File, f \notin left', f \notin touched', file'[f] \notin {None, User}
               PROVE  \/ \E c \in Component : entry'[c] # None /\ file'[f] = Whole(c, entry'[c])
                      \/ \E j \in Installer : pc'[j] \in {"create", "rollback", "remove"} /\ f \in created'[j]
    BY DEF LeftoversAreReported, Whole
  <1>1. f \notin left /\ f \notin touched
    BY LeftGrows, TouchedStays
  <1>2. CASE file'[f] # file[f]
    BY <1>2, WrittenStep
  <1>3. CASE file'[f] = file[f]
    <2>1. CASE \E c \in Component : entry[c] # None /\ file[f] = Whole(c, entry[c])
      <3>1. PICK c \in Component : entry[c] # None /\ file[f] = Whole(c, entry[c])
        BY <2>1
      <3>2. entry'[c] = entry[c]
        BY <3>1, EntriesStay
      <3> QED BY <1>3, <3>1, <3>2
    <2>2. CASE \E j \in Installer : pc[j] \in {"create", "rollback", "remove"} /\ f \in created[j]
      <3>1. PICK j \in Installer : pc[j] \in {"create", "rollback", "remove"} /\ f \in created[j]
        BY <2>2
      <3>2. CASE j = i
        BY <3>1, <3>2, OwnedStep
      <3>3. CASE j # i
        <4>1. pc'[j] = pc[j] /\ created'[j] = created[j]
          BY <3>3, OthersKeep
        <4> QED BY <3>1, <4>1
      <3> QED BY <3>2, <3>3
    <2> QED BY <1>1, <1>3, <2>1, <2>2 DEF LeftoversAreReported
  <1> QED BY <1>2, <1>3

-----------------------------------------------------------------------------
\* A user, and who clears a lease, touch nothing an installer relies on.
LEMMA OutsideStep ==
  ASSUME IInv, ClearLease \/ (\E f \in File : Edit(f))
  PROVE  IInv'
  <1> USE DEF IInv
  <1>1. TypeOK'
    BY TypeOutside
  <1>2. CASE ClearLease
    <2>1. /\ UNCHANGED <<file, entry, pc, main, value, queue, current, lock, todo, created, left, touched>>
          /\ \A i \in Installer : ~Holding(i)
      BY <1>2 DEF ClearLease, request, plan, copying, history
    <2>2. Leased'
      BY <2>1 DEF Leased, Holding
    <2>3. Copying' /\ Copied'
      BY <2>1 DEF Copying, Copied, Copy
    <2>4. Required'
      BY <2>1 DEF Required, Holding
    <2>5. RecordedIsWhole' /\ LeftoversAreReported'
      BY <2>1 DEF RecordedIsWhole, LeftoversAreReported
    <2> QED BY <1>1, <2>2, <2>3, <2>4, <2>5
  <1>3. ASSUME NEW f \in File, Edit(f) PROVE IInv'
    <2>0. UNCHANGED lease
      BY <1>3 DEF Edit
    <2>1. /\ UNCHANGED <<entry, pc, main, value, queue, current, lock, todo, created, left>>
          /\ touched' = touched \cup {f} /\ \A g \in File \ {f} : file'[g] = file[g]
      BY <1>3 DEF Edit, request, plan, copying, TypeOK
    <2>2. Leased'
      BY <2>0, <2>1 DEF Leased, Holding
    <2>3. Copied' /\ Required'
      BY <2>1 DEF Copied, Required, Holding
    <2>4. Copying'
      <3>1. \A i \in Installer : created[i] \subseteq File
        BY DEF TypeOK
      <3> QED BY <2>1, <3>1 DEF Copying, Copy
    <2>5. RecordedIsWhole'
      <3>1. \A c \in Component : FilesOf[c] \subseteq File
        BY CatalogAssumption
      <3> QED BY <2>1, <3>1 DEF RecordedIsWhole
    <2>6. LeftoversAreReported'
      BY <2>1 DEF LeftoversAreReported
    <2> QED BY <1>1, <2>2, <2>3, <2>4, <2>5, <2>6
  <1> QED BY <1>2, <1>3

LEMMA Inductive ==
  ASSUME IInv, [Next]_vars
  PROVE  IInv'
  <1>1. ASSUME NEW i \in Installer, Step(i) \/ Crash(i) PROVE IInv'
    <2>1. TypeOK'
      BY <1>1, TypeStep, TypeOutside DEF IInv
    <2>2. Leased'
      BY <1>1, LeasedStep DEF IInv
    <2>3. Copying'
      BY <1>1, CopyingStep DEF IInv
    <2>4. Copied'
      BY <1>1, CopiedStep DEF IInv
    <2>5. Required'
      BY <1>1, RequiredStep DEF IInv
    <2>6. RecordedIsWhole'
      BY <1>1, WholeStep DEF IInv
    <2>7. LeftoversAreReported'
      BY <1>1, LeftoverStep DEF IInv
    <2> QED BY <2>1, <2>2, <2>3, <2>4, <2>5, <2>6, <2>7 DEF IInv
  <1>2. CASE ClearLease \/ (\E f \in File : Edit(f))
    BY <1>2, OutsideStep
  <1>3. CASE UNCHANGED vars
    BY <1>3 DEF vars, disk, request, plan, copying, history, IInv, TypeOK, Leased, Copying, Copied,
      Required, RecordedIsWhole, LeftoversAreReported, Holding, Copy
  <1> QED BY <1>1, <1>2, <1>3 DEF Next, Step

LEMMA IInvAlways == Spec => []IInv
  BY Initially, Inductive, PTL DEF Spec

\* Every variable keeps its type.
THEOREM TypeCorrect == Spec => []TypeOK
  BY IInvAlways, PTL DEF IInv

\* However many installers fail, crash and race, what is recorded as installed
\* is whole unless a user changed it.
THEOREM RecordedIsAlwaysWhole == Spec => []RecordedIsWhole
  BY IInvAlways, PTL DEF IInv

\* A copy that no entry accounts for is an installer's, or was reported.
THEOREM LeftoversAreAlwaysReported == Spec => []LeftoversAreReported
  BY IInvAlways, PTL DEF IInv

\* The component lock is the registry: entries are added one at a time, never
\* changed, and only after what they require.
THEOREM LockImplementsRegistry == Spec => LockIsRegistry
  <1>1. Init => Registry!Init
    BY DEF Init, NoEntry, Registry!Init
  <1>2. ASSUME IInv, [Next]_vars PROVE [Registry!Next]_entry
    <2>1. CASE ClearLease \/ (\E f \in File : Edit(f)) \/ UNCHANGED vars
      BY <2>1 DEF ClearLease, Edit, vars, disk
    <2>2. ASSUME NEW i \in Installer, Step(i) \/ Crash(i), entry' # entry PROVE Registry!Next
      <3>1. /\ Record(i) /\ entry[current[i]] = None /\ current[i] \in Component /\ value[i] \in Value
            /\ entry' = [entry EXCEPT ![current[i]] = value[i]]
        BY <1>2, <2>2, EntryStep DEF IInv
      <3>2. pc[i] = "create"
        BY <3>1 DEF Record, Goto
      <3>3. main[i] \in Component
        BY <1>2, <3>2 DEF IInv, TypeOK
      <3>4. /\ (current[i] = main[i] /\ queue[i] = {}) \/ current[i] \in Requires[main[i]]
            /\ \A r \in Requires[main[i]] : entry[r] # None \/ r \in queue[i] \/ r = current[i]
        BY <1>2, <3>2 DEF IInv, Required, Holding
      <3>5. \A r \in Requires[current[i]] : entry[r] # None
        <4>1. CASE current[i] \in Requires[main[i]]
          BY <3>3, <4>1, CatalogAssumption
        <4>2. CASE current[i] = main[i] /\ queue[i] = {}
          <5>1. main[i] \notin Requires[main[i]]
            BY <3>3, CatalogAssumption
          <5> QED BY <3>4, <4>2, <5>1
        <4> QED BY <3>4, <4>1, <4>2
      <3>6. Registry!Install(current[i], value[i])
        BY <3>1, <3>5 DEF Registry!Install
      <3> QED BY <3>1, <3>6 DEF Registry!Next
    <2> QED BY <1>2, <2>1, <2>2 DEF Next, Step
  <1> QED BY <1>1, <1>2, IInvAlways, PTL DEF Spec, LockIsRegistry, Registry!Spec
=============================================================================
