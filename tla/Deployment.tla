----------------------------- MODULE Deployment -----------------------------
(***************************************************************************)
(* What a deployment promises about a user's Word template, whatever the   *)
(* number of plans, processes and crashes: WordUp changes the target only  *)
(* by compare-and-swap, from exactly the bytes it was staged against to    *)
(* exactly the tested artifact, with the replaced bytes kept first, or by  *)
(* the exact reverse.  The comparison and the swap are two steps: a plan   *)
(* that has found what it expects claims the target, alone, until it has   *)
(* replaced it.  What the user saves before a claim is never overwritten;  *)
(* what the user saves under one is, and that is all the code can promise. *)
(***************************************************************************)
CONSTANTS
  Plan,      \* activation plans, one release-* directory each
  Target,    \* installed templates
  Content,   \* file contents; a content stands for its SHA-256
  Passing,   \* contents with fresh, passing native evidence
  TargetOf,  \* [Plan -> Target]
  None       \* an absent file ("new-file" as a plan's prior hash)

VARIABLES
  file,      \* [Target -> Content or None]
  writer,    \* [Target -> who last wrote it]
  origin,    \* [Plan -> what was staged: the artifact and the bytes it replaces]
  kept,      \* [Plan -> previous.dotm]
  replacing, \* plans that found their prior in the target and may replace it
  undoing    \* plans that found their artifact there and may put the prior back

vars == <<file, writer, origin, kept, replacing, undoing>>

Unstaged == [staged |-> FALSE, sha |-> None, prior |-> None]

Init ==
  /\ file \in [Target -> Content \cup {None}]
  /\ origin = [p \in Plan |-> Unstaged]
  /\ kept = [p \in Plan |-> None]
  /\ writer = [t \in Target |-> "user"]
  /\ replacing = {} /\ undoing = {}

Stage(p) == \E c \in Passing :
  /\ ~origin[p].staged
  /\ origin' = [origin EXCEPT ![p] =
       [staged |-> TRUE, sha |-> c, prior |-> file[TargetOf[p]]]]
  /\ UNCHANGED <<file, writer, kept, replacing, undoing>>

Unclaimed(t) == \A p \in replacing \cup undoing : TargetOf[p] # t

ClaimToReplace(p) ==
  /\ origin[p].staged
  /\ Unclaimed(TargetOf[p])
  /\ file[TargetOf[p]] = origin[p].prior
  /\ replacing' = replacing \cup {p}
  /\ UNCHANGED <<file, writer, origin, kept, undoing>>

ClaimToUndo(p) ==
  /\ origin[p].staged
  /\ Unclaimed(TargetOf[p])
  /\ file[TargetOf[p]] = origin[p].sha
  /\ undoing' = undoing \cup {p}
  /\ UNCHANGED <<file, writer, origin, kept, replacing>>

Keep(p) ==
  /\ p \in replacing
  /\ kept' = [kept EXCEPT ![p] = origin[p].prior]
  /\ UNCHANGED <<file, writer, origin, replacing, undoing>>

Replace(p) ==
  /\ p \in replacing
  /\ kept[p] = origin[p].prior
  /\ file' = [file EXCEPT ![TargetOf[p]] = origin[p].sha]
  /\ writer' = [writer EXCEPT ![TargetOf[p]] = "wordup"]
  /\ replacing' = replacing \ {p}
  /\ UNCHANGED <<origin, kept, undoing>>

Undo(p) ==
  /\ p \in undoing
  /\ origin[p].prior # None
  /\ kept[p] = origin[p].prior
  /\ file' = [file EXCEPT ![TargetOf[p]] = origin[p].prior]
  /\ writer' = [writer EXCEPT ![TargetOf[p]] = "wordup"]
  /\ undoing' = undoing \ {p}
  /\ UNCHANGED <<origin, kept, replacing>>

\* An error or a crash between check and replacement.
Drop(p) ==
  /\ replacing' = replacing \ {p}
  /\ undoing' = undoing \ {p}
  /\ UNCHANGED <<file, writer, origin, kept>>

UserEdit(t) == \E c \in Content \cup {None} :
  /\ file' = [file EXCEPT ![t] = c]
  /\ writer' = [writer EXCEPT ![t] = "user"]
  /\ UNCHANGED <<origin, kept, replacing, undoing>>

Next ==
  \/ \E p \in Plan : Stage(p) \/ ClaimToReplace(p) \/ ClaimToUndo(p) \/ Drop(p)
  \/ \E p \in Plan : Keep(p) \/ Replace(p) \/ Undo(p)
  \/ \E t \in Target : UserEdit(t)

Spec == Init /\ [][Next]_vars
=============================================================================
