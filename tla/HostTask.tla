------------------------------- MODULE HostTask -------------------------------
(***************************************************************************)
(* What a native.begin promises of a task that goes by its token, however  *)
(* the session, its worker and Word end and whatever tasks with chosen     *)
(* names do: the worker has the task at most once, the task's completion   *)
(* settles once, and "done" and "forgotten" are said only of a task that   *)
(* the worker does not have any more.                                      *)
(***************************************************************************)
CONSTANT Caller \* the begins, and the tasks they begin

VARIABLES
  task, \* "none" until the worker reads the begin, "owed" while it has the task, "over"
  told, \* what the completion says: "none" before there is one, and "open"
  word  \* Word is there

vars == <<task, told, word>>

Init ==
  /\ task = [c \in Caller |-> "none"]
  /\ told = [c \in Caller |-> "none"]
  /\ word = TRUE

Accept(c) ==
  /\ task[c] = "none"
  /\ task' = [task EXCEPT ![c] = "owed"]
  /\ UNCHANGED <<told, word>>

\* One is done, refused or not delivered; or all are lost with the worker, and
\* Word is when the worker is killed.
End(S) ==
  /\ \A c \in S : task[c] # "over"
  /\ task' = [c \in Caller |-> IF c \in S THEN "over" ELSE task[c]]
  /\ word' \in {word, FALSE}
  /\ UNCHANGED told

Open(c) ==
  /\ task[c] # "none" /\ told[c] = "none"
  /\ told' = [told EXCEPT ![c] = "open"]
  /\ UNCHANGED <<task, word>>

Settle(c) == \E how \in {"done", "forgotten"} :
  /\ task[c] = "over" /\ told[c] = "open"
  /\ told' = [told EXCEPT ![c] = how]
  /\ UNCHANGED <<task, word>>

WordEnds == word /\ word' = FALSE /\ UNCHANGED <<task, told>>

\* Who waits for a completion when Word is seen to be gone waits no more.
SeeWordEnd ==
  /\ ~word
  /\ told' = [c \in Caller |-> IF told[c] = "open" THEN "word_exited" ELSE told[c]]
  /\ UNCHANGED <<task, word>>

Next ==
  \/ \E c \in Caller : Accept(c) \/ Open(c) \/ Settle(c)
  \/ \E S \in SUBSET Caller : End(S)
  \/ WordEnds \/ SeeWordEnd

Spec == Init /\ [][Next]_vars
=============================================================================
