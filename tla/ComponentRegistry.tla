------------------------- MODULE ComponentRegistry -------------------------
(***************************************************************************)
(* What the component lock promises: an entry appears once, with all the   *)
(* component requires already there, and is never lost or changed again.   *)
(***************************************************************************)
CONSTANTS Component, Value, None, Requires

VARIABLE entry \* the values a component was installed with, or None

Init == entry = [c \in Component |-> None]

Install(c, v) ==
  /\ entry[c] = None
  /\ \A r \in Requires[c] : entry[r] # None
  /\ entry' = [entry EXCEPT ![c] = v]

Next == \E c \in Component, v \in Value : Install(c, v)

Spec == Init /\ [][Next]_entry
=============================================================================
