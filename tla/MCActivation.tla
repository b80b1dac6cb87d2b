---------------------------- MODULE MCActivation ----------------------------
(* Instances of Activation: every plan delivers to one target. *)
EXTENDS Activation, TLC
CONSTANTS t1
OneTarget == [p \in Plan |-> t1]
AnyUserContent == Content \cup {None}
Symmetry == Permutations(Proc) \cup Permutations(Plan)
=============================================================================
