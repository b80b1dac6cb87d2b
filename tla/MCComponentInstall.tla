------------------------- MODULE MCComponentInstall -------------------------
(* An instance of ComponentInstall: two components that share a requirement, *)
(* one of them with two files; Edit brings in what a user already has.       *)
EXTENDS ComponentInstall, TLC
CONSTANTS shared, one, two
MCRequires == [c \in Component |-> IF c = shared THEN {} ELSE {shared}]
MCFilesOf == [c \in Component |-> IF c = two THEN {"a", "b"} ELSE IF c = one THEN {"c"} ELSE {"d"}]
Symmetry == Permutations(Installer) \cup Permutations(Value)
MCInit == Init /\ file = [f \in File |-> None]
MCSpec == MCInit /\ [][Next]_vars
=============================================================================
