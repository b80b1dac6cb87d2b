-------------------------- MODULE MCWorkspaceBuild --------------------------
(* Instances of WorkspaceBuild.  Contents are interchangeable, and those of *)
(* different files are never compared: all files may begin with the same.   *)
EXTENDS WorkspaceBuild, TLC
Symmetry == Permutations(Data)
MCInit == Init /\ \E d \in Data : \A f \in File : disk[f].data = d
MCSpec == MCInit /\ [][Next]_vars
=============================================================================
