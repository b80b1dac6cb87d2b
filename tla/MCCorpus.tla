------------------------------ MODULE MCCorpus ------------------------------
(* An instance of Corpus: cases, contents and directories are interchangeable. *)
EXTENDS Corpus, TLC
Symmetry == Permutations(Case) \cup Permutations(Content) \cup Permutations(Run) \cup Permutations(Runner)
=============================================================================
