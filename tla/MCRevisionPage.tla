--------------------------- MODULE MCRevisionPage ---------------------------
(* Instances of RevisionPage for TLC.                                      *)
EXTENDS RevisionPage, TLC

Interchangeable ==
    Permutations(Parts) \cup Permutations(Values) \cup Permutations(Lists)
=============================================================================
