--------------------------- MODULE MCAdminSession ---------------------------
(* The instance of AdminSession for TLC.                                   *)
EXTENDS AdminSession, TLC

Interchangeable == Permutations(Tabs) \cup Permutations(Calls)
=============================================================================
