--------------------------- MODULE MCRefreshServer ---------------------------
(* Instances of RefreshServer for TLC.                                      *)
EXTENDS RefreshServer, TLC

(* The safety properties treat requests alike, and options alike.           *)
Symmetry == Permutations(Requests) \cup Permutations(Options)
=============================================================================
