------------------------ MODULE MCRefreshCoordinator ------------------------
(* Instances of RefreshCoordinator for TLC.                                 *)
EXTENDS RefreshCoordinator, TLC
=============================================================================
