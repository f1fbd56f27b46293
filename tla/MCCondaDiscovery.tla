--------------------------- MODULE MCCondaDiscovery ---------------------------
(* An instance of CondaDiscovery for TLC: every environment was created by     *)
(* one install.                                                                *)
EXTENDS CondaDiscovery

TheInstall == [p \in Prefixes |-> "conda"]
=============================================================================
