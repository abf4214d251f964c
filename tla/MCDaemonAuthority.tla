-------------------------- MODULE MCDaemonAuthority --------------------------
(* Small instances of DaemonAuthority.  Daemons and frontends are alike.    *)
EXTENDS DaemonAuthority, TLC

Symmetric == Permutations(Daemon) \cup Permutations(Frontend)
=============================================================================
