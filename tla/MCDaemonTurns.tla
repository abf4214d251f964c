---------------------------- MODULE MCDaemonTurns ----------------------------
(* An instance of DaemonTurns for TLC.                                     *)
EXTENDS DaemonTurns, TLC

CONSTANTS t1, t2, s1

(* Two turns that compete for the lock of one session.                     *)
MCOneSession == (t1 :> s1) @@ (t2 :> s1)
=============================================================================
