---------------------------- MODULE MCHudBroadcast ----------------------------
(* Small instances of HudBroadcast.  Asks and HUDs are alike.               *)
EXTENDS HudBroadcast, TLC

Symmetric == Permutations(Ask) \cup Permutations(Hud)
=============================================================================
