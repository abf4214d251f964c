------------------------------- MODULE EventLog -------------------------------
(***************************************************************************)
(* What an event stream promises its reader: the events of a session reach *)
(* it one by one, in the order they were recorded, none left out and none  *)
(* twice.  Once a burst was larger than a bounded buffer some may be left  *)
(* out; order and "not twice" still hold.  Events are named by their       *)
(* sequence ids 1, 2, ...                                                  *)
(***************************************************************************)
EXTENDS Naturals

VARIABLES
  recorded,   \* the last sequence id recorded
  delivered,  \* the last sequence id delivered
  lossy       \* whether a buffer was too small for a burst

Init == recorded = 0 /\ delivered = 0 /\ lossy = FALSE

Record ==
  /\ recorded' = recorded + 1
  /\ lossy' \in {lossy, TRUE}
  /\ UNCHANGED delivered

Deliver ==
  /\ delivered < recorded
  /\ delivered' = delivered + 1
  /\ UNCHANGED <<recorded, lossy>>

Overflow ==
  /\ lossy' = TRUE
  /\ UNCHANGED <<recorded, delivered>>

(* Some events before the one delivered are left out.                      *)
Skip ==
  /\ lossy
  /\ delivered' \in (delivered + 1)..recorded
  /\ UNCHANGED <<recorded, lossy>>

Spec == Init /\ [][Record \/ Deliver \/ Overflow \/ Skip]_<<recorded, delivered, lossy>>
=============================================================================
