---------------------------- MODULE MCSeatSystem ---------------------------
(* SeatSystem on small instances. *)
EXTENDS SeatSystem

CONSTANTS l1, l2
=============================================================================
