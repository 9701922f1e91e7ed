---------------------------- MODULE MCEventLog ----------------------------
(* Instance of EventLog for TLC. *)
EXTENDS EventLog

(* DEBUG, which no sink takes, INFO and WARN. *)
MCRanks == {-1, 0, 1}

(* Out of range on both sides, none, one, and more than a log holds. *)
MCCounts == {-1, 0, 1, 2, 3, 4}
=============================================================================
