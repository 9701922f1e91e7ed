------------------------------ MODULE MCKiller ------------------------------
(* Instance of Killer for TLC. *)
EXTENDS Killer
=============================================================================
