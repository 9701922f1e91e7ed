---------------------------- MODULE MCConfigFile ----------------------------
(* Instance of ConfigFile for TLC. *)
EXTENDS ConfigFile, TLC

Symmetry == Permutations(Inodes) \cup Permutations(Clis)
=============================================================================
