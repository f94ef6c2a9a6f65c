--------------------------- MODULE MCConfigStore ---------------------------
(* Model checking of ConfigStore: the constants are given by the .cfg files. *)
EXTENDS ConfigStore, TLC

ConfigSymmetry == Permutations(Configs)
=============================================================================
