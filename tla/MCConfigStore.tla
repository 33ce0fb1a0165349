--------------------------- MODULE MCConfigStore ---------------------------
(* Small instances of ConfigStore for TLC. *)
EXTENDS ConfigStore, TLC

\* The goroutines that change the configuration are interchangeable.
Symmetry == Permutations(Admins)
=============================================================================
