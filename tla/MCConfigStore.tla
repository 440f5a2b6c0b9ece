---------------------------- MODULE MCConfigStore ----------------------------
(* Two users, two tokens, one good and one bad port entry.                 *)
EXTENDS ConfigStore, TLC

Symmetry == Permutations(Request)
=============================================================================
