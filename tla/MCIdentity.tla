------------------------------ MODULE MCIdentity ------------------------------
(***************************************************************************)
(* Keys are interchangeable.                                               *)
(***************************************************************************)
EXTENDS Identity, TLC

KeySymmetry == Permutations(Key)
=============================================================================
