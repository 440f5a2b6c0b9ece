------------------------------ MODULE MCMetrics ------------------------------
(***************************************************************************)
(* Small instances of Metrics.                                             *)
(***************************************************************************)
EXTENDS Metrics, TLC

Symmetry == Permutations(Tunnel) \cup Permutations(Proxy)
=============================================================================
