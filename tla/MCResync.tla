------------------------------ MODULE MCResync ------------------------------
(* The resync tool beside a cluster. *)
EXTENDS Resync, TLC

ResyncSymmetry == Permutations(Cluster) \cup Permutations(Keys)
=============================================================================
