-------------------------- MODULE MCResourceState --------------------------
(* Transactions of API requests and state watchers on one resource. *)
EXTENDS ResourceState, TLC

ClientSymmetry == Permutations(Clients)
=============================================================================
