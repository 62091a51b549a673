--------------------------- MODULE MCSyncPipeline ---------------------------
(* The event pipeline of a cluster of two processes. *)
EXTENDS SyncPipeline, TLC

\* Processes and resources are interchangeable (for the safety run only).
PipelineSymmetry == Permutations(Users) \cup Permutations(Keys)
=============================================================================
