--------------------------- MODULE MCSyncWatcher ---------------------------
(* A small cluster. *)
EXTENDS SyncWatcher
=============================================================================
