----------------------------- MODULE MCEtcdLock -----------------------------
(* One user per process: SyncWriter, PathWatcher, StateWatcher, SyncWatcher. *)
EXTENDS EtcdLock

SameProc == [u \in Users |-> u]
=============================================================================
