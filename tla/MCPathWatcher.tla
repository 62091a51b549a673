--------------------------- MODULE MCPathWatcher ---------------------------
(* Two processes that watch one path. *)
EXTENDS PathWatcher

AnyStored == {RevisionCurrent, 0}
=============================================================================
