--------------------------- MODULE MCStateWatcher ---------------------------
(* Two processes with a state watcher, and a client of the API. *)
EXTENDS StateWatcher
=============================================================================
