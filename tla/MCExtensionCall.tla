-------------------------- MODULE MCExtensionCall --------------------------
(* The calls of one request into its VM. *)
EXTENDS ExtensionCall
=============================================================================
