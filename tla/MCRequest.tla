----------------------------- MODULE MCRequest -----------------------------
(* One resource with a plain and a nested field. *)
EXTENDS Request
=============================================================================
