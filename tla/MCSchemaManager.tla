-------------------------- MODULE MCSchemaManager --------------------------
(* Every way three schemas in two files can refer to one another. *)
EXTENDS SchemaManager

TwoFiles == <<1, 2>>
=============================================================================
