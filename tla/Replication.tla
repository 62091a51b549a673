---------------------------- MODULE Replication ----------------------------
(***************************************************************************)
(* What gohan's sync layer promises about the copy of a resource in etcd:  *)
(* the copy only ever moves forward through the committed versions of the  *)
(* resource.  Versions of a resource are numbered by its committed writes. *)
(***************************************************************************)
EXTENDS Naturals

CONSTANT Keys

VARIABLES
  source,   \* per resource: the number of its last committed write
  copy      \* per resource: the number of the write the copy shows

repVars == <<source, copy>>

RepInit ==
  /\ source = [k \in Keys |-> 0]
  /\ copy = [k \in Keys |-> 0]

\* A transaction commits writes of some resources.
Write ==
  /\ source' \in [Keys -> Nat]
  /\ \A k \in Keys : source'[k] >= source[k]
  /\ UNCHANGED copy

\* The copy of k is brought forward, not necessarily to the last version.
Propagate(k) ==
  /\ \E v \in copy[k] .. source[k] : copy' = [copy EXCEPT ![k] = v]
  /\ UNCHANGED source

RepNext ==
  \/ Write
  \/ \E k \in Keys : Propagate(k)

RepSpec == RepInit /\ [][RepNext]_repVars
=============================================================================
