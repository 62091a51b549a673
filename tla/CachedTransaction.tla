------------------------- MODULE CachedTransaction -------------------------
(***************************************************************************)
(* The transaction a request runs in: the query cache of                   *)
(* db/sql/cached_transaction.go over a transaction of the database, beside *)
(* other processes that commit changes to the same resource.               *)
(*                                                                         *)
(* One resource is modelled, with the fields of a row as a function.  The  *)
(* database is external: InnoDB's snapshots and row locks as far as List   *)
(* and LockList depend on them.                                            *)
(***************************************************************************)
EXTENDS Naturals

CONSTANTS
  Fields,      \* the fields of the resource
  NoRow,       \* the resource does not exist
  NoWrite,     \* the transaction has not written / read anything
  MaxOthers    \* bound: how often other processes commit a change

VARIABLES
  isolation,   \* the isolation level of the transaction
  row,         \* the committed row
  own,         \* the row as the transaction has written it, or NoWrite
  snapshot,    \* the row at the transaction's first plain read, or NoWrite
  locked,      \* the transaction has a lock on the row
  cache,       \* QueryCache
  others       \* how many changes other processes have committed

dbVars == <<row, own, snapshot, locked, others>>
txVars == <<isolation, dbVars, cache>>

Isolations == {"read committed", "repeatable read", "serializable"}
Rows == [Fields -> Nat]

\* createKey: queries for the resource differ in whether they join its relations.
Keys == {"plain", "join"}
NoCache == [k \in {} |-> NoWrite]

\* A new transaction of the given isolation level.
InitTx(level, r) ==
  /\ isolation = level
  /\ row = r
  /\ own = NoWrite /\ snapshot = NoWrite /\ locked = FALSE
  /\ cache = NoCache
  /\ others = 0

-----------------------------------------------------------------------------
(* The database *)

Written == own # NoWrite

\* What a locking read returns: the latest version.
Latest == IF Written THEN own ELSE row

\* What a plain read returns: at "repeatable read" the version of the first one.
PlainRead ==
  IF ~Written /\ isolation = "repeatable read" /\ snapshot # NoWrite THEN snapshot ELSE Latest

\* A read outside the cache.
DbRead(lock) ==
  /\ locked' = (locked \/ lock \/ isolation = "serializable")
  /\ snapshot' = IF lock \/ snapshot # NoWrite \/ isolation # "repeatable read"
                 THEN snapshot ELSE row
  /\ UNCHANGED <<isolation, row, own, others>>

\* Another process changes all the fields, or creates or deletes the resource, in
\* a transaction of its own.
OtherCommits ==
  /\ others < MaxOthers
  /\ ~locked
  /\ others' = others + 1
  /\ row' \in {NoRow, [f \in Fields |-> 100 + others]}
  /\ UNCHANGED <<isolation, own, snapshot, locked, cache>>

-----------------------------------------------------------------------------
(* CachedTransaction *)

\* BeginTx: only these isolation levels have the cache.
IsCached == isolation \in {"repeatable read", "serializable"}

\* Mutant: a locking read is served by an entry of a plain one.
CacheHitUnlocked(key, lock) == key \in DOMAIN cache

\* The cache answers the query; an entry of List does not answer LockList.
CacheHit(key, lock) == key \in DOMAIN cache /\ (lock => cache[key].locked)

\* List (lock = FALSE) and LockList (lock = TRUE), and Fetch and LockFetch on them.
Found(key, lock) ==
  IF CacheHit(key, lock) THEN cache[key].row ELSE IF lock THEN Latest ELSE PlainRead

\* saveCache, for a query the cache has not answered.
Saved(key, lock) ==
  IF CacheHit(key, lock) \/ ~IsCached THEN cache
  ELSE [k \in DOMAIN cache \cup {key} |->
          IF k = key THEN [row |-> Found(key, lock), locked |-> lock] ELSE cache[k]]

\* The query's effect on the database, if it gets there.
ReadThrough(key, lock) ==
  IF CacheHit(key, lock) THEN UNCHANGED <<isolation, dbVars>> ELSE DbRead(lock)

\* Mutant: a write leaves the cache alone.
WriteKeepsCache(r) ==
  /\ own' = r
  /\ locked' = TRUE
  /\ UNCHANGED <<isolation, row, snapshot, cache, others>>

\* Create, Update, StateUpdate, Delete, DeleteFilter and Exec, and Query, whose
\* statement may be any.
Write(r) ==
  /\ own' = r
  /\ locked' = TRUE
  /\ cache' = NoCache
  /\ UNCHANGED <<isolation, row, snapshot, others>>

\* The transaction has ended; the next one begins with nothing.
EndTx ==
  /\ own' = NoWrite /\ snapshot' = NoWrite /\ locked' = FALSE
  /\ cache' = NoCache
  /\ UNCHANGED <<isolation, others>>

CommitTx == row' = Latest /\ EndTx
RollbackTx == UNCHANGED row /\ EndTx
=============================================================================
