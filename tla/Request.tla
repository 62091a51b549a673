------------------------------ MODULE Request ------------------------------
(***************************************************************************)
(* A request that creates, updates or deletes a resource: CreateResource,  *)
(* UpdateResource and DeleteResource of resource_management.go, with the   *)
(* extension handlers they call, in a transaction (CachedTransaction) that *)
(* is run again when the database reports a deadlock.                      *)
(*                                                                         *)
(* The context is a Go map.  Its "resource" is a reference: to the map the *)
(* request came with (Own, whose contents are in data), or to a map that a *)
(* transaction has made.  Handlers change it in place.                     *)
(***************************************************************************)
EXTENDS CachedTransaction

CONSTANTS
  Nested,       \* the fields whose values are maps themselves
  Own,          \* the reference to the request's map
  MaxRetries,   \* RetryTxCount
  MaxEffects    \* bound: how many effects the handlers have

ASSUME RequestConstants ==
  /\ Nested \subseteq Fields
  /\ {MaxRetries, MaxEffects, MaxOthers} \subseteq Nat
  /\ {NoRow, NoWrite, Own} \cap Rows = {} /\ NoRow # NoWrite

VARIABLES
  op,        \* what the request does
  policy,    \* the locking policy of the schema for it
  pc,        \* the step the request is at
  data,      \* the contents of the request's map
  ctx,       \* the context: resource, response, exception
  attempt,   \* how many transactions have been begun
  err,       \* the error of the transaction that is being given up
  result,    \* what the client is told
  shared,    \* the values in ctx.resource that are also in a cache entry
  lent,      \* the values in ctx.resource that are also in the request's map
  effects,   \* how many effects handlers have had
  (* history *)
  touched,   \* the cache entries changed by way of a shared map
  meddled,   \* the fields handlers have changed in this attempt
  raised,    \* the attempt in which the last exception was raised
  first      \* data when the first transaction began

hist == <<touched, meddled, raised, first>>
reqVars == <<op, policy, pc, data, ctx, attempt, err, result, shared, lent, effects, hist>>
vars == <<txVars, reqVars>>

Ops == {"create", "update", "delete"}
Policies == {"none", "lock_related", "skip_related"}
PC == {"pre", "prefetch", "begin", "check", "fetch", "pre_in_tx", "write",
       "post_in_tx", "commit", "rollback", "post", "done"}
Errors == {"none", "temporary", "permanent"}

\* A map of some of the fields.
IsData(d) == \E fs \in SUBSET Fields : d \in [fs -> Nat]
Nil == 0
FreshCtx == [resource |-> Own, response |-> NoRow, exception |-> "none"]

\* The map context["resource"] refers to.
Resource == IF ctx.resource = Own THEN data ELSE ctx.resource

Init ==
  /\ op \in Ops
  /\ policy \in Policies
  /\ \E level \in Isolations, nil \in SUBSET Nested :
       InitTx(level, IF op = "create" THEN NoRow
                     ELSE [f \in Fields |-> IF f \in nil THEN Nil ELSE 5])
  /\ data \in CASE op = "create" -> {[f \in Fields |-> 1]}
                [] op = "update" -> {[f \in fs |-> 1] : fs \in SUBSET Fields \ {{}}}
                [] op = "delete" -> {[f \in {} |-> 0]}
  /\ pc = "pre"
  /\ ctx = FreshCtx
  /\ attempt = 0 /\ effects = 0 /\ raised = 0
  /\ err = "none" /\ result = "none"
  /\ shared = {} /\ lent = {} /\ touched = {} /\ meddled = {}
  /\ first = data

-----------------------------------------------------------------------------
(* Handlers of extensions *)

Handling == pc \in {"pre", "pre_in_tx", "post_in_tx", "post"}
InTx == pc \in {"check", "fetch", "pre_in_tx", "write", "post_in_tx", "commit", "rollback"}

\* A handler may still do something: gohan_handle_event calls the handlers that
\* follow one that has thrown.
Effect ==
  /\ Handling
  /\ effects < MaxEffects
  /\ effects' = effects + 1

\* A handler changes a field of context["resource"] in place.
ChangeResource(f) ==
  LET changed == [Resource EXCEPT ![f] = @ + 10]
      entries == {k \in DOMAIN cache : <<k, f>> \in shared} IN
  /\ Effect
  /\ f \in DOMAIN Resource
  /\ ctx' = IF ctx.resource = Own THEN ctx ELSE [ctx EXCEPT !.resource = changed]
  /\ data' = IF ctx.resource = Own THEN changed
             ELSE IF f \in lent THEN [data EXCEPT ![f] = changed[f]] ELSE data
  /\ cache' = [k \in DOMAIN cache |->
                 IF k \in entries THEN [cache[k] EXCEPT !.row = [@ EXCEPT ![f] = changed[f]]]
                 ELSE cache[k]]
  /\ touched' = touched \cup entries
  /\ meddled' = meddled \cup {f}
  /\ UNCHANGED <<isolation, dbVars, op, policy, pc, attempt, err, result, shared, lent, raised, first>>

\* A handler reads the resource in the transaction, with or without locking it.
\* A new cache entry has a map of its own.
HandlerFetch(key, lock) ==
  LET replaced == IF CacheHit(key, lock) THEN {} ELSE {key} IN
  /\ Effect
  /\ InTx
  /\ ReadThrough(key, lock)
  /\ cache' = Saved(key, lock)
  /\ shared' = shared \ (replaced \X Fields)
  /\ touched' = touched \ replaced
  /\ UNCHANGED <<op, policy, pc, data, ctx, attempt, err, result, lent, meddled, raised, first>>

\* A handler writes a field of the resource in the transaction.
HandlerUpdate(f) ==
  /\ Effect
  /\ InTx
  /\ Latest # NoRow
  /\ Write([Latest EXCEPT ![f] = 50])
  /\ shared' = {} /\ touched' = {}
  /\ meddled' = meddled \cup {f}
  /\ UNCHANGED <<op, policy, pc, data, ctx, attempt, err, result, lent, raised, first>>

\* A handler throws, perhaps what the database told it.
HandlerThrows(kind) ==
  /\ Effect
  /\ ctx' = [ctx EXCEPT !.exception = kind]
  /\ raised' = attempt
  /\ UNCHANGED <<txVars, op, policy, pc, data, attempt, err, result, shared, lent, touched, meddled, first>>

\* HandleEvent returns, with an error if there is an exception in the context.
Handled(event, next) ==
  /\ pc = event
  /\ ctx.exception = "none"
  /\ pc' = next
  /\ UNCHANGED <<txVars, op, policy, data, ctx, attempt, err, result, shared, lent, effects, hist>>

\* Outside the transaction the request fails.
HandlerFails ==
  /\ pc \in {"pre", "post"}
  /\ ctx.exception # "none"
  /\ pc' = "done"
  /\ result' = "error"
  /\ UNCHANGED <<txVars, op, policy, data, ctx, attempt, err, shared, lent, effects, hist>>

\* In it, the transaction is given up.
HandlerFailsInTx ==
  /\ pc \in {"pre_in_tx", "post_in_tx"}
  /\ ctx.exception # "none"
  /\ pc' = "rollback"
  /\ err' = ctx.exception
  /\ UNCHANGED <<txVars, op, policy, data, ctx, attempt, result, shared, lent, effects, hist>>

-----------------------------------------------------------------------------
(* The request *)

PreHandled == Handled("pre", IF op = "delete" THEN "prefetch" ELSE "begin")

\* DeleteResource fetches the resource in a transaction of its own; nothing else
\* of it is visible.
Prefetch ==
  /\ pc = "prefetch"
  /\ IF row = NoRow
     THEN pc' = "done" /\ result' = "error" /\ UNCHANGED data
     ELSE pc' = "begin" /\ data' = row /\ UNCHANGED result
  /\ UNCHANGED <<txVars, op, policy, ctx, attempt, err, shared, lent, effects, hist>>

\* Mutant: the context is taken over as the attempt before has left it.
ContextKept == ctx

\* resourceTransactionWithContext: the context restored from the copy.
RestoredContext == FreshCtx

\* WithinTx begins a transaction.
Begin ==
  /\ pc = "begin"
  /\ attempt' = attempt + 1
  /\ ctx' = RestoredContext
  /\ shared' = {} /\ lent' = {} /\ touched' = {} /\ meddled' = {}
  /\ first' = IF attempt = 0 THEN data ELSE first
  /\ pc' = CASE op = "create" -> "pre_in_tx" [] op = "update" -> "check" [] op = "delete" -> "fetch"
  /\ UNCHANGED <<txVars, op, policy, data, err, result, effects, raised>>

\* The transaction fails: an error of the database, or one of the request.
GiveUp(kind) ==
  /\ pc' = "rollback"
  /\ err' = kind
  /\ UNCHANGED <<op, policy, data, ctx, attempt, result, shared, lent, effects, hist>>

\* Any statement and the commit can run into a deadlock or a lock timeout.
Deadlock ==
  /\ pc \in {"check", "fetch", "write", "commit"}
  /\ GiveUp("temporary")
  /\ UNCHANGED txVars

\* The request does not validate, violates the policy or a constraint, or its commit
\* fails for good.
Rejected ==
  /\ pc \in {"fetch", "write", "commit"}
  /\ GiveUp("permanent")
  /\ UNCHANGED txVars

\* checkIfResourceExistsForPolicy, with the filter UpdateResourceInTransaction uses.
Check ==
  /\ pc = "check"
  /\ ReadThrough("plain", FALSE)
  /\ cache' = Saved("plain", FALSE)
  /\ IF Found("plain", FALSE) = NoRow THEN GiveUp("permanent")
     ELSE pc' = "fetch"
          /\ UNCHANGED <<op, policy, data, ctx, attempt, err, result, shared, lent, effects, hist>>

FetchLocks == policy # "none"
FetchKey == IF policy = "lock_related" THEN "join" ELSE "plain"

\* CloneWithUpdate: the fields of the request over those of the resource.
CloneWithUpdate(r, d) == [f \in Fields |-> IF f \in DOMAIN d THEN d[f] ELSE r[f]]

\* Mutant: the resource is put into the request's own map.
PutIntoRequest(r) == data' = r /\ UNCHANGED ctx

\* The context gets a map that this transaction has made.
PutIntoContext(r) == ctx' = [ctx EXCEPT !.resource = r] /\ UNCHANGED data

\* Update: the new contents of a nested field are merged into the map the fetched
\* resource has there, which may be in the cache; if it has none, the context gets
\* the map of the request.
FetchForUpdate ==
  LET r == Found(FetchKey, FetchLocks)
      merged == CloneWithUpdate(r, Resource)
      saved == Saved(FetchKey, FetchLocks)
      maps == {f \in Nested : r[f] # Nil}
      alias == DOMAIN saved \cap {FetchKey} IN
  /\ pc = "fetch"
  /\ op = "update"
  /\ r # NoRow
  /\ ReadThrough(FetchKey, FetchLocks)
  /\ cache' = [k \in DOMAIN saved |->
                 IF k \notin alias THEN saved[k]
                 ELSE [saved[k] EXCEPT !.row = [f \in Fields |-> IF f \in maps THEN merged[f] ELSE @[f]]]]
  /\ touched' = IF maps \cap DOMAIN Resource = {} THEN touched ELSE touched \cup alias
  /\ shared' = alias \X maps
  /\ lent' = (Nested \ maps) \cap DOMAIN Resource
  /\ PutIntoContext(merged)
  /\ pc' = "pre_in_tx"
  /\ UNCHANGED <<op, policy, attempt, err, result, effects, meddled, raised, first>>

\* Delete: the context gets the map of the fetched resource itself.
FetchForDelete ==
  LET r == Found(FetchKey, FetchLocks)
      saved == Saved(FetchKey, FetchLocks) IN
  /\ pc = "fetch"
  /\ op = "delete"
  /\ r # NoRow
  /\ ReadThrough(FetchKey, FetchLocks)
  /\ cache' = saved
  /\ shared' = (DOMAIN saved \cap {FetchKey}) \X Fields
  /\ PutIntoContext(r)
  /\ pc' = "pre_in_tx"
  /\ UNCHANGED <<op, policy, attempt, err, result, lent, effects, hist>>

FetchFindsNothing ==
  /\ pc = "fetch"
  /\ Found(FetchKey, FetchLocks) = NoRow
  /\ ReadThrough(FetchKey, FetchLocks)
  /\ cache' = Saved(FetchKey, FetchLocks)
  /\ GiveUp("permanent")

\* Mutant: the response is what the request has asked for.
ResponseAsRequested == data

\* The response of a create or an update is the resource as it is written.
Response == Resource

WriteResource ==
  /\ pc = "write"
  /\ op \in {"create", "update"}
  /\ (op = "create") => Latest = NoRow
  /\ Write(IF op = "update" /\ Latest = NoRow THEN own ELSE Resource)
  /\ ctx' = [ctx EXCEPT !.response = Response]
  /\ shared' = {} /\ touched' = {}
  /\ pc' = "post_in_tx"
  /\ UNCHANGED <<op, policy, data, attempt, err, result, lent, effects, meddled, raised, first>>

CreateDuplicate ==
  /\ pc = "write"
  /\ op = "create"
  /\ Latest # NoRow
  /\ cache' = NoCache
  /\ UNCHANGED <<isolation, dbVars>>
  /\ GiveUp("permanent")

WriteDelete ==
  /\ pc = "write"
  /\ op = "delete"
  /\ Write(NoRow)
  /\ shared' = {} /\ touched' = {}
  /\ pc' = "post_in_tx"
  /\ UNCHANGED <<op, policy, data, ctx, attempt, err, result, lent, effects, meddled, raised, first>>

Commit ==
  /\ pc = "commit"
  /\ CommitTx
  /\ shared' = {} /\ touched' = {}
  /\ pc' = "post"
  /\ UNCHANGED <<op, policy, data, ctx, attempt, err, result, lent, effects, meddled, raised, first>>

\* Mutant: one retry too many.
MayRetryOnceMore == err = "temporary" /\ attempt <= MaxRetries + 1

\* WithinTemplate: temporary errors are retried.
MayRetry == err = "temporary" /\ attempt <= MaxRetries

Rollback ==
  /\ pc = "rollback"
  /\ RollbackTx
  /\ IF MayRetry THEN pc' = "begin" /\ UNCHANGED result ELSE pc' = "done" /\ result' = "error"
  /\ err' = "none"
  /\ shared' = {} /\ touched' = {}
  /\ UNCHANGED <<op, policy, data, ctx, attempt, lent, effects, meddled, raised, first>>

PostHandled ==
  /\ pc = "post"
  /\ ctx.exception = "none"
  /\ pc' = "done"
  /\ result' = "ok"
  /\ UNCHANGED <<txVars, op, policy, data, ctx, attempt, err, shared, lent, effects, hist>>

HandlerStep ==
  \/ \E f \in Fields : ChangeResource(f) \/ HandlerUpdate(f)
  \/ \E key \in Keys, lock \in BOOLEAN : HandlerFetch(key, lock)
  \/ \E kind \in {"temporary", "permanent"} : HandlerThrows(kind)

RequestStep ==
  \/ PreHandled \/ Prefetch \/ Begin \/ Check \/ FetchForUpdate \/ FetchForDelete
  \/ FetchFindsNothing \/ Handled("pre_in_tx", "write")
  \/ WriteResource \/ CreateDuplicate \/ WriteDelete \/ Handled("post_in_tx", "commit")
  \/ Commit \/ Deadlock \/ Rejected \/ HandlerFails \/ HandlerFailsInTx \/ Rollback \/ PostHandled

Next ==
  \/ HandlerStep
  \/ RequestStep
  \/ pc # "done" /\ OtherCommits /\ UNCHANGED reqVars

Spec == Init /\ [][Next]_vars

-----------------------------------------------------------------------------
(* Properties *)

TypeOK ==
  /\ isolation \in Isolations
  /\ row \in Rows \cup {NoRow} /\ own \in Rows \cup {NoRow, NoWrite}
  /\ snapshot \in Rows \cup {NoRow, NoWrite} /\ locked \in BOOLEAN
  /\ DOMAIN cache \subseteq Keys
  /\ \A k \in DOMAIN cache : cache[k] \in [row : Rows \cup {NoRow}, locked : BOOLEAN]
  /\ op \in Ops /\ policy \in Policies /\ pc \in PC /\ err \in Errors
  /\ IsData(data) /\ IsData(first)
  /\ ctx.resource = Own \/ IsData(ctx.resource)
  /\ ctx.response = NoRow \/ IsData(ctx.response)
  /\ ctx.exception \in Errors
  /\ attempt \in 0 .. MaxRetries + 1 /\ raised \in 0 .. attempt
  /\ result \in {"none", "ok", "error"}
  /\ shared \subseteq Keys \X Fields /\ lent \subseteq Nested
  /\ touched \subseteq Keys /\ meddled \subseteq Fields

\* A plain read that an entry of LockList answers.  At "repeatable read" it gets the
\* row as it was locked, where the database would show the earlier snapshot.
NewerThanSnapshot(key, lock) == ~lock /\ cache[key].locked /\ isolation = "repeatable read"

\* Whatever a transaction has read, written and locked, the cache gives a locking
\* read the latest version and a plain read what the database would give it, unless
\* that read is NewerThanSnapshot: then it gets the latest version, too, and never
\* one that is neither.  An entry whose map the request shares may differ: an
\* update's nested fields reach the cached resource before the row is written.
CachedReadsAreCurrent ==
  \A key \in DOMAIN cache \ touched, lock \in BOOLEAN :
    CacheHit(key, lock) =>
      Found(key, lock) = IF lock \/ NewerThanSnapshot(key, lock) THEN Latest ELSE PlainRead

\* Reads of the transaction keep others out.
Guarded == isolation = "serializable" \/ policy # "none"

\* An update does not undo what another process has committed: a field that
\* neither the request nor a handler names keeps its value, in the first attempt
\* and in every retry.  And a delete's handlers have seen the resource as it was
\* when it was deleted.  This needs a serializable transaction or a locking policy.
NoUpdateLost ==
  [][Commit /\ Guarded =>
       /\ op = "update" => row # NoRow /\ \A f \in Fields \ (DOMAIN first \cup meddled) : row'[f] = row[f]
       /\ op = "delete" => row # NoRow /\ \A f \in Fields \ meddled : Resource[f] = row[f]]_vars

\* A request that succeeds answers with the row it has committed, however many
\* attempts it took, if no handler has changed a field in the attempt that commits
\* (one that writes after the request did makes the response out of date).
ResponseIsCommitted ==
  [][Commit /\ Guarded /\ op # "delete" /\ meddled = {} => ctx.response = row']_vars

\* An exception of one attempt never fails a later one.
NoStaleException == ctx.exception # "none" => raised = attempt

\* "context must stay the same for each retried transaction"
\* (resource_management.go:119): an update or a delete is retried with the plain
\* fields it first had, whatever handlers have done to context["resource"].  It is
\* not so for a create, whose handlers change the request's own map, nor for a
\* nested field the resource did not have: the copy of the context is shallow.
RetriesStartAlike ==
  [][Begin /\ attempt > 0 /\ op # "create" =>
       \A f \in DOMAIN first \ Nested : data[f] = first[f]]_vars
=============================================================================
