------------------------------- MODULE Resync -------------------------------
(***************************************************************************)
(* The command "gohan resync" beside a running cluster: server/resync.go.  *)
(*                                                                         *)
(* The tool reads all resources in a transaction, logs an "update" event   *)
(* for each and commits; then it calls Sync of a SyncWriter of its own     *)
(* until the event table is empty.  It takes no lock, and the wake-up of   *)
(* its commit stays in its own channel, which no informer reads.           *)
(*                                                                         *)
(* The tool is a user of SyncPipeline that never asks for the lock: Sync   *)
(* and syncEvent are the actions of the sync writer.                       *)
(***************************************************************************)
EXTENDS SyncPipeline

CONSTANT Tool   \* the process of the tool

Cluster == Users \ {Tool}

ASSUME ToolAssumption == Tool \in Users

VARIABLES
  tool,      \* where the tool is
  found,     \* the contents of the resources the tool has listed and not yet logged
  emitted,   \* the events its open transaction has inserted
  alone      \* since it began only the tool has written, and each of its calls has
             \* been answered (history)

toolVars == <<tool, found, emitted, alone>>
resyncVars == <<pipelineVars, toolVars>>

ToolPC == {"off", "log", "sync", "done", "failed"}
Nothing == [k \in {} |-> 0]

ResyncInit ==
  /\ Init
  /\ tool = "off"
  /\ found = Nothing
  /\ emitted = {}
  /\ alone = TRUE

-----------------------------------------------------------------------------
(* The tool *)

\* BeginTx and List.  The isolation level is the default, repeatable read: what is
\* read is a snapshot, and nothing is locked.
List ==
  /\ tool = "off"
  /\ tool' = "log"
  /\ found' = [k \in {k \in Keys : db[k] # 0} |-> db[k]]
  /\ alone' = TRUE
  /\ UNCHANGED <<emitted, pipelineVars>>

Logged(k) == found' = [j \in DOMAIN found \ {k} |-> found[j]]

\* transactionEventLogger.Resync logs an event with the contents that were read.  (The
\* database keeps the number of the write that produced them and not the kind of body.)
Emit(k, body) ==
  /\ tool = "log"
  /\ k \in DOMAIN found
  /\ nextId <= MaxEvents
  /\ emitted' = emitted \cup
       {[id |-> nextId, key |-> k, type |-> "update", no |-> found[k], body |-> body]}
  /\ nextId' = nextId + 1
  /\ Logged(k)
  /\ UNCHANGED <<tool, alone, db, writes, events, tx, api, informerVars, etcdVars, writerVars, faultVars, lockVars>>

\* Its error is not looked at: the resource is left out.
EmitError(k) ==
  /\ tool = "log"
  /\ k \in DOMAIN found
  /\ Fault
  /\ Logged(k)
  /\ alone' = FALSE
  /\ UNCHANGED <<tool, emitted, dbVars, informerVars, etcdVars, writerVars, lockVars>>

\* Mutant: as every resource is emitted anew, the table is emptied first.
CommitOnlyEmitted ==
  /\ tool = "log"
  /\ found = Nothing
  /\ events' = emitted
  /\ emitted' = {}
  /\ tool' = "sync"
  /\ WriterGoto(Tool, "select")
  /\ UNCHANGED <<found, alone, db, writes, nextId, tx, api, pending, batch, informerVars, etcdVars, faultVars, lockVars>>

\* The rows become visible.  The send on transactionCommitted wakes up nobody.
CommitEmitted ==
  /\ tool = "log"
  /\ found = Nothing
  /\ events' = events \cup emitted
  /\ emitted' = {}
  /\ tool' = "sync"
  /\ WriterGoto(Tool, "select")
  /\ UNCHANGED <<found, alone, db, writes, nextId, tx, api, pending, batch, informerVars, etcdVars, faultVars, lockVars>>

\* BeginTx, List or Commit fails.
ToolError ==
  /\ tool = "log"
  /\ Fault
  /\ tool' = "failed"
  /\ found' = Nothing
  /\ emitted' = {}
  /\ UNCHANGED <<alone, dbVars, informerVars, etcdVars, writerVars, lockVars>>

\* Commit is executed and returns an error: the rows stay for others.
CommitEmittedUnknown ==
  /\ tool = "log"
  /\ found = Nothing
  /\ Fault
  /\ events' = events \cup emitted
  /\ emitted' = {}
  /\ tool' = "failed"
  /\ UNCHANGED <<found, alone, db, writes, nextId, tx, api, informerVars, etcdVars, writerVars, lockVars>>

\* Sync is called until it has found nothing.
SyncAgain ==
  /\ tool = "sync"
  /\ writer[Tool] = "select"
  /\ batch' = [batch EXCEPT ![Tool] = events]
  /\ IF events = {} THEN tool' = "done" /\ UNCHANGED writer ELSE UNCHANGED tool /\ WriterGoto(Tool, "push")
  /\ UNCHANGED <<found, emitted, alone, pending, dbVars, informerVars, etcdVars, faultVars, lockVars>>

\* syncEvent writes etcd, as for a sync writer.
SyncPush ==
  /\ tool = "sync"
  /\ PushEvent(Tool)
  /\ UNCHANGED toolVars

\* It deletes the row by a database without the event logger: a row that a sync
\* writer has deleted is no error.
SyncDelete ==
  /\ tool = "sync"
  /\ writer[Tool] = "fetch"
  /\ events' = events \ {NextEvent(Tool)}
  /\ batch' = [batch EXCEPT ![Tool] = @ \ {NextEvent(Tool)}]
  /\ WriterGoto(Tool, IF Cardinality(batch[Tool]) = 1 THEN "select" ELSE "push")
  /\ UNCHANGED <<toolVars, db, writes, nextId, tx, api, pending, informerVars, etcdVars, faultVars, lockVars>>

SyncEventError ==
  /\ tool = "sync"
  /\ \/ PushUnsyncable(Tool) \/ PushError(Tool)
     \/ DeleteUnknown(Tool, "fetch") \/ WriterError(Tool) \/ RetryEvent(Tool)
  /\ UNCHANGED toolVars

\* Sync has returned an error, and so does Resync.
SyncFails ==
  /\ tool = "sync"
  /\ writer[Tool] = "unlock"
  /\ tool' = "failed"
  /\ UNCHANGED <<found, emitted, alone, pipelineVars>>

\* The tool is started once more.
StartAgain ==
  /\ tool \in {"done", "failed"}
  /\ tool' = "off"
  /\ WriterGoto(Tool, "lock")
  /\ UNCHANGED <<found, emitted, alone, pending, batch, dbVars, informerVars, etcdVars, faultVars, lockVars>>

ToolStep ==
  \/ List \/ CommitEmitted \/ SyncAgain \/ SyncPush \/ SyncDelete \/ SyncFails \/ StartAgain
  \/ \E k \in Keys, body \in Bodies : Emit(k, body)

ToolFault == ToolError \/ CommitEmittedUnknown \/ SyncEventError \/ \E k \in Keys : EmitError(k)

-----------------------------------------------------------------------------
(* The cluster *)

\* A key is removed from etcd by hand.
LoseKey(k) ==
  /\ tool = "off"
  /\ etcd[k] # 0
  /\ etcd' = [etcd EXCEPT ![k] = 0]
  /\ UNCHANGED <<copied, applied, dbVars, informerVars, writerVars, faultVars, lockVars, toolVars>>

ClusterNext ==
  /\ \/ \E p \in Cluster : ApiStep(p) \/ InformerStep(p) \/ WriterStep(p) \/ FaultStep(p) \/ ReportLost(p)
     \/ ReleaseKey
     \/ ExpireLease
  /\ alone' = (alone /\ db' = db /\ etcdVars' = etcdVars)
  /\ UNCHANGED <<tool, found, emitted>>

ResyncNext == ToolStep \/ ToolFault \/ ClusterNext \/ \E k \in Keys : LoseKey(k)

ResyncSpec == ResyncInit /\ [][ResyncNext]_resyncVars

-----------------------------------------------------------------------------
(* Properties *)

\* "Resync all syncable resources to sync (etcd) backend" (cli.go:253): when the
\* tool has ended well, every resource is in etcd as it is in the database, also
\* one that had been lost there or left with older contents, and no event that was
\* still waiting has brought those back.  Only while nobody else writes: the tool
\* may publish what it has read before another process has changed it, and a sync
\* writer or the tool may write a change the other one has already passed.  A key
\* such a race has left of a deleted resource stays.  (An empty string of a sync_plain
\* schema is not written, so "empty" is no body here.)
ResyncRestores ==
  tool = "done" /\ alone => \A k \in Keys : db[k] # 0 => etcd[k] = db[k]
=============================================================================
