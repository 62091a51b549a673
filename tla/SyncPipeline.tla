---------------------------- MODULE SyncPipeline ----------------------------
(***************************************************************************)
(* How a committed change of a resource reaches etcd.                      *)
(*                                                                         *)
(* An API request runs in a database transaction whose wrapper, the        *)
(* transactionEventLogger, adds a row to the event table for every change. *)
(* After the commit the wrapper sends on the channel transactionCommitted; *)
(* the process's TransactionCommitInformer receives, drains the channel    *)
(* and writes the key SyncKeyTxCommitted in etcd.  The SyncWriter of the   *)
(* process that holds the cluster lock watches that key; each event of the *)
(* watch makes it list the event table and, event by event, write etcd and *)
(* delete the row.                                                         *)
(*                                                                         *)
(* A resource's n-th committed write is numbered n; the contents of a      *)
(* resource or of its key in etcd are the number of the write that         *)
(* produced them, 0 when it is absent.  The id that travels through the    *)
(* channel and the etcd key is left out: nobody uses it.  The cluster lock *)
(* is LeaseLock, which EtcdLock implements.                                *)
(***************************************************************************)
EXTENDS Integers, FiniteSets, LeaseLock

CONSTANTS
  Keys,         \* the resources
  Bodies,       \* the kinds of contents a write may have: see Body
  ChanCap,      \* the capacity of the channel transactionCommitted
  MaxEvents,    \* bound: how many events are logged in a behaviour
  MaxFaults,    \* bound: how many calls fail in a behaviour
  MaxCrashes,   \* bound: how many times a process dies
  MaxExpiries   \* bound: how many times the lease of a user inside expires

\* A body is written to etcd as it is ("plain"), or it is the empty string of
\* a sync_plain schema ("empty"), or it lacks the sync_property ("unsyncable").
Body == {"plain", "empty", "unsyncable"}

ASSUME PipelineConstants ==
  /\ Bodies \subseteq Body
  /\ ChanCap \in Nat \ {0}
  /\ {MaxEvents, MaxFaults, MaxCrashes, MaxExpiries} \subseteq Nat

VARIABLES
  db,         \* per resource: its contents in the database
  writes,     \* per resource: how many writes of it are committed
  events,     \* the rows of the event table
  nextId,     \* the event table's auto-increment counter
  tx,         \* per process: the rows its open transaction has inserted
  api,        \* per process: "idle", or "send" after a commit that logged events
  chan,       \* per process: how many values are in transactionCommitted
  informer,   \* per process: "idle", or "notify" inside notify()
  txKey,      \* whether SyncKeyTxCommitted exists in etcd
  etcd,       \* per resource: the contents of its key in etcd
  copied,     \* per resource: the write that was applied to etcd last (history)
  applied,    \* the writes that have been applied to etcd at some time (history)
  writer,     \* per process: where its SyncWriter is
  pending,    \* per process: events in the channel of its watch on txKey
  batch,      \* per process: the listed events it has still to handle
  faults, crashes, expiries,  \* how much of the bounds is used up
  unheard     \* the last commit has not been heard of, and sent nothing (history)

dbVars == <<db, writes, events, nextId, tx, api>>
informerVars == <<chan, informer, txKey>>
etcdVars == <<etcd, copied, applied>>
writerVars == <<writer, pending, batch>>
faultVars == <<faults, crashes, expiries, unheard>>
pipelineVars == <<dbVars, informerVars, etcdVars, writerVars, faultVars, lockVars>>

Event == [id : 1 .. MaxEvents, key : Keys, type : {"create", "update", "delete"},
          no : 1 .. MaxEvents, body : Body]

\* The writer's program counter is named for what it does next.
WriterPC == {"lock", "watch", "select", "push", "fetch", "delete", "unlock", "backoff", "dead"}

TypeOK ==
  /\ LockTypeOK
  /\ db \in [Keys -> 0 .. MaxEvents]
  /\ writes \in [Keys -> 0 .. MaxEvents]
  /\ events \subseteq Event
  /\ nextId \in 1 .. MaxEvents + 1
  /\ tx \in [Users -> SUBSET Event]
  /\ api \in [Users -> {"idle", "send"}]
  /\ chan \in [Users -> 0 .. ChanCap]
  /\ informer \in [Users -> {"idle", "notify"}]
  /\ txKey \in BOOLEAN
  /\ etcd \in [Keys -> 0 .. MaxEvents]
  /\ copied \in [Keys -> 0 .. MaxEvents]
  /\ applied \subseteq Keys \X (1 .. MaxEvents)
  /\ writer \in [Users -> WriterPC]
  /\ pending \in [Users -> Nat]
  /\ batch \in [Users -> SUBSET Event]
  /\ faults \in 0 .. MaxFaults
  /\ crashes \in 0 .. MaxCrashes
  /\ expiries \in 0 .. MaxExpiries
  /\ unheard \in BOOLEAN

Init ==
  /\ LockInit
  /\ db = [k \in Keys |-> 0]
  /\ writes = [k \in Keys |-> 0]
  /\ events = {}
  /\ nextId = 1
  /\ tx = [p \in Users |-> {}]
  /\ api = [p \in Users |-> "idle"]
  /\ chan = [p \in Users |-> 0]
  /\ informer = [p \in Users |-> "idle"]
  /\ txKey = FALSE
  /\ etcd = [k \in Keys |-> 0]
  /\ copied = [k \in Keys |-> 0]
  /\ applied = {}
  /\ writer = [p \in Users |-> "lock"]
  /\ pending = [p \in Users |-> 0]
  /\ batch = [p \in Users |-> {}]
  /\ faults = 0 /\ crashes = 0 /\ expiries = 0 /\ unheard = FALSE

Alive(p) == writer[p] # "dead"

\* A call to etcd or to the database fails: it has not been executed, or it has and
\* the answer is lost.
Fault ==
  /\ faults < MaxFaults
  /\ faults' = faults + 1
  /\ UNCHANGED <<crashes, expiries, unheard>>

-----------------------------------------------------------------------------
(* Transactions *)

\* The events of k that p's open transaction has logged so far.
Own(p, k) == {e \in tx[p] : e.key = k}

\* The database's row lock: two open transactions do not write one resource.
Locked(p, k) == \E q \in Users \ {p} : Own(q, k) # {}

\* Ids come from one counter: the event logged last has the greatest.
Latest(S) == CHOOSE e \in S : \A f \in S : e.id >= f.id

\* The contents and the number of the last write of k, as p's transaction sees them.
ContentsIn(p, k) ==
  IF Own(p, k) = {} THEN db[k]
  ELSE IF Latest(Own(p, k)).type = "delete" THEN 0 ELSE Latest(Own(p, k)).no
WritesIn(p, k) == writes[k] + Cardinality(Own(p, k))

\* Create, Update or Delete of a resource inside p's transaction: the change
\* and its event row.  A row gets its id now and becomes visible at the commit.
LogEvent(p, k, type, body) ==
  /\ Alive(p) /\ api[p] = "idle"
  /\ nextId <= MaxEvents
  /\ ~Locked(p, k)
  /\ (type = "create") = (ContentsIn(p, k) = 0)
  /\ tx' = [tx EXCEPT ![p] = @ \cup
             {[id |-> nextId, key |-> k, type |-> type, no |-> WritesIn(p, k) + 1, body |-> body]}]
  /\ nextId' = nextId + 1
  /\ UNCHANGED <<db, writes, events, api, informerVars, etcdVars, writerVars, faultVars, lockVars>>

\* The database commits the transaction.
CommitRows(p) ==
  /\ tx[p] # {}
  /\ db' = [k \in Keys |-> ContentsIn(p, k)]
  /\ writes' = [k \in Keys |-> WritesIn(p, k)]
  /\ events' = events \cup tx[p]
  /\ tx' = [tx EXCEPT ![p] = {}]
  /\ UNCHANGED <<nextId, informerVars, etcdVars, writerVars, lockVars>>

\* Commit returns; the wrapper then sends on transactionCommitted.
Commit(p) ==
  /\ CommitRows(p)
  /\ api' = [api EXCEPT ![p] = "send"]
  /\ unheard' = FALSE
  /\ UNCHANGED <<faults, crashes, expiries>>

\* Commit returns an error although the database has committed: nothing is sent.
CommitUnknown(p) ==
  /\ CommitRows(p)
  /\ faults < MaxFaults
  /\ faults' = faults + 1
  /\ unheard' = TRUE
  /\ UNCHANGED <<api, crashes, expiries>>

\* The transaction is closed without a commit: the rows are gone.
Rollback(p) ==
  /\ tx[p] # {}
  /\ tx' = [tx EXCEPT ![p] = {}]
  /\ UNCHANGED <<db, writes, events, nextId, api, informerVars, etcdVars, writerVars, faultVars, lockVars>>

\* Mutant: the send does not wait for room in the channel.
TriggerSyncWriterUnbounded(p) ==
  /\ api[p] = "send"
  /\ api' = [api EXCEPT ![p] = "idle"]
  /\ chan' = [chan EXCEPT ![p] = @ + 1]
  /\ UNCHANGED <<db, writes, events, nextId, tx, informer, txKey, etcdVars, writerVars, faultVars, lockVars>>

\* transactionCommitted <- lastEventId blocks while the channel is full.
TriggerSyncWriter(p) ==
  /\ api[p] = "send"
  /\ chan[p] < ChanCap
  /\ api' = [api EXCEPT ![p] = "idle"]
  /\ chan' = [chan EXCEPT ![p] = @ + 1]
  /\ UNCHANGED <<db, writes, events, nextId, tx, informer, txKey, etcdVars, writerVars, faultVars, lockVars>>

-----------------------------------------------------------------------------
(* TransactionCommitInformer *)

\* Run receives a value and calls notify, which drains the channel.
Receive(p) ==
  /\ informer[p] = "idle"
  /\ chan[p] > 0
  /\ informer' = [informer EXCEPT ![p] = "notify"]
  /\ chan' = [chan EXCEPT ![p] = 0]
  /\ UNCHANGED <<txKey, dbVars, etcdVars, writerVars, faultVars, lockVars>>

\* The watch on SyncKeyTxCommitted is open.
Watching(p) == p \in inside /\ writer[p] \in {"select", "push", "fetch", "delete"}

\* The key is written; every open watch gets an event.
WriteTxKey ==
  /\ txKey' = TRUE
  /\ pending' = [q \in Users |-> pending[q] + IF Watching(q) THEN 1 ELSE 0]

\* notify writes the key.
Notify(p) ==
  /\ informer[p] = "notify"
  /\ informer' = [informer EXCEPT ![p] = "idle"]
  /\ WriteTxKey
  /\ UNCHANGED <<chan, dbVars, etcdVars, writer, batch, faultVars, lockVars>>

\* The write fails, or succeeds unheard: after the delay notify drains the channel
\* and tries again.
NotifyError(p) ==
  /\ informer[p] = "notify"
  /\ Fault
  /\ chan' = [chan EXCEPT ![p] = 0]
  /\ UNCHANGED <<txKey, pending>> \/ WriteTxKey
  /\ UNCHANGED <<informer, dbVars, etcdVars, writer, batch, lockVars>>

-----------------------------------------------------------------------------
(* SyncWriter *)

WriterGoto(p, where) == writer' = [writer EXCEPT ![p] = where]

\* run takes the cluster lock, waiting as long as another process has it.
TakeLock(p) ==
  /\ writer[p] = "lock"
  /\ Acquire(p)
  /\ WriterGoto(p, "watch")
  /\ UNCHANGED <<pending, batch, dbVars, informerVars, etcdVars, faultVars>>

\* etcd stores the key but Lock does not hear of it and tries again.
TakeLockUnknown(p) ==
  /\ writer[p] = "lock"
  /\ AcquireUnknown(p)
  /\ Fault
  /\ UNCHANGED <<dbVars, informerVars, etcdVars, writerVars>>

\* Mutant: a writer that starts does not look at the current value.
StartWatchAtNext(p) ==
  /\ writer[p] = "watch"
  /\ pending' = [pending EXCEPT ![p] = 0]
  /\ WriterGoto(p, "select")
  /\ UNCHANGED <<batch, dbVars, informerVars, etcdVars, faultVars, lockVars>>

\* Watch(SyncKeyTxCommitted, RevisionCurrent) starts with the current value.
StartWatch(p) ==
  /\ writer[p] = "watch"
  /\ pending' = [pending EXCEPT ![p] = IF txKey THEN 1 ELSE 0]
  /\ WriterGoto(p, "select")
  /\ UNCHANGED <<batch, dbVars, informerVars, etcdVars, faultVars, lockVars>>

\* Mutant: the event's row is deleted before etcd is written.
ListAndDeleteEvents(p) ==
  /\ writer[p] = "select"
  /\ pending[p] > 0
  /\ pending' = [pending EXCEPT ![p] = @ - 1]
  /\ batch' = [batch EXCEPT ![p] = events]
  /\ events' = {}
  /\ WriterGoto(p, IF events = {} THEN "select" ELSE "push")
  /\ UNCHANGED <<db, writes, nextId, tx, api, informerVars, etcdVars, faultVars, lockVars>>

\* A trigger: Sync lists the whole event table.
ListEvents(p) ==
  /\ writer[p] = "select"
  /\ pending[p] > 0
  /\ pending' = [pending EXCEPT ![p] = @ - 1]
  /\ batch' = [batch EXCEPT ![p] = events]
  /\ WriterGoto(p, IF events = {} THEN "select" ELSE "push")
  /\ UNCHANGED <<dbVars, informerVars, etcdVars, faultVars, lockVars>>

\* Mutant: the paginator sorts in descending order.
LastEvent(S) == Latest(S)

\* The events are handled in the order of their ids.
FirstEvent(S) == CHOOSE e \in S : \A f \in S : e.id <= f.id

\* The listed event that is handled next.
NextEvent(p) == FirstEvent(batch[p])

\* What sync.Update or sync.Delete leaves in etcd.  Update ignores an empty
\* string, so the key keeps what it had.
ApplyToEtcd(e) ==
  /\ etcd' = [etcd EXCEPT ![e.key] =
                IF e.type = "delete" THEN 0 ELSE IF e.body = "empty" THEN @ ELSE e.no]
  /\ copied' = [copied EXCEPT ![e.key] = e.no]
  /\ applied' = applied \cup {<<e.key, e.no>>}

\* syncEvent writes etcd.  (The state and monitoring keys it also removes for
\* a deleted resource are not the copy this module is about.)
PushEvent(p) ==
  LET e == NextEvent(p) IN
  /\ writer[p] = "push"
  /\ e.type = "delete" \/ e.body # "unsyncable"
  /\ ApplyToEtcd(e)
  /\ WriterGoto(p, "fetch")
  /\ UNCHANGED <<pending, batch, dbVars, informerVars, faultVars, lockVars>>

\* An error ends run: the rest of the listed events is dropped.
RunFails(p) ==
  /\ batch' = [batch EXCEPT ![p] = {}]
  /\ WriterGoto(p, "unlock")
  /\ UNCHANGED pending

\* The property to sync is not in the body.
PushUnsyncable(p) ==
  LET e == NextEvent(p) IN
  /\ writer[p] = "push"
  /\ e.type # "delete" /\ e.body = "unsyncable"
  /\ RunFails(p)
  /\ UNCHANGED <<dbVars, informerVars, etcdVars, faultVars, lockVars>>

\* The write to etcd fails, or succeeds without syncEvent hearing of it.
PushError(p) ==
  LET e == NextEvent(p) IN
  /\ writer[p] = "push"
  /\ e.type = "delete" \/ e.body # "unsyncable"
  /\ Fault
  /\ RunFails(p)
  /\ \/ UNCHANGED etcdVars
     \/ ApplyToEtcd(e)
  /\ UNCHANGED <<dbVars, informerVars, lockVars>>

\* Deleting the row goes through the event logger, which fetches it first: a
\* row another writer has deleted is an error.
FetchEvent(p) ==
  /\ writer[p] = "fetch"
  /\ IF NextEvent(p) \in events
     THEN WriterGoto(p, "delete") /\ UNCHANGED <<pending, batch>>
     ELSE RunFails(p)
  /\ UNCHANGED <<dbVars, informerVars, etcdVars, faultVars, lockVars>>

\* The row is deleted and the transaction commits.
DeleteEvent(p) ==
  /\ writer[p] = "delete"
  /\ events' = events \ {NextEvent(p)}
  /\ batch' = [batch EXCEPT ![p] = @ \ {NextEvent(p)}]
  /\ WriterGoto(p, IF Cardinality(batch[p]) = 1 THEN "select" ELSE "push")
  /\ UNCHANGED <<db, writes, nextId, tx, api, pending, informerVars, etcdVars, faultVars, lockVars>>

\* The row is deleted, but the answer of the commit is lost.
DeleteUnknown(p, where) ==
  /\ writer[p] = where
  /\ events' = events \ {NextEvent(p)}
  /\ Fault
  /\ RunFails(p)
  /\ UNCHANGED <<db, writes, nextId, tx, api, informerVars, etcdVars, lockVars>>

\* Listing, fetching or deleting fails in the database, or the watch fails.
WriterError(p) ==
  /\ writer[p] \in {"select", "fetch", "delete"}
  /\ Fault
  /\ RunFails(p)
  /\ UNCHANGED <<dbVars, informerVars, etcdVars, lockVars>>

\* A deadlock in the database ends the transaction of the event: WithinTx tries
\* syncEvent again, which writes etcd once more.
RetryEvent(p) ==
  /\ writer[p] \in {"fetch", "delete"}
  /\ Fault
  /\ WriterGoto(p, "push")
  /\ UNCHANGED <<pending, batch, dbVars, informerVars, etcdVars, lockVars>>

\* Mutant: run does not receive from the lost channel.
LockLostIgnored(p) ==
  /\ writer[p] = "select"
  /\ p \in lost
  /\ UNCHANGED pipelineVars

\* The lost channel is closed; run looks at it only between two triggers.
LockLost(p) ==
  /\ writer[p] = "select"
  /\ p \in lost
  /\ RunFails(p)
  /\ UNCHANGED <<dbVars, informerVars, etcdVars, faultVars, lockVars>>

\* run's deferred Unlock.
Unlock(p) ==
  /\ writer[p] = "unlock"
  /\ Leave(p)
  /\ WriterGoto(p, "backoff")
  /\ pending' = [pending EXCEPT ![p] = 0]
  /\ UNCHANGED <<batch, dbVars, informerVars, etcdVars, faultVars>>

\* Run waits for the backoff and starts over.
Backoff(p) ==
  /\ writer[p] = "backoff"
  /\ WriterGoto(p, "lock")
  /\ UNCHANGED <<pending, batch, dbVars, informerVars, etcdVars, faultVars, lockVars>>

-----------------------------------------------------------------------------
(* The lock service and the processes *)

\* The key of a user that is not inside any more goes away.
ReleaseKey ==
  /\ holder \notin inside
  /\ Drop
  /\ UNCHANGED <<dbVars, informerVars, etcdVars, writerVars, faultVars>>

\* The lease of a user inside expires.
ExpireLease ==
  /\ expiries < MaxExpiries
  /\ holder \in inside
  /\ Drop
  /\ expiries' = expiries + 1
  /\ UNCHANGED <<faults, crashes, unheard, dbVars, informerVars, etcdVars, writerVars>>

\* The keepalive goroutine of a user that is not the holder reports the loss.
ReportLost(p) ==
  /\ p \notin lost
  /\ holder # p
  /\ SignalLost(p)
  /\ UNCHANGED <<dbVars, informerVars, etcdVars, writerVars, faultVars>>

\* A keepalive fails although the lease lives.
ReportLostSpuriously(p) ==
  /\ p \notin lost
  /\ holder = p
  /\ SignalLost(p)
  /\ Fault
  /\ UNCHANGED <<dbVars, informerVars, etcdVars, writerVars>>

\* The process dies: its transaction, its channel, what the informer and the
\* writer were doing are gone.  A graceful shutdown leaves the same behind.
Crash(p) ==
  /\ Alive(p)
  /\ crashes < MaxCrashes
  /\ crashes' = crashes + 1
  /\ tx' = [tx EXCEPT ![p] = {}]
  /\ api' = [api EXCEPT ![p] = "idle"]
  /\ chan' = [chan EXCEPT ![p] = 0]
  /\ informer' = [informer EXCEPT ![p] = "idle"]
  /\ pending' = [pending EXCEPT ![p] = 0]
  /\ batch' = [batch EXCEPT ![p] = {}]
  /\ WriterGoto(p, "dead")
  /\ IF p \in inside THEN Leave(p) ELSE UNCHANGED lockVars
  /\ UNCHANGED <<db, writes, events, nextId, txKey, etcdVars, faults, expiries, unheard>>

\* The process is started again.
Restart(p) ==
  /\ writer[p] = "dead"
  /\ WriterGoto(p, "lock")
  /\ UNCHANGED <<pending, batch, dbVars, informerVars, etcdVars, faultVars, lockVars>>

ApiStep(p) ==
  \/ \E k \in Keys, type \in {"create", "update", "delete"}, body \in Bodies :
        LogEvent(p, k, type, body)
  \/ Commit(p) \/ Rollback(p) \/ TriggerSyncWriter(p)

InformerStep(p) == Receive(p) \/ Notify(p)

WriterStep(p) ==
  \/ TakeLock(p) \/ StartWatch(p)
  \/ ListEvents(p) \/ PushEvent(p) \/ PushUnsyncable(p) \/ FetchEvent(p) \/ DeleteEvent(p)
  \/ LockLost(p) \/ Unlock(p) \/ Backoff(p)

FaultStep(p) ==
  \/ CommitUnknown(p) \/ NotifyError(p) \/ TakeLockUnknown(p)
  \/ PushError(p) \/ DeleteUnknown(p, "delete") \/ WriterError(p) \/ RetryEvent(p)
  \/ ReportLostSpuriously(p) \/ Crash(p) \/ Restart(p)

Next ==
  \/ \E p \in Users : ApiStep(p) \/ InformerStep(p) \/ WriterStep(p) \/ FaultStep(p) \/ ReportLost(p)
  \/ ReleaseKey
  \/ ExpireLease

Spec == Init /\ [][Next]_pipelineVars

\* A thread that can run does: the API thread after a commit, the informer and
\* the writer.  A dead process is started again, etcd drops abandoned keys and
\* the keepalive goroutine reports a lost lease (both shown for EtcdLock).
\* The lock needs strong fairness: it is free again and again.
Fairness ==
  /\ \A p \in Users :
       /\ WF_pipelineVars(TriggerSyncWriter(p))
       /\ WF_pipelineVars(InformerStep(p))
       /\ WF_pipelineVars(WriterStep(p))
       /\ SF_pipelineVars(TakeLock(p))
       /\ WF_pipelineVars(ReportLost(p))
       /\ WF_pipelineVars(Restart(p))
  /\ WF_pipelineVars(ReleaseKey)

FairSpec == Spec /\ Fairness

-----------------------------------------------------------------------------
(* Properties *)

\* The last change of a resource is in etcd or its event is still in the table:
\* whatever fails or crashes between the commit, the write to etcd and the
\* deletion of the row, no change is forgotten.
NoChangeForgotten ==
  \A k \in Keys :
    etcd[k] = db[k] \/ \E e \in events : e.key = k /\ e.no = writes[k]

\* The etcd copy of every resource only moves forward through its committed
\* versions: no retry, takeover or reordering shows an older one again.
R == INSTANCE Replication WITH source <- writes, copy <- copied
CopyMovesForward == R!RepSpec

\* Even when the lease of a writer expires and a second one works beside it,
\* a row leaves the event table only after its change has been applied to etcd.
AppliedBeforeRemoved ==
  \A k \in Keys : \A n \in 1 .. writes[k] :
    <<k, n>> \in applied \/ \E e \in events : e.key = k /\ e.no = n

\* A writer that is inside without being the holder leaves: it does not go on
\* writing beside its successor for ever.
StaleWriterLeaves ==
  \A p \in Users : (p \in inside /\ holder # p) ~> (p \notin inside)

\* "All changes happens in the RDBMS will be synchronized into the sync layer
\* by SyncWriter" (sync_writer.go:46): without crashes, expired leases and rows
\* that cannot be written to etcd, once the clients stop writing, etcd ends up
\* equal to the database and stays so, if Commit has returned for the last commit.
\* A commit that was executed but answered with an error sends nothing, and its
\* rows wait; the wake-up of a later commit, of whichever process, serves them,
\* too.  A wake-up that has been sent is not lost on its way through channel,
\* informer, etcd and watch, whatever call fails there.
UndisturbedChangesSynchronized ==
  <>[](/\ crashes = 0 /\ expiries = 0 /\ ~unheard
       /\ \A e \in events : e.body = "plain"
       => etcd = db)
=============================================================================
