---------------------------- MODULE PathWatcher ----------------------------
(***************************************************************************)
(* server/path_watcher.go: the processes of a cluster run the extension    *)
(* "notification" for every change under one watched path of etcd, the     *)
(* holder of the path's lock being the one that does.                      *)
(*                                                                         *)
(* The revision of the last event handled is kept in etcd and advanced     *)
(* with a compare-and-swap on the revision this watcher stored before: a   *)
(* watcher that lost its lease while an event was being handled learns     *)
(* there that its successor has made progress, stops, and touches the key  *)
(* of its event so that the successor handles the key once more.           *)
(*                                                                         *)
(* Only changes under the path are numbered: revision r is the r-th of     *)
(* them.  A value is the number of the write that produced it, Deleted (0) *)
(* when the key is absent.  The extension is represented by what it stores *)
(* elsewhere: the value it saw last for each key.                          *)
(***************************************************************************)
EXTENDS Integers, Sequences, LeaseLock

CONSTANTS
  Keys,          \* the keys under the path
  Stored0,       \* what may be stored at first: 0, or RevisionCurrent for nothing
  MaxWrites,     \* bound: how many times clients write under the path
  MaxFaults,     \* bound: how many calls to etcd or extensions fail
  MaxCrashes,    \* bound: how many times a process dies
  MaxExpiries,   \* bound: how many times the lease of a user inside expires
  MaxCompactions,\* bound: how many times etcd's history is compacted
  MaxLog         \* bound: a stale watcher goes unnoticed while the log is shorter

RevisionCurrent == -1
Deleted == 0

ASSUME WatcherConstants ==
  /\ Stored0 \subseteq {RevisionCurrent, 0}
  /\ {MaxWrites, MaxFaults, MaxCrashes, MaxExpiries, MaxCompactions, MaxLog} \subseteq Nat

VARIABLES
  log,        \* etcd: the changes under the path, in the order of revisions
  writes,     \* how many of them clients made
  compacted,  \* etcd: changes before this revision cannot be watched any more
  stored,     \* etcd: the revision stored for the path, RevisionCurrent if none
  pc,         \* per process: what its PathWatcher does next
  prev,       \* per process: previousProcessedRevision
  cursor,     \* per process: the next revision of its watch
  cur,        \* per process: the revision of the event in consumeEvent
  fetched,    \* per process: the value recovery has fetched
  view,       \* per key: the value the extension was run with last
  handled,    \* the revisions the extension was run for (history)
  skipped,    \* the revisions given up: compacted, or the extension failed (history)
  blind,      \* whether a watcher has started without a stored revision (history)
  faults, crashes, expiries, compactions   \* how much of the bounds is used up

etcdVars == <<log, writes, compacted>>
watcherVars == <<pc, prev, cursor, cur, fetched>>
effectVars == <<view, handled, skipped, blind>>
boundVars == <<faults, crashes, expiries, compactions>>
vars == <<etcdVars, stored, watcherVars, effectVars, boundVars, lockVars>>

PC == {"lock", "fetch", "watch", "events", "handle", "store", "recover", "swap",
       "compact", "unlock"}

Change == [key : Keys, val : 0 .. MaxWrites]

TypeOK ==
  /\ LockTypeOK
  /\ log \in Seq(Change)
  /\ writes \in 0 .. MaxWrites
  /\ compacted \in 0 .. Len(log)
  /\ stored \in RevisionCurrent .. Len(log)
  /\ pc \in [Users -> PC]
  /\ prev \in [Users -> RevisionCurrent .. Len(log)]
  /\ cursor \in [Users -> 0 .. Len(log) + 1]
  /\ cur \in [Users -> 0 .. Len(log)]
  /\ fetched \in [Users -> 0 .. MaxWrites]
  /\ view \in [Keys -> 0 .. MaxWrites]
  /\ handled \subseteq 1 .. Len(log)
  /\ skipped \subseteq 1 .. Len(log)
  /\ blind \in BOOLEAN
  /\ faults \in 0 .. MaxFaults
  /\ crashes \in 0 .. MaxCrashes
  /\ expiries \in 0 .. MaxExpiries
  /\ compactions \in 0 .. MaxCompactions

\* A cluster that has run before has stored the revision it is at, a new one
\* has stored nothing.
Init ==
  /\ LockInit
  /\ log = <<>>
  /\ writes = 0
  /\ compacted = 0
  /\ stored \in Stored0
  /\ pc = [p \in Users |-> "lock"]
  /\ prev = [p \in Users |-> RevisionCurrent]
  /\ cursor = [p \in Users |-> 0]
  /\ cur = [p \in Users |-> 0]
  /\ fetched = [p \in Users |-> Deleted]
  /\ view = [k \in Keys |-> Deleted]
  /\ handled = {}
  /\ skipped = {}
  /\ blind = FALSE
  /\ faults = 0 /\ crashes = 0 /\ expiries = 0 /\ compactions = 0

Goto(p, where) == pc' = [pc EXCEPT ![p] = where]

Fault ==
  /\ faults < MaxFaults
  /\ faults' = faults + 1
  /\ UNCHANGED <<crashes, expiries, compactions>>

\* The changes of key k, and the value it has now.
ChangesOf(k) == {r \in 1 .. Len(log) : log[r].key = k}
ValueOf(k) ==
  IF ChangesOf(k) = {} THEN Deleted
  ELSE log[CHOOSE r \in ChangesOf(k) : \A s \in ChangesOf(k) : s <= r].val

-----------------------------------------------------------------------------
(* run: lock, fetch the stored revision, watch *)

\* A Lock that fails is tried again after a while.
TakeLock(p) ==
  /\ pc[p] = "lock"
  /\ Acquire(p)
  /\ Goto(p, "fetch")
  /\ UNCHANGED <<etcdVars, stored, prev, cursor, cur, fetched, effectVars, boundVars>>

\* fetchStoredRevision finds the revision, or that there is none.
FetchStoredRevision(p) ==
  /\ pc[p] = "fetch"
  /\ prev' = [prev EXCEPT ![p] = stored]
  /\ blind' = (blind \/ stored = RevisionCurrent)
  /\ Goto(p, "watch")
  /\ UNCHANGED <<etcdVars, stored, cursor, cur, fetched, view, handled, skipped, boundVars, lockVars>>

\* The fetch fails: the watcher starts at the current revision.
FetchStoredRevisionError(p) ==
  /\ pc[p] = "fetch"
  /\ Fault
  /\ prev' = [prev EXCEPT ![p] = RevisionCurrent]
  /\ blind' = TRUE
  /\ Goto(p, "watch")
  /\ UNCHANGED <<etcdVars, stored, cursor, cur, fetched, view, handled, skipped, lockVars>>

\* Watch(path, previousProcessedRevision + 1); for etcd revision 0 is "from now".
StartWatch(p) ==
  /\ pc[p] = "watch"
  /\ cursor' = [cursor EXCEPT ![p] =
                  IF prev[p] = RevisionCurrent THEN Len(log) + 1 ELSE prev[p] + 1]
  /\ Goto(p, "events")
  /\ UNCHANGED <<etcdVars, stored, prev, cur, fetched, effectVars, boundVars, lockVars>>

-----------------------------------------------------------------------------
(* consumeEvents and consumeEvent, which nothing but a crash interrupts *)

\* The process is inside without holding the lock any more.
Stale(p) == p \in inside /\ holder # p

\* Mutant: the revision is stored without comparing the old one.
NeverFenced(p) == TRUE

\* The condition of storeRevision's compare-and-swap.
Unfenced(p) == prev[p] = RevisionCurrent \/ stored = prev[p]

\* Mutant: the revision is stored before the extension has run.
StoreRevisionFirst(p) ==
  /\ pc[p] = "events"
  /\ compacted <= cursor[p] /\ cursor[p] <= Len(log)
  /\ Unfenced(p)
  /\ cur' = [cur EXCEPT ![p] = cursor[p]]
  /\ cursor' = [cursor EXCEPT ![p] = @ + 1]
  /\ stored' = cursor[p]
  /\ prev' = [prev EXCEPT ![p] = cursor[p]]
  /\ Goto(p, "handle")
  /\ UNCHANGED <<etcdVars, fetched, effectVars, boundVars, lockVars>>

\* The watch delivers the next change.  Two watchers inside can make each other
\* touch the key again and again, until the stale one hears of its loss.
ReceiveEvent(p) ==
  /\ pc[p] = "events"
  /\ Stale(p) => Len(log) < MaxLog
  /\ compacted <= cursor[p] /\ cursor[p] <= Len(log)
  /\ cur' = [cur EXCEPT ![p] = cursor[p]]
  /\ cursor' = [cursor EXCEPT ![p] = @ + 1]
  /\ Goto(p, "handle")
  /\ UNCHANGED <<etcdVars, stored, prev, fetched, effectVars, boundVars, lockVars>>

\* The watch reports that the next change has been compacted away.
ReceiveCompacted(p) ==
  /\ pc[p] = "events"
  /\ cursor[p] < compacted
  /\ cur' = [cur EXCEPT ![p] = compacted - 1]
  /\ Goto(p, "compact")
  /\ UNCHANGED <<etcdVars, stored, prev, cursor, fetched, effectVars, boundVars, lockVars>>

\* The watch reports another error; there is no recovery from it.
ReceiveError(p) ==
  /\ pc[p] = "events"
  /\ Fault
  /\ Goto(p, "unlock")
  /\ UNCHANGED <<etcdVars, stored, prev, cursor, cur, fetched, effectVars, lockVars>>

\* watchExtensionHandler runs the extension.
HandleEvent(p) ==
  /\ pc[p] = "handle"
  /\ view' = [view EXCEPT ![log[cur[p]].key] = log[cur[p]].val]
  /\ handled' = handled \cup {cur[p]}
  /\ Goto(p, "store")
  /\ UNCHANGED <<etcdVars, stored, prev, cursor, cur, fetched, skipped, blind, boundVars, lockVars>>

\* The extension returns an error or panics: it is logged, the event is lost.
HandleEventError(p) ==
  /\ pc[p] = "handle"
  /\ Fault
  /\ skipped' = skipped \cup {cur[p]}
  /\ Goto(p, "store")
  /\ UNCHANGED <<etcdVars, stored, prev, cursor, cur, fetched, view, handled, blind, lockVars>>

\* storeRevision advances the stored revision to that of the event handled.
StoreRevision(p) ==
  /\ pc[p] = "store"
  /\ Unfenced(p)
  /\ stored' = cur[p]
  /\ prev' = [prev EXCEPT ![p] = cur[p]]
  /\ Goto(p, "events")
  /\ UNCHANGED <<etcdVars, cursor, cur, fetched, effectVars, boundVars, lockVars>>

\* Another watcher has stored a revision: errInconsistentCluster.
StoreRevisionConflict(p) ==
  /\ pc[p] = "store"
  /\ ~Unfenced(p)
  /\ Goto(p, "recover")
  /\ UNCHANGED <<etcdVars, stored, prev, cursor, cur, fetched, effectVars, boundVars, lockVars>>

\* The call fails, possibly after etcd has executed it; no recovery.
StoreRevisionError(p) ==
  /\ pc[p] = "store"
  /\ Fault
  /\ \/ UNCHANGED stored
     \/ Unfenced(p) /\ stored' = cur[p]
  /\ Goto(p, "unlock")
  /\ UNCHANGED <<etcdVars, prev, cursor, cur, fetched, effectVars, lockVars>>

-----------------------------------------------------------------------------
(* tryRecover *)

\* tryRecoverInconsistentCluster fetches the key of its event; a key that does
\* not exist any more cannot be recovered.
RecoverFetch(p) ==
  LET val == ValueOf(log[cur[p]].key) IN
  /\ pc[p] = "recover"
  /\ fetched' = [fetched EXCEPT ![p] = val]
  /\ Goto(p, IF val = Deleted THEN "unlock" ELSE "swap")
  /\ UNCHANGED <<etcdVars, stored, prev, cursor, cur, effectVars, boundVars, lockVars>>

\* Mutant: recovery gives up without touching the key.
RecoverGiveUp(p) ==
  /\ pc[p] = "swap"
  /\ Goto(p, "unlock")
  /\ UNCHANGED <<etcdVars, stored, prev, cursor, cur, fetched, effectVars, boundVars, lockVars>>

\* It writes the value back if the key still has it, which makes a new event
\* for the present holder; otherwise such an event exists already.
RecoverSwap(p) ==
  LET key == log[cur[p]].key IN
  /\ pc[p] = "swap"
  /\ log' = IF ValueOf(key) = fetched[p]
            THEN Append(log, [key |-> key, val |-> fetched[p]]) ELSE log
  /\ Goto(p, "unlock")
  /\ UNCHANGED <<writes, compacted, stored, prev, cursor, cur, fetched, effectVars, boundVars, lockVars>>

\* The fetch, the swap or the store fails.  (A swap or store that is executed
\* without an answer leaves what RecoverSwap and RecoverCompaction leave.)
RecoverError(p) ==
  /\ pc[p] \in {"recover", "swap", "compact"}
  /\ Fault
  /\ Goto(p, "unlock")
  /\ UNCHANGED <<etcdVars, stored, prev, cursor, cur, fetched, effectVars, lockVars>>

\* tryRecoverCompaction stores the last revision that is gone, unless another
\* watcher has stored something since.
RecoverCompaction(p) ==
  /\ pc[p] = "compact"
  /\ IF Unfenced(p)
     THEN /\ stored' = cur[p]
          /\ prev' = [prev EXCEPT ![p] = cur[p]]
          /\ skipped' = skipped \cup (cursor[p] .. cur[p])
     ELSE UNCHANGED <<stored, prev, skipped>>
  /\ Goto(p, "unlock")
  /\ UNCHANGED <<etcdVars, cursor, cur, fetched, view, handled, blind, boundVars, lockVars>>

-----------------------------------------------------------------------------
(* The end of run *)

\* The lost channel is closed; consumeEvents stops between two events.
LockLost(p) ==
  /\ pc[p] = "events"
  /\ p \in lost
  /\ Goto(p, "unlock")
  /\ UNCHANGED <<etcdVars, stored, prev, cursor, cur, fetched, effectVars, boundVars, lockVars>>

\* What run keeps in variables is gone when it returns.  (The field
\* previousProcessedRevision survives, but run sets it before it is read.)
Forget(p) ==
  /\ prev' = [prev EXCEPT ![p] = RevisionCurrent]
  /\ cursor' = [cursor EXCEPT ![p] = 0]
  /\ cur' = [cur EXCEPT ![p] = 0]
  /\ fetched' = [fetched EXCEPT ![p] = Deleted]

\* The deferred Unlock; after a pause Run calls run again.
Unlock(p) ==
  /\ pc[p] = "unlock"
  /\ Leave(p)
  /\ Goto(p, "lock")
  /\ Forget(p)
  /\ UNCHANGED <<etcdVars, stored, effectVars, boundVars>>

\* The process dies and is started again.
Crash(p) ==
  /\ p \in inside
  /\ crashes < MaxCrashes
  /\ crashes' = crashes + 1
  /\ Leave(p)
  /\ Goto(p, "lock")
  /\ Forget(p)
  /\ UNCHANGED <<etcdVars, stored, effectVars, faults, expiries, compactions>>

-----------------------------------------------------------------------------
(* etcd and its clients *)

ClientPut(k) ==
  /\ writes < MaxWrites
  /\ writes' = writes + 1
  /\ log' = Append(log, [key |-> k, val |-> writes + 1])
  /\ UNCHANGED <<compacted, stored, watcherVars, effectVars, boundVars, lockVars>>

ClientDelete(k) ==
  /\ writes < MaxWrites
  /\ ValueOf(k) # Deleted
  /\ writes' = writes + 1
  /\ log' = Append(log, [key |-> k, val |-> Deleted])
  /\ UNCHANGED <<compacted, stored, watcherVars, effectVars, boundVars, lockVars>>

\* etcd's history before some revision is compacted.
Compact ==
  /\ compactions < MaxCompactions
  /\ compactions' = compactions + 1
  /\ \E r \in compacted + 1 .. Len(log) : compacted' = r
  /\ UNCHANGED <<log, writes, stored, watcherVars, effectVars, faults, crashes, expiries, lockVars>>

\* The key of a user that is not inside any more goes away.
ReleaseKey ==
  /\ holder \notin inside
  /\ Drop
  /\ UNCHANGED <<etcdVars, stored, watcherVars, effectVars, boundVars>>

\* The lease of a user inside expires.
ExpireLease ==
  /\ expiries < MaxExpiries
  /\ holder \in inside
  /\ Drop
  /\ expiries' = expiries + 1
  /\ UNCHANGED <<etcdVars, stored, watcherVars, effectVars, faults, crashes, compactions>>

\* The keepalive goroutine of a user that is not the holder reports the loss.
ReportLost(p) ==
  /\ p \notin lost
  /\ holder # p
  /\ SignalLost(p)
  /\ UNCHANGED <<etcdVars, stored, watcherVars, effectVars, boundVars>>

WatcherStep(p) ==
  \/ TakeLock(p) \/ FetchStoredRevision(p) \/ StartWatch(p)
  \/ ReceiveEvent(p) \/ ReceiveCompacted(p) \/ HandleEvent(p)
  \/ StoreRevision(p) \/ StoreRevisionConflict(p)
  \/ RecoverFetch(p) \/ RecoverSwap(p) \/ RecoverCompaction(p)
  \/ LockLost(p) \/ Unlock(p)

FaultStep(p) ==
  \/ FetchStoredRevisionError(p) \/ ReceiveError(p) \/ HandleEventError(p)
  \/ StoreRevisionError(p) \/ RecoverError(p) \/ Crash(p)

Next ==
  \/ \E p \in Users : WatcherStep(p) \/ FaultStep(p) \/ ReportLost(p)
  \/ \E k \in Keys : ClientPut(k) \/ ClientDelete(k)
  \/ Compact \/ ReleaseKey \/ ExpireLease

Spec == Init /\ [][Next]_vars

\* The watchers' goroutines run, and the lock service does what EtcdLock is
\* shown to do: it drops abandoned keys and reports a lost lease.
Fairness ==
  /\ \A p \in Users :
       /\ WF_vars(WatcherStep(p))
       /\ SF_vars(TakeLock(p))
       /\ WF_vars(ReportLost(p))
  /\ WF_vars(ReleaseKey)

FairSpec == Spec /\ Fairness

-----------------------------------------------------------------------------
(* Properties *)

\* The stored revision never goes back, although a watcher that lost its lease
\* may store beside its successor: its compare-and-swap fails.  (Only a watcher
\* that found no revision to compare with stores without a condition, so an
\* expired lease and such a watcher together are excepted.)
StoredNeverGoesBack == [][~blind' \/ expiries' = 0 => stored' >= stored]_vars

\* Every change up to the stored revision has been given to the extension, or
\* was given up.
StoredIsHandled == \A r \in 1 .. stored : r \in handled \cup skipped

\* No crash, takeover, conflict or failed call makes a cluster that knows its
\* stored revision skip a change.
NoEventSkipped == ~blind => StoredIsHandled

\* Once clients stop writing, the extension has seen the last value of every
\* key that exists, although a watcher that lost its lease may have handled an
\* old change after its successor handled a newer one: recovery makes the
\* successor handle the key again.  (Without failing calls, crashes and
\* compactions, each of which may cut the recovery short.)
ViewConverges ==
  <>[](~blind /\ faults = 0 /\ crashes = 0 /\ compactions = 0
         => \A k \in Keys : ValueOf(k) # Deleted => view[k] = ValueOf(k))
=============================================================================
