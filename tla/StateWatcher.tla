---------------------------- MODULE StateWatcher ----------------------------
(***************************************************************************)
(* The loop of state_watcher.go around the handlers of ResourceState: the  *)
(* process that holds the lock state_watch opens a watch in etcd and hands *)
(* the events it delivers to processEvent, one after the other.            *)
(*                                                                         *)
(* An event is a report of a worker (the kind is the prefix of its key) or *)
(* a change of the lock's own key.  Each process is a client of            *)
(* ResourceState as well: the transaction of the handler it has called.    *)
(***************************************************************************)
EXTENDS ResourceState, SequencesExt, LeaseLock

CONSTANTS
  Api,          \* the client that runs the API requests; the others are Users
  MaxExpiries   \* bound: how many times a lease expires or a watch fails

VARIABLES
  loop,      \* per process: what iterate does next
  inbox,     \* per process: the events its watch has still to deliver
  expiries   \* how much of the bound is used up

watcherVars == <<loop, inbox, expiries>>
allVars == <<vars, lockVars, watcherVars>>

WatcherInit ==
  /\ Init
  /\ LockInit
  /\ loop = [p \in Users |-> "lock"]
  /\ inbox = [p \in Users |-> <<>>]
  /\ expiries = 0

\* The key iterate gives to Watch is lockKey, and a watch delivers the changes
\* of the keys with that prefix.
LockEvent == [kind |-> "lock"]
Watched(e) == e.kind = "lock"

\* An event goes to the open watches on its key.
Publish(e) ==
  inbox' = [p \in Users |-> IF loop[p] = "loop" /\ Watched(e) THEN Append(inbox[p], e) ELSE inbox[p]]

LoopGoto(p, where) == loop' = [loop EXCEPT ![p] = where]

\* iterate takes the lock, waiting for it.
TakeLock(p) ==
  /\ loop[p] = "lock"
  /\ Acquire(p)
  /\ Publish(LockEvent)
  /\ LoopGoto(p, "watch")
  /\ UNCHANGED <<vars, expiries>>

\* The watch starts with the current values of the keys.
Current == reports \cup {e \in {LockEvent} : holder # NoUser}
StartWatch(p) ==
  /\ loop[p] = "watch"
  /\ inbox' = [inbox EXCEPT ![p] = SetToSeq({e \in Current : Watched(e)})]
  /\ LoopGoto(p, "loop")
  /\ UNCHANGED <<vars, lockVars, expiries>>

\* processEvent calls the handler of the key's prefix; other keys are ignored.
ProcessEvent(p) ==
  /\ loop[p] = "loop"
  /\ phase[p] = "idle"
  /\ inbox[p] # <<>>
  /\ IF Head(inbox[p]).kind \in {"state", "monitoring"}
     THEN Begin(p, Head(inbox[p])) ELSE UNCHANGED vars
  /\ inbox' = [inbox EXCEPT ![p] = Tail(@)]
  /\ UNCHANGED <<lockVars, loop, expiries>>

\* The handler's transaction.
HandlerStep(p) ==
  /\ Fetch(p) \/ Write(p) \/ Deadlocked(p)
  /\ UNCHANGED <<lockVars, watcherVars>>

\* The lost channel is closed: iterate cancels the watch, waits for the
\* goroutine and unlocks.
LockLost(p) ==
  /\ loop[p] = "loop"
  /\ p \in lost
  /\ phase[p] = "idle"
  /\ Leave(p)
  /\ LoopGoto(p, "lock")
  /\ inbox' = [inbox EXCEPT ![p] = <<>>]
  /\ UNCHANGED <<vars, expiries>>

\* The watch reports an error, which ends iterate (without an error: it returns
\* the one of Lock).
WatchFails(p) ==
  /\ loop[p] = "loop"
  /\ phase[p] = "idle"
  /\ expiries < MaxExpiries
  /\ expiries' = expiries + 1
  /\ Leave(p)
  /\ LoopGoto(p, "lock")
  /\ inbox' = [inbox EXCEPT ![p] = <<>>]
  /\ UNCHANGED vars

\* An API request creates or updates the resource.
ApiStep ==
  /\ \/ Create(Api) \/ Begin(Api, [kind |-> "update"])
     \/ Fetch(Api) \/ Write(Api) \/ Deadlocked(Api) \/ Abort(Api)
  /\ UNCHANGED <<lockVars, watcherVars>>

\* A worker writes a report; the watches that cover its key deliver it.
WorkerReport(kind, version, text) ==
  /\ WriteReport(kind, version, text)
  /\ Publish([kind |-> kind, version |-> version, text |-> text, no |-> Cardinality(reports) + 1])
  /\ UNCHANGED <<lockVars, loop, expiries>>

\* The key of the lock goes away: abandoned, or because its lease expired.
LoseKey ==
  /\ Drop
  /\ holder \in inside => expiries < MaxExpiries
  /\ expiries' = expiries + IF holder \in inside THEN 1 ELSE 0
  /\ Publish(LockEvent)
  /\ UNCHANGED <<vars, loop>>

ReportLost(p) ==
  /\ p \notin lost
  /\ holder # p
  /\ SignalLost(p)
  /\ UNCHANGED <<vars, watcherVars>>

WatcherStep(p) == TakeLock(p) \/ StartWatch(p) \/ ProcessEvent(p) \/ LockLost(p)

WatcherNext ==
  \/ \E p \in Users : WatcherStep(p) \/ HandlerStep(p) \/ ReportLost(p) \/ WatchFails(p)
  \/ \E kind \in {"state", "monitoring"}, version \in 0 .. MaxConfig, text \in BOOLEAN :
        WorkerReport(kind, version, text)
  \/ ApiStep
  \/ LoseKey

\* The goroutines of the watcher and its transactions run; the lock service
\* drops abandoned keys and reports a lost lease, as shown for EtcdLock.
WatcherFairness ==
  /\ \A p \in Users :
       /\ WF_allVars(WatcherStep(p))
       /\ WF_allVars(HandlerStep(p))
       /\ WF_allVars(ReportLost(p))
  /\ WF_allVars(holder \notin inside /\ LoseKey)

WatcherSpec == WatcherInit /\ [][WatcherNext]_allVars /\ WatcherFairness

\* "Gohan will read this information and update the database accordingly"
\* (docs/cli.md): a state that a worker reports about the resource's config
\* version gets to a handler, unless that version has a state already or the
\* resource is updated.
StateReportsHandled ==
  \A r \in {q \in Report : q.kind = "state"} :
    <>(r \in reports /\ row.config_version = r.version)
      => <>(\/ \E p \in Users : job[p] = r
            \/ row.state_version >= r.version
            \/ row.config_version > r.version)
=============================================================================
