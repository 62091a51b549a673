---------------------------- MODULE SyncWatcher ----------------------------
(***************************************************************************)
(* The load balancing of sync_watcher.go.                                  *)
(*                                                                         *)
(* Every process registers under processPathPrefix with a lock on a key    *)
(* that is named after itself, and watches that prefix.  It keeps the list *)
(* of processes from the events of the watch.  After every event it stops  *)
(* its path watchers, and starts new ones: with n processes, the one at    *)
(* position i of the sorted list watches the k-th configured key with      *)
(* priority (i - k) mod n; priority 0 does not wait before it tries the    *)
(* lock of the key, the others stand by (see PathWatcher).                 *)
(*                                                                         *)
(* A process is a number, in the order of the process ids.  The sorted     *)
(* list without duplicates is a set; a position is a process's rank in it. *)
(***************************************************************************)
EXTENDS Integers, FiniteSets, SequencesExt

CONSTANTS
  Procs,        \* the processes
  WatchKeys,    \* how many keys are configured under watch/keys
  MaxTroubles   \* bound: how many processes die or are stopped, leases expire, calls fail

ASSUME WatcherConstants ==
  /\ Procs \subseteq Nat
  /\ IsFiniteSet(Procs)
  /\ {WatchKeys, MaxTroubles} \subseteq Nat

VARIABLES
  members,   \* the processes whose keys are in etcd, in the order of their revisions
  pc,        \* per process: where Run and processWatchLoop are
  lost,      \* the processes whose lost channel is closed
  closing,   \* the processes that have cancelled their watch
  inbox,     \* per process: the events in the channel of its watch
  list,      \* per process: processList
  watches,   \* per process: size and position its path watchers run with
  stopping,  \* the processes whose context is cancelled
  troubles   \* how much of the bound is used up

procVars == <<pc, lost, closing, inbox, list, watches>>
vars == <<members, procVars, stopping, troubles>>

\* "loop" is processWatchLoop, which waits for an event and for <-previousDone.
PC == {"lock", "watch", "loop", "unlock", "dead"}
Event == [action : {"get", "set", "delete", "error"}, proc : Procs]
NoWatches == [size |-> 0, position |-> 0]

Init ==
  /\ members = <<>>
  /\ pc = [p \in Procs |-> "lock"]
  /\ lost = {} /\ closing = {}
  /\ inbox = [p \in Procs |-> <<>>]
  /\ list = [p \in Procs |-> {}]
  /\ watches = [p \in Procs |-> NoWatches]
  /\ stopping = {} /\ troubles = 0

Goto(p, where) == pc' = [pc EXCEPT ![p] = where]

Registered == ToSet(members)
Watching(p) == pc[p] = "loop" /\ p \notin closing
Trouble == troubles < MaxTroubles /\ troubles' = troubles + 1

\* A change of p's key is delivered to the open watches.
Publish(action, p) ==
  inbox' = [q \in Procs |-> IF Watching(q)
                            THEN Append(inbox[q], [action |-> action, proc |-> p]) ELSE inbox[q]]

\* p's key is deleted.
MembersWithout(p) == RemoveAt(members, CHOOSE i \in DOMAIN members : members[i] = p)

-----------------------------------------------------------------------------
(* Run *)

\* Lock(processPathPrefix/processID) waits until the key of an earlier
\* registration is gone.
Register(p) ==
  /\ pc[p] = "lock"
  /\ p \notin stopping
  /\ p \notin Registered
  /\ members' = Append(members, p)
  /\ Publish("set", p)
  /\ Goto(p, "watch")
  /\ UNCHANGED <<lost, closing, list, watches, stopping, troubles>>

\* Lock, or the wait before it, ends with the context, and so does Run.
LockCancelled(p) ==
  /\ pc[p] = "lock"
  /\ p \in stopping
  /\ Goto(p, "dead")
  /\ UNCHANGED <<members, lost, closing, inbox, list, watches, stopping, troubles>>

\* Mutant: the watch delivers changes only.
OpenWatchAtNext(p) ==
  /\ pc[p] = "watch"
  /\ inbox' = [inbox EXCEPT ![p] = <<>>]
  /\ Goto(p, "loop")
  /\ UNCHANGED <<members, lost, closing, list, watches, stopping, troubles>>

\* Watch(processPathPrefix, RevisionCurrent) begins with the keys there are.
OpenWatch(p) ==
  /\ pc[p] = "watch"
  /\ inbox' = [inbox EXCEPT ![p] =
                 [i \in 1 .. Len(members) |-> [action |-> "get", proc |-> members[i]]]]
  /\ Goto(p, "loop")
  /\ UNCHANGED <<members, lost, closing, list, watches, stopping, troubles>>

\* The lost channel is closed or the context cancelled: the watch is cancelled,
\* and Run waits for processWatchLoop.
CancelWatch(p) ==
  /\ Watching(p)
  /\ p \in lost \cup stopping
  /\ closing' = closing \cup {p}
  /\ UNCHANGED <<members, pc, lost, inbox, list, watches, stopping, troubles>>

\* The deferred Unlock deletes the key,
Unlock(p) ==
  /\ pc[p] = "unlock"
  /\ p \in Registered
  /\ members' = MembersWithout(p)
  /\ Publish("delete", p)
  /\ lost' = lost \ {p}
  /\ Goto(p, "lock")
  /\ UNCHANGED <<closing, list, watches, stopping, troubles>>

\* or finds that the keepalive goroutine has taken the entry out of the map, and
\* leaves the key to its lease.
UnlockNothing(p) ==
  /\ pc[p] = "unlock"
  /\ p \in lost \/ p \notin Registered
  /\ lost' = lost \ {p}
  /\ Goto(p, "lock")
  /\ UNCHANGED <<members, closing, inbox, list, watches, stopping, troubles>>

-----------------------------------------------------------------------------
(* processWatchLoop *)

\* The list after an event.
NewList(ps, event) ==
  IF event.action = "delete" THEN ps \ {event.proc} ELSE ps \cup {event.proc}

\* The index of p in the sorted list.
Position(ps, p) == Cardinality({q \in ps : q < p})

\* What runSyncWatches is called with, if p is on its own list.
WatchesFor(ps, p) ==
  IF p \in ps THEN [size |-> Cardinality(ps), position |-> Position(ps, p)] ELSE NoWatches

\* Mutant: the difference is not wrapped.
PriorityUnwrapped(p, k) == watches[p].position - (k % watches[p].size)

\* The priority of p's watcher of key k.
Priority(p, k) ==
  LET w == watches[p] IN (w.position - (k % w.size) + w.size) % w.size

\* Mutant: the path watchers are restarted for new processes only.
UpdateWatchesOnAdd(p) ==
  LET event == Head(inbox[p])
      ps == NewList(list[p], event) IN
  /\ pc[p] = "loop"
  /\ inbox[p] # <<>>
  /\ event.action # "error"
  /\ list' = [list EXCEPT ![p] = ps]
  /\ watches' = [watches EXCEPT ![p] = IF event.action = "delete" THEN @ ELSE WatchesFor(ps, p)]
  /\ inbox' = [inbox EXCEPT ![p] = Tail(@)]
  /\ UNCHANGED <<members, pc, lost, closing, stopping, troubles>>

\* There is an event, and the path watchers, cancelled when it was received, have
\* stopped: the list changes, and new path watchers start.
Update(p) ==
  LET event == Head(inbox[p])
      ps == NewList(list[p], event) IN
  /\ pc[p] = "loop"
  /\ inbox[p] # <<>>
  /\ event.action # "error"
  /\ list' = [list EXCEPT ![p] = ps]
  /\ watches' = [watches EXCEPT ![p] = WatchesFor(ps, p)]
  /\ inbox' = [inbox EXCEPT ![p] = Tail(@)]
  /\ UNCHANGED <<members, pc, lost, closing, stopping, troubles>>

\* The loop returns: the deferred function has stopped the path watchers.
LoopReturns(p) ==
  /\ watches' = [watches EXCEPT ![p] = NoWatches]
  /\ inbox' = [inbox EXCEPT ![p] = <<>>]
  /\ list' = [list EXCEPT ![p] = {}]
  /\ closing' = closing \ {p}
  /\ Goto(p, "unlock")
  /\ UNCHANGED <<members, lost, stopping, troubles>>

\* The watch has reported an error.
UpdateError(p) ==
  /\ pc[p] = "loop"
  /\ inbox[p] # <<>>
  /\ Head(inbox[p]).action = "error"
  /\ LoopReturns(p)

\* The channel is closed, after none, some or all of what it still held.
LoopEnds(p) ==
  /\ pc[p] = "loop"
  /\ p \in closing
  /\ LoopReturns(p)

-----------------------------------------------------------------------------
(* The lock service and the processes *)

Inside(p) == pc[p] \in {"watch", "loop", "unlock"}

\* A key nobody renews goes away with its lease.
Lapse(p) ==
  /\ p \in Registered
  /\ p \in lost \/ ~Inside(p)
  /\ members' = MembersWithout(p)
  /\ Publish("delete", p)
  /\ UNCHANGED <<pc, lost, closing, list, watches, stopping, troubles>>

\* The lease of a process inside expires.
Expire(p) ==
  /\ p \in Registered
  /\ Inside(p)
  /\ Trouble
  /\ members' = MembersWithout(p)
  /\ Publish("delete", p)
  /\ UNCHANGED <<pc, lost, closing, list, watches, stopping>>

\* The keepalive goroutine finds the lease gone,
ReportLost(p) ==
  /\ Inside(p)
  /\ p \notin Registered \cup lost
  /\ lost' = lost \cup {p}
  /\ UNCHANGED <<members, pc, closing, inbox, list, watches, stopping, troubles>>

\* or fails to renew it, as it does with the cancelled context of a stopped server.
KeepAliveError(p) ==
  /\ Inside(p)
  /\ p \in Registered \ lost
  /\ IF p \in stopping THEN UNCHANGED troubles ELSE Trouble
  /\ lost' = lost \cup {p}
  /\ UNCHANGED <<members, pc, closing, inbox, list, watches, stopping>>

\* The watch fails: the channel gets an error, or only ends if it is full.
WatchError(p) ==
  /\ Watching(p)
  /\ Trouble
  /\ \/ /\ inbox' = [inbox EXCEPT ![p] = Append(@, [action |-> "error", proc |-> p])]
        /\ UNCHANGED closing
     \/ /\ inbox[p] # <<>>
        /\ closing' = closing \cup {p}
        /\ UNCHANGED inbox
  /\ UNCHANGED <<members, pc, lost, list, watches, stopping>>

\* The server cancels the context of Run.
Stop(p) ==
  /\ pc[p] # "dead"
  /\ p \notin stopping
  /\ Trouble
  /\ stopping' = stopping \cup {p}
  /\ UNCHANGED <<members, procVars>>

\* The process dies; a new one would have another id.
Crash(p) ==
  /\ pc[p] # "dead"
  /\ Trouble
  /\ Goto(p, "dead")
  /\ lost' = lost \ {p}
  /\ closing' = closing \ {p}
  /\ inbox' = [inbox EXCEPT ![p] = <<>>]
  /\ list' = [list EXCEPT ![p] = {}]
  /\ watches' = [watches EXCEPT ![p] = NoWatches]
  /\ stopping' = stopping \ {p}
  /\ UNCHANGED members

RunStep(p) ==
  \/ Register(p) \/ LockCancelled(p) \/ OpenWatch(p) \/ CancelWatch(p)
  \/ Unlock(p) \/ UnlockNothing(p)

LoopStep(p) == Update(p) \/ UpdateError(p) \/ LoopEnds(p)

TroubleStep(p) == Expire(p) \/ KeepAliveError(p) \/ WatchError(p) \/ Stop(p) \/ Crash(p)

Next == \E p \in Procs : RunStep(p) \/ LoopStep(p) \/ Lapse(p) \/ ReportLost(p) \/ TroubleStep(p)

\* The goroutines run, path watchers stop when they are cancelled, etcd ends
\* leases nobody renews and the keepalive goroutine reports a lost one.
Fairness ==
  \A p \in Procs :
    /\ WF_vars(RunStep(p))
    /\ WF_vars(LoopStep(p))
    /\ WF_vars(LoopEnds(p))
    /\ WF_vars(Lapse(p))
    /\ WF_vars(ReportLost(p))

Spec == Init /\ [][Next]_vars /\ Fairness

-----------------------------------------------------------------------------
(* Properties *)

TypeOK ==
  /\ Registered \subseteq Procs
  /\ IsInjective(members)
  /\ pc \in [Procs -> PC]
  /\ lost \cup closing \cup stopping \subseteq Procs
  /\ \A p \in Procs : ToSet(inbox[p]) \subseteq Event
  /\ list \in [Procs -> SUBSET Procs]
  /\ \A p \in Procs : watches[p] = NoWatches \/ watches[p].position < watches[p].size

\* p has handled the events of its watch.
UpToDate(p) == pc[p] = "loop" /\ p \notin closing /\ inbox[p] = <<>>

\* A process that has handled the events of its watch knows exactly the
\* processes registered in etcd, through expired leases, restarted watches and
\* keys that outlive their process.
ListIsCurrent ==
  \A p \in Procs : UpToDate(p) => list[p] = Registered

\* p tries the lock of key k at once.
Master(p, k) == watches[p] # NoWatches /\ Priority(p, k) = 0

\* Whenever the registered processes have handled their events, every key has
\* one that watches it first, and the others stand by at distances that differ,
\* so that no two wait equally long for the lock of the key.
OneMasterPerKey ==
  (Registered # {} /\ \A p \in Registered : UpToDate(p)) =>
    \A k \in 0 .. WatchKeys - 1 : {Priority(p, k) : p \in Registered} = 0 .. Len(members) - 1

\* "The watcher implements a load balancing mechanism" (sync_watcher.go:41): once
\* processes stop dying and failing, those alive share all the keys evenly.
Load(p) == Cardinality({k \in 0 .. WatchKeys - 1 : Master(p, k)})
Alive == {p \in Procs : pc[p] # "dead"}
Balanced ==
  /\ \A k \in 0 .. WatchKeys - 1 : \E p \in Alive : Master(p, k)
  /\ \A p, q \in Alive : Load(p) <= Load(q) + 1
BalancedEventually == <>[](Alive = {} \/ Balanced)
=============================================================================
