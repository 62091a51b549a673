------------------------------ MODULE EtcdLock ------------------------------
(***************************************************************************)
(* The cluster lock of sync/etcdv3/etcd.go on one path.                    *)
(*                                                                         *)
(* Lock grants a lease, puts the key with that lease in a transaction      *)
(* conditioned on the key's absence, records the lease in the process-wide *)
(* map `locks` and starts a goroutine that renews the lease while          *)
(* HasLock(path).  Unlock takes the entry out of the map, revokes the      *)
(* lease it found there and deletes the key if its value is this process.  *)
(* The map and HasLock are per process and path, not per call of Lock; the *)
(* goroutine of an earlier Lock may still run when a later one succeeds.   *)
(*                                                                         *)
(* Leases are numbered in the order they are granted.  The key's value is  *)
(* the process that its lease was granted to, so the key is modelled by    *)
(* the lease it is attached to (0: no such key).                           *)
(***************************************************************************)
EXTENDS Integers

CONSTANTS
  Users,        \* the threads that call Lock and Unlock on the path
  Procs,        \* the gohan processes
  ProcOf,       \* the process each user runs in
  NoUser,       \* the abstract lock's "nobody"
  NoProc,       \* "this lease has not been granted"
  MaxLeases,    \* bound: how many leases are granted in a behaviour
  EtcdMayFail,  \* whether calls to etcd may time out
  MayCrash      \* whether processes may die

ASSUME LockConstants ==
  /\ ProcOf \in [Users -> Procs]
  /\ NoUser \notin Users
  /\ NoProc \notin Procs
  /\ MaxLeases \in Nat
  /\ EtcdMayFail \in BOOLEAN
  /\ MayCrash \in BOOLEAN

Leases == 1 .. MaxLeases

VARIABLES
  granted,    \* how many leases etcd has granted so far
  leaseProc,  \* the process each lease was granted to
  live,       \* the leases etcd has neither revoked nor expired
  key,        \* the lease the lock's key is attached to, 0 if there is no key
  locks,      \* per process: Sync.locks[path], 0 if there is no entry
  pc,         \* per user: where it is in Lock or Unlock
  lease,      \* per user: the local variable lease (Lock) or leaseID (Unlock)
  ka          \* per lease: where its keepalive goroutine is

vars == <<granted, leaseProc, live, key, locks, pc, lease, ka>>

\* The program counters are named for the next statement.
UserPC == {"idle", "retry", "txn", "set", "locked", "remove", "revoke", "delete", "dead"}
KeepAlivePC == {"none", "check", "call", "sleep", "close", "get", "remove", "done"}

TypeOK ==
  /\ granted \in 0 .. MaxLeases
  /\ leaseProc \in [Leases -> Procs \cup {NoProc}]
  /\ live \in SUBSET Leases
  /\ key \in 0 .. MaxLeases
  /\ locks \in [Procs -> 0 .. MaxLeases]
  /\ pc \in [Users -> UserPC]
  /\ lease \in [Users -> 0 .. MaxLeases]
  /\ ka \in [Leases -> KeepAlivePC]

Init ==
  /\ granted = 0
  /\ leaseProc = [l \in Leases |-> NoProc]
  /\ live = {}
  /\ key = 0
  /\ locks = [p \in Procs |-> 0]
  /\ pc = [u \in Users |-> "idle"]
  /\ lease = [u \in Users |-> 0]
  /\ ka = [l \in Leases |-> "none"]

\* HasLock: the process has an entry for the path.
HasLock(p) == locks[p] # 0

\* The lost channel Lock returned together with lease l.
LostClosed(l) == ka[l] \in {"get", "remove", "done"}

\* etcd ends a lease: the key attached to it disappears with it.
EndLease(l) ==
  /\ live' = live \ {l}
  /\ key' = IF key = l THEN 0 ELSE key

-----------------------------------------------------------------------------
(* Lock *)

Goto(u, where) == pc' = [pc EXCEPT ![u] = where]

\* Lock calls Grant and etcd answers.
Grant(u) ==
  /\ pc[u] \in {"idle", "retry"}
  /\ granted < MaxLeases
  /\ granted' = granted + 1
  /\ leaseProc' = [leaseProc EXCEPT ![granted + 1] = ProcOf[u]]
  /\ live' = live \cup {granted + 1}
  /\ lease' = [lease EXCEPT ![u] = granted + 1]
  /\ Goto(u, "txn")
  /\ UNCHANGED <<key, locks, ka>>

\* The failure branch of Lock: a blocking call sleeps masterTTL and starts
\* over with a new lease, the others (and a cancelled one) return the error.
LockFailed(u) == \E where \in {"idle", "retry"} : Goto(u, where)

\* Grant times out.
GrantError(u) ==
  /\ EtcdMayFail
  /\ pc[u] \in {"idle", "retry"}
  /\ LockFailed(u)
  /\ UNCHANGED <<granted, leaseProc, live, key, locks, lease, ka>>

\* Mutant: the transaction does not compare CreateRevision(path) with 0.
CanPutAnyway(u) == lease[u] \in live

CanPut(u) == key = 0 /\ lease[u] \in live

\* The transaction finds no key and puts it.
TxnPut(u) ==
  /\ pc[u] = "txn"
  /\ CanPut(u)
  /\ key' = lease[u]
  /\ Goto(u, "set")
  /\ UNCHANGED <<granted, leaseProc, live, locks, lease, ka>>

\* The key exists, the lease is gone, or the call times out before etcd
\* executes it.
TxnFailed(u) ==
  /\ pc[u] = "txn"
  /\ ~CanPut(u) \/ EtcdMayFail
  /\ LockFailed(u)
  /\ UNCHANGED <<granted, leaseProc, live, key, locks, lease, ka>>

\* etcd executes the transaction but the answer does not arrive in time.
TxnUnknown(u) ==
  /\ EtcdMayFail
  /\ pc[u] = "txn"
  /\ CanPut(u)
  /\ key' = lease[u]
  /\ LockFailed(u)
  /\ UNCHANGED <<granted, leaseProc, live, locks, lease, ka>>

\* locks.Set(path, lease.ID), then the goroutine starts and Lock returns.
SetLock(u) ==
  /\ pc[u] = "set"
  /\ locks' = [locks EXCEPT ![ProcOf[u]] = lease[u]]
  /\ ka' = [ka EXCEPT ![lease[u]] = "check"]
  /\ Goto(u, "locked")
  /\ UNCHANGED <<granted, leaseProc, live, key, lease>>

-----------------------------------------------------------------------------
(* The keepalive goroutine that Lock started for lease l *)

KeepAliveGoto(l, where) == ka' = [ka EXCEPT ![l] = where]

\* for s.HasLock(path)
KeepAliveCheck(l) ==
  /\ ka[l] = "check"
  /\ KeepAliveGoto(l, IF HasLock(leaseProc[l]) THEN "call" ELSE "close")
  /\ UNCHANGED <<granted, leaseProc, live, key, locks, pc, lease>>

\* KeepAliveOnce renews the lease.
KeepAliveOnce(l) ==
  /\ ka[l] = "call"
  /\ l \in live
  /\ KeepAliveGoto(l, "sleep")
  /\ UNCHANGED <<granted, leaseProc, live, key, locks, pc, lease>>

\* Mutant: the goroutine ignores the error and tries again later.
KeepAliveErrorIgnored(l) ==
  /\ ka[l] = "call"
  /\ l \notin live \/ EtcdMayFail
  /\ KeepAliveGoto(l, "sleep")
  /\ UNCHANGED <<granted, leaseProc, live, key, locks, pc, lease>>

\* The lease does not exist any more, or the call times out.
KeepAliveError(l) ==
  /\ ka[l] = "call"
  /\ l \notin live \/ EtcdMayFail
  /\ KeepAliveGoto(l, "close")
  /\ UNCHANGED <<granted, leaseProc, live, key, locks, pc, lease>>

\* The goroutine has slept masterTTL / 2.
KeepAliveWake(l) ==
  /\ ka[l] = "sleep"
  /\ KeepAliveGoto(l, "check")
  /\ UNCHANGED <<granted, leaseProc, live, key, locks, pc, lease>>

\* The deferred calls: close(lost) first,
CloseLost(l) ==
  /\ ka[l] = "close"
  /\ KeepAliveGoto(l, "get")
  /\ UNCHANGED <<granted, leaseProc, live, key, locks, pc, lease>>

\* then abortLock: Get the entry,
KeepAliveGet(l) ==
  /\ ka[l] = "get"
  /\ KeepAliveGoto(l, IF HasLock(leaseProc[l]) THEN "remove" ELSE "done")
  /\ UNCHANGED <<granted, leaseProc, live, key, locks, pc, lease>>

\* and Remove it, whichever lease it holds by now.
KeepAliveRemove(l) ==
  /\ ka[l] = "remove"
  /\ locks' = [locks EXCEPT ![leaseProc[l]] = 0]
  /\ KeepAliveGoto(l, "done")
  /\ UNCHANGED <<granted, leaseProc, live, key, pc, lease>>

-----------------------------------------------------------------------------
(* Unlock *)

\* abortLock: Get.  Without an entry Unlock has nothing to do.
UnlockGet(u) ==
  /\ pc[u] = "locked"
  /\ lease' = [lease EXCEPT ![u] = locks[ProcOf[u]]]
  /\ Goto(u, IF HasLock(ProcOf[u]) THEN "remove" ELSE "idle")
  /\ UNCHANGED <<granted, leaseProc, live, key, locks, ka>>

\* Mutant: Unlock leaves the entry in the map.
UnlockKeepEntry(u) ==
  /\ pc[u] = "remove"
  /\ Goto(u, "revoke")
  /\ UNCHANGED <<granted, leaseProc, live, key, locks, lease, ka>>

\* abortLock: Remove.
UnlockRemove(u) ==
  /\ pc[u] = "remove"
  /\ locks' = [locks EXCEPT ![ProcOf[u]] = 0]
  /\ Goto(u, "revoke")
  /\ UNCHANGED <<granted, leaseProc, live, key, lease, ka>>

\* Revoke; its error is only logged.
Revoke(u) ==
  /\ pc[u] = "revoke"
  /\ \/ EndLease(lease[u])
     \/ EtcdMayFail /\ UNCHANGED <<live, key>>
  /\ Goto(u, "delete")
  /\ UNCHANGED <<granted, leaseProc, locks, lease, ka>>

\* Mutant: Unlock deletes the key without looking at its value.
AnyValue(u) == key # 0

\* If(Value(path) = processID)
OwnValue(u) == key # 0 /\ leaseProc[key] = ProcOf[u]

\* Then(Delete(path)); its error is only logged.
DeleteKey(u) ==
  /\ pc[u] = "delete"
  /\ \/ key' = IF OwnValue(u) THEN 0 ELSE key
     \/ EtcdMayFail /\ UNCHANGED key
  /\ Goto(u, "idle")
  /\ UNCHANGED <<granted, leaseProc, live, locks, lease, ka>>

-----------------------------------------------------------------------------
(* The environment *)

\* masterTTL passes at etcd without a renewal.
Expire(l) ==
  /\ l \in live
  /\ EndLease(l)
  /\ UNCHANGED <<granted, leaseProc, locks, pc, lease, ka>>

\* The process dies.  Its replacement has another processID.
Crash(p) ==
  /\ MayCrash
  /\ pc' = [u \in Users |-> IF ProcOf[u] = p THEN "dead" ELSE pc[u]]
  /\ ka' = [l \in Leases |-> IF leaseProc[l] = p THEN "done" ELSE ka[l]]
  /\ UNCHANGED <<granted, leaseProc, live, key, locks, lease>>

LockStep(u) ==
  \/ Grant(u) \/ GrantError(u)
  \/ TxnPut(u) \/ TxnFailed(u) \/ TxnUnknown(u) \/ SetLock(u)

UnlockStep(u) == UnlockRemove(u) \/ Revoke(u) \/ DeleteKey(u)

KeepAliveStep(l) ==
  \/ KeepAliveCheck(l) \/ KeepAliveOnce(l) \/ KeepAliveError(l)
  \/ KeepAliveWake(l) \/ CloseLost(l) \/ KeepAliveGet(l) \/ KeepAliveRemove(l)

Next ==
  \/ \E u \in Users : LockStep(u) \/ UnlockGet(u) \/ UnlockStep(u)
  \/ \E l \in Leases : KeepAliveStep(l) \/ Expire(l)
  \/ \E p \in Procs : Crash(p)

Spec == Init /\ [][Next]_vars
\* The fairness the code's scheduling gives: a call in progress and the
\* goroutines make progress, and etcd expires a lease nobody renews.  Nothing
\* makes a user call Lock or Unlock.
Renewed(l) == ka[l] \in {"check", "call", "sleep"}
ExpireUnrenewed(l) == ~Renewed(l) /\ Expire(l)

Fairness ==
  /\ \A u \in Users : WF_vars(TxnPut(u) \/ TxnFailed(u) \/ SetLock(u) \/ UnlockStep(u))
  /\ \A l \in Leases : WF_vars(KeepAliveStep(l)) /\ WF_vars(ExpireUnrenewed(l))

FairSpec == Spec /\ Fairness

-----------------------------------------------------------------------------
(* Properties *)

\* No two users of the path live in the same process.
OneUserPerProcess == \A u, v \in Users : ProcOf[u] = ProcOf[v] => u = v

\* The user has the lock as far as it knows: Lock succeeded (or is about to
\* return) and Unlock has not been called.
Inside(u) == pc[u] \in {"set", "locked"}

\* As long as the lease of a user inside lives, the key is its own: no expiry,
\* no Unlock of another process and no lost answer takes the key from it.
LockBackedByLease == \A u \in Users : Inside(u) /\ lease[u] \in live => key = lease[u]

\* Two users are inside together only if the lease of one of them is dead:
\* the lock excludes everyone whose lease etcd still knows.
FencedMutualExclusion ==
  \A u, v \in Users :
    u # v /\ Inside(u) /\ Inside(v) => lease[u] \notin live \/ lease[v] \notin live

\* An entry of the map `locks` is the lease of the lock its user holds now, so
\* Unlock revokes that lease and never one of an earlier or later Lock.
EntryIsCurrent ==
  \A u \in Users :
    LET entry == locks[ProcOf[u]] IN
    entry # 0 /\ pc[u] # "dead" => pc[u] \in {"locked", "remove"} /\ entry = lease[u]

\* A user inside whose lease has died is told: the lost channel is closed,
\* unless the user leaves first.
LossIsReported ==
  \A u \in Users, l \in Leases :
    (pc[u] = "locked" /\ lease[u] = l /\ l \notin live)
      ~> (LostClosed(l) \/ ~(pc[u] = "locked" /\ lease[u] = l))

\* A key nobody is inside with goes away, whatever failed in Lock or Unlock
\* and whether or not its process is alive, so the path can be locked again.
AbandonedKeyIsReleased ==
  \A l \in Leases :
    (key = l /\ \A u \in Users : ~(Inside(u) /\ lease[u] = l)) ~> key # l

\* The abstract lock this implements when every process has one user.
KeyHolder == IF key = 0 THEN NoUser ELSE CHOOSE u \in Users : ProcOf[u] = leaseProc[key]
UsersInside == {u \in Users : Inside(u)}
UsersLost == {u \in UsersInside : LostClosed(lease[u])}

LL == INSTANCE LeaseLock WITH
        holder <- KeyHolder, inside <- UsersInside, lost <- UsersLost

\* Every step of the lock is a step of LeaseLock or changes nothing its
\* callers rely on.
ImplementsLeaseLock == LL!LockSpec
=============================================================================
