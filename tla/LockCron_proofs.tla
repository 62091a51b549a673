-------------------------- MODULE LockCron_proofs --------------------------
(***************************************************************************)
(* Proofs about the etcd lock and about the cron jobs that use it, for any *)
(* number of processes, of runs in a process and of leases, whether or not *)
(* etcd fails or processes die.                                            *)
(*                                                                         *)
(* The safety results about the lock alone assume one user of the path per *)
(* process, which is how every caller but the cron jobs uses it.           *)
(***************************************************************************)
EXTENDS Cron, FiniteSetTheorems, TLAPS

-----------------------------------------------------------------------------
(* The lock *)

\* The first granted leases, and only they, belong to a process.
LeasesGranted ==
  /\ \A l \in live : l <= granted
  /\ \A l \in Leases : l <= granted => leaseProc[l] \in Procs

\* The key is attached to a lease that etcd knows.
KeyIsLive == key # 0 => key \in live

\* A user between Grant and Unlock works with a lease of its own process.
LeaseIsOwn ==
  \A u \in Users :
    pc[u] \in {"txn", "set", "locked"} =>
      /\ lease[u] \in 1 .. granted
      /\ leaseProc[lease[u]] = ProcOf[u]

\* Some user runs in the process that owns the key.
KeyHasUser == key # 0 => \E u \in Users : ProcOf[u] = leaseProc[key]

\* The inductive invariant: LockBackedByLease is not inductive without the
\* facts on which lease belongs to whom.
LockInv ==
  /\ TypeOK
  /\ LeasesGranted
  /\ KeyIsLive
  /\ LeaseIsOwn
  /\ KeyHasUser
  /\ LockBackedByLease
  /\ EntryIsCurrent

\* TypeOK alone is inductive: no step of Lock, Unlock, the goroutines or etcd
\* leaves the declared ranges.
LEMMA TypeInit == Init => TypeOK
BY LockConstants DEF Init, TypeOK, Leases, UserPC, KeepAlivePC

\* Each action of Lock, Unlock, the goroutines and etcd keeps the types.
LEMMA TypeStep == TypeOK /\ [Next]_vars => TypeOK'
<1> SUFFICES ASSUME TypeOK, [Next]_vars PROVE TypeOK'
    OBVIOUS
<1> USE LockConstants DEF TypeOK, Leases, UserPC, KeepAlivePC
<1>1. ASSUME NEW u \in Users, Grant(u) PROVE TypeOK'
      BY <1>1 DEF Grant, Goto
<1>2. ASSUME NEW u \in Users, GrantError(u) \/ TxnFailed(u) PROVE TypeOK'
      BY <1>2 DEF GrantError, TxnFailed, LockFailed, Goto
<1>3. ASSUME NEW u \in Users, TxnPut(u) \/ TxnUnknown(u) PROVE TypeOK'
  <2>1. key' \in 0 .. MaxLeases
        BY <1>3 DEF TxnPut, TxnUnknown
  <2>2. CASE TxnPut(u)
        BY <2>1, <2>2 DEF TxnPut, Goto
  <2>3. CASE TxnUnknown(u)
        BY <2>1, <2>3 DEF TxnUnknown, LockFailed, Goto
  <2>4. QED
        BY <1>3, <2>2, <2>3
<1>4. ASSUME NEW u \in Users, SetLock(u) PROVE TypeOK'
      BY <1>4 DEF SetLock, Goto
<1>5. ASSUME NEW l \in Leases, KeepAliveStep(l) PROVE TypeOK'
  <2>1. CASE \/ KeepAliveCheck(l) \/ KeepAliveOnce(l) \/ KeepAliveError(l)
             \/ KeepAliveWake(l) \/ CloseLost(l) \/ KeepAliveGet(l)
    <3>1. /\ \E where \in KeepAlivePC : ka' = [ka EXCEPT ![l] = where]
          /\ UNCHANGED <<granted, leaseProc, live, key, locks, pc, lease>>
          BY <2>1 DEF KeepAliveCheck, KeepAliveOnce, KeepAliveError, KeepAliveWake,
             CloseLost, KeepAliveGet, KeepAliveGoto
    <3>2. QED
          BY <3>1
  <2>2. CASE KeepAliveRemove(l)
    <3> DEFINE q == leaseProc[l]
    <3>4. locks' = [locks EXCEPT ![q] = 0]
          BY <2>2 DEF KeepAliveRemove
    <3> HIDE DEF q
    <3>5. 0 \in 0 .. MaxLeases
          OBVIOUS
    <3>1. locks' \in [Procs -> 0 .. MaxLeases]
          BY <3>4, <3>5, Zenon
    <3>2. ka' \in [Leases -> KeepAlivePC]
          BY <2>2 DEF KeepAliveRemove, KeepAliveGoto
    <3>3. QED
          BY <2>2, <3>1, <3>2 DEF KeepAliveRemove
  <2>3. QED
        BY <1>5, <2>1, <2>2 DEF KeepAliveStep
<1>6. ASSUME NEW u \in Users, UnlockGet(u) PROVE TypeOK'
      BY <1>6 DEF UnlockGet, Goto
<1>7. ASSUME NEW u \in Users, UnlockRemove(u) PROVE TypeOK'
      BY <1>7 DEF UnlockRemove, Goto
<1>8. ASSUME NEW u \in Users, Revoke(u) PROVE TypeOK'
  <2>1. live' \in SUBSET Leases /\ key' \in 0 .. MaxLeases
    <3>1. CASE EndLease(lease[u])
      <4>1. live' \in SUBSET Leases
            BY <3>1 DEF EndLease
      <4>2. key' \in 0 .. MaxLeases
            BY <3>1 DEF EndLease
      <4>3. QED
            BY <4>1, <4>2
    <3>2. CASE UNCHANGED <<live, key>>
          BY <3>2
    <3>3. QED
          BY <1>8, <3>1, <3>2 DEF Revoke
  <2>2. QED
        BY <1>8, <2>1 DEF Revoke, Goto
<1>13. ASSUME NEW u \in Users, DeleteKey(u) PROVE TypeOK'
  <2>1. key' \in 0 .. MaxLeases
        BY <1>13 DEF DeleteKey
  <2>2. QED
        BY <1>13, <2>1 DEF DeleteKey, Goto
<1>9. ASSUME NEW l \in Leases, Expire(l) PROVE TypeOK'
      BY <1>9 DEF Expire, EndLease
<1>10. ASSUME NEW p \in Procs, Crash(p) PROVE TypeOK'
      BY <1>10 DEF Crash
<1>11. CASE UNCHANGED vars
      BY <1>11 DEF vars
<1>12. QED
      BY <1>1, <1>2, <1>3, <1>4, <1>5, <1>6, <1>7, <1>8, <1>9, <1>10, <1>11, <1>13
      DEF Next, LockStep, UnlockStep

\* The lock's state always has the declared shape.
THEOREM TypeCorrect == Spec => []TypeOK
<1>1. Init => TypeOK
      BY TypeInit
<1>2. TypeOK /\ [Next]_vars => TypeOK'
      BY TypeStep
<1>3. QED
      BY <1>1, <1>2, PTL DEF Spec

-----------------------------------------------------------------------------
\* The inductive invariant holds when no lease has been granted.
LEMMA InvInit == Init => LockInv
<1> SUFFICES ASSUME Init PROVE LockInv
    OBVIOUS
<1>1. TypeOK
      BY TypeInit
<1>2. LeasesGranted
      BY LockConstants DEF Init, LeasesGranted, Leases
<1>3. /\ KeyIsLive /\ LeaseIsOwn /\ KeyHasUser
      /\ LockBackedByLease /\ EntryIsCurrent
      BY LockConstants DEF Init, KeyIsLive, LeaseIsOwn, KeyHasUser,
         LockBackedByLease, EntryIsCurrent, Inside
<1>4. QED
      BY <1>1, <1>2, <1>3 DEF LockInv

\* A step that changes neither etcd nor the users' leases, and moves users
\* only out of "txn", "set" and "locked", keeps the etcd part of LockInv.
LEMMA LeaseFrame ==
  ASSUME LockInv,
         UNCHANGED <<granted, leaseProc, live, key, lease>>,
         \A u \in Users : pc'[u] \in {"txn", "set", "locked"} => pc[u] \in {"txn", "set", "locked"},
         \A u \in Users : Inside(u)' => Inside(u)
  PROVE  LeasesGranted' /\ KeyIsLive' /\ LeaseIsOwn' /\ KeyHasUser' /\ LockBackedByLease'
<1>1. LeasesGranted' /\ KeyIsLive' /\ KeyHasUser'
      BY DEF LockInv, LeasesGranted, KeyIsLive, KeyHasUser
<1>2. LeaseIsOwn'
      BY DEF LockInv, LeaseIsOwn
<1>3. LockBackedByLease'
      BY DEF LockInv, LockBackedByLease
<1>4. QED
      BY <1>1, <1>2, <1>3

\* When etcd ends a lease, every user inside whose lease lives keeps its key.
LEMMA EndLeaseFrame ==
  ASSUME LockInv, NEW l, EndLease(l),
         UNCHANGED <<granted, leaseProc, lease>>,
         \A u \in Users : pc'[u] \in {"txn", "set", "locked"} => pc[u] \in {"txn", "set", "locked"},
         \A u \in Users : Inside(u)' => Inside(u)
  PROVE  LeasesGranted' /\ KeyIsLive' /\ LeaseIsOwn' /\ KeyHasUser' /\ LockBackedByLease'
<1>1. LeasesGranted' /\ KeyIsLive' /\ KeyHasUser'
      BY DEF LockInv, LeasesGranted, KeyIsLive, KeyHasUser, EndLease
<1>2. LeaseIsOwn'
      BY DEF LockInv, LeaseIsOwn
<1>3. LockBackedByLease'
      BY DEF LockInv, LockBackedByLease, EndLease
<1>4. QED
      BY <1>1, <1>2, <1>3

\* With one user per process, every step keeps the inductive invariant.
LEMMA InvStep ==
  ASSUME OneUserPerProcess, LockInv, [Next]_vars
  PROVE  LockInv'
<1>1. TypeOK'
      BY TypeStep DEF LockInv
<1> DEFINE Rest == LeasesGranted /\ KeyIsLive /\ LeaseIsOwn /\ KeyHasUser /\ LockBackedByLease
<1> SUFFICES Rest' /\ EntryIsCurrent'
    BY <1>1 DEF LockInv
<1> USE LockConstants
<1>2. ASSUME NEW u \in Users, Grant(u) PROVE Rest' /\ EntryIsCurrent'
  <2> USE <1>2 DEF Grant, Goto, LockInv, TypeOK, Leases
  <2>1. LeasesGranted'
        BY DEF LeasesGranted
  <2>2. KeyIsLive'
        BY DEF KeyIsLive
  <2>3. LeaseIsOwn'
        BY DEF LeaseIsOwn
  <2>4. KeyHasUser'
        BY DEF KeyHasUser, KeyIsLive, LeasesGranted
  <2>5. LockBackedByLease'
        BY DEF LockBackedByLease, LeaseIsOwn, Inside
  <2>6. EntryIsCurrent'
        BY DEF EntryIsCurrent
  <2>7. QED
        BY <2>1, <2>2, <2>3, <2>4, <2>5, <2>6
<1>3. ASSUME NEW u \in Users, GrantError(u) \/ TxnFailed(u) PROVE Rest' /\ EntryIsCurrent'
  <2>1. /\ \E where \in {"idle", "retry"} : pc' = [pc EXCEPT ![u] = where]
        /\ pc[u] \in {"idle", "retry", "txn"}
        /\ UNCHANGED <<granted, leaseProc, live, key, locks, lease, ka>>
        BY <1>3 DEF GrantError, TxnFailed, LockFailed, Goto
  <2>2. Rest'
        BY <2>1, LeaseFrame DEF LockInv, TypeOK, Inside
  <2>3. EntryIsCurrent'
        BY <2>1 DEF LockInv, TypeOK, EntryIsCurrent
  <2>4. QED
        BY <2>2, <2>3
<1>4. ASSUME NEW u \in Users, TxnPut(u) \/ TxnUnknown(u) PROVE Rest' /\ EntryIsCurrent'
  <2>1. /\ \E where \in {"set", "idle", "retry"} : pc' = [pc EXCEPT ![u] = where]
        /\ pc[u] = "txn"
        /\ key = 0 /\ key' = lease[u] /\ lease[u] \in live
        /\ UNCHANGED <<granted, leaseProc, live, locks, lease, ka>>
        BY <1>4 DEF TxnPut, TxnUnknown, CanPut, LockFailed, Goto
  <2> USE <2>1 DEF LockInv, TypeOK, Leases
  <2>2. LeasesGranted' /\ KeyIsLive'
        BY DEF LeasesGranted, KeyIsLive
  <2>3. LeaseIsOwn'
        BY DEF LeaseIsOwn
  <2>4. KeyHasUser'
        BY DEF KeyHasUser, LeaseIsOwn
  <2>5. LockBackedByLease'
        BY DEF LockBackedByLease, LeaseIsOwn, Inside
  <2>6. EntryIsCurrent'
        BY DEF EntryIsCurrent
  <2>7. QED
        BY <2>2, <2>3, <2>4, <2>5, <2>6
<1>5. ASSUME NEW u \in Users, SetLock(u) PROVE Rest' /\ EntryIsCurrent'
  <2>1. Rest'
        BY <1>5, LeaseFrame DEF SetLock, Goto, LockInv, TypeOK, Inside
  <2>2. EntryIsCurrent'
        BY <1>5 DEF SetLock, Goto, LockInv, TypeOK, EntryIsCurrent, OneUserPerProcess
  <2>3. QED
        BY <2>1, <2>2
<1>6. ASSUME NEW l \in Leases, KeepAliveStep(l) PROVE Rest' /\ EntryIsCurrent'
  <2>1. /\ UNCHANGED <<granted, leaseProc, live, key, pc, lease>>
        /\ \A p \in Procs : locks'[p] = locks[p] \/ locks'[p] = 0
        BY <1>6 DEF KeepAliveStep, KeepAliveCheck, KeepAliveOnce, KeepAliveError,
           KeepAliveWake, CloseLost, KeepAliveGet, KeepAliveRemove, LockInv, TypeOK
  <2>2. Rest'
        BY <2>1, LeaseFrame DEF Inside
  <2>3. EntryIsCurrent'
        BY <2>1 DEF LockInv, EntryIsCurrent
  <2>4. QED
        BY <2>2, <2>3
<1>7. ASSUME NEW u \in Users, UnlockGet(u) PROVE Rest' /\ EntryIsCurrent'
  <2> USE <1>7 DEF UnlockGet, Goto, HasLock, LockInv, TypeOK
  <2>1. LeasesGranted' /\ KeyIsLive' /\ KeyHasUser'
        BY DEF LeasesGranted, KeyIsLive, KeyHasUser
  <2>2. LeaseIsOwn' /\ LockBackedByLease'
        BY DEF LeaseIsOwn, LockBackedByLease, Inside
  <2>3. EntryIsCurrent'
        BY DEF EntryIsCurrent, OneUserPerProcess
  <2>4. QED
        BY <2>1, <2>2, <2>3
<1>8. ASSUME NEW u \in Users, UnlockRemove(u) PROVE Rest' /\ EntryIsCurrent'
  <2>1. Rest'
        BY <1>8, LeaseFrame DEF UnlockRemove, Goto, LockInv, TypeOK, Inside
  <2>2. EntryIsCurrent'
        BY <1>8 DEF UnlockRemove, Goto, LockInv, TypeOK, EntryIsCurrent, OneUserPerProcess
  <2>3. QED
        BY <2>1, <2>2
<1>9. ASSUME NEW u \in Users, Revoke(u) PROVE Rest' /\ EntryIsCurrent'
  <2>1. ASSUME EndLease(lease[u]) PROVE Rest'
        BY <1>9, <2>1, EndLeaseFrame DEF Revoke, Goto, LockInv, TypeOK, Inside
  <2>2. ASSUME UNCHANGED <<live, key>> PROVE Rest'
        BY <1>9, <2>2, LeaseFrame DEF Revoke, Goto, LockInv, TypeOK, Inside
  <2>3. Rest'
        BY <1>9, <2>1, <2>2 DEF Revoke
  <2>4. EntryIsCurrent'
        BY <1>9 DEF Revoke, Goto, LockInv, TypeOK, EntryIsCurrent
  <2>5. QED
        BY <2>3, <2>4
<1>10. ASSUME NEW u \in Users, DeleteKey(u) PROVE Rest' /\ EntryIsCurrent'
  <2> USE DEF LockInv, TypeOK
  <2>1. /\ pc[u] = "delete" /\ pc' = [pc EXCEPT ![u] = "idle"]
        /\ UNCHANGED <<granted, leaseProc, live, locks, lease, ka>>
        /\ key' = key \/ (key' = 0 /\ key # 0 /\ leaseProc[key] = ProcOf[u])
        BY <1>10 DEF DeleteKey, Goto, OwnValue
  <2>2. LeasesGranted' /\ KeyIsLive' /\ KeyHasUser'
        BY <2>1 DEF LeasesGranted, KeyIsLive, KeyHasUser
  <2>3. LeaseIsOwn'
        BY <2>1 DEF LeaseIsOwn
  <2>4. LockBackedByLease'
        BY <2>1 DEF LockBackedByLease, LeaseIsOwn, Inside, OneUserPerProcess
  <2>5. EntryIsCurrent'
        BY <2>1 DEF EntryIsCurrent
  <2>6. QED
        BY <2>2, <2>3, <2>4, <2>5
<1>11. ASSUME NEW l \in Leases, Expire(l) PROVE Rest' /\ EntryIsCurrent'
  <2>1. Rest'
        BY <1>11, EndLeaseFrame DEF Expire, Inside
  <2>2. EntryIsCurrent'
        BY <1>11 DEF Expire, LockInv, EntryIsCurrent
  <2>3. QED
        BY <2>1, <2>2
<1>12. ASSUME NEW p \in Procs, Crash(p) PROVE Rest' /\ EntryIsCurrent'
  <2>1. Rest'
        BY <1>12, LeaseFrame DEF Crash, LockInv, TypeOK, Inside
  <2>2. EntryIsCurrent'
        BY <1>12 DEF Crash, LockInv, TypeOK, EntryIsCurrent
  <2>3. QED
        BY <2>1, <2>2
<1>13. CASE UNCHANGED vars
  <2>1. Rest'
        BY <1>13, LeaseFrame DEF vars, Inside
  <2>2. EntryIsCurrent'
        BY <1>13 DEF vars, LockInv, EntryIsCurrent
  <2>3. QED
        BY <2>1, <2>2
<1>14. QED
      BY <1>2, <1>3, <1>4, <1>5, <1>6, <1>7, <1>8, <1>9, <1>10, <1>11, <1>12, <1>13
      DEF Next, LockStep, UnlockStep

\* With one user per process, the inductive invariant holds throughout.
THEOREM LockInvariant ==
  ASSUME OneUserPerProcess
  PROVE  Spec => []LockInv
<1>1. Init => LockInv
      BY InvInit
<1>2. LockInv /\ [Next]_vars => LockInv'
      BY InvStep
<1>3. QED
      BY <1>1, <1>2, PTL DEF Spec

\* The lease of a user inside, while etcd knows it, is the one the key has.
THEOREM LeaseBacksLock ==
  ASSUME OneUserPerProcess
  PROVE  Spec => []LockBackedByLease
<1>1. LockInv => LockBackedByLease
      BY DEF LockInv
<1>2. QED
      BY <1>1, LockInvariant, PTL

\* Two users are never inside with two live leases.
THEOREM MutualExclusion ==
  ASSUME OneUserPerProcess
  PROVE  Spec => []FencedMutualExclusion
<1>1. LockInv => FencedMutualExclusion
      BY DEF LockInv, LockBackedByLease, LeaseIsOwn, FencedMutualExclusion, Inside,
         OneUserPerProcess
<1>2. QED
      BY <1>1, LockInvariant, PTL

\* Unlock never revokes the lease of another call of Lock.
THEOREM EntriesAreCurrent ==
  ASSUME OneUserPerProcess
  PROVE  Spec => []EntryIsCurrent
<1>1. LockInv => EntryIsCurrent
      BY DEF LockInv
<1>2. QED
      BY <1>1, LockInvariant, PTL

-----------------------------------------------------------------------------
(* The refinement of LeaseLock *)

\* With one user per process the holder of the key is that process's user.
LEMMA HolderIsOwner ==
  ASSUME OneUserPerProcess, NEW u \in Users, key # 0, leaseProc[key] = ProcOf[u]
  PROVE  KeyHolder = u
BY DEF OneUserPerProcess, KeyHolder

\* The abstract holder is a user or nobody.
LEMMA HolderIsUser ==
  ASSUME KeyHasUser, key # 0
  PROVE  KeyHolder \in Users
BY DEF KeyHasUser, KeyHolder

\* A lease that is not granted has no process, and one that Lock has not yet
\* recorded has no goroutine: its lost channel cannot be closed.
FreshLeaseQuiet ==
  /\ \A l \in Leases : l > granted => leaseProc[l] = NoProc /\ ka[l] = "none"
  /\ \A u \in Users : pc[u] \in {"txn", "set"} => ka[lease[u]] = "none"

RefInv == LockInv /\ FreshLeaseQuiet

\* A lease nobody has put the key with yet stays without a keepalive goroutine.
LEMMA FreshStep ==
  ASSUME OneUserPerProcess, RefInv, [Next]_vars
  PROVE  FreshLeaseQuiet'
<1> USE LockConstants DEF RefInv, LockInv, TypeOK, Leases
<1>1. ASSUME NEW u \in Users, Grant(u) PROVE FreshLeaseQuiet'
  <2>1. \A l \in Leases : l > granted' => leaseProc'[l] = NoProc /\ ka'[l] = "none"
        BY <1>1 DEF Grant, FreshLeaseQuiet
  <2>2. \A v \in Users : pc'[v] \in {"txn", "set"} => ka'[lease'[v]] = "none"
        BY <1>1 DEF Grant, Goto, FreshLeaseQuiet
  <2>3. QED
        BY <2>1, <2>2 DEF FreshLeaseQuiet
<1>2. ASSUME NEW u \in Users, GrantError(u) \/ TxnFailed(u) PROVE FreshLeaseQuiet'
      BY <1>2 DEF GrantError, TxnFailed, LockFailed, Goto, FreshLeaseQuiet
<1>3. ASSUME NEW u \in Users, TxnPut(u) \/ TxnUnknown(u) PROVE FreshLeaseQuiet'
      BY <1>3 DEF TxnPut, TxnUnknown, LockFailed, Goto, FreshLeaseQuiet
<1>4. ASSUME NEW u \in Users, SetLock(u) PROVE FreshLeaseQuiet'
  <2>1. \A l \in Leases : l > granted' => leaseProc'[l] = NoProc /\ ka'[l] = "none"
        BY <1>4 DEF SetLock, FreshLeaseQuiet, LeaseIsOwn
  <2>2. ASSUME NEW v \in Users, pc'[v] \in {"txn", "set"} PROVE ka'[lease'[v]] = "none"
    <3>1. v # u /\ pc[v] \in {"txn", "set"} /\ lease'[v] = lease[v]
          BY <1>4, <2>2 DEF SetLock, Goto
    <3>2. lease[v] # lease[u]
          BY <1>4, <3>1 DEF SetLock, LeaseIsOwn, OneUserPerProcess
    <3>3. QED
          BY <1>4, <3>1, <3>2 DEF SetLock, FreshLeaseQuiet
  <2>3. QED
        BY <2>1, <2>2 DEF FreshLeaseQuiet
<1>5. ASSUME NEW l \in Leases, KeepAliveStep(l) PROVE FreshLeaseQuiet'
  <2>1. /\ UNCHANGED <<granted, leaseProc, pc, lease>>
        /\ ka[l] # "none"
        /\ \E where \in KeepAlivePC : ka' = [ka EXCEPT ![l] = where]
        BY <1>5 DEF KeepAliveStep, KeepAliveCheck, KeepAliveOnce, KeepAliveError,
           KeepAliveWake, CloseLost, KeepAliveGet, KeepAliveRemove, KeepAliveGoto, KeepAlivePC
  <2>2. QED
        BY <2>1 DEF FreshLeaseQuiet
<1>6. ASSUME NEW u \in Users, UnlockGet(u) PROVE FreshLeaseQuiet'
      BY <1>6 DEF UnlockGet, Goto, FreshLeaseQuiet
<1>7. ASSUME NEW u \in Users, UnlockRemove(u) \/ Revoke(u) \/ DeleteKey(u) PROVE FreshLeaseQuiet'
      BY <1>7 DEF UnlockRemove, Revoke, DeleteKey, Goto, FreshLeaseQuiet
<1>8. ASSUME NEW l \in Leases, Expire(l) PROVE FreshLeaseQuiet'
      BY <1>8 DEF Expire, FreshLeaseQuiet
<1>9. ASSUME NEW p \in Procs, Crash(p) PROVE FreshLeaseQuiet'
  <2>1. \A l \in Leases : l > granted' => leaseProc'[l] = NoProc /\ ka'[l] = "none"
        BY <1>9 DEF Crash, FreshLeaseQuiet
  <2>2. \A v \in Users : pc'[v] \in {"txn", "set"} => ka'[lease'[v]] = "none"
        BY <1>9 DEF Crash, FreshLeaseQuiet, LeaseIsOwn
  <2>3. QED
        BY <2>1, <2>2 DEF FreshLeaseQuiet
<1>10. CASE UNCHANGED vars
      BY <1>10 DEF vars, FreshLeaseQuiet
<1>11. QED
      BY <1>1, <1>2, <1>3, <1>4, <1>5, <1>6, <1>7, <1>8, <1>9, <1>10
      DEF Next, LockStep, UnlockStep

\* Every step of the etcd lock is a step of LeaseLock or leaves it unchanged.
LEMMA RefStep ==
  ASSUME OneUserPerProcess, RefInv, [Next]_vars
  PROVE  [LL!LockNext]_(LL!lockVars)
<1> USE LockConstants DEF RefInv, LockInv, TypeOK, Leases
<1> DEFINE Stutter == UNCHANGED <<KeyHolder, UsersInside, UsersLost>>
           Goal == LL!LockNext \/ Stutter
<1> SUFFICES Goal
    BY DEF LL!lockVars
<1>1. ASSUME NEW u \in Users, Grant(u) PROVE Stutter
  <2>1. KeyHolder' = KeyHolder
    <3>1. key' = key /\ (key # 0 => leaseProc'[key] = leaseProc[key])
          BY <1>1 DEF Grant, KeyIsLive, LeasesGranted
    <3>2. CASE key = 0
          BY <3>1, <3>2 DEF KeyHolder
    <3>3. CASE key # 0
      <4>1. PICK v \in Users : ProcOf[v] = leaseProc[key]
            BY <3>3 DEF KeyHasUser
      <4>2. KeyHolder = v
            BY <3>3, <4>1, HolderIsOwner
      <4>3. KeyHolder' = v
            BY <3>1, <3>3, <4>1 DEF KeyHolder, OneUserPerProcess
      <4>4. QED
            BY <4>2, <4>3
    <3>4. QED
          BY <3>2, <3>3
  <2>2. UsersInside' = UsersInside /\ UsersLost' = UsersLost
        BY <1>1 DEF Grant, Goto, UsersInside, UsersLost, Inside, LostClosed
  <2>3. QED
        BY <2>1, <2>2
<1>2. ASSUME NEW u \in Users, GrantError(u) \/ TxnFailed(u) PROVE Stutter
  <2>1. /\ \E where \in {"idle", "retry"} : pc' = [pc EXCEPT ![u] = where]
        /\ pc[u] \in {"idle", "retry", "txn"}
        /\ UNCHANGED <<granted, leaseProc, live, key, locks, lease, ka>>
        BY <1>2 DEF GrantError, TxnFailed, LockFailed, Goto
  <2>2. QED
        BY <2>1 DEF KeyHolder, UsersInside, UsersLost, Inside, LostClosed
<1>3. ASSUME NEW u \in Users, TxnPut(u) PROVE LL!Acquire(u)
  <2>1. KeyHolder = NoUser /\ KeyHolder' = u
    <3>1. key' # 0 /\ leaseProc'[key'] = ProcOf[u]
          BY <1>3 DEF TxnPut, LeaseIsOwn
    <3>2. KeyHolder' = u
          BY <3>1 DEF KeyHolder, OneUserPerProcess
    <3>3. QED
          BY <1>3, <3>2 DEF TxnPut, CanPut, KeyHolder
  <2>2. u \notin UsersInside /\ UsersInside' = UsersInside \cup {u}
        BY <1>3 DEF TxnPut, Goto, UsersInside, Inside
  <2>3. ~LostClosed(lease[u])
        BY <1>3 DEF TxnPut, FreshLeaseQuiet, LostClosed
  <2>4. UsersLost' = UsersLost \ {u}
        BY <1>3, <2>2, <2>3 DEF TxnPut, UsersLost, LostClosed
  <2>5. QED
        BY <2>1, <2>2, <2>4 DEF LL!Acquire
<1>4. ASSUME NEW u \in Users, TxnUnknown(u) PROVE LL!AcquireUnknown(u)
  <2>0. /\ \E where \in {"idle", "retry"} : pc' = [pc EXCEPT ![u] = where]
        /\ pc[u] = "txn" /\ key = 0 /\ key' = lease[u]
        /\ UNCHANGED <<granted, leaseProc, live, locks, lease, ka>>
        BY <1>4 DEF TxnUnknown, CanPut, LockFailed, Goto
  <2>1. KeyHolder = NoUser /\ KeyHolder' = u
    <3>1. key' # 0 /\ leaseProc'[key'] = ProcOf[u]
          BY <2>0 DEF LeaseIsOwn
    <3>2. QED
          BY <2>0, <3>1 DEF KeyHolder, OneUserPerProcess
  <2>2. u \notin UsersInside /\ UsersInside' = UsersInside
        BY <2>0 DEF UsersInside, Inside
  <2>3. UsersLost' = UsersLost
        BY <2>0, <2>2 DEF UsersLost, LostClosed
  <2>4. QED
        BY <2>1, <2>2, <2>3 DEF LL!AcquireUnknown
<1>5. ASSUME NEW u \in Users, SetLock(u) PROVE Stutter
  <2>1. KeyHolder' = KeyHolder
        BY <1>5 DEF SetLock, KeyHolder
  <2>2. UsersInside' = UsersInside
        BY <1>5 DEF SetLock, Goto, UsersInside, Inside
  <2>3. \A v \in Users : LostClosed(lease[v])' <=> LostClosed(lease[v])
        BY <1>5 DEF SetLock, LostClosed, FreshLeaseQuiet, LeaseIsOwn
  <2>4. UsersLost' = UsersLost
        BY <2>2, <2>3 DEF UsersLost, UsersInside
  <2>5. QED
        BY <2>1, <2>2, <2>4
<1>6. ASSUME NEW l \in Leases, KeepAliveStep(l) PROVE Goal
  <2>0. UNCHANGED <<key, leaseProc, pc, lease>>
        BY <1>6 DEF KeepAliveStep, KeepAliveCheck, KeepAliveOnce, KeepAliveError,
           KeepAliveWake, CloseLost, KeepAliveGet, KeepAliveRemove
  <2>1. UNCHANGED <<KeyHolder, UsersInside, pc, lease>>
        BY <2>0 DEF KeyHolder, UsersInside, Inside
  <2>2. CASE CloseLost(l)
    <3>1. \A k \in 0 .. MaxLeases : LostClosed(k)' <=> LostClosed(k) \/ k = l
          BY <2>2 DEF CloseLost, KeepAliveGoto, LostClosed
    <3>2. CASE \E u \in UsersInside : lease[u] = l
      <4>1. PICK u \in UsersInside : lease[u] = l
            BY <3>2
      <4>2. \A v \in UsersInside : lease[v] = l => v = u
            BY <4>1 DEF UsersInside, Inside, LeaseIsOwn, OneUserPerProcess
      <4>3. UsersLost' = UsersLost \cup {u}
            BY <2>1, <3>1, <4>1, <4>2 DEF UsersLost, UsersInside
      <4>4. LL!SignalLost(u)
            BY <2>1, <4>1, <4>3 DEF LL!SignalLost
      <4>5. QED
            BY <4>1, <4>4 DEF LL!LockNext, UsersInside
    <3>3. CASE ~ \E u \in UsersInside : lease[u] = l
          BY <2>1, <3>1, <3>3 DEF UsersLost, UsersInside
    <3>4. QED
          BY <3>2, <3>3
  <2>3. CASE ~CloseLost(l)
    <3> DEFINE Closed == {"get", "remove", "done"}
    <3>3. \E where \in KeepAlivePC :
             /\ ka' = [ka EXCEPT ![l] = where]
             /\ where \in Closed <=> ka[l] \in Closed
          BY <1>6, <2>3 DEF KeepAliveStep, KeepAliveCheck, KeepAliveOnce, KeepAliveError,
             KeepAliveWake, KeepAliveGet, KeepAliveRemove, KeepAliveGoto, KeepAlivePC
    <3>1. \A k \in 0 .. MaxLeases : LostClosed(k)' <=> LostClosed(k)
          BY <3>3 DEF LostClosed
    <3>2. QED
          BY <2>1, <3>1 DEF UsersLost, UsersInside
  <2>4. QED
        BY <2>2, <2>3
<1>7. ASSUME NEW u \in Users, UnlockGet(u) PROVE LL!Leave(u)
  <2>1. KeyHolder' = KeyHolder
        BY <1>7 DEF UnlockGet, KeyHolder
  <2>2. u \in UsersInside /\ UsersInside' = UsersInside \ {u}
        BY <1>7 DEF UnlockGet, Goto, UsersInside, Inside
  <2>3. UsersLost' = UsersLost \ {u}
        BY <1>7, <2>2 DEF UnlockGet, UsersLost, UsersInside, LostClosed
  <2>4. QED
        BY <2>1, <2>2, <2>3 DEF LL!Leave
<1>8. ASSUME NEW u \in Users, UnlockRemove(u) PROVE Stutter
      BY <1>8 DEF UnlockRemove, Goto, KeyHolder, UsersInside, UsersLost, Inside, LostClosed
<1>9. ASSUME UNCHANGED <<UsersInside, UsersLost, leaseProc>>, key' = key \/ key' = 0 PROVE Goal
  <2>1. CASE key' = key
        BY <1>9, <2>1 DEF KeyHolder
  <2>2. CASE key' = 0 /\ key # 0
    <3>1. KeyHolder # NoUser /\ KeyHolder' = NoUser
          BY <2>2, HolderIsUser DEF KeyHolder
    <3>2. LL!Drop
          BY <1>9, <3>1 DEF LL!Drop
    <3>3. QED
          BY <3>2 DEF LL!LockNext
  <2>3. QED
        BY <1>9, <2>1, <2>2
<1>10. ASSUME NEW u \in Users, Revoke(u) \/ DeleteKey(u) PROVE Goal
  <2>1. key' = key \/ key' = 0
        BY <1>10 DEF Revoke, EndLease, DeleteKey
  <2>2. UNCHANGED <<UsersInside, UsersLost, leaseProc>>
        BY <1>10 DEF Revoke, DeleteKey, Goto, UsersInside, UsersLost, Inside, LostClosed
  <2>3. QED
        BY <1>9, <2>1, <2>2
<1>11. ASSUME NEW l \in Leases, Expire(l) PROVE Goal
  <2>1. key' = key \/ key' = 0
        BY <1>11 DEF Expire, EndLease
  <2>2. UNCHANGED <<UsersInside, UsersLost, leaseProc>>
        BY <1>11 DEF Expire, UsersInside, UsersLost, Inside, LostClosed
  <2>3. QED
        BY <1>9, <2>1, <2>2
<1>12. ASSUME NEW p \in Procs, Crash(p) PROVE Goal
  <2>1. KeyHolder' = KeyHolder
        BY <1>12 DEF Crash, KeyHolder
  <2>2. UsersInside' = {u \in UsersInside : ProcOf[u] # p}
        BY <1>12 DEF Crash, UsersInside, Inside
  <2>3. \A u \in UsersInside : ProcOf[u] # p => (LostClosed(lease[u])' <=> LostClosed(lease[u]))
        BY <1>12 DEF Crash, UsersInside, Inside, LostClosed, LeaseIsOwn
  <2>4. UsersLost' = {u \in UsersLost : ProcOf[u] # p}
        BY <1>12, <2>2, <2>3 DEF UsersLost, UsersInside
  <2>5. CASE \E u \in UsersInside : ProcOf[u] = p
    <3>1. PICK u \in UsersInside : ProcOf[u] = p
          BY <2>5
    <3>2. UsersInside' = UsersInside \ {u} /\ UsersLost' = UsersLost \ {u}
          BY <2>2, <2>4, <3>1 DEF UsersLost, UsersInside, OneUserPerProcess
    <3>3. LL!Leave(u)
          BY <2>1, <3>1, <3>2 DEF LL!Leave
    <3>4. QED
          BY <3>1, <3>3 DEF LL!LockNext, UsersInside
  <2>6. CASE ~ \E u \in UsersInside : ProcOf[u] = p
        BY <2>1, <2>2, <2>4, <2>6 DEF UsersLost
  <2>7. QED
        BY <2>5, <2>6
<1>13. CASE UNCHANGED vars
      BY <1>13 DEF vars, KeyHolder, UsersInside, UsersLost, Inside, LostClosed
<1>14. QED
      BY <1>1, <1>2, <1>3, <1>4, <1>5, <1>6, <1>7, <1>8, <1>10, <1>11, <1>12, <1>13
      DEF Next, LockStep, UnlockStep, LL!LockNext

\* With one user per process the etcd lock implements LeaseLock.
THEOREM Refinement ==
  ASSUME OneUserPerProcess
  PROVE  Spec => ImplementsLeaseLock
<1>1. Init => RefInv /\ LL!LockInit
  <2> SUFFICES ASSUME Init PROVE RefInv /\ LL!LockInit
      OBVIOUS
  <2>1. LockInv
        BY InvInit
  <2>2. FreshLeaseQuiet
        BY LockConstants DEF Init, FreshLeaseQuiet, Leases
  <2>3. KeyHolder = NoUser /\ UsersInside = {} /\ UsersLost = {}
        BY DEF Init, KeyHolder, UsersInside, UsersLost, Inside
  <2>4. QED
        BY <2>1, <2>2, <2>3 DEF RefInv, LL!LockInit
<1>2. RefInv /\ [Next]_vars => RefInv'
      BY InvStep, FreshStep DEF RefInv
<1>3. RefInv /\ [Next]_vars => [LL!LockNext]_(LL!lockVars)
      BY RefStep
<1>4. QED
      BY <1>1, <1>2, <1>3, PTL DEF Spec, ImplementsLeaseLock, LL!LockSpec

-----------------------------------------------------------------------------
(* The cron jobs *)

\* A user between Grant and the end of Unlock works with a lease of its process.
OwnLease ==
  \A u \in Users :
    pc[u] \in {"txn", "set", "locked", "remove", "revoke", "delete"} =>
      /\ lease[u] \in 1 .. granted
      /\ leaseProc[lease[u]] = ProcOf[u]

\* So does an entry of the map `locks`.
OwnEntry ==
  \A p \in Procs : locks[p] # 0 => locks[p] \in 1 .. granted /\ leaseProc[locks[p]] = p

\* Where a run is in Lock and Unlock.
RunMatches ==
  \A u \in Users : pc[u] # "dead" =>
    /\ run[u] \in {"off", "failed"} => pc[u] = "idle"
    /\ run[u] = "lock" => pc[u] \in {"idle", "txn", "set"}
    /\ run[u] \in {"job", "done"} => pc[u] = "locked"
    /\ run[u] = "unlock" => pc[u] \in {"locked", "remove", "revoke", "delete"}

\* The run has the token of its process.
HasToken(u) == run[u] \in {"lock", "failed", "job", "done"}

\* A process has its token in the channel or one run has it, dead or alive.
OneToken ==
  /\ \A u \in Users : HasToken(u) => token[ProcOf[u]] = 0
  /\ \A u, v \in Users : HasToken(u) /\ HasToken(v) /\ ProcOf[u] = ProcOf[v] => u = v
  /\ \A p \in Procs : token[p] = 0 => \E u \in Users : ProcOf[u] = p /\ HasToken(u)

\* As long as no run has begun in a process in Unlock, a process has one run.
OneRun ==
  ~overtaken =>
    \A u, v \in Users : ProcOf[u] = ProcOf[v] /\ run[u] # "off" /\ run[v] # "off" => u = v

\* As long as, besides, no lease has expired under a run, whoever has the lock
\* has a lease that lives, and the key.
RunHasKey ==
  ~overtaken /\ ~expired =>
    \A u \in Users : Inside(u) => lease[u] \in live /\ key = lease[u]

\* The inductive invariant.
CronInv ==
  /\ CronTypeOK
  /\ OwnLease /\ OwnEntry
  /\ RunMatches
  /\ OneToken
  /\ OneRun
  /\ RunHasKey

-----------------------------------------------------------------------------
(* The lock, whoever uses it *)

\* A step of the cron jobs is a step of the lock or does not touch it.
LEMMA CronIsLock == ASSUME [CronNext]_allVars PROVE [Next]_vars
<1>1. ASSUME NEW u \in Users, TakeToken(u) \/ JobEnds(u) \/ ReturnToken(u) PROVE UNCHANGED vars
      BY <1>1 DEF TakeToken, JobEnds, ReturnToken
<1>2. ASSUME NEW u \in Users, TakeLock(u) PROVE LockStep(u)
      BY <1>2 DEF TakeLock
<1>3. ASSUME NEW u \in Users, Unlock(u) PROVE UnlockGet(u) \/ UnlockStep(u)
      BY <1>3 DEF Unlock
<1>4. ASSUME NEW l \in Leases, KeepAlive(l) \/ CronExpire(l)
      PROVE  KeepAliveStep(l) \/ Expire(l)
      BY <1>4 DEF KeepAlive, CronExpire
<1>5. ASSUME NEW p \in Procs, CronCrash(p) PROVE Crash(p)
      BY <1>5 DEF CronCrash
<1>6. UNCHANGED allVars => UNCHANGED vars
      BY DEF allVars
<1>7. QED
      BY <1>1, <1>2, <1>3, <1>4, <1>5, <1>6 DEF CronNext, RunStep, Next

\* Leases stay with the process they were granted to.
LEMMA OwnStep ==
  ASSUME TypeOK, OwnLease, OwnEntry, [Next]_vars
  PROVE  OwnLease' /\ OwnEntry'
<1>t. /\ granted \in Nat /\ granted <= MaxLeases /\ MaxLeases \in Nat
      /\ ProcOf \in [Users -> Procs]
      /\ leaseProc \in [1 .. MaxLeases -> Procs \cup {NoProc}]
      /\ locks \in [Procs -> 0 .. MaxLeases] /\ pc \in [Users -> UserPC]
      /\ lease \in [Users -> 0 .. MaxLeases] /\ ka \in [1 .. MaxLeases -> KeepAlivePC]
      BY LockConstants DEF TypeOK, Leases
<1>e. UNCHANGED <<granted, leaseProc, locks>> => OwnEntry'
      BY DEF OwnEntry
<1>1. ASSUME NEW u \in Users, Grant(u) PROVE OwnLease' /\ OwnEntry'
  <2>1. /\ granted' = granted + 1 /\ granted + 1 \in 1 .. MaxLeases
        /\ leaseProc' = [leaseProc EXCEPT ![granted + 1] = ProcOf[u]]
        /\ lease' = [lease EXCEPT ![u] = granted + 1] /\ pc' = [pc EXCEPT ![u] = "txn"]
        /\ locks' = locks
        BY <1>1, <1>t DEF Grant, Goto
  <2>2. /\ leaseProc'[granted + 1] = ProcOf[u]
        /\ \A l \in 1 .. granted : leaseProc'[l] = leaseProc[l] /\ l \in 1 .. granted'
        BY <1>t, <2>1
  <2>3. OwnEntry'
        BY <2>1, <2>2 DEF OwnEntry
  <2>4. ASSUME NEW v \in Users,
               pc'[v] \in {"txn", "set", "locked", "remove", "revoke", "delete"}
        PROVE  lease'[v] \in 1 .. granted' /\ leaseProc'[lease'[v]] = ProcOf[v]
    <3>1. CASE v = u
          BY <1>t, <2>1, <2>2, <3>1
    <3>2. CASE v # u
      <4>1. pc'[v] = pc[v] /\ lease'[v] = lease[v]
            BY <1>t, <2>1, <3>2
      <4>2. QED
            BY <2>2, <2>4, <4>1 DEF OwnLease
    <3>3. QED
          BY <3>1, <3>2
  <2>5. QED
        BY <2>3, <2>4 DEF OwnLease
<1>2. ASSUME NEW u \in Users, GrantError(u) \/ TxnFailed(u) \/ TxnUnknown(u)
      PROVE  OwnLease' /\ OwnEntry'
  <2>1. /\ UNCHANGED <<granted, leaseProc, locks, lease>>
        /\ pc'[u] \in {"idle", "retry"} /\ \A v \in Users : v # u => pc'[v] = pc[v]
        BY <1>2, <1>t DEF GrantError, TxnFailed, TxnUnknown, LockFailed, Goto
  <2>2. OwnLease'
        BY <2>1 DEF OwnLease
  <2>3. QED
        BY <1>e, <2>1, <2>2
<1>3. ASSUME NEW u \in Users, TxnPut(u) PROVE OwnLease' /\ OwnEntry'
  <2>1. /\ UNCHANGED <<granted, leaseProc, locks, lease>>
        /\ pc[u] = "txn" /\ \A v \in Users : v # u => pc'[v] = pc[v]
        BY <1>3, <1>t DEF TxnPut, Goto
  <2>2. OwnLease'
        BY <2>1 DEF OwnLease
  <2>3. QED
        BY <1>e, <2>1, <2>2
<1>4. ASSUME NEW u \in Users, SetLock(u) PROVE OwnLease' /\ OwnEntry'
  <2>1. /\ UNCHANGED <<granted, leaseProc, lease>> /\ pc[u] = "set"
        /\ locks' = [locks EXCEPT ![ProcOf[u]] = lease[u]]
        /\ \A v \in Users : v # u => pc'[v] = pc[v]
        BY <1>4, <1>t DEF SetLock, Goto
  <2>2. OwnLease'
        BY <2>1 DEF OwnLease
  <2>3. lease[u] \in 1 .. granted /\ leaseProc[lease[u]] = ProcOf[u]
        BY <2>1 DEF OwnLease
  <2>4. OwnEntry'
        BY <1>t, <2>1, <2>3 DEF OwnEntry
  <2>5. QED
        BY <2>2, <2>4
<1>5. ASSUME NEW u \in Users, UnlockGet(u) PROVE OwnLease' /\ OwnEntry'
  <2>1. /\ UNCHANGED <<granted, leaseProc, locks>>
        /\ lease' = [lease EXCEPT ![u] = locks[ProcOf[u]]]
        /\ pc' = [pc EXCEPT ![u] = IF locks[ProcOf[u]] # 0 THEN "remove" ELSE "idle"]
        BY <1>5 DEF UnlockGet, HasLock, Goto
  <2>2. ASSUME NEW v \in Users,
               pc'[v] \in {"txn", "set", "locked", "remove", "revoke", "delete"}
        PROVE  lease'[v] \in 1 .. granted' /\ leaseProc'[lease'[v]] = ProcOf[v]
    <3>1. CASE v = u
      <4>1. lease'[v] = locks[ProcOf[u]] /\ locks[ProcOf[u]] # 0 /\ ProcOf[u] \in Procs
            BY <1>t, <2>1, <2>2, <3>1
      <4>2. QED
            BY <2>1, <3>1, <4>1 DEF OwnEntry
    <3>2. CASE v # u
      <4>1. pc'[v] = pc[v] /\ lease'[v] = lease[v]
            BY <1>t, <2>1, <3>2
      <4>2. QED
            BY <2>1, <2>2, <4>1 DEF OwnLease
    <3>3. QED
          BY <3>1, <3>2
  <2>3. QED
        BY <1>e, <2>1, <2>2 DEF OwnLease
<1>6. ASSUME NEW u \in Users, UnlockStep(u) PROVE OwnLease' /\ OwnEntry'
  <2>1. /\ UNCHANGED <<granted, leaseProc, lease>>
        /\ pc[u] \in {"remove", "revoke", "delete"}
        /\ \A v \in Users : v # u => pc'[v] = pc[v]
        BY <1>6, <1>t DEF UnlockStep, UnlockRemove, Revoke, DeleteKey, Goto
  <2>2. \A p \in Procs : locks'[p] \in {locks[p], 0}
        BY <1>6, <1>t DEF UnlockStep, UnlockRemove, Revoke, DeleteKey
  <2>3. OwnLease'
        BY <2>1 DEF OwnLease
  <2>4. OwnEntry'
        BY <2>1, <2>2 DEF OwnEntry
  <2>5. QED
        BY <2>3, <2>4
<1>7. ASSUME NEW l \in Leases, KeepAliveStep(l) PROVE OwnLease' /\ OwnEntry'
  <2>1. UNCHANGED <<granted, leaseProc, lease, pc>>
        BY <1>7 DEF KeepAliveStep, KeepAliveCheck, KeepAliveOnce, KeepAliveError, KeepAliveWake,
           CloseLost, KeepAliveGet, KeepAliveRemove
  <2>2. \A p \in Procs : locks'[p] \in {locks[p], 0}
        BY <1>7, <1>t DEF KeepAliveStep, KeepAliveCheck, KeepAliveOnce, KeepAliveError,
           KeepAliveWake, CloseLost, KeepAliveGet, KeepAliveRemove
  <2>3. OwnLease' /\ OwnEntry'
        BY <2>1, <2>2 DEF OwnLease, OwnEntry
  <2>4. QED
        BY <2>3
<1>8. ASSUME NEW l \in Leases, Expire(l) PROVE OwnLease' /\ OwnEntry'
      BY <1>8 DEF Expire, OwnLease, OwnEntry
<1>9. ASSUME NEW p \in Procs, Crash(p) PROVE OwnLease' /\ OwnEntry'
  <2>1. /\ UNCHANGED <<granted, leaseProc, lease, locks>>
        /\ \A v \in Users : pc'[v] \in {pc[v], "dead"}
        BY <1>9 DEF Crash
  <2>2. QED
        BY <1>e, <2>1 DEF OwnLease
<1>10. CASE UNCHANGED vars
      BY <1>10 DEF vars, OwnLease, OwnEntry
<1>11. QED
      BY <1>1, <1>2, <1>3, <1>4, <1>5, <1>6, <1>7, <1>8, <1>9, <1>10 DEF Next, LockStep

-----------------------------------------------------------------------------
(* The runs *)

\* What an action of the cron jobs does to the runs, the tokens and the histories.
LEMMA CronSteps ==
  ASSUME CronTypeOK, [CronNext]_allVars
  PROVE  \/ \E u \in Users : TakeToken(u) \/ TakeLock(u) \/ JobEnds(u) \/ ReturnToken(u) \/ Unlock(u)
         \/ \E l \in Leases : KeepAlive(l) \/ CronExpire(l)
         \/ \E p \in Procs : CronCrash(p)
         \/ UNCHANGED allVars
BY DEF CronNext, RunStep

\* The types.
LEMMA CronTypeStep == CronTypeOK /\ [CronNext]_allVars => CronTypeOK'
<1> SUFFICES ASSUME CronTypeOK, [CronNext]_allVars PROVE CronTypeOK'
    OBVIOUS
<1>1. TypeOK'
      BY CronIsLock, TypeStep DEF CronTypeOK
<1>2. /\ run \in [Users -> RunPC] /\ token \in [Procs -> {0, 1}]
      /\ expired \in BOOLEAN /\ overtaken \in BOOLEAN
      BY DEF CronTypeOK
<1>3. ASSUME NEW u \in Users,
             TakeToken(u) \/ TakeLock(u) \/ JobEnds(u) \/ ReturnToken(u) \/ Unlock(u)
      PROVE  /\ run' \in [Users -> RunPC] /\ token' \in [Procs -> {0, 1}]
             /\ expired' \in BOOLEAN /\ overtaken' \in BOOLEAN
  <2>1. run' \in [Users -> RunPC]
    <3>1. \E where \in RunPC : run' = [run EXCEPT ![u] = where]
          BY <1>3 DEF TakeToken, TakeLock, JobEnds, ReturnToken, Unlock, RunGoto, RunPC
    <3>2. QED
          BY <1>2, <3>1
  <2>2. token' \in [Procs -> {0, 1}]
        BY <1>2, <1>3 DEF TakeToken, TakeLock, JobEnds, ReturnToken, Unlock
  <2>3. expired' = expired
        BY <1>3 DEF TakeToken, TakeLock, JobEnds, ReturnToken, Unlock
  <2>4. overtaken' \in BOOLEAN
    <3>1. CASE TakeToken(u)
          BY <3>1, Zenon DEF TakeToken
    <3>2. CASE TakeLock(u) \/ JobEnds(u) \/ ReturnToken(u) \/ Unlock(u)
      <4>1. overtaken' = overtaken
            BY <3>2 DEF TakeLock, JobEnds, ReturnToken, Unlock
      <4>2. QED
            BY <1>2, <4>1
    <3>3. QED
          BY <1>3, <3>1, <3>2
  <2>5. QED
        BY <1>2, <2>1, <2>2, <2>3, <2>4
<1>4. ASSUME NEW l \in Leases, CronExpire(l)
      PROVE  UNCHANGED <<run, token, overtaken>> /\ expired' \in BOOLEAN
  <2>1. UNCHANGED <<run, token, overtaken>>
        BY <1>4 DEF CronExpire
  <2>2. expired' \in BOOLEAN
        BY <1>4, Zenon DEF CronExpire
  <2>3. QED
        BY <2>1, <2>2
<1>5. ASSUME NEW l \in Leases, KeepAlive(l) PROVE UNCHANGED <<run, token, expired, overtaken>>
      BY <1>5 DEF KeepAlive, cronVars
<1>6. ASSUME NEW p \in Procs, CronCrash(p) PROVE UNCHANGED <<run, token, expired, overtaken>>
      BY <1>6 DEF CronCrash, cronVars
<1>7. UNCHANGED allVars => UNCHANGED <<run, token, expired, overtaken>>
      BY DEF allVars, cronVars
<1>8. /\ run' \in [Users -> RunPC] /\ token' \in [Procs -> {0, 1}]
      /\ expired' \in BOOLEAN /\ overtaken' \in BOOLEAN
      BY <1>2, <1>3, <1>4, <1>5, <1>6, <1>7, CronSteps
<1>9. QED
      BY <1>1, <1>8 DEF CronTypeOK

\* Lock and Unlock are called where the run says.
LEMMA MatchStep ==
  ASSUME CronTypeOK, RunMatches, [CronNext]_allVars
  PROVE  RunMatches'
<1> DEFINE Fits(u) == pc[u] # "dead" =>
             /\ run[u] \in {"off", "failed"} => pc[u] = "idle"
             /\ run[u] = "lock" => pc[u] \in {"idle", "txn", "set"}
             /\ run[u] \in {"job", "done"} => pc[u] = "locked"
             /\ run[u] = "unlock" => pc[u] \in {"locked", "remove", "revoke", "delete"}
<1>1. /\ run \in [Users -> RunPC] /\ pc \in [Users -> UserPC]
      /\ \A u \in Users : Fits(u)
      BY DEF CronTypeOK, TypeOK, RunMatches
<1>2. ASSUME UNCHANGED <<run, pc>> PROVE \A u \in Users : Fits(u)'
      BY <1>1, <1>2
<1>3. ASSUME NEW u \in Users, TakeToken(u) PROVE \A v \in Users : Fits(v)'
  <2>1. pc[u] = "idle" /\ pc' = pc /\ run' = [run EXCEPT ![u] = "lock"]
        BY <1>3 DEF TakeToken, RunGoto, vars
  <2>2. QED
        BY <1>1, <2>1
<1>4. ASSUME NEW u \in Users, TakeLock(u) PROVE \A v \in Users : Fits(v)'
  <2>1. /\ run[u] = "lock" /\ pc'[u] # "retry"
        /\ run' = [run EXCEPT ![u] = CASE pc'[u] = "idle" -> "failed"
                                       [] pc'[u] = "locked" -> "job" [] OTHER -> "lock"]
        BY <1>4 DEF TakeLock, RunGoto
  <2>2. /\ pc'[u] \in {"idle", "retry", "txn", "set", "locked"}
        /\ \A v \in Users : v # u => pc'[v] = pc[v]
    <3>1. \E where \in {"idle", "retry", "txn", "set", "locked"} : pc' = [pc EXCEPT ![u] = where]
          BY <1>4 DEF TakeLock, LockStep, Grant, GrantError, TxnPut, TxnFailed, TxnUnknown, SetLock,
             LockFailed, Goto
    <3>2. QED
          BY <1>1, <3>1
  <2>3. \A v \in Users : v # u => run'[v] = run[v]
        BY <1>1, <2>1
  <2>4. Fits(u)'
    <3>1. run'[u] = CASE pc'[u] = "idle" -> "failed" [] pc'[u] = "locked" -> "job"
                      [] OTHER -> "lock"
          BY <1>1, <2>1
    <3>2. QED
          BY <2>1, <2>2, <3>1
  <2>5. QED
        BY <1>1, <2>2, <2>3, <2>4
<1>5. ASSUME NEW u \in Users, JobEnds(u) \/ ReturnToken(u) PROVE \A v \in Users : Fits(v)'
  <2>1. /\ pc' = pc
        /\ \/ run[u] = "job" /\ run' = [run EXCEPT ![u] = "done"]
           \/ run[u] = "failed" /\ run' = [run EXCEPT ![u] = "off"]
           \/ run[u] = "done" /\ run' = [run EXCEPT ![u] = "unlock"]
        BY <1>5 DEF JobEnds, ReturnToken, RunGoto, vars
  <2>2. QED
        BY <1>1, <2>1
<1>6. ASSUME NEW u \in Users, Unlock(u) PROVE \A v \in Users : Fits(v)'
  <2>1. /\ run[u] = "unlock"
        /\ run' = [run EXCEPT ![u] = IF pc'[u] = "idle" THEN "off" ELSE "unlock"]
        BY <1>6 DEF Unlock, RunGoto
  <2>2. /\ pc'[u] \in {"idle", "remove", "revoke", "delete"}
        /\ \A v \in Users : v # u => pc'[v] = pc[v]
    <3>1. \E where \in {"idle", "remove", "revoke", "delete"} : pc' = [pc EXCEPT ![u] = where]
          BY <1>6 DEF Unlock, UnlockGet, UnlockStep, UnlockRemove, Revoke, DeleteKey, Goto
    <3>2. QED
          BY <1>1, <3>1
  <2>3. QED
        BY <1>1, <2>1, <2>2
<1>7. ASSUME NEW l \in Leases, KeepAlive(l) \/ CronExpire(l) PROVE UNCHANGED <<run, pc>>
  <2>1. KeepAlive(l) => UNCHANGED <<run, pc>>
        BY DEF KeepAlive, cronVars, KeepAliveStep, KeepAliveCheck, KeepAliveOnce, KeepAliveError,
           KeepAliveWake, CloseLost, KeepAliveGet, KeepAliveRemove
  <2>2. CronExpire(l) => UNCHANGED <<run, pc>>
        BY DEF CronExpire, Expire
  <2>3. QED
        BY <1>7, <2>1, <2>2
<1>8. ASSUME NEW p \in Procs, CronCrash(p) PROVE \A v \in Users : Fits(v)'
  <2>1. run' = run /\ \A v \in Users : pc'[v] \in {pc[v], "dead"}
        BY <1>8 DEF CronCrash, Crash, cronVars
  <2>2. QED
        BY <1>1, <2>1
<1>9. UNCHANGED allVars => UNCHANGED <<run, pc>>
      BY DEF allVars, cronVars, vars
<1> HIDE DEF Fits
<1>10. \A v \in Users : Fits(v)'
      BY <1>2, <1>3, <1>4, <1>5, <1>6, <1>7, <1>8, <1>9, CronSteps
<1>11. QED
      BY <1>10 DEF RunMatches, Fits

\* No step loses or duplicates the token of a process, and a run that finds the
\* process's runs all over is the only one.
LEMMA TokenStep ==
  ASSUME CronTypeOK, OneToken, OneRun, [CronNext]_allVars
  PROVE  OneToken' /\ OneRun'
<1>1. /\ run \in [Users -> RunPC] /\ token \in [Procs -> {0, 1}] /\ ProcOf \in [Users -> Procs]
      BY LockConstants DEF CronTypeOK
<1>2. ASSUME UNCHANGED <<run, token, overtaken>> PROVE OneToken' /\ OneRun'
      BY <1>2 DEF OneToken, OneRun, HasToken
<1>3. ASSUME NEW u \in Users, TakeToken(u) PROVE OneToken' /\ OneRun'
  <2>1. /\ run[u] = "off" /\ token[ProcOf[u]] = 1
        /\ token' = [token EXCEPT ![ProcOf[u]] = 0] /\ run' = [run EXCEPT ![u] = "lock"]
        /\ overtaken' = (overtaken \/ \E v \in Mates(u) : run[v] = "unlock")
        BY <1>3 DEF TakeToken, RunGoto
  <2>2. \A v \in Users : ProcOf[v] = ProcOf[u] => ~HasToken(v)
        BY <2>1 DEF OneToken
  <2>3. /\ HasToken(u)' /\ \A v \in Users : v # u => run'[v] = run[v] /\ HasToken(v)' = HasToken(v)
        BY <1>1, <2>1 DEF HasToken
  <2>4. OneToken'
    <3>1. \A v \in Users : HasToken(v)' => token'[ProcOf[v]] = 0
          BY <1>1, <2>1, <2>3 DEF OneToken
    <3>2. \A v, w \in Users : HasToken(v)' /\ HasToken(w)' /\ ProcOf[v] = ProcOf[w] => v = w
          BY <2>2, <2>3 DEF OneToken
    <3>3. ASSUME NEW p \in Procs, token'[p] = 0
          PROVE  \E v \in Users : ProcOf[v] = p /\ HasToken(v)'
      <4>1. CASE p = ProcOf[u]
            BY <2>3, <4>1
      <4>2. CASE p # ProcOf[u]
        <5>1. token[p] = 0
              BY <1>1, <2>1, <3>3, <4>2
        <5>2. QED
              BY <2>3, <4>2, <5>1 DEF OneToken
      <4>3. QED
            BY <4>1, <4>2
    <3>4. QED
          BY <3>1, <3>2, <3>3 DEF OneToken
  <2>5. OneRun'
    <3>1. ASSUME ~overtaken', NEW v \in Users, v # u, ProcOf[v] = ProcOf[u]
          PROVE  run[v] = "off"
      <4>1. run[v] # "unlock"
            BY <2>1, <3>1 DEF Mates
      <4>2. QED
            BY <1>1, <2>2, <3>1, <4>1 DEF HasToken, RunPC
    <3>2. ~overtaken' => ~overtaken
          BY <2>1
    <3>3. QED
          BY <2>3, <3>1, <3>2 DEF OneRun
  <2>6. QED
        BY <2>4, <2>5
<1>4. ASSUME NEW u \in Users, HasToken(u), HasToken(u)', UNCHANGED <<token, overtaken>>,
             \A v \in Users : v # u => run'[v] = run[v]
      PROVE  OneToken' /\ OneRun'
  <2>1. \A v \in Users : HasToken(v)' = HasToken(v)
        BY <1>4 DEF HasToken
  <2>2. run[u] # "off"
        BY <1>4 DEF HasToken
  <2>3. OneToken'
        BY <1>4, <2>1 DEF OneToken
  <2>4. OneRun'
        BY <1>4, <2>2 DEF OneRun
  <2>5. QED
        BY <2>3, <2>4
<1>5. ASSUME NEW u \in Users, TakeLock(u) \/ JobEnds(u) PROVE OneToken' /\ OneRun'
  <2>1. /\ run[u] \in {"lock", "job"} /\ UNCHANGED <<token, overtaken>>
        /\ \E where \in {"lock", "failed", "job", "done"} : run' = [run EXCEPT ![u] = where]
        BY <1>5 DEF TakeLock, JobEnds, RunGoto
  <2>2. QED
        BY <1>1, <1>4, <2>1 DEF HasToken
<1>6. ASSUME NEW u \in Users, ReturnToken(u) PROVE OneToken' /\ OneRun'
  <2>1. /\ run[u] \in {"failed", "done"} /\ overtaken' = overtaken
        /\ token' = [token EXCEPT ![ProcOf[u]] = 1]
        /\ \E where \in {"off", "unlock"} : run' = [run EXCEPT ![u] = where]
        BY <1>6 DEF ReturnToken, RunGoto
  <2>2. /\ HasToken(u) /\ ~HasToken(u)'
        /\ \A v \in Users : v # u => run'[v] = run[v] /\ HasToken(v)' = HasToken(v)
        BY <1>1, <2>1 DEF HasToken
  <2>3. \A v \in Users : v # u /\ HasToken(v) => ProcOf[v] # ProcOf[u]
        BY <2>2 DEF OneToken
  <2>4. OneToken'
    <3>1. \A v \in Users : HasToken(v)' => token'[ProcOf[v]] = 0
          BY <1>1, <2>1, <2>2, <2>3 DEF OneToken
    <3>2. \A v, w \in Users : HasToken(v)' /\ HasToken(w)' /\ ProcOf[v] = ProcOf[w] => v = w
          BY <2>2 DEF OneToken
    <3>3. ASSUME NEW p \in Procs, token'[p] = 0
          PROVE  \E v \in Users : ProcOf[v] = p /\ HasToken(v)'
      <4>1. p # ProcOf[u] /\ token[p] = 0
            BY <1>1, <2>1, <3>3
      <4>2. QED
            BY <2>2, <4>1 DEF OneToken
    <3>4. QED
          BY <3>1, <3>2, <3>3 DEF OneToken
  <2>5. OneRun'
        BY <2>1, <2>2 DEF OneRun
  <2>6. QED
        BY <2>4, <2>5
<1>7. ASSUME NEW u \in Users, Unlock(u) PROVE OneToken' /\ OneRun'
  <2>1. /\ run[u] = "unlock" /\ UNCHANGED <<token, overtaken>>
        /\ \E where \in {"off", "unlock"} : run' = [run EXCEPT ![u] = where]
        BY <1>7 DEF Unlock, RunGoto
  <2>2. \A v \in Users : HasToken(v)' = HasToken(v) /\ (run'[v] # "off" => run[v] # "off")
        BY <1>1, <2>1 DEF HasToken
  <2>3. OneToken'
        BY <2>1, <2>2 DEF OneToken
  <2>4. OneRun'
        BY <2>1, <2>2 DEF OneRun
  <2>5. QED
        BY <2>3, <2>4
<1>8. ASSUME NEW l \in Leases, KeepAlive(l) \/ CronExpire(l)
      PROVE  UNCHANGED <<run, token, overtaken>>
      BY <1>8 DEF KeepAlive, CronExpire, cronVars
<1>9. ASSUME NEW p \in Procs, CronCrash(p) PROVE UNCHANGED <<run, token, overtaken>>
      BY <1>9 DEF CronCrash, cronVars
<1>10. UNCHANGED allVars => UNCHANGED <<run, token, overtaken>>
      BY DEF allVars, cronVars
<1>11. QED
      BY <1>2, <1>3, <1>5, <1>6, <1>7, <1>8, <1>9, <1>10, CronSteps

\* Who has the lock keeps it: a key is put only where there is none, and the lease
\* and the key that an Unlock takes away are those of a run that is over.
LEMMA KeyStep ==
  ASSUME CronInv, [CronNext]_allVars, CronTypeOK'
  PROVE  RunHasKey'
<1>1. /\ granted \in Nat /\ MaxLeases \in Nat /\ key \in Nat
      /\ run \in [Users -> RunPC] /\ pc \in [Users -> UserPC] /\ lease \in [Users -> 0 .. MaxLeases]
      /\ OwnLease /\ OwnEntry /\ RunMatches /\ OneRun /\ RunHasKey
      BY LockConstants DEF CronInv, CronTypeOK, TypeOK
<1>2. \A u \in Users : Inside(u) =>
        /\ lease[u] \in 1 .. granted /\ lease[u] # 0 /\ leaseProc[lease[u]] = ProcOf[u]
        /\ run[u] # "off"
      BY <1>1 DEF Inside, OwnLease, RunMatches
<1>3. ASSUME expired' = expired, overtaken' = overtaken, live \subseteq live', key' = key,
             \A v \in Users : Inside(v)' => Inside(v) /\ lease'[v] = lease[v]
      PROVE  RunHasKey'
      BY <1>1, <1>3 DEF RunHasKey
<1>4. ASSUME NEW u \in Users, TakeToken(u) PROVE RunHasKey'
  <2>1. UNCHANGED <<live, key, pc, lease, expired>> /\ (~overtaken' => ~overtaken)
        BY <1>4 DEF TakeToken, vars
  <2>2. QED
        BY <1>1, <2>1 DEF RunHasKey, Inside
<1>5. ASSUME NEW u \in Users, JobEnds(u) \/ ReturnToken(u) PROVE RunHasKey'
  <2>1. UNCHANGED <<live, key, pc, lease, expired, overtaken>>
        BY <1>5 DEF JobEnds, ReturnToken, vars
  <2>2. QED
        BY <1>3, <2>1 DEF Inside
<1>6. ASSUME NEW u \in Users, TakeLock(u), Grant(u) \/ GrantError(u) \/ TxnFailed(u) \/ SetLock(u)
      PROVE  RunHasKey'
  <2>1. UNCHANGED <<key, expired, overtaken>> /\ live \subseteq live'
        BY <1>6 DEF TakeLock, Grant, GrantError, TxnFailed, SetLock
  <2>2. /\ \A v \in Users : v # u => pc'[v] = pc[v] /\ lease'[v] = lease[v]
        /\ \/ pc'[u] \notin {"set", "locked"}
           \/ pc[u] = "set" /\ lease'[u] = lease[u]
        BY <1>1, <1>6 DEF Grant, GrantError, TxnFailed, SetLock, LockFailed, Goto
  <2>3. QED
        BY <1>3, <2>1, <2>2 DEF Inside
<1>7. ASSUME NEW u \in Users, TakeLock(u), TxnPut(u) \/ TxnUnknown(u) PROVE RunHasKey'
  <2>1. /\ key = 0 /\ lease[u] \in live /\ key' = lease[u]
        /\ UNCHANGED <<live, lease, expired, overtaken>>
        BY <1>7 DEF TakeLock, TxnPut, TxnUnknown, CanPut
  <2>2. \A v \in Users : v # u => pc'[v] = pc[v]
        BY <1>1, <1>7 DEF TxnPut, TxnUnknown, LockFailed, Goto
  <2>3. ASSUME ~overtaken', ~expired', NEW v \in Users, v # u PROVE ~Inside(v)'
        BY <1>1, <1>2, <2>1, <2>2, <2>3 DEF RunHasKey, Inside
  <2>4. QED
        BY <2>1, <2>3 DEF RunHasKey
<1>8. ASSUME NEW u \in Users, Unlock(u) PROVE RunHasKey'
  <2>1. /\ run[u] = "unlock" /\ UNCHANGED <<expired, overtaken>>
        /\ UnlockGet(u) \/ UnlockRemove(u) \/ Revoke(u) \/ DeleteKey(u)
        BY <1>8 DEF Unlock, UnlockStep
  <2>2. \A v \in Users : v # u => pc'[v] = pc[v] /\ lease'[v] = lease[v]
        BY <1>1, <2>1 DEF UnlockGet, UnlockRemove, Revoke, DeleteKey, Goto
  <2>3. ~Inside(u)'
        BY <1>1, <2>1 DEF UnlockGet, UnlockRemove, Revoke, DeleteKey, Goto, Inside
  <2>4. CASE UnlockGet(u) \/ UnlockRemove(u)
    <3>1. UNCHANGED <<live, key>>
          BY <2>4 DEF UnlockGet, UnlockRemove
    <3>2. QED
          BY <1>3, <2>1, <2>2, <2>3, <3>1 DEF Inside
  <2>5. ASSUME Revoke(u) \/ DeleteKey(u), ~overtaken, ~expired, NEW v \in Users, Inside(v)'
        PROVE  lease'[v] \in live' /\ key' = lease'[v]
    <3>1. v # u /\ Inside(v) /\ lease'[v] = lease[v]
          BY <2>2, <2>3, <2>5 DEF Inside
    <3>2. /\ lease[v] \in live /\ key = lease[v] /\ lease[v] # 0
          /\ leaseProc[lease[v]] = ProcOf[v]
          BY <1>1, <1>2, <2>5, <3>1 DEF RunHasKey
    <3>3. ProcOf[v] # ProcOf[u]
          BY <1>1, <1>2, <2>1, <2>5, <3>1 DEF OneRun
    <3>4. CASE Revoke(u)
      <4>1. leaseProc[lease[u]] = ProcOf[u]
            BY <1>1, <3>4 DEF Revoke, OwnLease
      <4>2. lease[u] # lease[v]
            BY <3>2, <3>3, <4>1
      <4>3. \/ live' = live \ {lease[u]} /\ key' = IF key = lease[u] THEN 0 ELSE key
            \/ UNCHANGED <<live, key>>
            BY <3>4 DEF Revoke, EndLease
      <4>4. QED
            BY <3>1, <3>2, <4>2, <4>3
    <3>5. CASE DeleteKey(u)
      <4>1. ~OwnValue(u)
            BY <3>2, <3>3 DEF OwnValue
      <4>2. UNCHANGED <<live, key>>
            BY <3>5, <4>1 DEF DeleteKey
      <4>3. QED
            BY <3>1, <3>2, <4>2
    <3>6. QED
          BY <2>5, <3>4, <3>5
  <2>6. QED
        BY <2>1, <2>4, <2>5 DEF RunHasKey
<1>9. ASSUME NEW l \in Leases, KeepAlive(l) PROVE RunHasKey'
  <2>1. UNCHANGED <<live, key, pc, lease>>
        BY <1>9 DEF KeepAlive, KeepAliveStep, KeepAliveCheck, KeepAliveOnce, KeepAliveError,
           KeepAliveWake, CloseLost, KeepAliveGet, KeepAliveRemove
  <2>2. UNCHANGED <<expired, overtaken>>
        BY <1>9 DEF KeepAlive, cronVars
  <2>3. QED
        BY <1>3, <2>1, <2>2 DEF Inside
<1>10. ASSUME NEW l \in Leases, CronExpire(l) PROVE RunHasKey'
  <2>1. /\ live' = live \ {l} /\ key' = IF key = l THEN 0 ELSE key
        /\ UNCHANGED <<pc, lease, overtaken>>
        /\ expired' = (expired \/ \E u \in Users : Inside(u) /\ lease[u] = l)
        BY <1>10 DEF CronExpire, Expire, EndLease
  <2>2. ASSUME ~overtaken', ~expired', NEW u \in Users, Inside(u)'
        PROVE  lease'[u] \in live' /\ key' = lease'[u]
    <3>1. Inside(u) /\ ~expired /\ ~overtaken /\ lease[u] # l
          BY <2>1, <2>2 DEF Inside
    <3>2. lease[u] \in live /\ key = lease[u]
          BY <1>1, <3>1 DEF RunHasKey
    <3>3. QED
          BY <2>1, <3>1, <3>2
  <2>3. QED
        BY <2>2 DEF RunHasKey
<1>11. ASSUME NEW p \in Procs, CronCrash(p) PROVE RunHasKey'
  <2>1. /\ UNCHANGED <<live, key, lease, expired, overtaken>>
        /\ \A v \in Users : pc'[v] \in {pc[v], "dead"}
        BY <1>11 DEF CronCrash, Crash, cronVars
  <2>2. QED
        BY <1>3, <2>1 DEF Inside
<1>12. ASSUME UNCHANGED allVars PROVE RunHasKey'
  <2>1. UNCHANGED <<live, key, pc, lease, expired, overtaken>>
        BY <1>12 DEF allVars, cronVars, vars
  <2>2. QED
        BY <1>3, <2>1 DEF Inside
<1>13. ASSUME NEW u \in Users, TakeLock(u) PROVE RunHasKey'
      BY <1>6, <1>7, <1>13 DEF TakeLock, LockStep
<1>14. CronTypeOK
      BY DEF CronInv
<1>15. QED
      BY <1>4, <1>5, <1>8, <1>9, <1>10, <1>11, <1>12, <1>13, <1>14, CronSteps

-----------------------------------------------------------------------------
(* Theorems *)

\* CronInv is inductive.
LEMMA CronInvStep == CronInv /\ [CronNext]_allVars => CronInv'
<1> SUFFICES ASSUME CronInv, [CronNext]_allVars PROVE CronInv'
    OBVIOUS
<1>1. CronTypeOK /\ TypeOK
      BY DEF CronInv, CronTypeOK
<1>2. CronTypeOK'
      BY <1>1, CronTypeStep
<1>3. OwnLease' /\ OwnEntry'
      BY <1>1, CronIsLock, OwnStep DEF CronInv
<1>4. RunMatches' /\ OneToken' /\ OneRun'
      BY <1>1, MatchStep, TokenStep DEF CronInv
<1>5. QED
      BY <1>2, <1>3, <1>4, KeyStep DEF CronInv

\* It holds initially.
LEMMA CronInvInit == CronInit => CronInv
<1> SUFFICES ASSUME CronInit PROVE CronInv
    OBVIOUS
<1>1. CronTypeOK
  <2>1. TypeOK
        BY TypeInit DEF CronInit
  <2>2. run \in [Users -> RunPC] /\ token \in [Procs -> {0, 1}]
        BY DEF CronInit, RunPC
  <2>3. {expired, overtaken} \subseteq BOOLEAN
        BY Zenon DEF CronInit
  <2>4. QED
        BY <2>1, <2>2, <2>3 DEF CronTypeOK
<1>2. OwnLease /\ OwnEntry /\ RunMatches /\ RunHasKey
      BY DEF CronInit, Init, OwnLease, OwnEntry, RunMatches, RunHasKey, Inside
<1>3. OneToken /\ OneRun
      BY LockConstants DEF CronInit, OneToken, OneRun, HasToken
<1>4. QED
      BY <1>1, <1>2, <1>3 DEF CronInv

\* CronInv holds in every reachable state.
THEOREM CronCorrect == CronSpec => []CronInv
BY CronInvInit, CronInvStep, PTL DEF CronSpec

\* In every process the token is in the channel or exactly one run of the job has
\* it, whichever way runs fail: runJob never puts back a token it did not take,
\* never keeps one, and its deferred send never waits.
THEOREM TokenIsKept == CronSpec => []TokenOrRun
<1>1. CronInv => TokenOrRun
  <2> SUFFICES ASSUME CronInv, NEW p \in Procs
               PROVE  token[p] + Cardinality({u \in Users : ProcOf[u] = p /\ HasToken(u)}) = 1
      BY DEF TokenOrRun, HasToken
  <2> DEFINE S == {u \in Users : ProcOf[u] = p /\ HasToken(u)}
  <2>1. OneToken /\ token[p] \in {0, 1}
        BY DEF CronInv, CronTypeOK
  <2>2. CASE token[p] = 1
    <3>1. S = {}
          BY <2>1, <2>2 DEF OneToken
    <3>2. Cardinality(S) = 0
          BY <3>1, FS_EmptySet
    <3>3. QED
          BY <2>2, <3>2
  <2>3. CASE token[p] = 0
    <3>1. PICK u \in Users : ProcOf[u] = p /\ HasToken(u)
          BY <2>1, <2>3 DEF OneToken
    <3>2. S = {u}
          BY <2>1, <3>1 DEF OneToken
    <3>3. Cardinality(S) = 1
          BY <3>2, FS_Singleton
    <3>4. QED
          BY <2>3, <3>3
  <2>4. QED
        BY <2>1, <2>2, <2>3
<1>2. QED
      BY CronCorrect, <1>1, PTL

\* The job runs once in the cluster as long as no lease expires under it and no run
\* begins while its process is still in the Unlock of the one before.
THEOREM JobIsExclusive == CronSpec => []JobRunsOnce
<1>1. CronInv => JobRunsOnce
  <2> SUFFICES ASSUME CronInv, ~expired, ~overtaken, NEW u \in Users, NEW v \in Users,
                      Running(u), Running(v)
               PROVE  u = v
      BY DEF JobRunsOnce
  <2>1. pc[u] = "locked" /\ pc[v] = "locked" /\ run[u] = "job" /\ run[v] = "job"
        BY DEF CronInv, RunMatches, Running
  <2>2. lease[u] = lease[v]
        BY <2>1 DEF CronInv, RunHasKey, Inside
  <2>3. ProcOf[u] = ProcOf[v]
        BY <2>1, <2>2 DEF CronInv, OwnLease
  <2>4. QED
        BY <2>1, <2>3 DEF CronInv, OneRun
<1>2. QED
      BY CronCorrect, <1>1, PTL

\* Whatever happens, a running job whose lease lives loses its key only to an Unlock
\* of an earlier run in its own process: no other process and no failed call takes it.
THEOREM KeyIsLostToMate == CronSpec => KeyLostOnlyToMate
<1> DEFINE Kept == \A u \in Users :
      Running(u) /\ key = lease[u] /\ key' # key /\ lease[u] \in live'
        => \E v \in Mates(u) : run[v] = "unlock" /\ pc[v] = "delete"
<1>1. CronInv /\ [CronNext]_allVars => [Kept]_allVars
  <2> SUFFICES ASSUME CronInv, [CronNext]_allVars, NEW u \in Users,
                      Running(u), key = lease[u], key' # key, lease[u] \in live'
               PROVE  \E v \in Mates(u) : run[v] = "unlock" /\ pc[v] = "delete"
      OBVIOUS
  <2>1. /\ pc[u] = "locked" /\ key # 0 /\ leaseProc[key] = ProcOf[u]
        BY DEF CronInv, RunMatches, OwnLease, Running
  <2>2. ASSUME NEW v \in Users, LockStep(v) PROVE key' = key
        BY <2>1, <2>2 DEF LockStep, Grant, GrantError, TxnPut, TxnFailed, TxnUnknown, SetLock, CanPut
  <2>3. ASSUME NEW l, EndLease(l) PROVE FALSE
        BY <2>3 DEF EndLease
  <2>4. ASSUME NEW v \in Users, Unlock(v)
        PROVE  v \in Mates(u) /\ run[v] = "unlock" /\ pc[v] = "delete"
    <3>1. run[v] = "unlock" /\ DeleteKey(v)
          BY <2>3, <2>4 DEF Unlock, UnlockGet, UnlockStep, UnlockRemove, Revoke
    <3>2. pc[v] = "delete" /\ ProcOf[v] = ProcOf[u]
          BY <2>1, <3>1 DEF DeleteKey, OwnValue
    <3>3. QED
          BY <2>1, <3>1, <3>2 DEF Mates
  <2>5. ASSUME NEW v \in Users, TakeToken(v) \/ JobEnds(v) \/ ReturnToken(v) PROVE key' = key
        BY <2>5 DEF TakeToken, JobEnds, ReturnToken, vars
  <2>6. ASSUME NEW v \in Users, TakeLock(v) PROVE key' = key
        BY <2>2, <2>6 DEF TakeLock
  <2>7. ASSUME NEW l \in Leases, KeepAlive(l) PROVE key' = key
        BY <2>7 DEF KeepAlive, KeepAliveStep, KeepAliveCheck, KeepAliveOnce, KeepAliveError,
           KeepAliveWake, CloseLost, KeepAliveGet, KeepAliveRemove
  <2>8. ASSUME NEW l \in Leases, CronExpire(l) PROVE FALSE
        BY <2>3, <2>8 DEF CronExpire, Expire
  <2>9. ASSUME NEW p \in Procs, CronCrash(p) PROVE key' = key
        BY <2>9 DEF CronCrash, Crash
  <2>10. UNCHANGED allVars => key' = key
        BY DEF allVars, vars
  <2>11. CronTypeOK
        BY DEF CronInv
  <2>12. QED
        BY <2>4, <2>5, <2>6, <2>7, <2>8, <2>9, <2>10, <2>11, CronSteps
<1>2. QED
      BY CronCorrect, <1>1, PTL DEF CronSpec, KeyLostOnlyToMate, Kept
=============================================================================
