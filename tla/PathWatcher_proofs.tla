------------------------- MODULE PathWatcher_proofs -------------------------
(***************************************************************************)
(* Proofs about the path watcher, for any number of processes, keys,       *)
(* writes, failures, crashes, expired leases and compactions.              *)
(***************************************************************************)
EXTENDS PathWatcher, TLAPS, WellFoundedInduction

\* A watcher that has an event has a revision of the log, and one that reads
\* events starts at a revision there can be.
PlacesOK ==
  \A p \in Users :
    /\ pc[p] \in {"events", "handle", "store"} => cursor[p] >= 1
    /\ pc[p] \in {"handle", "store", "recover", "swap"} => cur[p] >= 1
    /\ pc[p] = "compact" => 1 <= cursor[p] /\ cursor[p] <= cur[p]

\* TypeOK is not inductive alone: the event that is handled must be in the log.
TypeInv == TypeOK /\ PlacesOK

\* A set of revisions that is not empty has a last one.
LEMMA LastRevision ==
  ASSUME NEW n \in Nat, NEW S \in SUBSET (1 .. n), S # {}
  PROVE  \E r \in S : \A s \in S : s <= r
<1> DEFINE D == {d \in Nat : n - d \in S}
<1>1. D \subseteq Nat /\ D # {}
  <2>1. PICK r \in S : TRUE
        OBVIOUS
  <2>2. n - r \in Nat /\ n - (n - r) = r
        OBVIOUS
  <2>3. QED
        BY <2>1, <2>2
<1> HIDE DEF D
<1>2. PICK x \in D : \A y \in D : ~(<<y, x>> \in OpToRel(<, Nat))
      BY <1>1, NatLessThanWellFounded, WFMin, Zenon
<1>3. \A y \in D : ~(y < x)
      BY <1>1, <1>2 DEF OpToRel
<1>4. n - x \in S
      BY DEF D
<1>5. ASSUME NEW s \in S PROVE s <= n - x
  <2>1. n - s \in D
        BY DEF D
  <2>2. ~(n - s < x)
        BY <1>3, <2>1
  <2>3. QED
        BY <1>1, <2>2
<1>6. QED
      BY <1>4, <1>5

\* Fetch returns a value that was written, or finds the key deleted.
LEMMA ValueType ==
  ASSUME TypeOK, WatcherConstants, NEW k
  PROVE  ValueOf(k) \in 0 .. MaxWrites
<1>1. CASE ChangesOf(k) = {}
      BY <1>1 DEF ValueOf, Deleted, WatcherConstants
<1>2. CASE ChangesOf(k) # {}
  <2>1. ChangesOf(k) \in SUBSET (1 .. Len(log)) /\ Len(log) \in Nat
        BY DEF ChangesOf, TypeOK
  <2>2. \E r \in ChangesOf(k) : \A s \in ChangesOf(k) : s <= r
        BY <1>2, <2>1, LastRevision
  <2> DEFINE last == CHOOSE r \in ChangesOf(k) : \A s \in ChangesOf(k) : s <= r
  <2>3. last \in 1 .. Len(log)
        BY <2>1, <2>2
  <2>4. log[last].val \in 0 .. MaxWrites
    <3> HIDE DEF last
    <3>1. log[last] \in Change
          BY <2>3 DEF TypeOK
    <3>2. QED
          BY <3>1 DEF Change
  <2>5. QED
        BY <1>2, <2>4 DEF ValueOf
<1>3. QED
      BY <1>1, <1>2

\* The log only grows, and what was in its range stays there.
LEMMA LogGrows ==
  ASSUME NEW S, NEW l \in Seq(S), NEW new \in S
  PROVE  Append(l, new) \in Seq(S) /\ Len(Append(l, new)) = Len(l) + 1 /\ Len(l) \in Nat
OBVIOUS

\* The bounds are numbers.
LEMMA BoundsAreNat ==
  /\ MaxWrites \in Nat /\ MaxFaults \in Nat /\ MaxCrashes \in Nat
  /\ MaxExpiries \in Nat /\ MaxCompactions \in Nat /\ MaxLog \in Nat
  /\ \A r \in Stored0 : r = RevisionCurrent \/ r = 0
BY WatcherConstants, Zenon DEF WatcherConstants

\* A change of a key keeps the types of everything else.
LEMMA ChangeKeepsTypes ==
  ASSUME TypeOK, NEW new \in Change, log' = log \/ log' = Append(log, new),
         writes' \in 0 .. MaxWrites, pc' \in [Users -> PC],
         UNCHANGED <<compacted, stored, prev, cursor, cur, fetched, effectVars, boundVars, lockVars>>
  PROVE  TypeOK'
<1>1. log' \in Seq(Change) /\ Len(log) \in Nat /\ Len(log') \in Nat /\ Len(log) <= Len(log')
  <2>1. log \in Seq(Change) /\ Len(log) \in Nat
        BY DEF TypeOK
  <2>2. CASE log' = log
        BY <2>1, <2>2
  <2>3. CASE log' = Append(log, new)
        BY <2>1, <2>3, LogGrows
  <2>4. QED
        BY <2>2, <2>3
<1>2. UNCHANGED <<faults, crashes, expiries, compactions, holder, inside, lost>>
      BY DEF boundVars, lockVars
<1>3. UNCHANGED <<view, handled, skipped, blind>>
      BY DEF effectVars
<1>4. /\ compacted' \in 0 .. Len(log')
      /\ stored' \in RevisionCurrent .. Len(log')
      BY <1>1 DEF TypeOK, RevisionCurrent
<1>5. /\ prev' \in [Users -> RevisionCurrent .. Len(log')]
      /\ cursor' \in [Users -> 0 .. Len(log') + 1]
      /\ cur' \in [Users -> 0 .. Len(log')]
  <2>1. /\ RevisionCurrent .. Len(log) \subseteq RevisionCurrent .. Len(log')
        /\ 0 .. Len(log) + 1 \subseteq 0 .. Len(log') + 1
        /\ 0 .. Len(log) \subseteq 0 .. Len(log')
        BY <1>1 DEF RevisionCurrent
  <2>2. /\ prev \in [Users -> RevisionCurrent .. Len(log)]
        /\ cursor \in [Users -> 0 .. Len(log) + 1]
        /\ cur \in [Users -> 0 .. Len(log)]
        /\ UNCHANGED <<prev, cursor, cur>>
        BY DEF TypeOK
  <2>3. QED
        BY <2>1, <2>2
<1>6. handled' \subseteq 1 .. Len(log') /\ skipped' \subseteq 1 .. Len(log')
      BY <1>1, <1>3 DEF TypeOK
<1>7. QED
      BY <1>1, <1>2, <1>3, <1>4, <1>5, <1>6 DEF TypeOK, LockTypeOK

\* The types and places hold at first,
LEMMA TypeInit == Init => TypeInv
<1> SUFFICES ASSUME Init PROVE TypeInv
    OBVIOUS
<1>1. log \in Seq(Change) /\ Len(log) = 0
      BY DEF Init
<1>2. TypeOK
  <2>1. stored \in RevisionCurrent .. 0
        BY BoundsAreNat DEF Init, RevisionCurrent
  <2>2. pc \in [Users -> PC]
        BY DEF Init, PC
  <2>3. LockTypeOK
        BY DEF Init, LockInit, LockTypeOK
  <2>4. /\ prev \in [Users -> RevisionCurrent .. 0] /\ cursor \in [Users -> 0 .. 1]
        /\ cur \in [Users -> 0 .. 0]
        BY DEF Init, RevisionCurrent
  <2>5. /\ fetched \in [Users -> 0 .. MaxWrites] /\ view \in [Keys -> 0 .. MaxWrites]
        /\ writes \in 0 .. MaxWrites
        BY BoundsAreNat DEF Init, Deleted
  <2>6. /\ faults \in 0 .. MaxFaults /\ crashes \in 0 .. MaxCrashes
        /\ expiries \in 0 .. MaxExpiries /\ compactions \in 0 .. MaxCompactions
        BY BoundsAreNat DEF Init
  <2>7. compacted \in 0 .. 0 /\ handled = {} /\ skipped = {}
        BY DEF Init
  <2>8. blind \in BOOLEAN
        BY Zenon DEF Init
  <2>9. QED
        BY <1>1, <2>1, <2>2, <2>3, <2>4, <2>5, <2>6, <2>7, <2>8 DEF TypeOK
<1>3. PlacesOK
      BY DEF Init, PlacesOK
<1>4. QED
      BY <1>2, <1>3 DEF TypeInv

\* and after every step.
LEMMA TypeStep == TypeInv /\ [Next]_vars => TypeInv'
<1>z. ASSUME NEW n \in Nat
      PROVE  /\ \A c \in RevisionCurrent .. n : c + 1 \in 0 .. n + 1
             /\ n + 1 \in 0 .. n + 1
      BY DEF RevisionCurrent
<1> SUFFICES ASSUME TypeInv, [Next]_vars PROVE TypeInv'
    OBVIOUS
<1> USE BoundsAreNat, NoUserAssumption
        DEF TypeInv, TypeOK, PlacesOK, LockTypeOK, PC, RevisionCurrent, Deleted,
            etcdVars, watcherVars, effectVars, boundVars, lockVars
<1>a. Len(log) \in Nat
      OBVIOUS
<1>b. \A p \in Users : pc[p] \in {"handle", "store", "recover", "swap"} => log[cur[p]] \in Change
      OBVIOUS
<1>c. \A k : ValueOf(k) \in 0 .. MaxWrites
      BY ValueType, WatcherConstants
<1>1. ASSUME NEW p \in Users, TakeLock(p) PROVE TypeInv'
      BY <1>1, <1>a DEF TakeLock, Acquire, Goto
<1>2. ASSUME NEW p \in Users, FetchStoredRevision(p) PROVE TypeInv'
      BY <1>2, <1>a DEF FetchStoredRevision, Goto
<1>3. ASSUME NEW p \in Users, FetchStoredRevisionError(p) PROVE TypeInv'
  <2>1. faults' \in 0 .. MaxFaults /\ blind' \in BOOLEAN
        BY <1>3 DEF FetchStoredRevisionError, Fault
  <2>2. prev' \in [Users -> RevisionCurrent .. Len(log')] /\ pc' \in [Users -> PC]
        BY <1>3, <1>a DEF FetchStoredRevisionError, Goto
  <2>3. TypeOK'
        BY <1>3, <2>1, <2>2 DEF FetchStoredRevisionError, Fault
  <2>4. PlacesOK'
        BY <1>3 DEF FetchStoredRevisionError, Goto
  <2>5. QED
        BY <2>3, <2>4
<1>4. ASSUME NEW p \in Users, StartWatch(p) PROVE TypeInv'
  <2>1. TypeOK'
    <3>1. cursor' \in [Users -> 0 .. Len(log') + 1]
      <4>1. PICK c \in 0 .. Len(log) + 1 : cursor' = [cursor EXCEPT ![p] = c]
        <5>1. prev[p] \in RevisionCurrent .. Len(log)
              OBVIOUS
        <5>2. Len(log) + 1 \in 0 .. Len(log) + 1 /\ prev[p] + 1 \in 0 .. Len(log) + 1
              BY <1>a, <1>z, <5>1, Zenon
        <5>3. QED
              BY <1>4, <5>2 DEF StartWatch
      <4>2. log' = log
            BY <1>4 DEF StartWatch
      <4>3. QED
            BY <4>1, <4>2
    <3>2. QED
          BY <1>4, <1>a, <3>1 DEF StartWatch, Goto
  <2>2. PlacesOK'
        BY <1>4, <1>a DEF StartWatch, Goto
  <2>3. QED
        BY <2>1, <2>2
<1>5. ASSUME NEW p \in Users, ReceiveEvent(p) PROVE TypeInv'
  <2>1. TypeOK'
    <3>1. cursor' \in [Users -> 0 .. Len(log') + 1]
      <4>1. cursor[p] + 1 \in 0 .. Len(log) + 1
        <5>1. cursor[p] \in RevisionCurrent .. Len(log)
              BY <1>5, <1>a DEF ReceiveEvent
        <5>2. QED
              BY <1>a, <1>z, <5>1, Zenon
      <4>2. cursor' = [cursor EXCEPT ![p] = cursor[p] + 1] /\ log' = log
            BY <1>5 DEF ReceiveEvent
      <4>3. QED
            BY <4>1, <4>2
    <3>2. cur' \in [Users -> 0 .. Len(log')]
          BY <1>5, <1>a DEF ReceiveEvent, Goto
    <3>3. QED
          BY <1>5, <1>a, <3>1, <3>2 DEF ReceiveEvent, Goto
  <2>2. PlacesOK'
        BY <1>5, <1>a DEF ReceiveEvent, Goto
  <2>3. QED
        BY <2>1, <2>2
<1>6. ASSUME NEW p \in Users, ReceiveCompacted(p) PROVE TypeInv'
  <2>1. TypeOK'
    <3>1. cur' \in [Users -> 0 .. Len(log')]
          BY <1>6, <1>a DEF ReceiveCompacted, Goto
    <3>2. QED
          BY <1>6, <1>a, <3>1 DEF ReceiveCompacted, Goto
  <2>2. PlacesOK'
        BY <1>6, <1>a DEF ReceiveCompacted, Goto
  <2>3. QED
        BY <2>1, <2>2
<1>7. ASSUME NEW p \in Users, ReceiveError(p) PROVE TypeInv'
  <2>1. TypeOK'
    <3>1. faults' \in 0 .. MaxFaults
          BY <1>7 DEF ReceiveError, Fault
    <3>2. pc' \in [Users -> PC]
          BY <1>7 DEF ReceiveError, Goto
    <3>3. QED
          BY <1>7, <3>1, <3>2 DEF ReceiveError, Fault
  <2>2. PlacesOK'
        BY <1>7, <1>a DEF ReceiveError, Goto, Fault
  <2>3. QED
        BY <2>1, <2>2
<1>8. ASSUME NEW p \in Users, HandleEvent(p) PROVE TypeInv'
  <2>1. view' \in [Keys -> 0 .. MaxWrites]
        BY <1>8, <1>b DEF HandleEvent, Change
  <2>2. handled' \subseteq 1 .. Len(log')
    <3>1. cur[p] \in 1 .. Len(log)
          BY <1>8, <1>a DEF HandleEvent
    <3>2. QED
          BY <1>8, <3>1 DEF HandleEvent
  <2>3. TypeOK'
        BY <1>8, <1>a, <2>1, <2>2 DEF HandleEvent, Goto
  <2>4. PlacesOK'
        BY <1>8, <1>a DEF HandleEvent, Goto
  <2>5. QED
        BY <2>3, <2>4
<1>9. ASSUME NEW p \in Users, HandleEventError(p) PROVE TypeInv'
  <2>1. TypeOK'
    <3>1. cur[p] \in 1 .. Len(log)
          BY <1>9, <1>a DEF HandleEventError
    <3>2. skipped' \subseteq 1 .. Len(log')
          BY <1>9, <3>1 DEF HandleEventError
    <3>3. faults' \in 0 .. MaxFaults
          BY <1>9 DEF HandleEventError, Fault
    <3>4. QED
          BY <1>9, <1>a, <3>2, <3>3 DEF HandleEventError, Goto, Fault
  <2>2. PlacesOK'
        BY <1>9, <1>a DEF HandleEventError, Goto, Fault
  <2>3. QED
        BY <2>1, <2>2
<1>10. ASSUME NEW p \in Users, StoreRevision(p) PROVE TypeInv'
  <2>1. stored' \in RevisionCurrent .. Len(log')
        BY <1>10, <1>a DEF StoreRevision
  <2>2. prev' \in [Users -> RevisionCurrent .. Len(log')] /\ pc' \in [Users -> PC]
    <3>1. cur[p] \in RevisionCurrent .. Len(log)
          BY <1>a
    <3>2. QED
          BY <1>10, <3>1 DEF StoreRevision, Goto
  <2>3. TypeOK'
        BY <1>10, <2>1, <2>2 DEF StoreRevision
  <2>4. PlacesOK'
        BY <1>10 DEF StoreRevision, Goto
  <2>5. QED
        BY <2>3, <2>4
<1>11. ASSUME NEW p \in Users, StoreRevisionConflict(p) PROVE TypeInv'
      BY <1>11, <1>a DEF StoreRevisionConflict, Goto
<1>12. ASSUME NEW p \in Users, StoreRevisionError(p) PROVE TypeInv'
  <2>1. TypeOK'
    <3>1. stored' \in RevisionCurrent .. Len(log')
          BY <1>12, <1>a DEF StoreRevisionError, Goto, Fault
    <3>2. faults' \in 0 .. MaxFaults
          BY <1>12 DEF StoreRevisionError, Fault
    <3>3. pc' \in [Users -> PC]
          BY <1>12 DEF StoreRevisionError, Goto
    <3>4. QED
          BY <1>12, <1>a, <3>1, <3>2, <3>3 DEF StoreRevisionError, Fault
  <2>2. PlacesOK'
        BY <1>12, <1>a DEF StoreRevisionError, Goto, Fault
  <2>3. QED
        BY <2>1, <2>2
<1>13. ASSUME NEW p \in Users, RecoverFetch(p) PROVE TypeInv'
  <2>1. fetched' \in [Users -> 0 .. MaxWrites]
        BY <1>13, <1>c DEF RecoverFetch
  <2>2. QED
        BY <1>13, <1>a, <2>1 DEF RecoverFetch, Goto
<1>14. ASSUME NEW p \in Users, RecoverSwap(p) PROVE TypeInv'
  <2> DEFINE new == [key |-> log[cur[p]].key, val |-> fetched[p]]
  <2>1. new \in Change
    <3>1. log[cur[p]].key \in Keys
          BY <1>14, <1>b DEF RecoverSwap, Change
    <3>2. QED
          BY <3>1 DEF Change
  <2>2. log' = log \/ log' = Append(log, new)
        BY <1>14 DEF RecoverSwap
  <2>3. writes' \in 0 .. MaxWrites /\ pc' \in [Users -> PC]
        BY <1>14 DEF RecoverSwap, Goto
  <2>4. TypeOK'
        BY <1>14, <2>1, <2>2, <2>3, ChangeKeepsTypes DEF RecoverSwap
  <2>5. PlacesOK'
        BY <1>14 DEF RecoverSwap, Goto
  <2>6. QED
        BY <2>4, <2>5
<1>15. ASSUME NEW p \in Users, RecoverError(p) PROVE TypeInv'
  <2>1. faults' \in 0 .. MaxFaults
        BY <1>15 DEF RecoverError, Fault
  <2>2. pc' \in [Users -> PC]
        BY <1>15 DEF RecoverError, Goto
  <2>3. TypeOK'
        BY <1>15, <2>1, <2>2 DEF RecoverError, Fault
  <2>4. PlacesOK'
        BY <1>15 DEF RecoverError, Goto
  <2>5. QED
        BY <2>3, <2>4
<1>16. ASSUME NEW p \in Users, RecoverCompaction(p) PROVE TypeInv'
  <2>1. TypeOK'
    <3>0. /\ cur[p] \in 0 .. Len(log) /\ cursor[p] >= 1
          /\ cursor[p] \in 0 .. Len(log) + 1
          BY <1>16, <1>a DEF RecoverCompaction
    <3>1. skipped' \subseteq 1 .. Len(log')
      <4>1. cursor[p] .. cur[p] \subseteq 1 .. Len(log)
            BY <1>a, <3>0
      <4>2. skipped' = skipped \/ skipped' = skipped \cup (cursor[p] .. cur[p])
            BY <1>16 DEF RecoverCompaction
      <4>3. log' = log
            BY <1>16 DEF RecoverCompaction
      <4>4. QED
            BY <4>1, <4>2, <4>3
    <3>2. stored' \in RevisionCurrent .. Len(log')
          BY <1>16, <1>a DEF RecoverCompaction, Goto
    <3>3. prev' \in [Users -> RevisionCurrent .. Len(log')]
      <4>1. prev' = prev \/ prev' = [prev EXCEPT ![p] = cur[p]]
            BY <1>16 DEF RecoverCompaction
      <4>2. log' = log
            BY <1>16 DEF RecoverCompaction
      <4>3. cur[p] \in RevisionCurrent .. Len(log)
            BY <1>a, <3>0
      <4>4. QED
            BY <4>1, <4>2, <4>3
    <3>4. QED
          BY <1>16, <1>a, <3>1, <3>2, <3>3 DEF RecoverCompaction, Goto
  <2>2. PlacesOK'
        BY <1>16, <1>a DEF RecoverCompaction, Goto
  <2>3. QED
        BY <2>1, <2>2
<1>17. ASSUME NEW p \in Users, LockLost(p) PROVE TypeInv'
      BY <1>17, <1>a DEF LockLost, Goto
<1>18. ASSUME NEW p \in Users, Unlock(p) PROVE TypeInv'
  <2>1. TypeOK'
    <3>1. prev' \in [Users -> RevisionCurrent .. Len(log')]
          BY <1>18, <1>a DEF Unlock, Leave, Forget, Goto
    <3>2. cursor' \in [Users -> 0 .. Len(log') + 1]
          BY <1>18, <1>a DEF Unlock, Leave, Forget, Goto
    <3>3. cur' \in [Users -> 0 .. Len(log')]
          BY <1>18, <1>a DEF Unlock, Leave, Forget, Goto
    <3>4. fetched' \in [Users -> 0 .. MaxWrites]
          BY <1>18, <1>a DEF Unlock, Leave, Forget, Goto
    <3>5. pc' \in [Users -> PC]
          BY <1>18, <1>a DEF Unlock, Leave, Forget, Goto
    <3>6. QED
          BY <1>18, <1>a, <3>1, <3>2, <3>3, <3>4, <3>5 DEF Unlock, Leave, Forget, Goto
  <2>2. PlacesOK'
        BY <1>18, <1>a DEF Unlock, Leave, Forget, Goto
  <2>3. QED
        BY <2>1, <2>2
<1>19. ASSUME NEW p \in Users, Crash(p) PROVE TypeInv'
  <2>1. TypeOK'
    <3>1. prev' \in [Users -> RevisionCurrent .. Len(log')]
          BY <1>19, <1>a DEF Crash, Leave, Forget, Goto
    <3>2. cursor' \in [Users -> 0 .. Len(log') + 1]
          BY <1>19, <1>a DEF Crash, Leave, Forget, Goto
    <3>3. cur' \in [Users -> 0 .. Len(log')]
          BY <1>19, <1>a DEF Crash, Leave, Forget, Goto
    <3>4. fetched' \in [Users -> 0 .. MaxWrites]
          BY <1>19, <1>a DEF Crash, Leave, Forget, Goto
    <3>5. pc' \in [Users -> PC]
          BY <1>19, <1>a DEF Crash, Leave, Forget, Goto
    <3>6. crashes' \in 0 .. MaxCrashes
          BY <1>19 DEF Crash
    <3>7. LockTypeOK'
          BY <1>19 DEF Crash, Leave
    <3>8. QED
          BY <1>19, <1>a, <3>1, <3>2, <3>3, <3>4, <3>5, <3>6, <3>7 DEF Crash
  <2>2. PlacesOK'
        BY <1>19, <1>a DEF Crash, Leave, Forget, Goto
  <2>3. QED
        BY <2>1, <2>2
<1>20. ASSUME NEW p \in Users, ReportLost(p) PROVE TypeInv'
      BY <1>20, <1>a DEF ReportLost, SignalLost
<1>21. ASSUME NEW k \in Keys, ClientPut(k) \/ ClientDelete(k) PROVE TypeInv'
  <2>1. \E new \in Change : log' = Append(log, new)
    <3>1. [key |-> k, val |-> writes + 1] \in Change \/ writes = MaxWrites
          BY DEF Change
    <3>2. [key |-> k, val |-> Deleted] \in Change
          BY DEF Change
    <3>3. writes < MaxWrites
          BY <1>21, Zenon DEF ClientPut, ClientDelete
    <3>4. writes # MaxWrites
          BY <3>3
    <3>5. \/ log' = Append(log, [key |-> k, val |-> writes + 1])
          \/ log' = Append(log, [key |-> k, val |-> Deleted])
          BY <1>21, Zenon DEF ClientPut, ClientDelete
    <3>6. QED
          BY <3>1, <3>2, <3>4, <3>5, Zenon
  <2>2. writes' \in 0 .. MaxWrites /\ pc' \in [Users -> PC]
    <3>1. writes < MaxWrites /\ writes' = writes + 1 /\ pc' = pc
          BY <1>21 DEF ClientPut, ClientDelete
    <3>2. writes' \in 0 .. MaxWrites
          BY <3>1
    <3>3. QED
          BY <3>1, <3>2
  <2>3. TypeOK'
        BY <1>21, <2>1, <2>2, ChangeKeepsTypes DEF ClientPut, ClientDelete
  <2>4. PlacesOK'
        BY <1>21 DEF ClientPut, ClientDelete
  <2>5. QED
        BY <2>3, <2>4
<1>22. CASE Compact
  <2>1. compacted' \in 0 .. Len(log')
        BY <1>22, <1>a DEF Compact
  <2>2. compactions' \in 0 .. MaxCompactions
        BY <1>22 DEF Compact
  <2>3. TypeOK'
        BY <1>22, <2>1, <2>2 DEF Compact
  <2>4. PlacesOK'
        BY <1>22 DEF Compact
  <2>5. QED
        BY <2>3, <2>4
<1>23. CASE ReleaseKey
      BY <1>23, <1>a DEF ReleaseKey, Drop
<1>24. CASE ExpireLease
  <2>1. expiries' \in 0 .. MaxExpiries /\ LockTypeOK'
        BY <1>24 DEF ExpireLease, Drop
  <2>2. TypeOK'
        BY <1>24, <2>1 DEF ExpireLease
  <2>3. PlacesOK'
        BY <1>24 DEF ExpireLease
  <2>4. QED
        BY <2>2, <2>3
<1>25. CASE UNCHANGED vars
      BY <1>25, <1>a DEF vars
<1>26. QED
      BY <1>1, <1>2, <1>3, <1>4, <1>5, <1>6, <1>7, <1>8, <1>9, <1>10, <1>11, <1>12, <1>13,
         <1>14, <1>15, <1>16, <1>17, <1>18, <1>19, <1>20, <1>21, <1>22, <1>23, <1>24, <1>25, Zenon
      DEF Next, WatcherStep, FaultStep

\* The variables of the path watcher keep their types, and an event that is
\* being handled is in the log.
THEOREM WatcherTypeCorrect == Spec => []TypeInv
BY TypeInit, TypeStep, PTL DEF Spec

-----------------------------------------------------------------------------
(* No change is skipped *)

\* Every revision up to n has been given to the extension or was given up.
DoneUpTo(n) == \A r \in 1 .. n : r \in handled \cup skipped

\* A watcher that knows where it is has all before its revision done, and its
\* next event is the one that follows.
AtNext(p) ==
  /\ pc[p] \in {"watch", "events", "handle", "store", "compact"} =>
       prev[p] >= 0 /\ DoneUpTo(prev[p])
  /\ pc[p] \in {"events", "compact"} => cursor[p] = prev[p] + 1
  /\ pc[p] \in {"handle", "store"} => cur[p] = prev[p] + 1 /\ cursor[p] = cur[p] + 1
  /\ pc[p] = "store" => cur[p] \in handled \cup skipped

\* NoEventSkipped is not inductive: a watcher stores what it has in prev and cur.
NextInv == ~blind => DoneUpTo(stored) /\ \A p \in Users : AtNext(p)


\* A cluster that starts has handled nothing and stored revision 0 or nothing.
LEMMA NextInit == Init => NextInv
BY BoundsAreNat DEF Init, NextInv, DoneUpTo, AtNext, RevisionCurrent

\* What is done stays done; the rest of a step is local to its watcher.
LEMMA DoneStays ==
  ASSUME NEW n, DoneUpTo(n), handled \subseteq handled', skipped \subseteq skipped'
  PROVE  DoneUpTo(n)'
BY DEF DoneUpTo

\* A step of one watcher leaves the others at their next event.
LEMMA OthersStay ==
  ASSUME NEW p \in Users, TypeInv, \A q \in Users : AtNext(q), AtNext(p)',
         handled \subseteq handled', skipped \subseteq skipped',
         \A q \in Users : q # p => /\ pc'[q] = pc[q] /\ prev'[q] = prev[q]
                                   /\ cursor'[q] = cursor[q] /\ cur'[q] = cur[q]
  PROVE  \A q \in Users : AtNext(q)'
<1>1. ASSUME NEW q \in Users, q # p PROVE AtNext(q)'
  <2>1. /\ pc'[q] = pc[q] /\ prev'[q] = prev[q]
        /\ cursor'[q] = cursor[q] /\ cur'[q] = cur[q]
        BY <1>1
  <2>2. AtNext(q)
        OBVIOUS
  <2>3. DoneUpTo(prev[q]) => \A r \in 1 .. prev[q] : r \in handled' \cup skipped'
        BY DEF DoneUpTo
  <2>4. cur[q] \in handled \cup skipped => cur[q] \in handled' \cup skipped'
        OBVIOUS
  <2>5. QED
        BY <2>1, <2>2, <2>3, <2>4 DEF AtNext, DoneUpTo
<1>2. QED
      BY <1>1

\* One more revision is done.
LEMMA OneMoreDone ==
  ASSUME NEW n \in Int, n >= 0, DoneUpTo(n), n + 1 \in handled \cup skipped
  PROVE  DoneUpTo(n + 1)
<1>1. \A r \in 1 .. n + 1 : r \in 1 .. n \/ r = n + 1
      OBVIOUS
<1>2. QED
      BY <1>1 DEF DoneUpTo

\* Every step keeps the watchers at their next event.
LEMMA NextStep == TypeInv /\ NextInv /\ [Next]_vars => NextInv'
<1> SUFFICES ASSUME TypeInv, NextInv, [Next]_vars, ~blind'
             PROVE  DoneUpTo(stored)' /\ \A q \in Users : AtNext(q)'
    BY DEF NextInv
<1>i. blind \in BOOLEAN /\ stored \in Int
      BY DEF TypeInv, TypeOK, RevisionCurrent
<1>n. /\ pc \in [Users -> PC] /\ prev \in [Users -> Int]
      /\ cursor \in [Users -> Int] /\ cur \in [Users -> Int]
      BY DEF TypeInv, TypeOK, RevisionCurrent
<1>g. \A m : DoneUpTo(m) /\ handled \subseteq handled' /\ skipped \subseteq skipped'
              => DoneUpTo(m)'
      BY DEF DoneUpTo
<1> DEFINE Now == ~blind /\ DoneUpTo(stored) /\ \A q \in Users : AtNext(q)
           Local(p) == /\ \A q \in Users : q # p => /\ pc'[q] = pc[q] /\ prev'[q] = prev[q]
                                              /\ cursor'[q] = cursor[q] /\ cur'[q] = cur[q]
                       /\ handled \subseteq handled' /\ skipped \subseteq skipped'
           Goal == DoneUpTo(stored)' /\ \A q \in Users : AtNext(q)'
<1>b. ASSUME ~blind PROVE Now
      BY <1>b DEF NextInv
<1>l. ASSUME NEW p \in Users, Now, Local(p), AtNext(p)', DoneUpTo(stored)' PROVE Goal
      BY <1>l, OthersStay
<1>k. ASSUME Now, UNCHANGED <<pc, prev, cursor, cur, stored>>,
             handled \subseteq handled', skipped \subseteq skipped'
      PROVE  Goal
  <2>1. DoneUpTo(stored)'
        BY <1>k DEF DoneUpTo
  <2>2. ASSUME NEW q \in Users PROVE AtNext(q)'
        BY <1>k, <2>2 DEF AtNext, DoneUpTo
  <2>3. QED
        BY <2>1, <2>2
<1>1. ASSUME NEW p \in Users, TakeLock(p) PROVE Goal
  <2>1. Now
    <3>1. ~blind
          BY <1>1, <1>i, Zenon DEF TakeLock, effectVars
    <3>2. QED
          BY <3>1, <1>b
  <2>2. Local(p)
        BY <1>1, <1>n DEF TakeLock, Goto, effectVars, watcherVars
  <2>3. AtNext(p)'
        BY <1>1, <1>n, <2>1
        DEF TakeLock, Goto, AtNext, DoneUpTo, RevisionCurrent, effectVars, PC
  <2>4. DoneUpTo(stored)'
        BY <1>1, <2>1, <1>g DEF TakeLock, Goto, effectVars, DoneUpTo
  <2>5. QED
        BY <1>l, <2>1, <2>2, <2>3, <2>4
<1>2. ASSUME NEW p \in Users, FetchStoredRevision(p) PROVE Goal
  <2>1. Now
    <3>1. ~blind
          BY <1>2, <1>i, Zenon DEF FetchStoredRevision, effectVars
    <3>2. QED
          BY <3>1, <1>b
  <2>2. Local(p)
        BY <1>2, <1>n DEF FetchStoredRevision, Goto, effectVars, watcherVars
  <2>3. AtNext(p)'
    <3>1. stored # RevisionCurrent /\ stored >= 0
      <4>1. stored # RevisionCurrent
            BY <1>2, Zenon DEF FetchStoredRevision
      <4>2. stored >= RevisionCurrent
            BY DEF TypeInv, TypeOK, RevisionCurrent
      <4>3. QED
            BY <1>i, <4>1, <4>2 DEF RevisionCurrent
    <3>2. pc'[p] = "watch" /\ prev'[p] = stored /\ UNCHANGED <<handled, skipped>>
          BY <1>2, <1>n DEF FetchStoredRevision, Goto
    <3>3. QED
          BY <2>1, <3>1, <3>2 DEF AtNext, DoneUpTo
  <2>4. DoneUpTo(stored)'
        BY <1>2, <2>1, <1>g DEF FetchStoredRevision, Goto, effectVars, DoneUpTo
  <2>5. QED
        BY <1>l, <2>1, <2>2, <2>3, <2>4
<1>3. ASSUME NEW p \in Users, FetchStoredRevisionError(p) PROVE Goal
      BY <1>3, Zenon DEF FetchStoredRevisionError
<1>4. ASSUME NEW p \in Users, StartWatch(p) PROVE Goal
  <2>1. Now
    <3>1. ~blind
          BY <1>4, <1>i, Zenon DEF StartWatch, effectVars
    <3>2. QED
          BY <3>1, <1>b
  <2>2. Local(p)
        BY <1>4, <1>n DEF StartWatch, Goto, effectVars, watcherVars
  <2>3. AtNext(p)'
        BY <1>4, <1>n, <2>1
        DEF StartWatch, Goto, AtNext, DoneUpTo, RevisionCurrent, effectVars, PC
  <2>4. DoneUpTo(stored)'
        BY <1>4, <2>1, <1>g DEF StartWatch, Goto, effectVars, DoneUpTo
  <2>5. QED
        BY <1>l, <2>1, <2>2, <2>3, <2>4
<1>5. ASSUME NEW p \in Users, ReceiveEvent(p) PROVE Goal
  <2>1. Now
    <3>1. ~blind
          BY <1>5, <1>i, Zenon DEF ReceiveEvent, effectVars
    <3>2. QED
          BY <3>1, <1>b
  <2>2. Local(p)
        BY <1>5, <1>n DEF ReceiveEvent, Goto, effectVars, watcherVars
  <2>3. AtNext(p)'
        BY <1>5, <1>n, <2>1
        DEF ReceiveEvent, Goto, AtNext, DoneUpTo, RevisionCurrent, effectVars, PC
  <2>4. DoneUpTo(stored)'
        BY <1>5, <2>1, <1>g DEF ReceiveEvent, Goto, effectVars, DoneUpTo
  <2>5. QED
        BY <1>l, <2>1, <2>2, <2>3, <2>4
<1>6. ASSUME NEW p \in Users, ReceiveCompacted(p) PROVE Goal
  <2>1. Now
    <3>1. ~blind
          BY <1>6, <1>i, Zenon DEF ReceiveCompacted, effectVars
    <3>2. QED
          BY <3>1, <1>b
  <2>2. Local(p)
        BY <1>6, <1>n DEF ReceiveCompacted, Goto, effectVars, watcherVars
  <2>3. AtNext(p)'
        BY <1>6, <1>n, <2>1
        DEF ReceiveCompacted, Goto, AtNext, DoneUpTo, RevisionCurrent, effectVars, PC
  <2>4. DoneUpTo(stored)'
        BY <1>6, <2>1, <1>g DEF ReceiveCompacted, Goto, effectVars, DoneUpTo
  <2>5. QED
        BY <1>l, <2>1, <2>2, <2>3, <2>4
<1>7. ASSUME NEW p \in Users, ReceiveError(p) PROVE Goal
  <2>1. Now
    <3>1. ~blind
          BY <1>7, <1>i, Zenon DEF ReceiveError, effectVars
    <3>2. QED
          BY <3>1, <1>b
  <2>2. Local(p)
        BY <1>7, <1>n DEF ReceiveError, Goto, Fault, effectVars, watcherVars
  <2>3. AtNext(p)'
        BY <1>7, <1>n, <2>1
        DEF ReceiveError, Goto, Fault, AtNext, DoneUpTo, RevisionCurrent, effectVars, PC
  <2>4. DoneUpTo(stored)'
        BY <1>7, <2>1, <1>g DEF ReceiveError, Goto, Fault, effectVars, DoneUpTo
  <2>5. QED
        BY <1>l, <2>1, <2>2, <2>3, <2>4
<1>8. ASSUME NEW p \in Users, HandleEvent(p) PROVE Goal
  <2>1. Now
    <3>1. ~blind
          BY <1>8, <1>i, Zenon DEF HandleEvent, effectVars
    <3>2. QED
          BY <3>1, <1>b
  <2>2. Local(p)
        BY <1>8, <1>n DEF HandleEvent, Goto, effectVars, watcherVars
  <2>3. AtNext(p)'
        BY <1>8, <1>n, <2>1
        DEF HandleEvent, Goto, AtNext, DoneUpTo, RevisionCurrent, effectVars, PC
  <2>4. DoneUpTo(stored)'
        BY <1>8, <2>1, <1>g DEF HandleEvent, Goto, effectVars, DoneUpTo
  <2>5. QED
        BY <1>l, <2>1, <2>2, <2>3, <2>4
<1>9. ASSUME NEW p \in Users, HandleEventError(p) PROVE Goal
  <2>1. Now
    <3>1. ~blind
          BY <1>9, <1>i, Zenon DEF HandleEventError, effectVars
    <3>2. QED
          BY <3>1, <1>b
  <2>2. Local(p)
        BY <1>9, <1>n DEF HandleEventError, Goto, Fault, effectVars, watcherVars
  <2>3. AtNext(p)'
        BY <1>9, <1>n, <2>1
        DEF HandleEventError, Goto, Fault, AtNext, DoneUpTo, RevisionCurrent, effectVars, PC
  <2>4. DoneUpTo(stored)'
        BY <1>9, <2>1, <1>g DEF HandleEventError, Goto, Fault, effectVars, DoneUpTo
  <2>5. QED
        BY <1>l, <2>1, <2>2, <2>3, <2>4
<1>10. ASSUME NEW p \in Users, StoreRevision(p) PROVE Goal
  <2>1. Now
    <3>1. ~blind
          BY <1>10, <1>i, Zenon DEF StoreRevision, effectVars
    <3>2. QED
          BY <3>1, <1>b
  <2>2. Local(p)
        BY <1>10, <1>n DEF StoreRevision, Goto, effectVars, watcherVars
  <2>0. DoneUpTo(cur[p])
    <3>1. /\ prev[p] \in Int /\ prev[p] >= 0 /\ DoneUpTo(prev[p])
          /\ cur[p] = prev[p] + 1 /\ cur[p] \in handled \cup skipped
          BY <1>10, <1>n, <2>1 DEF StoreRevision, AtNext
    <3>2. QED
          BY <3>1, OneMoreDone
  <2>3. AtNext(p)'
    <3>1. /\ pc'[p] = "events" /\ prev'[p] = cur[p] /\ cursor'[p] = cursor[p]
          /\ UNCHANGED <<handled, skipped>>
          BY <1>10, <1>n DEF StoreRevision, Goto, effectVars
    <3>2. cursor[p] = cur[p] + 1 /\ cur[p] >= 0
          BY <1>10, <1>n, <2>1 DEF StoreRevision, AtNext
    <3>3. QED
          BY <2>0, <3>1, <3>2 DEF AtNext, DoneUpTo
  <2>4. DoneUpTo(stored)'
        BY <1>10, <2>0 DEF StoreRevision, effectVars, DoneUpTo
  <2>5. QED
        BY <1>l, <2>1, <2>2, <2>3, <2>4
<1>11. ASSUME NEW p \in Users, StoreRevisionConflict(p) PROVE Goal
  <2>1. Now
    <3>1. ~blind
          BY <1>11, <1>i, Zenon DEF StoreRevisionConflict, effectVars
    <3>2. QED
          BY <3>1, <1>b
  <2>2. Local(p)
        BY <1>11, <1>n DEF StoreRevisionConflict, Goto, effectVars, watcherVars
  <2>3. AtNext(p)'
        BY <1>11, <1>n, <2>1
        DEF StoreRevisionConflict, Goto, AtNext, DoneUpTo, RevisionCurrent, effectVars, PC
  <2>4. DoneUpTo(stored)'
        BY <1>11, <2>1, <1>g DEF StoreRevisionConflict, Goto, effectVars, DoneUpTo
  <2>5. QED
        BY <1>l, <2>1, <2>2, <2>3, <2>4
<1>12. ASSUME NEW p \in Users, StoreRevisionError(p) PROVE Goal
  <2>1. Now
    <3>1. ~blind
          BY <1>12, <1>i, Zenon DEF StoreRevisionError, effectVars
    <3>2. QED
          BY <3>1, <1>b
  <2>2. Local(p)
        BY <1>12, <1>n DEF StoreRevisionError, Goto, Fault, effectVars, watcherVars
  <2>0. DoneUpTo(cur[p])
    <3>1. /\ prev[p] \in Int /\ prev[p] >= 0 /\ DoneUpTo(prev[p])
          /\ cur[p] = prev[p] + 1 /\ cur[p] \in handled \cup skipped
          BY <1>12, <1>n, <2>1 DEF StoreRevisionError, AtNext
    <3>2. QED
          BY <3>1, OneMoreDone
  <2>3. AtNext(p)'
        BY <1>12, <1>n, <2>1
        DEF StoreRevisionError, Goto, Fault, AtNext, DoneUpTo, RevisionCurrent, effectVars, PC
  <2>4. DoneUpTo(stored)'
        BY <1>12, <2>0, <2>1 DEF StoreRevisionError, effectVars, DoneUpTo
  <2>5. QED
        BY <1>l, <2>1, <2>2, <2>3, <2>4
<1>13. ASSUME NEW p \in Users, RecoverFetch(p) PROVE Goal
  <2>1. Now
    <3>1. ~blind
          BY <1>13, <1>i, Zenon DEF RecoverFetch, effectVars
    <3>2. QED
          BY <3>1, <1>b
  <2>2. Local(p)
        BY <1>13, <1>n DEF RecoverFetch, Goto, effectVars, watcherVars
  <2>3. AtNext(p)'
        BY <1>13, <1>n, <2>1
        DEF RecoverFetch, Goto, AtNext, DoneUpTo, RevisionCurrent, effectVars, PC
  <2>4. DoneUpTo(stored)'
        BY <1>13, <2>1, <1>g DEF RecoverFetch, Goto, effectVars, DoneUpTo
  <2>5. QED
        BY <1>l, <2>1, <2>2, <2>3, <2>4
<1>14. ASSUME NEW p \in Users, RecoverSwap(p) PROVE Goal
  <2>1. Now
    <3>1. ~blind
          BY <1>14, <1>i, Zenon DEF RecoverSwap, effectVars
    <3>2. QED
          BY <3>1, <1>b
  <2>2. Local(p)
        BY <1>14, <1>n DEF RecoverSwap, Goto, effectVars, watcherVars
  <2>3. AtNext(p)'
        BY <1>14, <1>n, <2>1
        DEF RecoverSwap, Goto, AtNext, DoneUpTo, RevisionCurrent, effectVars, PC
  <2>4. DoneUpTo(stored)'
        BY <1>14, <2>1, <1>g DEF RecoverSwap, Goto, effectVars, DoneUpTo
  <2>5. QED
        BY <1>l, <2>1, <2>2, <2>3, <2>4
<1>15. ASSUME NEW p \in Users, RecoverError(p) PROVE Goal
  <2>1. Now
    <3>1. ~blind
          BY <1>15, <1>i, Zenon DEF RecoverError, effectVars
    <3>2. QED
          BY <3>1, <1>b
  <2>2. Local(p)
        BY <1>15, <1>n DEF RecoverError, Goto, Fault, effectVars, watcherVars
  <2>3. AtNext(p)'
        BY <1>15, <1>n, <2>1
        DEF RecoverError, Goto, Fault, AtNext, DoneUpTo, RevisionCurrent, effectVars, PC
  <2>4. DoneUpTo(stored)'
        BY <1>15, <2>1, <1>g DEF RecoverError, Goto, Fault, effectVars, DoneUpTo
  <2>5. QED
        BY <1>l, <2>1, <2>2, <2>3, <2>4
<1>16. ASSUME NEW p \in Users, RecoverCompaction(p) PROVE Goal
  <2>1. Now
    <3>1. ~blind
          BY <1>16, <1>i, Zenon DEF RecoverCompaction, effectVars
    <3>2. QED
          BY <3>1, <1>b
  <2>2. Local(p)
        BY <1>16, <1>n DEF RecoverCompaction, Goto, effectVars, watcherVars
  <2>3. AtNext(p)'
        BY <1>16, <1>n, <2>1
        DEF RecoverCompaction, Goto, AtNext, DoneUpTo, RevisionCurrent, effectVars, PC
  <2>4. DoneUpTo(stored)'
    <3>1. CASE UNCHANGED <<stored, prev, skipped>>
          BY <1>16, <2>1, <3>1, <1>g DEF RecoverCompaction, DoneUpTo
    <3>2. CASE stored' = cur[p] /\ skipped' = skipped \cup (cursor[p] .. cur[p])
      <4>1. /\ prev[p] \in Int /\ DoneUpTo(prev[p]) /\ cursor[p] = prev[p] + 1
            /\ cur[p] \in Int /\ handled' = handled
            BY <1>16, <1>n, <2>1 DEF RecoverCompaction, AtNext
      <4>2. \A r \in 1 .. cur[p] : r \in 1 .. prev[p] \/ r \in cursor[p] .. cur[p]
            BY <4>1
      <4>3. QED
            BY <3>2, <4>1, <4>2 DEF DoneUpTo
    <3>3. QED
          BY <1>16, <3>1, <3>2 DEF RecoverCompaction
  <2>5. QED
        BY <1>l, <2>1, <2>2, <2>3, <2>4
<1>17. ASSUME NEW p \in Users, LockLost(p) PROVE Goal
  <2>1. Now
    <3>1. ~blind
          BY <1>17, <1>i, Zenon DEF LockLost, effectVars
    <3>2. QED
          BY <3>1, <1>b
  <2>2. Local(p)
        BY <1>17, <1>n DEF LockLost, Goto, effectVars, watcherVars
  <2>3. AtNext(p)'
        BY <1>17, <1>n, <2>1
        DEF LockLost, Goto, AtNext, DoneUpTo, RevisionCurrent, effectVars, PC
  <2>4. DoneUpTo(stored)'
        BY <1>17, <2>1, <1>g DEF LockLost, Goto, effectVars, DoneUpTo
  <2>5. QED
        BY <1>l, <2>1, <2>2, <2>3, <2>4
<1>18. ASSUME NEW p \in Users, Unlock(p) PROVE Goal
  <2>1. Now
    <3>1. ~blind
          BY <1>18, <1>i, Zenon DEF Unlock, effectVars
    <3>2. QED
          BY <3>1, <1>b
  <2>2. Local(p)
        BY <1>18, <1>n DEF Unlock, Goto, Forget, Leave, effectVars, watcherVars
  <2>3. AtNext(p)'
        BY <1>18, <1>n, <2>1
        DEF Unlock, Goto, Forget, Leave, AtNext, DoneUpTo, RevisionCurrent, effectVars, PC
  <2>4. DoneUpTo(stored)'
        BY <1>18, <2>1, <1>g DEF Unlock, Goto, Forget, Leave, effectVars, DoneUpTo
  <2>5. QED
        BY <1>l, <2>1, <2>2, <2>3, <2>4
<1>19. ASSUME NEW p \in Users, Crash(p) PROVE Goal
  <2>1. Now
    <3>1. ~blind
          BY <1>19, <1>i, Zenon DEF Crash, effectVars
    <3>2. QED
          BY <3>1, <1>b
  <2>2. Local(p)
        BY <1>19, <1>n DEF Crash, Goto, Forget, Leave, effectVars, watcherVars
  <2>3. AtNext(p)'
        BY <1>19, <1>n, <2>1
        DEF Crash, Goto, Forget, Leave, AtNext, DoneUpTo, RevisionCurrent, effectVars, PC
  <2>4. DoneUpTo(stored)'
        BY <1>19, <2>1, <1>g DEF Crash, Goto, Forget, Leave, effectVars, DoneUpTo
  <2>5. QED
        BY <1>l, <2>1, <2>2, <2>3, <2>4
<1>20. ASSUME NEW p \in Users, ReportLost(p) PROVE Goal
  <2>1. UNCHANGED <<pc, prev, cursor, cur, stored, handled, skipped, blind>>
        BY <1>20 DEF ReportLost, watcherVars, effectVars
  <2>2. ~blind
        BY <2>1
  <2>3. QED
        BY <1>k, <1>b, <2>1, <2>2
<1>21. ASSUME NEW k \in Keys, ClientPut(k) \/ ClientDelete(k) PROVE Goal
  <2>1. UNCHANGED <<pc, prev, cursor, cur, stored, handled, skipped, blind>>
        BY <1>21 DEF ClientPut, ClientDelete, watcherVars, effectVars
  <2>2. ~blind
        BY <2>1
  <2>3. QED
        BY <1>k, <1>b, <2>1, <2>2
<1>22. CASE Compact
  <2>1. UNCHANGED <<pc, prev, cursor, cur, stored, handled, skipped, blind>>
        BY <1>22 DEF Compact, watcherVars, effectVars
  <2>2. ~blind
        BY <2>1
  <2>3. QED
        BY <1>k, <1>b, <2>1, <2>2
<1>23. CASE ReleaseKey
  <2>1. UNCHANGED <<pc, prev, cursor, cur, stored, handled, skipped, blind>>
        BY <1>23 DEF ReleaseKey, watcherVars, effectVars
  <2>2. ~blind
        BY <2>1
  <2>3. QED
        BY <1>k, <1>b, <2>1, <2>2
<1>24. CASE ExpireLease
  <2>1. UNCHANGED <<pc, prev, cursor, cur, stored, handled, skipped, blind>>
        BY <1>24 DEF ExpireLease, watcherVars, effectVars
  <2>2. ~blind
        BY <2>1
  <2>3. QED
        BY <1>k, <1>b, <2>1, <2>2
<1>25. CASE UNCHANGED vars
  <2>1. UNCHANGED <<pc, prev, cursor, cur, stored, handled, skipped, blind>>
        BY <1>25 DEF vars, watcherVars, effectVars
  <2>2. ~blind
        BY <2>1
  <2>3. QED
        BY <1>k, <1>b, <2>1, <2>2
<1>26. QED
      BY <1>1, <1>2, <1>3, <1>4, <1>5, <1>6, <1>7, <1>8, <1>9, <1>10, <1>11, <1>12, <1>13,
         <1>14, <1>15, <1>16, <1>17, <1>18, <1>19, <1>20, <1>21, <1>22, <1>23, <1>24, <1>25, Zenon
      DEF Next, WatcherStep, FaultStep

\* No crash, takeover, conflict or failed call makes a cluster that knows its
\* stored revision skip a change: all up to the stored one are done.
THEOREM NothingSkipped == Spec => []NoEventSkipped
<1>1. NextInv => NoEventSkipped
      BY DEF NextInv, NoEventSkipped, StoredIsHandled, DoneUpTo
<1>2. QED
      BY <1>1, NextInit, NextStep, TypeInit, TypeStep, PTL DEF Spec

-----------------------------------------------------------------------------
(* The stored revision never goes back *)

\* As long as no lease expires the one watcher that is not waiting for the lock
\* holds it, and what it is about to store is after what is stored.
Sole(p) ==
  /\ pc[p] # "lock" => p \in inside /\ holder = p
  /\ pc[p] \in {"watch", "events", "handle", "store", "compact"} =>
       prev[p] = stored \/ prev[p] = RevisionCurrent
  /\ pc[p] \in {"events", "compact"} => cursor[p] > stored
  /\ pc[p] \in {"handle", "store"} => cur[p] > stored /\ cursor[p] > cur[p]

SoleInv == expiries = 0 => (\A p \in Users : Sole(p)) /\ inside \subseteq {holder}

\* At first every watcher waits for the lock.
LEMMA SoleInit == Init => SoleInv
BY DEF Init, LockInit, SoleInv, Sole

\* A step of the watcher that has the lock leaves the others waiting for it.
LEMMA SoleLocal ==
  ASSUME NEW p \in Users, \A q \in Users : Sole(q), inside \subseteq {holder},
         pc[p] # "lock", UNCHANGED <<holder, inside>>, Sole(p)',
         \A q \in Users : q # p => pc'[q] = pc[q]
  PROVE  (\A q \in Users : Sole(q)') /\ (inside \subseteq {holder})'
<1>1. holder = p
      BY DEF Sole
<1>2. \A q \in Users : q # p => pc'[q] = "lock"
      BY <1>1 DEF Sole
<1>3. \A q \in Users : q # p => Sole(q)'
      BY <1>2 DEF Sole
<1>4. QED
      BY <1>3

\* Every step keeps it so.
LEMMA SoleStep == TypeInv /\ SoleInv /\ [Next]_vars => SoleInv'
<1> DEFINE Goal == (\A q \in Users : Sole(q)') /\ (inside \subseteq {holder})'
           Now == (\A q \in Users : Sole(q)) /\ inside \subseteq {holder}
<1> SUFFICES ASSUME TypeInv, SoleInv, [Next]_vars, expiries' = 0 PROVE Goal
    BY DEF SoleInv
<1>n. /\ pc \in [Users -> PC] /\ prev \in [Users -> Int] /\ stored \in Int
      /\ cursor \in [Users -> Int] /\ cur \in [Users -> Int]
      BY DEF TypeInv, TypeOK, RevisionCurrent
<1>e. expiries \in Nat /\ Len(log) \in Nat /\ stored <= Len(log) /\ stored >= RevisionCurrent
      BY BoundsAreNat DEF TypeInv, TypeOK, RevisionCurrent
<1>u. inside \subseteq Users /\ NoUser \notin Users
      BY NoUserAssumption DEF TypeInv, TypeOK, LockTypeOK
<1>b. ASSUME expiries = 0 PROVE Now
      BY <1>b DEF SoleInv
<1>l. ASSUME NEW p \in Users, Now, pc[p] # "lock", UNCHANGED <<holder, inside>>, Sole(p)',
             \A q \in Users : q # p => pc'[q] = pc[q]
      PROVE  Goal
      BY <1>l, SoleLocal
<1>k. ASSUME Now, UNCHANGED <<pc, prev, cursor, cur, stored, holder, inside>> PROVE Goal
      BY <1>k DEF Sole
<1>1. ASSUME NEW p \in Users, TakeLock(p) PROVE Goal
  <2>1. Now
        BY <1>1, <1>b DEF TakeLock, boundVars
  <2>2. inside = {} /\ \A q \in Users : pc[q] = "lock"
        BY <1>1, <1>u, <2>1 DEF TakeLock, Acquire, Sole
  <2>3. /\ holder' = p /\ inside' = {p} /\ pc'[p] = "fetch"
        /\ \A q \in Users : q # p => pc'[q] = "lock"
        BY <1>1, <1>n, <2>2 DEF TakeLock, Acquire, Goto
  <2>4. \A q \in Users : Sole(q)'
        BY <2>3 DEF Sole
  <2>5. QED
        BY <2>3, <2>4
<1>2. ASSUME NEW p \in Users, FetchStoredRevision(p) PROVE Goal
  <2>1. Now
        BY <1>2, <1>b DEF FetchStoredRevision, Goto, boundVars
  <2>2. pc[p] # "lock" /\ UNCHANGED <<holder, inside>>
        BY <1>2 DEF FetchStoredRevision, lockVars
  <2>3. \A q \in Users : q # p => pc'[q] = pc[q]
        BY <1>2, <1>n DEF FetchStoredRevision, Goto
  <2>4. Sole(p)'
        BY <1>2, <1>n, <1>e, <2>1, <2>2
        DEF FetchStoredRevision, Goto, Sole, PC, RevisionCurrent
  <2>5. QED
        BY <1>l, <2>1, <2>2, <2>3, <2>4
<1>3. ASSUME NEW p \in Users, FetchStoredRevisionError(p) PROVE Goal
  <2>1. Now
        BY <1>3, <1>b DEF FetchStoredRevisionError, Goto, Fault, boundVars
  <2>2. pc[p] # "lock" /\ UNCHANGED <<holder, inside>>
        BY <1>3 DEF FetchStoredRevisionError, lockVars
  <2>3. \A q \in Users : q # p => pc'[q] = pc[q]
        BY <1>3, <1>n DEF FetchStoredRevisionError, Goto, Fault
  <2>4. Sole(p)'
        BY <1>3, <1>n, <1>e, <2>1, <2>2
        DEF FetchStoredRevisionError, Goto, Fault, Sole, PC, RevisionCurrent
  <2>5. QED
        BY <1>l, <2>1, <2>2, <2>3, <2>4
<1>4. ASSUME NEW p \in Users, StartWatch(p) PROVE Goal
  <2>1. Now
        BY <1>4, <1>b DEF StartWatch, Goto, boundVars
  <2>2. pc[p] # "lock" /\ UNCHANGED <<holder, inside>>
        BY <1>4 DEF StartWatch, lockVars
  <2>3. \A q \in Users : q # p => pc'[q] = pc[q]
        BY <1>4, <1>n DEF StartWatch, Goto
  <2>4. Sole(p)'
        BY <1>4, <1>n, <1>e, <2>1, <2>2 DEF StartWatch, Goto, Sole, PC, RevisionCurrent
  <2>5. QED
        BY <1>l, <2>1, <2>2, <2>3, <2>4
<1>5. ASSUME NEW p \in Users, ReceiveEvent(p) PROVE Goal
  <2>1. Now
        BY <1>5, <1>b DEF ReceiveEvent, Goto, boundVars
  <2>2. pc[p] # "lock" /\ UNCHANGED <<holder, inside>>
        BY <1>5 DEF ReceiveEvent, lockVars
  <2>3. \A q \in Users : q # p => pc'[q] = pc[q]
        BY <1>5, <1>n DEF ReceiveEvent, Goto
  <2>4. Sole(p)'
        BY <1>5, <1>n, <1>e, <2>1, <2>2 DEF ReceiveEvent, Goto, Sole, PC, RevisionCurrent
  <2>5. QED
        BY <1>l, <2>1, <2>2, <2>3, <2>4
<1>6. ASSUME NEW p \in Users, ReceiveCompacted(p) PROVE Goal
  <2>1. Now
        BY <1>6, <1>b DEF ReceiveCompacted, Goto, boundVars
  <2>2. pc[p] # "lock" /\ UNCHANGED <<holder, inside>>
        BY <1>6 DEF ReceiveCompacted, lockVars
  <2>3. \A q \in Users : q # p => pc'[q] = pc[q]
        BY <1>6, <1>n DEF ReceiveCompacted, Goto
  <2>4. Sole(p)'
        BY <1>6, <1>n, <1>e, <2>1, <2>2 DEF ReceiveCompacted, Goto, Sole, PC, RevisionCurrent
  <2>5. QED
        BY <1>l, <2>1, <2>2, <2>3, <2>4
<1>7. ASSUME NEW p \in Users, ReceiveError(p) PROVE Goal
  <2>1. Now
        BY <1>7, <1>b DEF ReceiveError, Goto, Fault, boundVars
  <2>2. pc[p] # "lock" /\ UNCHANGED <<holder, inside>>
        BY <1>7 DEF ReceiveError, lockVars
  <2>3. \A q \in Users : q # p => pc'[q] = pc[q]
        BY <1>7, <1>n DEF ReceiveError, Goto, Fault
  <2>4. Sole(p)'
        BY <1>7, <1>n, <1>e, <2>1, <2>2
        DEF ReceiveError, Goto, Fault, Sole, PC, RevisionCurrent
  <2>5. QED
        BY <1>l, <2>1, <2>2, <2>3, <2>4
<1>8. ASSUME NEW p \in Users, HandleEvent(p) PROVE Goal
  <2>1. Now
        BY <1>8, <1>b DEF HandleEvent, Goto, boundVars
  <2>2. pc[p] # "lock" /\ UNCHANGED <<holder, inside>>
        BY <1>8 DEF HandleEvent, lockVars
  <2>3. \A q \in Users : q # p => pc'[q] = pc[q]
        BY <1>8, <1>n DEF HandleEvent, Goto
  <2>4. Sole(p)'
        BY <1>8, <1>n, <1>e, <2>1, <2>2 DEF HandleEvent, Goto, Sole, PC, RevisionCurrent
  <2>5. QED
        BY <1>l, <2>1, <2>2, <2>3, <2>4
<1>9. ASSUME NEW p \in Users, HandleEventError(p) PROVE Goal
  <2>1. Now
        BY <1>9, <1>b DEF HandleEventError, Goto, Fault, boundVars
  <2>2. pc[p] # "lock" /\ UNCHANGED <<holder, inside>>
        BY <1>9 DEF HandleEventError, lockVars
  <2>3. \A q \in Users : q # p => pc'[q] = pc[q]
        BY <1>9, <1>n DEF HandleEventError, Goto, Fault
  <2>4. Sole(p)'
        BY <1>9, <1>n, <1>e, <2>1, <2>2
        DEF HandleEventError, Goto, Fault, Sole, PC, RevisionCurrent
  <2>5. QED
        BY <1>l, <2>1, <2>2, <2>3, <2>4
<1>10. ASSUME NEW p \in Users, StoreRevision(p) PROVE Goal
  <2>1. Now
        BY <1>10, <1>b DEF StoreRevision, Goto, boundVars
  <2>2. pc[p] # "lock" /\ UNCHANGED <<holder, inside>>
        BY <1>10 DEF StoreRevision, lockVars
  <2>3. \A q \in Users : q # p => pc'[q] = pc[q]
        BY <1>10, <1>n DEF StoreRevision, Goto
  <2>4. Sole(p)'
        BY <1>10, <1>n, <1>e, <2>1, <2>2 DEF StoreRevision, Goto, Sole, PC, RevisionCurrent
  <2>5. QED
        BY <1>l, <2>1, <2>2, <2>3, <2>4
<1>11. ASSUME NEW p \in Users, StoreRevisionConflict(p) PROVE Goal
  <2>1. Now
        BY <1>11, <1>b DEF StoreRevisionConflict, Goto, boundVars
  <2>2. pc[p] # "lock" /\ UNCHANGED <<holder, inside>>
        BY <1>11 DEF StoreRevisionConflict, lockVars
  <2>3. \A q \in Users : q # p => pc'[q] = pc[q]
        BY <1>11, <1>n DEF StoreRevisionConflict, Goto
  <2>4. Sole(p)'
        BY <1>11, <1>n, <1>e, <2>1, <2>2
        DEF StoreRevisionConflict, Goto, Sole, PC, RevisionCurrent
  <2>5. QED
        BY <1>l, <2>1, <2>2, <2>3, <2>4
<1>12. ASSUME NEW p \in Users, StoreRevisionError(p) PROVE Goal
  <2>1. Now
        BY <1>12, <1>b DEF StoreRevisionError, Goto, Fault, boundVars
  <2>2. pc[p] # "lock" /\ UNCHANGED <<holder, inside>>
        BY <1>12 DEF StoreRevisionError, lockVars
  <2>3. \A q \in Users : q # p => pc'[q] = pc[q]
        BY <1>12, <1>n DEF StoreRevisionError, Goto, Fault
  <2>4. Sole(p)'
        BY <1>12, <1>n, <1>e, <2>1, <2>2
        DEF StoreRevisionError, Goto, Fault, Sole, PC, RevisionCurrent
  <2>5. QED
        BY <1>l, <2>1, <2>2, <2>3, <2>4
<1>13. ASSUME NEW p \in Users, RecoverFetch(p) PROVE Goal
  <2>1. Now
        BY <1>13, <1>b DEF RecoverFetch, Goto, boundVars
  <2>2. pc[p] # "lock" /\ UNCHANGED <<holder, inside>>
        BY <1>13 DEF RecoverFetch, lockVars
  <2>3. \A q \in Users : q # p => pc'[q] = pc[q]
        BY <1>13, <1>n DEF RecoverFetch, Goto
  <2>4. Sole(p)'
        BY <1>13, <1>n, <1>e, <2>1, <2>2 DEF RecoverFetch, Goto, Sole, PC, RevisionCurrent
  <2>5. QED
        BY <1>l, <2>1, <2>2, <2>3, <2>4
<1>14. ASSUME NEW p \in Users, RecoverSwap(p) PROVE Goal
  <2>1. Now
        BY <1>14, <1>b DEF RecoverSwap, Goto, boundVars
  <2>2. pc[p] # "lock" /\ UNCHANGED <<holder, inside>>
        BY <1>14 DEF RecoverSwap, lockVars
  <2>3. \A q \in Users : q # p => pc'[q] = pc[q]
        BY <1>14, <1>n DEF RecoverSwap, Goto
  <2>4. Sole(p)'
        BY <1>14, <1>n, <1>e, <2>1, <2>2 DEF RecoverSwap, Goto, Sole, PC, RevisionCurrent
  <2>5. QED
        BY <1>l, <2>1, <2>2, <2>3, <2>4
<1>15. ASSUME NEW p \in Users, RecoverError(p) PROVE Goal
  <2>1. Now
        BY <1>15, <1>b DEF RecoverError, Goto, Fault, boundVars
  <2>2. pc[p] # "lock" /\ UNCHANGED <<holder, inside>>
        BY <1>15 DEF RecoverError, lockVars
  <2>3. \A q \in Users : q # p => pc'[q] = pc[q]
        BY <1>15, <1>n DEF RecoverError, Goto, Fault
  <2>4. Sole(p)'
        BY <1>15, <1>n, <1>e, <2>1, <2>2
        DEF RecoverError, Goto, Fault, Sole, PC, RevisionCurrent
  <2>5. QED
        BY <1>l, <2>1, <2>2, <2>3, <2>4
<1>16. ASSUME NEW p \in Users, RecoverCompaction(p) PROVE Goal
  <2>1. Now
        BY <1>16, <1>b DEF RecoverCompaction, Goto, boundVars
  <2>2. pc[p] # "lock" /\ UNCHANGED <<holder, inside>>
        BY <1>16 DEF RecoverCompaction, lockVars
  <2>3. \A q \in Users : q # p => pc'[q] = pc[q]
        BY <1>16, <1>n DEF RecoverCompaction, Goto
  <2>4. Sole(p)'
        BY <1>16, <1>n, <1>e, <2>1, <2>2 DEF RecoverCompaction, Goto, Sole, PC, RevisionCurrent
  <2>5. QED
        BY <1>l, <2>1, <2>2, <2>3, <2>4
<1>17. ASSUME NEW p \in Users, LockLost(p) PROVE Goal
  <2>1. Now
        BY <1>17, <1>b DEF LockLost, Goto, boundVars
  <2>2. pc[p] # "lock" /\ UNCHANGED <<holder, inside>>
        BY <1>17 DEF LockLost, lockVars
  <2>3. \A q \in Users : q # p => pc'[q] = pc[q]
        BY <1>17, <1>n DEF LockLost, Goto
  <2>4. Sole(p)'
        BY <1>17, <1>n, <1>e, <2>1, <2>2 DEF LockLost, Goto, Sole, PC, RevisionCurrent
  <2>5. QED
        BY <1>l, <2>1, <2>2, <2>3, <2>4
<1>18. ASSUME NEW p \in Users, Unlock(p) PROVE Goal
  <2>1. Now
        BY <1>18, <1>b DEF Unlock, boundVars
  <2>2. /\ holder' = holder /\ inside' = inside \ {p} /\ holder = p
        /\ \A q \in Users : pc'[q] = "lock"
        BY <1>18, <1>n, <2>1 DEF Unlock, Leave, Goto, Sole
  <2>3. \A q \in Users : Sole(q)'
        BY <2>2 DEF Sole
  <2>4. QED
        BY <2>1, <2>2, <2>3
<1>19. ASSUME NEW p \in Users, Crash(p) PROVE Goal
  <2>1. Now
        BY <1>19, <1>b DEF Crash, boundVars
  <2>2. /\ holder' = holder /\ inside' = inside \ {p} /\ holder = p
        /\ \A q \in Users : pc'[q] = "lock"
        BY <1>19, <1>n, <2>1 DEF Crash, Leave, Goto, Sole
  <2>3. \A q \in Users : Sole(q)'
        BY <2>2 DEF Sole
  <2>4. QED
        BY <2>1, <2>2, <2>3
<1>20. ASSUME NEW p \in Users, ReportLost(p) PROVE Goal
  <2>1. UNCHANGED <<pc, prev, cursor, cur, stored, holder, inside, expiries>>
        BY <1>20 DEF ReportLost, SignalLost, watcherVars, boundVars, lockVars
  <2>2. QED
        BY <1>k, <1>b, <2>1
<1>21. ASSUME NEW k \in Keys, ClientPut(k) \/ ClientDelete(k) PROVE Goal
  <2>1. UNCHANGED <<pc, prev, cursor, cur, stored, holder, inside, expiries>>
        BY <1>21 DEF ClientPut, ClientDelete, watcherVars, boundVars, lockVars
  <2>2. QED
        BY <1>k, <1>b, <2>1
<1>22. CASE Compact
  <2>1. UNCHANGED <<pc, prev, cursor, cur, stored, holder, inside, expiries>>
        BY <1>22 DEF Compact, watcherVars, boundVars, lockVars
  <2>2. QED
        BY <1>k, <1>b, <2>1
<1>23. CASE ReleaseKey
  <2>1. Now
        BY <1>23, <1>b DEF ReleaseKey, boundVars
  <2>2. inside = {} /\ \A q \in Users : pc[q] = "lock"
        BY <1>23, <2>1 DEF ReleaseKey, Sole
  <2>3. inside' = {} /\ pc' = pc
        BY <1>23, <2>2 DEF ReleaseKey, Drop, watcherVars
  <2>4. \A q \in Users : Sole(q)'
        BY <2>2, <2>3 DEF Sole
  <2>5. QED
        BY <2>3, <2>4
<1>24. CASE ExpireLease
      BY <1>24, <1>e DEF ExpireLease
<1>25. CASE UNCHANGED vars
  <2>1. UNCHANGED <<pc, prev, cursor, cur, stored, holder, inside, expiries>>
        BY <1>25 DEF vars, watcherVars, boundVars, lockVars
  <2>2. QED
        BY <1>k, <1>b, <2>1
<1>26. QED
      BY <1>1, <1>2, <1>3, <1>4, <1>5, <1>6, <1>7, <1>8, <1>9, <1>10, <1>11, <1>12, <1>13,
         <1>14, <1>15, <1>16, <1>17, <1>18, <1>19, <1>20, <1>21, <1>22, <1>23, <1>24, <1>25, Zenon
      DEF Next, WatcherStep, FaultStep

\* A watcher that may store has an event after the stored revision: because its
\* compare-and-swap succeeds, or because nobody else has been inside.
LEMMA StoresLater ==
  ASSUME TypeInv, NextInv, SoleInv, NEW p \in Users, ~blind \/ expiries = 0, Unfenced(p),
         pc[p] \in {"store", "compact"}
  PROVE  cur[p] >= stored
<1>1. /\ stored \in Int /\ cur[p] \in Int /\ prev[p] \in Int /\ cursor[p] \in Int
      /\ pc[p] = "compact" => cursor[p] <= cur[p]
      BY DEF TypeInv, TypeOK, PlacesOK, RevisionCurrent
<1>2. CASE ~blind
  <2>1. AtNext(p)
        BY <1>2 DEF NextInv
  <2>2. stored = prev[p]
        BY <2>1, <1>1 DEF AtNext, Unfenced, RevisionCurrent
  <2>3. QED
        BY <1>1, <2>1, <2>2 DEF AtNext
<1>3. CASE expiries = 0
  <2>1. Sole(p)
        BY <1>3 DEF SoleInv
  <2>2. QED
        BY <1>1, <2>1 DEF Sole
<1>4. QED
      BY <1>2, <1>3

\* A step moves the stored revision only by storing the event of a watcher.
LEMMA StepStores ==
  ASSUME TypeInv, [Next]_vars
  PROVE  \/ stored' = stored
         \/ \E p \in Users : /\ stored' = cur[p] /\ Unfenced(p)
                             /\ pc[p] \in {"store", "compact"}
                             /\ blind' = blind /\ expiries' = expiries
<1> DEFINE Stores(p) == /\ stored' = cur[p] /\ Unfenced(p)
                        /\ pc[p] \in {"store", "compact"}
                        /\ blind' = blind /\ expiries' = expiries
<1>1. ASSUME NEW p \in Users, WatcherStep(p)
      PROVE  stored' = stored \/ Stores(p)
      BY <1>1 DEF WatcherStep, TakeLock, FetchStoredRevision, StartWatch, ReceiveEvent,
         ReceiveCompacted, HandleEvent, StoreRevision, StoreRevisionConflict, RecoverFetch,
         RecoverSwap, RecoverCompaction, LockLost, Unlock, effectVars, boundVars
<1>2. ASSUME NEW p \in Users, FaultStep(p) \/ ReportLost(p)
      PROVE  stored' = stored \/ Stores(p)
      BY <1>2 DEF FaultStep, FetchStoredRevisionError, ReceiveError, HandleEventError,
         StoreRevisionError, RecoverError, Crash, ReportLost, Fault, effectVars, boundVars
<1>3. ASSUME NEW k \in Keys, ClientPut(k) \/ ClientDelete(k) PROVE stored' = stored
      BY <1>3 DEF ClientPut, ClientDelete
<1>4. CASE Compact \/ ReleaseKey \/ ExpireLease \/ UNCHANGED vars
      BY <1>4 DEF Compact, ReleaseKey, ExpireLease, vars
<1>5. QED
      BY <1>1, <1>2, <1>3, <1>4, Zenon DEF Next

\* The stored revision never goes back, although a watcher that lost its lease
\* may try to store beside its successor.
THEOREM StoredIsMonotone == Spec => StoredNeverGoesBack
<1>1. TypeInv /\ NextInv /\ SoleInv /\ [Next]_vars
        => [~blind' \/ expiries' = 0 => stored' >= stored]_vars
  <2> SUFFICES ASSUME TypeInv, NextInv, SoleInv, [Next]_vars, ~blind' \/ expiries' = 0
               PROVE  stored' >= stored
      OBVIOUS
  <2>1. CASE stored' = stored
        BY <2>1 DEF TypeInv, TypeOK, RevisionCurrent
  <2>2. ASSUME NEW p \in Users, stored' = cur[p], Unfenced(p),
               pc[p] \in {"store", "compact"}, blind' = blind, expiries' = expiries
        PROVE  stored' >= stored
        BY <2>2, StoresLater
  <2>3. QED
        BY <2>1, <2>2, StepStores
<1>2. QED
      BY <1>1, TypeInit, TypeStep, NextInit, NextStep, SoleInit, SoleStep, PTL
      DEF Spec, StoredNeverGoesBack
=============================================================================
