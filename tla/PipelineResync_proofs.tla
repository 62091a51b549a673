----------------------- MODULE PipelineResync_proofs -----------------------
(***************************************************************************)
(* Proofs about the pipeline from the database to etcd, for any number of  *)
(* processes, resources, events, failures, crashes and expired leases, and *)
(* about the resync tool beside it.                                        *)
(*                                                                         *)
(* The tool takes no lock: what the pipeline proves from the lock does not *)
(* hold beside it.  The invariant of the pipeline is therefore in layers:  *)
(* RowsInv, about the rows, holds with the tool and without, TableInv and  *)
(* what is above it only without.                                          *)
(***************************************************************************)
EXTENDS Resync, FiniteSetTheorems, TLAPS

-----------------------------------------------------------------------------
(* The pipeline *)

\* Two events of one resource are ordered by their ids as they are by their
\* numbers.
Ordered(S) ==
  \A e, f \in S : e.key = f.key /\ e # f =>
    \/ e.id < f.id /\ e.no < f.no
    \/ f.id < e.id /\ f.no < e.no

\* The rows of an open transaction carry the numbers that follow the committed
\* ones, and nobody else writes its resources.
OpenOK(p) ==
  /\ IsFiniteSet(tx[p])
  /\ Ordered(tx[p])
  /\ \A e \in tx[p] : e.id < nextId /\ e.body \in Bodies
  /\ \A k \in Keys :
       /\ WritesIn(p, k) < nextId
       /\ \A e \in Own(p, k) : writes[k] < e.no /\ e.no <= WritesIn(p, k)
       /\ \A n \in writes[k] + 1 .. WritesIn(p, k) : \E e \in Own(p, k) : e.no = n

RowLocks ==
  \A p, q \in Users, k \in Keys : p # q => Own(p, k) = {} \/ Own(q, k) = {}

\* What an event leaves in etcd, and in the database.
ValueOf(e) == IF e.type = "delete" THEN 0 ELSE e.no

\* The rows of the event table are committed writes, and the database has the last
\* write of a resource unless that deleted it.
RowsOK ==
  /\ \A k \in Keys : writes[k] < nextId /\ db[k] \in {0, writes[k]}
  /\ \A e \in events : e.id < nextId /\ e.body \in Bodies /\ e.no <= writes[e.key]

\* The table is in the order of the writes, the rows of an open transaction come
\* after it, and the last row of a resource is what the database has.
TableOK ==
  /\ Ordered(events)
  /\ \A p \in Users : \A e \in events, f \in tx[p] : e.key = f.key => e.id < f.id
  /\ \A e \in events : e.no = writes[e.key] => db[e.key] = ValueOf(e)

\* A writer that is about to delete a row has applied its event.
AppliedFirst ==
  \A p \in Users :
    /\ writer[p] \in {"push", "fetch", "delete"} => batch[p] # {}
    /\ writer[p] \in {"fetch", "delete"} =>
         <<NextEvent(p).key, NextEvent(p).no>> \in applied

\* The inductive invariant of what holds whether or not leases expire, and whoever
\* else logs events.
RowsInv ==
  /\ TypeOK
  /\ \A p \in Users : OpenOK(p)
  /\ RowLocks
  /\ RowsOK
  /\ AppliedFirst
  /\ AppliedBeforeRemoved

\* What holds besides if only transactions log events.
TableInv == RowsInv /\ TableOK

\* Until a lease expires one writer is between Lock and Unlock, and only it has
\* a list of events.
Sole(p) ==
  /\ writer[p] \notin {"lock", "backoff", "dead"} => p \in inside /\ holder = p
  /\ batch[p] # {} => writer[p] \in {"push", "fetch", "delete"}

Exclusive == inside \subseteq {holder} /\ \A p \in Users : Sole(p)

FiniteLists == IsFiniteSet(events) /\ \A p \in Users : IsFiniteSet(batch[p])

\* Its list is a part of the table, and has what precedes each of its events.
BatchOK(p) ==
  /\ batch[p] \subseteq events
  /\ \A e \in batch[p], f \in events : f.key = e.key /\ f.no < e.no => f \in batch[p]
  /\ writer[p] \in {"fetch", "delete"} =>
       LET e == NextEvent(p) IN
         copied[e.key] = e.no /\ ("empty" \notin Bodies => etcd[e.key] = ValueOf(e))

\* The rows of a resource reach to its last write, and etcd is not ahead of them.
RowsReachEnd ==
  /\ \A e \in events : \A n \in e.no .. writes[e.key] :
        \E f \in events : f.key = e.key /\ f.no = n
  /\ \A e \in events : copied[e.key] <= e.no
  /\ \A k \in Keys : copied[k] <= writes[k]

\* The inductive invariant of what holds until a lease expires.
SoleInv ==
  expiries = 0 =>
    /\ Exclusive
    /\ FiniteLists
    /\ \A p \in Users : BatchOK(p)
    /\ RowsReachEnd
    /\ "empty" \notin Bodies => NoChangeForgotten

-----------------------------------------------------------------------------
(* Types *)

\* The parts of TypeOK, by the group of variables they are about.
DbTypeOK ==
  /\ db \in [Keys -> 0 .. MaxEvents]
  /\ writes \in [Keys -> 0 .. MaxEvents]
  /\ events \subseteq Event
  /\ nextId \in 1 .. MaxEvents + 1
  /\ tx \in [Users -> SUBSET Event]
  /\ api \in [Users -> {"idle", "send"}]

InformerTypeOK ==
  /\ chan \in [Users -> 0 .. ChanCap]
  /\ informer \in [Users -> {"idle", "notify"}]
  /\ txKey \in BOOLEAN

EtcdTypeOK ==
  /\ etcd \in [Keys -> 0 .. MaxEvents]
  /\ copied \in [Keys -> 0 .. MaxEvents]
  /\ applied \subseteq Keys \X (1 .. MaxEvents)

WriterTypeOK ==
  /\ writer \in [Users -> WriterPC]
  /\ pending \in [Users -> Nat]
  /\ batch \in [Users -> SUBSET Event]

FaultTypeOK ==
  /\ faults \in 0 .. MaxFaults
  /\ crashes \in 0 .. MaxCrashes
  /\ expiries \in 0 .. MaxExpiries
  /\ unheard \in BOOLEAN

\* TypeOK is their conjunction.
LEMMA TypeParts ==
  TypeOK <=> /\ LockTypeOK /\ DbTypeOK /\ InformerTypeOK /\ EtcdTypeOK
             /\ WriterTypeOK /\ FaultTypeOK
BY DEF TypeOK, DbTypeOK, InformerTypeOK, EtcdTypeOK, WriterTypeOK, FaultTypeOK

\* The bounds are numbers.
LEMMA BoundsAreNat ==
  /\ MaxEvents \in Nat /\ MaxFaults \in Nat /\ MaxCrashes \in Nat /\ MaxExpiries \in Nat
  /\ ChanCap \in Nat /\ ChanCap > 0
  /\ Bodies \subseteq Body
BY PipelineConstants DEF PipelineConstants

\* A set of events that is not empty has one with the least id.
LEMMA FirstExists ==
  ASSUME NEW S \in SUBSET Event, S # {}
  PROVE  /\ FirstEvent(S) \in S
         /\ \A f \in S : FirstEvent(S).id <= f.id
<1> DEFINE I == {e.id : e \in S}
<1>1. I \subseteq Nat /\ I # {}
      BY BoundsAreNat DEF Event
<1> HIDE DEF I
<1>2. PICK i \in I : \A j \in I : ~(<<j, i>> \in OpToRel(<, Nat))
      BY <1>1, NatLessThanWellFounded, WFMin, Zenon
<1>3. \A j \in I : i <= j
  <2>1. \A j \in I : ~(j < i)
        BY <1>1, <1>2 DEF OpToRel
  <2>2. QED
        BY <1>1, <2>1
<1>4. \E e \in S : \A f \in S : e.id <= f.id
  <2>1. PICK e \in S : e.id = i
        BY DEF I
  <2>2. \A f \in S : f.id \in I
        BY DEF I
  <2>3. QED
        BY <1>3, <2>1, <2>2
<1>5. QED
      BY <1>4 DEF FirstEvent

\* What a failed call does to the bounds.
LEMMA FaultType == FaultTypeOK /\ Fault => FaultTypeOK'
BY BoundsAreNat DEF FaultTypeOK, Fault

\* Groups of variables that a step leaves alone keep their types.
LEMMA SameTypes ==
  /\ DbTypeOK /\ UNCHANGED dbVars => DbTypeOK'
  /\ InformerTypeOK /\ UNCHANGED informerVars => InformerTypeOK'
  /\ EtcdTypeOK /\ UNCHANGED etcdVars => EtcdTypeOK'
  /\ WriterTypeOK /\ UNCHANGED writerVars => WriterTypeOK'
  /\ FaultTypeOK /\ UNCHANGED faultVars => FaultTypeOK'
  /\ LockTypeOK /\ UNCHANGED lockVars => LockTypeOK'
BY DEF DbTypeOK, InformerTypeOK, EtcdTypeOK, WriterTypeOK, FaultTypeOK, LockTypeOK,
       dbVars, informerVars, etcdVars, writerVars, faultVars, lockVars

\* The last row a transaction has logged for a resource carries the last number.
LEMMA LatestExists ==
  ASSUME DbTypeOK, NEW p \in Users, OpenOK(p), NEW k \in Keys, Own(p, k) # {}
  PROVE  /\ Latest(Own(p, k)) \in Own(p, k)
         /\ Latest(Own(p, k)).no = WritesIn(p, k)
<1>1. IsFiniteSet(Own(p, k)) /\ Own(p, k) \subseteq tx[p] /\ Own(p, k) \subseteq Event
      BY FS_Subset DEF OpenOK, Own, DbTypeOK
<1>2. Cardinality(Own(p, k)) \in Nat /\ Cardinality(Own(p, k)) # 0
      BY <1>1, FS_CardinalityType, FS_EmptySet
<1>3. writes[k] \in Nat
      BY BoundsAreNat DEF DbTypeOK
<1>4. WritesIn(p, k) \in writes[k] + 1 .. WritesIn(p, k)
      BY <1>2, <1>3 DEF WritesIn
<1>5. PICK last \in Own(p, k) : last.no = WritesIn(p, k)
      BY <1>4 DEF OpenOK
<1>6. \A e \in Own(p, k) : e.id \in Nat /\ e.no \in Nat
      BY <1>1, BoundsAreNat DEF Event
<1>7. ASSUME NEW e \in Own(p, k), e # last PROVE e.id < last.id
  <2>1. e.no <= last.no
        BY <1>5 DEF OpenOK
  <2>2. e.key = last.key /\ e \in tx[p] /\ last \in tx[p]
        BY DEF Own
  <2>3. \/ e.id < last.id /\ e.no < last.no
        \/ last.id < e.id /\ last.no < e.no
        BY <1>7, <2>2 DEF OpenOK, Ordered
  <2>4. QED
        BY <1>6, <2>1, <2>3
<1>8. \A e \in Own(p, k) : last.id >= e.id
      BY <1>6, <1>7
<1>9. ASSUME NEW e \in Own(p, k), \A f \in Own(p, k) : e.id >= f.id PROVE e = last
      BY <1>6, <1>7, <1>9
<1>10. Latest(Own(p, k)) = last
      BY <1>8, <1>9 DEF Latest
<1>11. QED
      BY <1>5, <1>10

\* The contents and the number of writes a transaction sees are in range.
LEMMA ContentsType ==
  ASSUME DbTypeOK, NEW p \in Users, OpenOK(p), NEW k \in Keys
  PROVE  /\ WritesIn(p, k) \in 0 .. MaxEvents
         /\ ContentsIn(p, k) \in 0 .. MaxEvents
<1>1. IsFiniteSet(Own(p, k)) /\ Own(p, k) \subseteq tx[p] /\ Own(p, k) \subseteq Event
      BY FS_Subset DEF OpenOK, Own, DbTypeOK
<1>2. Cardinality(Own(p, k)) \in Nat
      BY <1>1, FS_CardinalityType
<1>3. writes[k] \in 0 .. MaxEvents /\ db[k] \in 0 .. MaxEvents /\ nextId \in 1 .. MaxEvents + 1
      BY DEF DbTypeOK
<1>4. WritesIn(p, k) \in 0 .. MaxEvents
      BY <1>2, <1>3, BoundsAreNat DEF OpenOK, WritesIn
<1>5. CASE Own(p, k) = {}
      BY <1>3, <1>4, <1>5 DEF ContentsIn
<1>6. CASE Own(p, k) # {}
  <2>1. Latest(Own(p, k)) \in Own(p, k)
        BY <1>6, LatestExists, <1>4
  <2>2. Latest(Own(p, k)).no \in 1 .. MaxEvents
        BY <1>1, <2>1 DEF Event
  <2>3. QED
        BY <1>4, <1>6, <2>2, BoundsAreNat DEF ContentsIn
<1>7. QED
      BY <1>4, <1>5, <1>6

-----------------------------------------------------------------------------
(* The transactions and the event table *)

\* A writer removes a row and is told that this has failed.
Removal(p) == DeleteUnknown(p, "delete")

\* The steps that change the database.
LEMMA DbSteps ==
  ASSUME [Next]_pipelineVars
  PROVE  \/ \E p \in Users :
              \/ \E k \in Keys, type \in {"create", "update", "delete"}, body \in Bodies :
                    LogEvent(p, k, type, body)
              \/ CommitRows(p) \/ Rollback(p) \/ DeleteEvent(p) \/ Removal(p) \/ Crash(p)
         \/ UNCHANGED <<db, writes, events, nextId, tx>>
<1> DEFINE Same == UNCHANGED <<db, writes, events, nextId, tx>>
<1>1. ASSUME NEW p \in Users, ApiStep(p)
      PROVE  \/ \E k \in Keys, type \in {"create", "update", "delete"}, body \in Bodies :
                    LogEvent(p, k, type, body)
             \/ CommitRows(p) \/ Rollback(p) \/ Same
  <2>1. TriggerSyncWriter(p) => Same
        BY DEF TriggerSyncWriter
  <2>2. Commit(p) => CommitRows(p)
        BY DEF Commit
  <2>3. QED
        BY <1>1, <2>1, <2>2, Zenon DEF ApiStep
<1>2. ASSUME NEW p \in Users, InformerStep(p) PROVE Same
      BY <1>2 DEF InformerStep, Receive, Notify, dbVars
<1>3. ASSUME NEW p \in Users, WriterStep(p) PROVE DeleteEvent(p) \/ Same
      BY <1>3 DEF WriterStep, TakeLock, StartWatch, ListEvents, PushEvent, PushUnsyncable,
         FetchEvent, LockLost, Unlock, Backoff, dbVars
<1>4. ASSUME NEW p \in Users, FaultStep(p) PROVE CommitRows(p) \/ Removal(p) \/ Crash(p) \/ Same
  <2>1. CommitUnknown(p) => CommitRows(p)
        BY DEF CommitUnknown
  <2>2. NotifyError(p) \/ TakeLockUnknown(p) \/ PushError(p) \/ WriterError(p) \/ RetryEvent(p) => Same
        BY DEF NotifyError, TakeLockUnknown, PushError, WriterError, RetryEvent, dbVars
  <2>3. ReportLostSpuriously(p) \/ Restart(p) => Same
        BY DEF ReportLostSpuriously, Restart, dbVars
  <2>4. QED
        BY <1>4, <2>1, <2>2, <2>3, Zenon DEF FaultStep, Removal
<1>5. ASSUME NEW p \in Users, ReportLost(p) PROVE Same
      BY <1>5 DEF ReportLost, dbVars
<1>6. CASE ReleaseKey \/ ExpireLease \/ UNCHANGED pipelineVars
      BY <1>6 DEF ReleaseKey, ExpireLease, pipelineVars, dbVars
<1>7. QED
      BY <1>1, <1>2, <1>3, <1>4, <1>5, <1>6, Zenon DEF Next

\* Own and WritesIn depend on the rows of the transaction and on the number of
\* committed writes only.
LEMMA OpenSame ==
  ASSUME NEW p \in Users, OpenOK(p), tx'[p] = tx[p],
         nextId' >= nextId, nextId \in Nat, nextId' \in Nat, DbTypeOK,
         \A k \in Keys : Own(p, k) # {} => writes'[k] = writes[k],
         \A k \in Keys : writes'[k] \in Nat /\ writes'[k] < nextId'
  PROVE  OpenOK(p)'
<1>1. \A k : Own(p, k)' = Own(p, k)
      BY DEF Own
<1>2. \A e \in tx[p] : e.id \in Nat
      BY BoundsAreNat DEF DbTypeOK, Event
<1>3. IsFiniteSet(tx[p])' /\ Ordered(tx[p])'
      BY DEF OpenOK, Ordered
<1>4. \A e \in tx'[p] : e.id < nextId' /\ e.body \in Bodies
      BY <1>2 DEF OpenOK
<1>6. ASSUME NEW k \in Keys
      PROVE  /\ WritesIn(p, k)' < nextId'
             /\ \A e \in Own(p, k)' : writes'[k] < e.no /\ e.no <= WritesIn(p, k)'
             /\ \A n \in writes'[k] + 1 .. WritesIn(p, k)' : \E e \in Own(p, k)' : e.no = n
  <2>1. CASE Own(p, k) = {}
    <3>1. WritesIn(p, k)' = writes'[k]
          BY <1>1, <2>1, FS_EmptySet DEF WritesIn
    <3>2. QED
          BY <1>1, <2>1, <3>1
  <2>2. CASE Own(p, k) # {}
    <3>1. writes'[k] = writes[k]
          BY <2>2
    <3>2. WritesIn(p, k)' = WritesIn(p, k)
          BY <1>1, <3>1 DEF WritesIn
    <3>3. WritesIn(p, k) \in Int
          BY ContentsType
    <3>4. QED
          BY <1>1, <3>1, <3>2, <3>3 DEF OpenOK
  <2>3. QED
        BY <2>1, <2>2
<1>7. QED
      BY <1>3, <1>4, <1>6 DEF OpenOK

\* A process whose transaction is empty.
LEMMA OpenEmpty ==
  ASSUME NEW p \in Users, tx'[p] = {}, \A k \in Keys : writes'[k] \in Nat /\ writes'[k] < nextId'
  PROVE  OpenOK(p)'
<1>1. \A k : Own(p, k)' = {}
      BY DEF Own
<1>2. \A k \in Keys : WritesIn(p, k)' = writes'[k]
      BY <1>1, FS_EmptySet DEF WritesIn
<1>3. QED
      BY <1>1, <1>2, FS_EmptySet DEF OpenOK, Ordered

\* The part of the invariant that is about transactions and rows.
DbInv == DbTypeOK /\ (\A p \in Users : OpenOK(p)) /\ RowLocks /\ RowsOK

\* A change is logged: its number and its id are the next ones.
LEMMA LogStep ==
  ASSUME DbInv, NEW p \in Users, NEW k \in Keys, NEW type \in {"create", "update", "delete"},
         NEW body \in Bodies, LogEvent(p, k, type, body)
  PROVE  DbInv'
<1> DEFINE new == [id |-> nextId, key |-> k, type |-> type, no |-> WritesIn(p, k) + 1,
                   body |-> body]
<1>1. /\ tx' = [tx EXCEPT ![p] = tx[p] \cup {new}]
      /\ nextId' = nextId + 1 /\ nextId <= MaxEvents /\ nextId \in Nat
      /\ UNCHANGED <<db, writes, events, api>>
      /\ ~Locked(p, k)
      BY BoundsAreNat DEF LogEvent, DbInv, DbTypeOK
<1>2. /\ OpenOK(p) /\ tx \in [Users -> SUBSET Event] /\ events \subseteq Event
      /\ DbTypeOK
      BY DEF DbInv, DbTypeOK
<1>3. WritesIn(p, k) \in Nat /\ WritesIn(p, k) < nextId /\ writes[k] \in Nat
      BY <1>2, ContentsType, BoundsAreNat DEF OpenOK, DbTypeOK
<1>4. new \in Event
      BY <1>1, <1>3, BoundsAreNat DEF Event
<1>5. new.id = nextId /\ new.key = k /\ new.no = WritesIn(p, k) + 1 /\ new.body = body
      OBVIOUS
<1> HIDE DEF new
<1>6. tx'[p] = tx[p] \cup {new} /\ \A q \in Users : q # p => tx'[q] = tx[q]
      BY <1>1, <1>2
<1>7. DbTypeOK'
  <2>1. tx' \in [Users -> SUBSET Event]
        BY <1>1, <1>2, <1>4
  <2>2. nextId' \in 1 .. MaxEvents + 1
        BY <1>1, BoundsAreNat DEF DbInv, DbTypeOK
  <2>3. QED
        BY <1>1, <2>1, <2>2 DEF DbInv, DbTypeOK
<1>8. \A e \in tx[p] : e.id < nextId /\ e.id \in Nat /\ e.no \in Nat
      BY <1>2, BoundsAreNat DEF OpenOK, Event
<1>9. Own(p, k)' = Own(p, k) \cup {new} /\ \A j : j # k => Own(p, j)' = Own(p, j)
      BY <1>5, <1>6 DEF Own
<1>10. \A q \in Users : q # p => \A j : Own(q, j)' = Own(q, j)
      BY <1>6 DEF Own
<1>11. OpenOK(p)'
  <2>1. IsFiniteSet(tx'[p])
        BY <1>2, <1>6, FS_AddElement DEF OpenOK
  <2>2. Ordered(tx'[p])
    <3>1. ASSUME NEW e \in tx[p], e.key = k PROVE e.id < new.id /\ e.no < new.no
      <4>1. e \in Own(p, k)
            BY <3>1 DEF Own
      <4>2. e.no <= WritesIn(p, k)
            BY <1>2, <4>1 DEF OpenOK
      <4>3. QED
            BY <1>3, <1>5, <1>8, <4>2
    <3>2. Ordered(tx[p])
          BY <1>2 DEF OpenOK
    <3>3. QED
          BY <1>5, <1>6, <3>1, <3>2 DEF Ordered
  <2>3. \A e \in tx'[p] : e.id < nextId' /\ e.body \in Bodies
        BY <1>1, <1>2, <1>5, <1>6, <1>8 DEF OpenOK
  <2>5. WritesIn(p, k)' = WritesIn(p, k) + 1
    <3>1. IsFiniteSet(Own(p, k)) /\ new \notin Own(p, k)
      <4>1. Own(p, k) \in SUBSET tx[p] /\ IsFiniteSet(tx[p])
            BY <1>2 DEF Own, OpenOK
      <4>2. new \notin tx[p]
            BY <1>1, <1>5, <1>8
      <4>3. QED
            BY <4>1, <4>2, FS_Subset
    <3>2. Cardinality(Own(p, k) \cup {new}) = Cardinality(Own(p, k)) + 1
          BY <3>1, FS_AddElement
    <3>3. Cardinality(Own(p, k)) \in Nat
          BY <3>1, FS_CardinalityType
    <3>4. QED
          BY <1>1, <1>3, <1>9, <3>2, <3>3 DEF WritesIn
  <2>6. ASSUME NEW j \in Keys
        PROVE  /\ WritesIn(p, j)' < nextId'
               /\ \A e \in Own(p, j)' : writes'[j] < e.no /\ e.no <= WritesIn(p, j)'
               /\ \A n \in writes'[j] + 1 .. WritesIn(p, j)' : \E e \in Own(p, j)' : e.no = n
    <3>1. CASE j = k
      <4>1. WritesIn(p, k)' < nextId'
            BY <1>1, <1>3, <2>5
      <4>2. writes[k] <= WritesIn(p, k)
        <5>1. Cardinality(Own(p, k)) \in Nat
          <6>1. Own(p, k) \in SUBSET tx[p] /\ IsFiniteSet(tx[p])
                BY <1>2 DEF Own, OpenOK
          <6>2. QED
                BY <6>1, FS_Subset, FS_CardinalityType
        <5>2. QED
              BY <1>3, <5>1 DEF WritesIn
      <4>3. \A e \in Own(p, k) : writes[k] < e.no /\ e.no <= WritesIn(p, k) /\ e.no \in Nat
            BY <1>2, <1>8 DEF OpenOK, Own
      <4>4. \A e \in Own(p, k)' : writes'[k] < e.no /\ e.no <= WritesIn(p, k)'
            BY <1>1, <1>3, <1>5, <1>9, <2>5, <4>2, <4>3
      <4>5. ASSUME NEW n \in writes'[k] + 1 .. WritesIn(p, k)'
            PROVE  \E e \in Own(p, k)' : e.no = n
        <5>1. n \in writes[k] + 1 .. WritesIn(p, k) \/ n = new.no
              BY <1>1, <1>3, <1>5, <2>5
        <5>2. QED
              BY <1>2, <1>9, <5>1 DEF OpenOK
      <4>6. QED
            BY <3>1, <4>1, <4>4, <4>5
    <3>2. CASE j # k
      <4>1. WritesIn(p, j)' = WritesIn(p, j) /\ Own(p, j)' = Own(p, j)
            BY <1>1, <1>9, <3>2 DEF WritesIn
      <4>2. WritesIn(p, j) \in Nat
            BY <1>2, ContentsType, BoundsAreNat
      <4>3. QED
            BY <1>1, <1>2, <4>1, <4>2 DEF OpenOK
    <3>3. QED
          BY <3>1, <3>2
  <2>7. QED
        BY <2>1, <2>2, <2>3, <2>6 DEF OpenOK, Ordered
<1>12. \A j \in Keys : writes'[j] \in Nat /\ writes'[j] < nextId'
      BY <1>1, BoundsAreNat DEF DbInv, RowsOK, DbTypeOK
<1>13. ASSUME NEW q \in Users, q # p PROVE OpenOK(q)'
  <2>1. OpenOK(q) /\ tx'[q] = tx[q]
        BY <1>6, <1>13 DEF DbInv
  <2>2. QED
        BY <1>1, <1>2, <1>12, <2>1, OpenSame
<1>14. RowLocks'
  <2>1. \A q \in Users : q # p => Own(q, k) = {}
        BY <1>1 DEF Locked
  <2>2. \A q, r \in Users, j \in Keys : q # r => Own(q, j) = {} \/ Own(r, j) = {}
        BY DEF DbInv, RowLocks
  <2>3. ASSUME NEW q \in Users, NEW r \in Users, NEW j \in Keys, q # r
        PROVE  Own(q, j)' = {} \/ Own(r, j)' = {}
    <3>1. CASE j = k
          BY <1>10, <2>1, <2>3, <3>1
    <3>2. CASE j # k
          BY <1>9, <1>10, <2>2, <2>3, <3>2
    <3>3. QED
          BY <3>1, <3>2
  <2>4. QED
        BY <2>3 DEF RowLocks
<1>15. RowsOK'
  <2>1. \A e \in events : e.id \in Nat
        BY <1>2, BoundsAreNat DEF Event
  <2>2. QED
        BY <1>1, <1>12, <2>1 DEF DbInv, RowsOK
<1>16. QED
      BY <1>7, <1>11, <1>13, <1>14, <1>15 DEF DbInv

\* A transaction commits: its rows are the writes that follow.
LEMMA CommitStep ==
  ASSUME DbInv, NEW p \in Users, CommitRows(p), api' \in [Users -> {"idle", "send"}]
  PROVE  DbInv'
<1>1. /\ db' = [k \in Keys |-> ContentsIn(p, k)]
      /\ writes' = [k \in Keys |-> WritesIn(p, k)]
      /\ events' = events \cup tx[p]
      /\ tx' = [tx EXCEPT ![p] = {}]
      /\ nextId' = nextId
      BY DEF CommitRows
<1>2. /\ OpenOK(p) /\ tx \in [Users -> SUBSET Event] /\ events \subseteq Event
      /\ DbTypeOK /\ nextId \in Nat
      BY BoundsAreNat DEF DbInv, DbTypeOK
<1>3. \A k \in Keys : /\ writes'[k] = WritesIn(p, k) /\ writes'[k] \in 0 .. MaxEvents
                      /\ db'[k] = ContentsIn(p, k) /\ db'[k] \in 0 .. MaxEvents
      BY <1>1, <1>2, ContentsType
<1>4. tx'[p] = {} /\ \A q \in Users : q # p => tx'[q] = tx[q]
      BY <1>1, <1>2
<1>5. DbTypeOK'
  <2>1. db' \in [Keys -> 0 .. MaxEvents] /\ writes' \in [Keys -> 0 .. MaxEvents]
        BY <1>1, <1>2, ContentsType
  <2>2. tx' \in [Users -> SUBSET Event] /\ events' \subseteq Event
        BY <1>1, <1>2
  <2>3. QED
        BY <1>1, <1>2, <2>1, <2>2 DEF DbTypeOK
<1>6. \A k \in Keys : writes'[k] \in Nat /\ writes'[k] < nextId'
      BY <1>1, <1>2, <1>3, BoundsAreNat DEF OpenOK
<1>7. \A q \in Users, k \in Keys : q # p /\ Own(q, k) # {} => Own(p, k) = {}
      BY DEF DbInv, RowLocks
<1>8. ASSUME NEW k \in Keys, Own(p, k) = {}
      PROVE  writes'[k] = writes[k] /\ db'[k] = db[k]
  <2>1. writes[k] \in Nat
        BY <1>2, BoundsAreNat DEF DbTypeOK
  <2>2. WritesIn(p, k) = writes[k]
        BY <1>8, <2>1, FS_EmptySet DEF WritesIn
  <2>3. QED
        BY <1>3, <1>8, <2>2 DEF ContentsIn
<1>9. ASSUME NEW k \in Keys PROVE writes[k] <= writes'[k] /\ writes[k] \in Nat
  <2>1. Own(p, k) \in SUBSET tx[p] /\ IsFiniteSet(tx[p])
        BY <1>2 DEF Own, OpenOK
  <2>2. Cardinality(Own(p, k)) \in Nat
        BY <2>1, FS_Subset, FS_CardinalityType
  <2>3. writes[k] \in Nat
        BY <1>2, BoundsAreNat DEF DbTypeOK
  <2>4. QED
        BY <1>3, <2>2, <2>3 DEF WritesIn
<1>10. ASSUME NEW q \in Users PROVE OpenOK(q)'
  <2>1. CASE q = p
        BY <1>4, <1>6, <2>1, OpenEmpty
  <2>2. CASE q # p
    <3>1. OpenOK(q) /\ tx'[q] = tx[q]
          BY <1>4, <2>2 DEF DbInv
    <3>2. \A k : Own(q, k)' = Own(q, k)
          BY <3>1 DEF Own
    <3>3. IsFiniteSet(tx'[q]) /\ Ordered(tx'[q])
          BY <3>1 DEF OpenOK
    <3>4. \A e \in tx'[q] : e.id < nextId' /\ e.body \in Bodies
          BY <1>1, <3>1 DEF OpenOK
    <3>6. ASSUME NEW k \in Keys
          PROVE  /\ WritesIn(q, k)' < nextId'
                 /\ \A e \in Own(q, k)' : writes'[k] < e.no /\ e.no <= WritesIn(q, k)'
                 /\ \A n \in writes'[k] + 1 .. WritesIn(q, k)' : \E e \in Own(q, k)' : e.no = n
      <4>1. CASE Own(q, k) = {}
        <5>1. WritesIn(q, k)' = writes'[k]
              BY <1>6, <3>2, <4>1, FS_EmptySet DEF WritesIn
        <5>2. QED
              BY <1>6, <3>2, <4>1, <5>1
      <4>2. CASE Own(q, k) # {}
        <5>1. writes'[k] = writes[k]
              BY <1>7, <1>8, <2>2, <4>2
        <5>2. WritesIn(q, k)' = WritesIn(q, k)
              BY <3>2, <5>1 DEF WritesIn
        <5>3. QED
              BY <1>1, <3>1, <3>2, <5>1, <5>2 DEF OpenOK
      <4>3. QED
            BY <4>1, <4>2
    <3>7. QED
          BY <3>3, <3>4, <3>6 DEF OpenOK, Ordered
  <2>3. QED
        BY <2>1, <2>2
<1>11. RowLocks'
  <2>1. \A q \in Users, k \in Keys : Own(q, k)' = {} \/ Own(q, k)' = Own(q, k)
        BY <1>4 DEF Own
  <2>2. QED
        BY <2>1 DEF DbInv, RowLocks
<1>12. RowsOK'
  <2>1. ASSUME NEW k \in Keys PROVE db'[k] \in {0, writes'[k]}
    <3>1. CASE Own(p, k) = {}
          BY <1>8, <3>1 DEF DbInv, RowsOK
    <3>2. CASE Own(p, k) # {}
      <4>1. Latest(Own(p, k)).no = WritesIn(p, k)
            BY <1>2, <3>2, LatestExists
      <4>2. QED
            BY <1>3, <3>2, <4>1 DEF ContentsIn
    <3>3. QED
          BY <3>1, <3>2
  <2>2. ASSUME NEW e \in events'
        PROVE  e.id < nextId' /\ e.body \in Bodies /\ e.no <= writes'[e.key]
    <3>1. e.key \in Keys /\ e.no \in Nat
          BY <1>1, <1>2, BoundsAreNat DEF Event
    <3>2. CASE e \in events
      <4>1. e.id < nextId /\ e.body \in Bodies /\ e.no <= writes[e.key]
            BY <3>2 DEF DbInv, RowsOK
      <4>2. QED
            BY <1>1, <1>6, <1>9, <3>1, <4>1
    <3>3. CASE e \in tx[p]
      <4>1. e \in Own(p, e.key)
            BY <3>3 DEF Own
      <4>2. QED
            BY <1>1, <1>2, <1>3, <3>1, <3>3, <4>1 DEF OpenOK
    <3>4. QED
          BY <1>1, <3>2, <3>3
  <2>3. QED
        BY <1>6, <2>1, <2>2 DEF RowsOK
<1>13. QED
      BY <1>5, <1>10, <1>11, <1>12 DEF DbInv

\* Rows of transactions and of the table go away, and nothing else changes.
LEMMA ShrinkStep ==
  ASSUME DbInv, UNCHANGED <<db, writes, nextId>>, events' \subseteq events,
         api' \in [Users -> {"idle", "send"}], tx' \in [Users -> SUBSET Event],
         \A p \in Users : tx'[p] = tx[p] \/ tx'[p] = {}
  PROVE  DbInv'
<1>1. DbTypeOK'
      BY DEF DbInv, DbTypeOK
<1>2. \A k \in Keys : writes'[k] \in Nat /\ writes'[k] < nextId'
      BY BoundsAreNat DEF DbInv, RowsOK, DbTypeOK
<1>3. ASSUME NEW p \in Users PROVE OpenOK(p)'
  <2>1. CASE tx'[p] = {}
        BY <1>2, <2>1, OpenEmpty
  <2>2. CASE tx'[p] = tx[p]
    <3>1. nextId \in Nat /\ nextId' \in Nat /\ nextId' >= nextId /\ DbTypeOK /\ OpenOK(p)
          BY BoundsAreNat DEF DbInv, DbTypeOK
    <3>2. QED
          BY <1>2, <2>2, <3>1, OpenSame
  <2>3. QED
        BY <2>1, <2>2
<1>4. RowLocks'
  <2>1. \A q \in Users, k \in Keys : Own(q, k)' = {} \/ Own(q, k)' = Own(q, k)
        BY DEF Own
  <2>2. QED
        BY <2>1 DEF DbInv, RowLocks
<1>5. RowsOK'
      BY DEF DbInv, RowsOK
<1>6. QED
      BY <1>1, <1>3, <1>4, <1>5 DEF DbInv

\* Every step keeps the transactions and the rows in order.
LEMMA DbInvStep == DbInv /\ [Next]_pipelineVars /\ api' \in [Users -> {"idle", "send"}] => DbInv'
<1> SUFFICES ASSUME DbInv, [Next]_pipelineVars, api' \in [Users -> {"idle", "send"}]
             PROVE  DbInv'
    OBVIOUS
<1>1. tx \in [Users -> SUBSET Event]
      BY DEF DbInv, DbTypeOK
<1>2. ASSUME NEW p \in Users, Rollback(p) PROVE DbInv'
  <2>1. /\ UNCHANGED <<db, writes, nextId, events>>
        /\ tx' \in [Users -> SUBSET Event]
        /\ \A q \in Users : tx'[q] = tx[q] \/ tx'[q] = {}
        BY <1>1, <1>2 DEF Rollback
  <2>2. QED
        BY <2>1, ShrinkStep
<1>3. ASSUME NEW p \in Users, Crash(p) PROVE DbInv'
  <2>1. /\ UNCHANGED <<db, writes, nextId, events>>
        /\ tx' \in [Users -> SUBSET Event]
        /\ \A q \in Users : tx'[q] = tx[q] \/ tx'[q] = {}
        BY <1>1, <1>3 DEF Crash
  <2>2. QED
        BY <2>1, ShrinkStep
<1>4. ASSUME NEW p \in Users, DeleteEvent(p) \/ Removal(p) PROVE DbInv'
  <2>1. UNCHANGED <<db, writes, nextId, tx>> /\ events' \subseteq events
        BY <1>4 DEF DeleteEvent, Removal, DeleteUnknown
  <2>2. QED
        BY <1>1, <2>1, ShrinkStep
<1>5. CASE UNCHANGED <<db, writes, events, nextId, tx>>
      BY <1>1, <1>5, ShrinkStep
<1>6. QED
      BY <1>2, <1>3, <1>4, <1>5, DbSteps, LogStep, CommitStep

\* The table stays in the order of the writes.
LEMMA TableStep == DbInv /\ DbInv' /\ TableOK /\ [Next]_pipelineVars => TableOK'
<1> SUFFICES ASSUME DbInv, DbInv', TableOK, [Next]_pipelineVars PROVE TableOK'
    OBVIOUS
<1>1. /\ tx \in [Users -> SUBSET Event] /\ events \subseteq Event /\ DbTypeOK
      /\ \A p \in Users : OpenOK(p)
      BY DEF DbInv, DbTypeOK
<1>2. ASSUME events' \subseteq events, db' = db, writes' = writes,
             \A p \in Users : tx'[p] = tx[p] \/ tx'[p] = {}
      PROVE  TableOK'
      BY <1>2 DEF TableOK, Ordered, ValueOf
<1>3. ASSUME NEW p \in Users, NEW k \in Keys, NEW type, NEW body, LogEvent(p, k, type, body)
      PROVE  TableOK'
  <2> DEFINE new == [id |-> nextId, key |-> k, type |-> type, no |-> WritesIn(p, k) + 1,
                     body |-> body]
  <2>1. UNCHANGED <<db, writes, events>> /\ tx' = [tx EXCEPT ![p] = tx[p] \cup {new}]
        BY <1>3 DEF LogEvent
  <2>2. \A e \in events : e.id < new.id
        BY DEF DbInv, RowsOK
  <2> HIDE DEF new
  <2>3. ASSUME NEW q \in Users, NEW e \in events', NEW f \in tx'[q], e.key = f.key
        PROVE  e.id < f.id
        BY <1>1, <2>1, <2>2, <2>3 DEF TableOK
  <2>4. Ordered(events)' /\ \A e \in events' : e.no = writes'[e.key] => db'[e.key] = ValueOf(e)
        BY <2>1 DEF TableOK, Ordered
  <2>5. QED
        BY <2>3, <2>4 DEF TableOK, ValueOf
<1>4. ASSUME NEW p \in Users, CommitRows(p) PROVE TableOK'
  <2>1. /\ writes' = [k \in Keys |-> WritesIn(p, k)]
        /\ db' = [k \in Keys |-> ContentsIn(p, k)]
        /\ events' = events \cup tx[p] /\ tx' = [tx EXCEPT ![p] = {}]
        BY <1>4 DEF CommitRows
  <2>2. OpenOK(p) /\ Ordered(tx[p]) /\ Ordered(events)
        BY <1>1 DEF OpenOK, TableOK
  <2>3. ASSUME NEW e \in events, NEW f \in tx[p], e.key = f.key
        PROVE  e.id < f.id /\ e.no < f.no
    <3>1. /\ f.key \in Keys /\ e.no \in Nat /\ f.no \in Nat /\ f \in Own(p, f.key)
          /\ writes[f.key] \in Nat
          BY <1>1, BoundsAreNat DEF Event, Own, DbTypeOK
    <3>2. e.no <= writes[f.key] /\ writes[f.key] < f.no
          BY <2>2, <2>3, <3>1 DEF DbInv, RowsOK, OpenOK
    <3>3. e.id < f.id
          BY <2>3 DEF TableOK
    <3>4. QED
          BY <3>1, <3>2, <3>3
  <2>4. Ordered(events')
        BY <2>1, <2>2, <2>3 DEF Ordered
  <2>5. ASSUME NEW q \in Users, NEW e \in events', NEW f \in tx'[q], e.key = f.key
        PROVE  e.id < f.id
    <3>1. q # p /\ tx'[q] = tx[q]
          BY <1>1, <2>1, <2>5
    <3>2. CASE e \in events
          BY <2>5, <3>1, <3>2 DEF TableOK
    <3>3. CASE e \in tx[p]
      <4>1. f.key \in Keys /\ e \in Own(p, f.key) /\ f \in Own(q, f.key)
            BY <1>1, <2>5, <3>1, <3>3 DEF Event, Own
      <4>2. QED
            BY <3>1, <4>1 DEF DbInv, RowLocks
    <3>4. QED
          BY <2>1, <3>2, <3>3
  <2>6. ASSUME NEW e \in events', e.no = writes'[e.key] PROVE db'[e.key] = ValueOf(e)
    <3>1. /\ e.key \in Keys /\ e.no \in Nat /\ writes[e.key] \in Nat
          /\ writes'[e.key] = WritesIn(p, e.key) /\ db'[e.key] = ContentsIn(p, e.key)
          /\ WritesIn(p, e.key) \in Nat
          BY <1>1, <2>1, ContentsType, BoundsAreNat DEF Event, DbTypeOK
    <3>2. CASE Own(p, e.key) = {}
      <4>1. e \in events /\ WritesIn(p, e.key) = writes[e.key] /\ ContentsIn(p, e.key) = db[e.key]
            BY <2>1, <3>1, <3>2, FS_EmptySet DEF Own, WritesIn, ContentsIn
      <4>2. QED
            BY <2>6, <3>1, <4>1 DEF TableOK
    <3>3. CASE Own(p, e.key) # {}
      <4> DEFINE last == Latest(Own(p, e.key))
      <4>1. last \in Own(p, e.key) /\ last.no = WritesIn(p, e.key)
            BY <1>1, <3>1, <3>3, LatestExists
      <4>2. ContentsIn(p, e.key) = ValueOf(last)
            BY <3>3 DEF ContentsIn, ValueOf
      <4> HIDE DEF last
      <4>3. last \in tx[p] /\ last.key = e.key /\ last.no = e.no
            BY <2>6, <3>1, <4>1 DEF Own
      <4>4. e = last
            BY <2>1, <2>4, <3>1, <4>3 DEF Ordered
      <4>5. QED
            BY <3>1, <4>2, <4>4
    <3>4. QED
          BY <3>2, <3>3
  <2>7. QED
        BY <2>4, <2>5, <2>6 DEF TableOK, Ordered, ValueOf
<1>5. ASSUME NEW p \in Users, Rollback(p) \/ Crash(p) \/ DeleteEvent(p) \/ Removal(p) PROVE TableOK'
  <2>1. /\ events' \subseteq events /\ db' = db /\ writes' = writes
        /\ \A q \in Users : tx'[q] = tx[q] \/ tx'[q] = {}
        BY <1>1, <1>5 DEF Rollback, Crash, DeleteEvent, Removal, DeleteUnknown
  <2>2. QED
        BY <1>2, <2>1
<1>6. CASE UNCHANGED <<db, writes, events, nextId, tx>>
      BY <1>2, <1>6
<1>7. QED
      BY <1>3, <1>4, <1>5, <1>6, DbSteps

-----------------------------------------------------------------------------
(* The other variables keep their types *)

\* What is applied is an event of the list.
LEMMA NextEventType ==
  ASSUME WriterTypeOK, AppliedFirst, NEW p \in Users, writer[p] \in {"push", "fetch", "delete"}
  PROVE  /\ NextEvent(p) \in Event /\ NextEvent(p) \in batch[p]
         /\ \A f \in batch[p] : NextEvent(p).id <= f.id
<1>1. batch[p] \in SUBSET Event /\ batch[p] # {}
      BY DEF WriterTypeOK, AppliedFirst
<1>2. QED
      BY <1>1, FirstExists DEF NextEvent

\* Applying an event keeps the types of the copy.
LEMMA ApplyType == ASSUME EtcdTypeOK, NEW e \in Event, ApplyToEtcd(e) PROVE EtcdTypeOK'
<1>1. e.key \in Keys /\ e.no \in 1 .. MaxEvents
      BY DEF Event
<1>2. etcd' \in [Keys -> 0 .. MaxEvents]
      BY <1>1, BoundsAreNat DEF EtcdTypeOK, ApplyToEtcd
<1>3. copied' \in [Keys -> 0 .. MaxEvents]
      BY <1>1, BoundsAreNat DEF EtcdTypeOK, ApplyToEtcd
<1>4. applied' \subseteq Keys \X (1 .. MaxEvents)
      BY <1>1 DEF EtcdTypeOK, ApplyToEtcd
<1>5. QED
      BY <1>2, <1>3, <1>4 DEF EtcdTypeOK

\* The copy in etcd and the batch change by these steps only.
LEMMA EtcdSteps ==
  ASSUME [Next]_pipelineVars
  PROVE  \/ UNCHANGED etcdVars
         \/ \E p \in Users : /\ writer[p] = "push" /\ ApplyToEtcd(NextEvent(p))
                             /\ PushEvent(p) \/ PushError(p)
<1>1. ASSUME NEW p \in Users, ApiStep(p) \/ InformerStep(p) \/ ReportLost(p)
      PROVE  UNCHANGED etcdVars
  <2>1. CASE ApiStep(p)
        BY <2>1 DEF ApiStep, LogEvent, Commit, CommitRows, Rollback, TriggerSyncWriter
  <2>2. CASE InformerStep(p) \/ ReportLost(p)
        BY <2>2 DEF InformerStep, Receive, Notify, ReportLost
  <2>3. QED
        BY <1>1, <2>1, <2>2
<1>2. ASSUME NEW p \in Users, WriterStep(p)
      PROVE  UNCHANGED etcdVars \/ (writer[p] = "push" /\ ApplyToEtcd(NextEvent(p)) /\ PushEvent(p))
  <2>1. PushEvent(p) => writer[p] = "push" /\ ApplyToEtcd(NextEvent(p))
        BY DEF PushEvent
  <2>2. TakeLock(p) \/ StartWatch(p) \/ ListEvents(p) \/ PushUnsyncable(p) => UNCHANGED etcdVars
        BY DEF TakeLock, StartWatch, ListEvents, PushUnsyncable
  <2>3. FetchEvent(p) \/ DeleteEvent(p) \/ LockLost(p) \/ Unlock(p) \/ Backoff(p)
          => UNCHANGED etcdVars
        BY DEF FetchEvent, DeleteEvent, LockLost, Unlock, Backoff
  <2>4. QED
        BY <1>2, <2>1, <2>2, <2>3 DEF WriterStep
<1>3. ASSUME NEW p \in Users, FaultStep(p)
      PROVE  UNCHANGED etcdVars \/ (writer[p] = "push" /\ ApplyToEtcd(NextEvent(p)) /\ PushError(p))
  <2>1. ASSUME PushError(p)
        PROVE  UNCHANGED etcdVars \/ (writer[p] = "push" /\ ApplyToEtcd(NextEvent(p)))
    <3>1. writer[p] = "push" /\ (UNCHANGED etcdVars \/ ApplyToEtcd(NextEvent(p)))
          BY <2>1 DEF PushError
    <3>2. QED
          BY <3>1
  <2>2. ASSUME \/ CommitUnknown(p) \/ NotifyError(p) \/ TakeLockUnknown(p)
               \/ DeleteUnknown(p, "delete") \/ WriterError(p) \/ RetryEvent(p)
        PROVE  UNCHANGED etcdVars
        BY <2>2 DEF CommitUnknown, CommitRows, NotifyError, TakeLockUnknown, DeleteUnknown, WriterError,
               RetryEvent
  <2>3. ReportLostSpuriously(p) \/ Crash(p) \/ Restart(p) => UNCHANGED etcdVars
        BY DEF ReportLostSpuriously, Crash, Restart
  <2>4. QED
        BY <1>3, <2>1, <2>2, <2>3, Zenon DEF FaultStep
<1>4. CASE ReleaseKey \/ ExpireLease \/ UNCHANGED pipelineVars
      BY <1>4 DEF ReleaseKey, ExpireLease, pipelineVars
<1>5. QED
      BY <1>1, <1>2, <1>3, <1>4, Zenon DEF Next

\* Every step keeps the types of everything but the database.
LEMMA OtherTypesStep ==
  ASSUME TypeOK, AppliedFirst, [Next]_pipelineVars
  PROVE  /\ LockTypeOK' /\ InformerTypeOK' /\ EtcdTypeOK' /\ WriterTypeOK' /\ FaultTypeOK'
         /\ api' \in [Users -> {"idle", "send"}]
<1> DEFINE A == api' \in [Users -> {"idle", "send"}]
           Goal == LockTypeOK' /\ InformerTypeOK' /\ WriterTypeOK' /\ FaultTypeOK' /\ A
<1>t. /\ LockTypeOK /\ DbTypeOK /\ InformerTypeOK /\ EtcdTypeOK /\ WriterTypeOK /\ FaultTypeOK
      /\ UNCHANGED api => A
      BY TypeParts DEF DbTypeOK
<1>e. EtcdTypeOK'
      BY <1>t, EtcdSteps, SameTypes, NextEventType, ApplyType
<1>f. ASSUME NEW p \in Users, NEW where \in WriterPC, WriterGoto(p, where)
      PROVE  writer' \in [Users -> WriterPC]
      BY <1>f, <1>t DEF WriterGoto, WriterTypeOK
<1>r. ASSUME NEW p \in Users, RunFails(p) PROVE WriterTypeOK'
  <2>1. writer' \in [Users -> WriterPC]
        BY <1>f, <1>r DEF RunFails, WriterPC
  <2>2. QED
        BY <1>r, <1>t, <2>1 DEF RunFails, WriterTypeOK
<1>1. ASSUME NEW p \in Users, NEW k \in Keys, NEW type, NEW body, LogEvent(p, k, type, body)
      PROVE  Goal
  <2>1. UNCHANGED <<informerVars, writerVars, faultVars, lockVars, api>>
        BY <1>1 DEF LogEvent, dbVars
  <2>2. QED
        BY <1>t, <2>1, SameTypes DEF dbVars
<1>2. ASSUME NEW p \in Users, Commit(p) PROVE Goal
  <2>1. A
        BY <1>2, <1>t DEF Commit, DbTypeOK
  <2>2. UNCHANGED <<informerVars, writerVars, lockVars>>
        BY <1>2 DEF Commit, CommitRows
  <2>3. FaultTypeOK'
        BY <1>2, <1>t DEF Commit, FaultTypeOK
  <2>4. QED
        BY <1>t, <2>1, <2>2, <2>3, SameTypes
<1>2u. ASSUME NEW p \in Users, CommitUnknown(p) PROVE Goal
  <2>1. UNCHANGED <<api, informerVars, writerVars, lockVars>>
        BY <1>2u DEF CommitUnknown, CommitRows
  <2>2. FaultTypeOK'
        BY <1>2u, <1>t, BoundsAreNat DEF CommitUnknown, FaultTypeOK
  <2>3. QED
        BY <1>t, <2>1, <2>2, SameTypes
<1>3. ASSUME NEW p \in Users, Rollback(p) PROVE Goal
  <2>1. UNCHANGED <<informerVars, writerVars, faultVars, lockVars, api>>
        BY <1>3 DEF Rollback, dbVars
  <2>2. QED
        BY <1>t, <2>1, SameTypes DEF dbVars
<1>4. ASSUME NEW p \in Users, TriggerSyncWriter(p) PROVE Goal
  <2>1. A
        BY <1>4, <1>t DEF TriggerSyncWriter, DbTypeOK
  <2>2. InformerTypeOK'
        BY <1>4, <1>t, BoundsAreNat DEF TriggerSyncWriter, InformerTypeOK
  <2>3. UNCHANGED <<writerVars, faultVars, lockVars>>
        BY <1>4 DEF TriggerSyncWriter, dbVars
  <2>4. QED
        BY <1>t, <2>1, <2>2, <2>3, SameTypes DEF dbVars
<1>5. ASSUME NEW p \in Users, Receive(p) PROVE Goal
  <2>1. InformerTypeOK'
        BY <1>5, <1>t, BoundsAreNat DEF Receive, InformerTypeOK
  <2>2. UNCHANGED <<dbVars, writerVars, faultVars, lockVars>>
        BY <1>5 DEF Receive, dbVars
  <2>3. QED
        BY <1>t, <2>1, <2>2, SameTypes DEF dbVars
<1>6. ASSUME NEW p \in Users, Notify(p) PROVE Goal
  <2>1. InformerTypeOK'
        BY <1>6, <1>t DEF Notify, WriteTxKey, InformerTypeOK
  <2>2. WriterTypeOK'
        BY <1>6, <1>t DEF Notify, WriteTxKey, WriterTypeOK
  <2>3. UNCHANGED <<dbVars, faultVars, lockVars>>
        BY <1>6 DEF Notify, dbVars
  <2>4. QED
        BY <1>t, <2>1, <2>2, <2>3, SameTypes DEF dbVars
<1>7. ASSUME NEW p \in Users, NotifyError(p) PROVE Goal
  <2>1. InformerTypeOK'
    <3>1. chan' \in [Users -> 0 .. ChanCap] /\ informer' = informer
          BY <1>7, <1>t, BoundsAreNat DEF NotifyError, InformerTypeOK
    <3>2. txKey' \in BOOLEAN
          BY <1>7, <1>t DEF NotifyError, WriteTxKey, InformerTypeOK
    <3>3. QED
          BY <1>t, <3>1, <3>2 DEF InformerTypeOK
  <2>2. FaultTypeOK'
        BY <1>7, <1>t, FaultType DEF NotifyError
  <2>3. WriterTypeOK'
        BY <1>7, <1>t DEF NotifyError, WriteTxKey, WriterTypeOK
  <2>4. UNCHANGED <<dbVars, lockVars>>
        BY <1>7 DEF NotifyError, dbVars
  <2>5. QED
        BY <1>t, <2>1, <2>2, <2>3, <2>4, SameTypes DEF dbVars
<1>8. ASSUME NEW p \in Users, TakeLock(p) PROVE Goal
  <2>1. LockTypeOK'
        BY <1>8, <1>t DEF TakeLock, Acquire, LockTypeOK
  <2>2. WriterTypeOK'
        BY <1>8, <1>t, <1>f DEF TakeLock, WriterTypeOK, WriterPC
  <2>3. UNCHANGED <<dbVars, informerVars, faultVars>>
        BY <1>8 DEF TakeLock, dbVars
  <2>4. QED
        BY <1>t, <2>1, <2>2, <2>3, SameTypes DEF dbVars
<1>9. ASSUME NEW p \in Users, TakeLockUnknown(p) PROVE Goal
  <2>1. LockTypeOK'
        BY <1>9, <1>t DEF TakeLockUnknown, AcquireUnknown, LockTypeOK
  <2>2. FaultTypeOK'
        BY <1>9, <1>t, FaultType DEF TakeLockUnknown
  <2>3. UNCHANGED <<dbVars, informerVars, writerVars>>
        BY <1>9 DEF TakeLockUnknown, dbVars
  <2>4. QED
        BY <1>t, <2>1, <2>2, <2>3, SameTypes DEF dbVars
<1>10. ASSUME NEW p \in Users, StartWatch(p) PROVE Goal
  <2>1. WriterTypeOK'
        BY <1>10, <1>t, <1>f DEF StartWatch, WriterTypeOK, WriterPC
  <2>2. UNCHANGED <<dbVars, informerVars, faultVars, lockVars>>
        BY <1>10 DEF StartWatch, dbVars
  <2>3. QED
        BY <1>t, <2>1, <2>2, SameTypes DEF dbVars
<1>11. ASSUME NEW p \in Users, ListEvents(p) PROVE Goal
  <2>1. writer' \in [Users -> WriterPC]
        BY <1>11, <1>t, <1>f DEF ListEvents, WriterPC
  <2>2. pending' \in [Users -> Nat]
        BY <1>11, <1>t DEF ListEvents, WriterTypeOK
  <2>3. batch' \in [Users -> SUBSET Event]
        BY <1>11, <1>t DEF ListEvents, WriterTypeOK, DbTypeOK
  <2>4. WriterTypeOK'
        BY <1>11, <1>t, <2>1, <2>2, <2>3 DEF WriterTypeOK
  <2>5. UNCHANGED <<dbVars, informerVars, faultVars, lockVars>>
        BY <1>11 DEF ListEvents, dbVars
  <2>6. QED
        BY <1>t, <2>1, <2>2, <2>3, <2>4, <2>5, SameTypes DEF dbVars
<1>12. ASSUME NEW p \in Users, PushEvent(p) PROVE Goal
  <2>1. WriterTypeOK'
        BY <1>12, <1>t, <1>f DEF PushEvent, WriterTypeOK, WriterPC
  <2>2. UNCHANGED <<dbVars, informerVars, faultVars, lockVars>>
        BY <1>12 DEF PushEvent, dbVars
  <2>3. QED
        BY <1>t, <2>1, <2>2, SameTypes DEF dbVars
<1>13. ASSUME NEW p \in Users, PushUnsyncable(p) PROVE Goal
  <2>1. WriterTypeOK'
        BY <1>13, <1>t, <1>r DEF PushUnsyncable
  <2>2. UNCHANGED <<dbVars, informerVars, faultVars, lockVars>>
        BY <1>13 DEF PushUnsyncable, dbVars
  <2>3. QED
        BY <1>t, <2>1, <2>2, SameTypes DEF dbVars
<1>14. ASSUME NEW p \in Users, PushError(p) PROVE Goal
  <2>1. WriterTypeOK'
        BY <1>14, <1>t, <1>r DEF PushError
  <2>2. FaultTypeOK'
        BY <1>14, <1>t, FaultType DEF PushError
  <2>3. UNCHANGED <<dbVars, informerVars, lockVars>>
        BY <1>14 DEF PushError, dbVars
  <2>4. QED
        BY <1>t, <2>1, <2>2, <2>3, SameTypes DEF dbVars
<1>15. ASSUME NEW p \in Users, FetchEvent(p) PROVE Goal
  <2>1. WriterTypeOK'
        BY <1>15, <1>t, <1>r, <1>f DEF FetchEvent, WriterTypeOK, WriterPC
  <2>2. UNCHANGED <<dbVars, informerVars, faultVars, lockVars>>
        BY <1>15 DEF FetchEvent, dbVars
  <2>3. QED
        BY <1>t, <2>1, <2>2, SameTypes DEF dbVars
<1>16. ASSUME NEW p \in Users, DeleteEvent(p) PROVE Goal
  <2>1. writer' \in [Users -> WriterPC]
        BY <1>16, <1>t, <1>f DEF DeleteEvent, WriterPC
  <2>2. WriterTypeOK'
        BY <1>16, <1>t, <2>1 DEF DeleteEvent, WriterTypeOK
  <2>3. UNCHANGED <<informerVars, faultVars, lockVars, api>>
        BY <1>16 DEF DeleteEvent, dbVars
  <2>4. QED
        BY <1>t, <2>1, <2>2, <2>3, SameTypes DEF dbVars
<1>16u. ASSUME NEW p \in Users, DeleteUnknown(p, "delete") PROVE Goal
  <2>1. WriterTypeOK'
        BY <1>16u, <1>t, <1>r DEF DeleteUnknown
  <2>2. FaultTypeOK'
        BY <1>16u, <1>t, FaultType DEF DeleteUnknown
  <2>3. UNCHANGED <<informerVars, lockVars, api>>
        BY <1>16u DEF DeleteUnknown
  <2>4. QED
        BY <1>t, <2>1, <2>2, <2>3, SameTypes
<1>17. ASSUME NEW p \in Users, WriterError(p) PROVE Goal
  <2>1. WriterTypeOK'
        BY <1>17, <1>t, <1>r DEF WriterError
  <2>2. FaultTypeOK'
        BY <1>17, <1>t, FaultType DEF WriterError
  <2>3. UNCHANGED <<dbVars, informerVars, lockVars>>
        BY <1>17 DEF WriterError, dbVars
  <2>4. QED
        BY <1>t, <2>1, <2>2, <2>3, SameTypes DEF dbVars
<1>18. ASSUME NEW p \in Users, RetryEvent(p) PROVE Goal
  <2>1. WriterTypeOK'
        BY <1>18, <1>t, <1>f DEF RetryEvent, WriterTypeOK, WriterPC
  <2>2. FaultTypeOK'
        BY <1>18, <1>t, FaultType DEF RetryEvent
  <2>3. UNCHANGED <<dbVars, informerVars, lockVars>>
        BY <1>18 DEF RetryEvent, dbVars
  <2>4. QED
        BY <1>t, <2>1, <2>2, <2>3, SameTypes DEF dbVars
<1>19. ASSUME NEW p \in Users, LockLost(p) PROVE Goal
  <2>1. WriterTypeOK'
        BY <1>19, <1>t, <1>r DEF LockLost
  <2>2. UNCHANGED <<dbVars, informerVars, faultVars, lockVars>>
        BY <1>19 DEF LockLost, dbVars
  <2>3. QED
        BY <1>t, <2>1, <2>2, SameTypes DEF dbVars
<1>20. ASSUME NEW p \in Users, Unlock(p) PROVE Goal
  <2>1. WriterTypeOK'
        BY <1>20, <1>t, <1>f DEF Unlock, WriterTypeOK, WriterPC
  <2>2. LockTypeOK'
        BY <1>20, <1>t DEF Unlock, Leave, LockTypeOK
  <2>3. UNCHANGED <<dbVars, informerVars, faultVars>>
        BY <1>20 DEF Unlock, dbVars
  <2>4. QED
        BY <1>t, <2>1, <2>2, <2>3, SameTypes DEF dbVars
<1>21. ASSUME NEW p \in Users, Backoff(p) PROVE Goal
  <2>1. WriterTypeOK'
        BY <1>21, <1>t, <1>f DEF Backoff, WriterTypeOK, WriterPC
  <2>2. UNCHANGED <<dbVars, informerVars, faultVars, lockVars>>
        BY <1>21 DEF Backoff, dbVars
  <2>3. QED
        BY <1>t, <2>1, <2>2, SameTypes DEF dbVars
<1>22. ASSUME NEW p \in Users, ReportLost(p) PROVE Goal
  <2>1. LockTypeOK'
        BY <1>22, <1>t DEF ReportLost, SignalLost, LockTypeOK
  <2>2. UNCHANGED <<dbVars, informerVars, writerVars, faultVars>>
        BY <1>22 DEF ReportLost, dbVars
  <2>3. QED
        BY <1>t, <2>1, <2>2, SameTypes DEF dbVars
<1>23. ASSUME NEW p \in Users, ReportLostSpuriously(p) PROVE Goal
  <2>1. LockTypeOK'
        BY <1>23, <1>t DEF ReportLostSpuriously, SignalLost, LockTypeOK
  <2>2. FaultTypeOK'
        BY <1>23, <1>t, FaultType DEF ReportLostSpuriously
  <2>3. UNCHANGED <<dbVars, informerVars, writerVars>>
        BY <1>23 DEF ReportLostSpuriously, dbVars
  <2>4. QED
        BY <1>t, <2>1, <2>2, <2>3, SameTypes DEF dbVars
<1>24. ASSUME NEW p \in Users, Crash(p) PROVE Goal
  <2>1. A
        BY <1>24, <1>t DEF Crash, DbTypeOK
  <2>2. InformerTypeOK'
        BY <1>24, <1>t, BoundsAreNat DEF Crash, InformerTypeOK
  <2>3. writer' \in [Users -> WriterPC]
        BY <1>24, <1>t, <1>f DEF Crash, WriterPC
  <2>4. WriterTypeOK'
        BY <1>24, <1>t, <2>3 DEF Crash, WriterTypeOK
  <2>5. LockTypeOK'
        BY <1>24, <1>t DEF Crash, Leave, LockTypeOK, lockVars
  <2>6. FaultTypeOK'
        BY <1>24, <1>t, BoundsAreNat DEF Crash, FaultTypeOK
  <2>7. QED
        BY <1>t, <2>1, <2>2, <2>3, <2>4, <2>5, <2>6, SameTypes DEF dbVars
<1>25. ASSUME NEW p \in Users, Restart(p) PROVE Goal
  <2>1. WriterTypeOK'
        BY <1>25, <1>t, <1>f DEF Restart, WriterTypeOK, WriterPC
  <2>2. UNCHANGED <<dbVars, informerVars, faultVars, lockVars>>
        BY <1>25 DEF Restart, dbVars
  <2>3. QED
        BY <1>t, <2>1, <2>2, SameTypes DEF dbVars
<1>26. ASSUME ReleaseKey PROVE Goal
  <2>1. LockTypeOK'
        BY <1>26, <1>t DEF ReleaseKey, Drop, LockTypeOK
  <2>2. UNCHANGED <<dbVars, informerVars, writerVars, faultVars>>
        BY <1>26 DEF ReleaseKey, dbVars
  <2>3. QED
        BY <1>t, <2>1, <2>2, SameTypes DEF dbVars
<1>27. ASSUME ExpireLease PROVE Goal
  <2>1. LockTypeOK'
        BY <1>27, <1>t DEF ExpireLease, Drop, LockTypeOK
  <2>2. FaultTypeOK'
        BY <1>27, <1>t, BoundsAreNat DEF ExpireLease, FaultTypeOK
  <2>3. UNCHANGED <<dbVars, informerVars, writerVars>>
        BY <1>27 DEF ExpireLease, dbVars
  <2>4. QED
        BY <1>t, <2>1, <2>2, <2>3, SameTypes DEF dbVars
<1>28. ASSUME UNCHANGED pipelineVars PROVE Goal
  <2>1. UNCHANGED <<dbVars, informerVars, writerVars, faultVars, lockVars>>
        BY <1>28 DEF pipelineVars, dbVars
  <2>2. QED
        BY <1>t, <2>1, SameTypes DEF dbVars
<1>29. Goal
      BY <1>1, <1>2, <1>2u, <1>16u, <1>3, <1>4, <1>5, <1>6, <1>7, <1>8, <1>9, <1>10, <1>11, <1>12,
         <1>13, <1>14, <1>15, <1>16, <1>17, <1>18, <1>19, <1>20, <1>21, <1>22, <1>23,
         <1>24, <1>25, <1>26, <1>27, <1>28, Zenon
      DEF Next, ApiStep, InformerStep, WriterStep, FaultStep
<1>30. QED
      BY <1>e, <1>29

-----------------------------------------------------------------------------
(* A row is applied before it is removed *)

\* What a step does to the writers and their lists.
LEMMA WriterSteps ==
  ASSUME WriterTypeOK, [Next]_pipelineVars
  PROVE  \/ UNCHANGED <<writer, batch>>
         \/ \E p \in Users :
              /\ \A q \in Users : q # p => writer'[q] = writer[q] /\ batch'[q] = batch[q]
              /\ \/ ListEvents(p) \/ PushEvent(p) \/ FetchEvent(p) \/ DeleteEvent(p)
                    \/ RetryEvent(p)
                 \/ /\ writer'[p] \notin {"push", "fetch", "delete"}
                    /\ batch'[p] \in {batch[p], {}}
<1> DEFINE Same == UNCHANGED <<writer, batch>>
           Others(p) == \A q \in Users : q # p => writer'[q] = writer[q] /\ batch'[q] = batch[q]
           Quiet(p) == /\ writer'[p] \notin {"push", "fetch", "delete"}
                       /\ batch'[p] \in {batch[p], {}}
           Busy(p) == ListEvents(p) \/ PushEvent(p) \/ FetchEvent(p) \/ DeleteEvent(p)
                      \/ RetryEvent(p)
           Goal == Same \/ \E p \in Users : Others(p) /\ (Busy(p) \/ Quiet(p))
<1>t. writer \in [Users -> WriterPC] /\ batch \in [Users -> SUBSET Event]
      BY DEF WriterTypeOK
<1>0. ASSUME NEW p \in Users, RunFails(p) PROVE Others(p) /\ Quiet(p)
      BY <1>0, <1>t DEF RunFails, WriterGoto
<1>1. ASSUME NEW p \in Users, ApiStep(p) \/ InformerStep(p) \/ ReportLost(p) PROVE Same
      BY <1>1 DEF ApiStep, LogEvent, Commit, CommitRows, Rollback, TriggerSyncWriter, InformerStep, Receive,
                  Notify, ReportLost, writerVars
<1>2. ASSUME NEW p \in Users,
             TakeLock(p) \/ StartWatch(p) \/ Unlock(p) \/ Backoff(p) \/ Restart(p)
      PROVE  Others(p) /\ Quiet(p)
      BY <1>2, <1>t DEF TakeLock, StartWatch, Unlock, Backoff, Restart, WriterGoto
<1>3. ASSUME NEW p \in Users, \/ PushUnsyncable(p) \/ LockLost(p) \/ PushError(p)
                              \/ DeleteUnknown(p, "delete") \/ WriterError(p)
      PROVE  Others(p) /\ Quiet(p)
  <2>1. RunFails(p)
        BY <1>3 DEF PushUnsyncable, LockLost, PushError, DeleteUnknown, WriterError
  <2>2. QED
        BY <1>0, <2>1
<1>4. ASSUME NEW p \in Users, Crash(p) PROVE Others(p) /\ Quiet(p)
      BY <1>4, <1>t DEF Crash, WriterGoto
<1>5. ASSUME NEW p \in Users, \/ CommitUnknown(p) \/ NotifyError(p) \/ TakeLockUnknown(p)
                              \/ ReportLostSpuriously(p)
      PROVE  Same
      BY <1>5 DEF CommitUnknown, CommitRows, NotifyError, TakeLockUnknown, ReportLostSpuriously,
                  writerVars
<1>6. ASSUME NEW p \in Users, ListEvents(p) \/ DeleteEvent(p) PROVE Others(p)
      BY <1>6, <1>t DEF ListEvents, DeleteEvent, WriterGoto
<1>7. ASSUME NEW p \in Users, PushEvent(p) \/ RetryEvent(p) PROVE Others(p)
      BY <1>7, <1>t DEF PushEvent, RetryEvent, WriterGoto
<1>8. ASSUME NEW p \in Users, FetchEvent(p) PROVE Others(p)
  <2>1. CASE NextEvent(p) \in events
        BY <1>8, <1>t, <2>1 DEF FetchEvent, WriterGoto
  <2>2. CASE NextEvent(p) \notin events
        BY <1>0, <1>8, <2>2 DEF FetchEvent
  <2>3. QED
        BY <2>1, <2>2
<1>9. ASSUME ReleaseKey \/ ExpireLease \/ UNCHANGED pipelineVars PROVE Same
      BY <1>9 DEF ReleaseKey, ExpireLease, pipelineVars, writerVars
<1>10. ASSUME NEW p \in Users, WriterStep(p) PROVE Others(p) /\ (Busy(p) \/ Quiet(p))
      BY <1>2, <1>3, <1>6, <1>7, <1>8, <1>10, Zenon DEF WriterStep
<1>11. ASSUME NEW p \in Users, FaultStep(p) PROVE Same \/ (Others(p) /\ (Busy(p) \/ Quiet(p)))
      BY <1>2, <1>3, <1>4, <1>5, <1>7, <1>11, Zenon DEF FaultStep
<1> HIDE DEF Same, Others, Quiet, Busy
<1>12. Goal
      BY <1>1, <1>9, <1>10, <1>11, Zenon DEF Next
<1>13. QED
      BY <1>12 DEF Same, Others, Quiet, Busy

\* What has been applied stays applied.
LEMMA AppliedGrows == ASSUME [Next]_pipelineVars PROVE applied \subseteq applied'
<1>1. UNCHANGED etcdVars => applied' = applied
      BY DEF etcdVars
<1>2. \A e : ApplyToEtcd(e) => applied \subseteq applied'
      BY DEF ApplyToEtcd
<1>3. QED
      BY <1>1, <1>2, EtcdSteps

\* A writer deletes a row only after it has applied the event.
LEMMA AppliedFirstStep ==
  ASSUME TypeOK, AppliedFirst, [Next]_pipelineVars
  PROVE  AppliedFirst'
<1> DEFINE Safe(p) ==
      /\ writer[p] \in {"push", "fetch", "delete"} => batch[p] # {}
      /\ writer[p] \in {"fetch", "delete"} =>
           <<NextEvent(p).key, NextEvent(p).no>> \in applied
<1>1. /\ WriterTypeOK /\ applied \subseteq applied' /\ \A p \in Users : Safe(p)
      /\ writer \in [Users -> WriterPC] /\ batch \in [Users -> SUBSET Event]
      BY TypeParts, AppliedGrows DEF AppliedFirst, WriterTypeOK
<1>2. ASSUME NEW q \in Users, batch'[q] = batch[q], writer'[q] = writer[q] PROVE Safe(q)'
  <2>1. NextEvent(q)' = NextEvent(q)
        BY <1>2 DEF NextEvent
  <2>2. QED
        BY <1>1, <1>2, <2>1
<1>3. ASSUME NEW p \in Users, ListEvents(p) PROVE Safe(p)'
  <2>1. batch'[p] = events /\ writer'[p] = IF events = {} THEN "select" ELSE "push"
        BY <1>1, <1>3 DEF ListEvents, WriterGoto
  <2>2. QED
        BY <2>1
<1>4. ASSUME NEW p \in Users, PushEvent(p) PROVE Safe(p)'
  <2>1. /\ writer[p] = "push" /\ writer'[p] = "fetch" /\ batch' = batch
        /\ ApplyToEtcd(NextEvent(p))
        BY <1>1, <1>4 DEF PushEvent, WriterGoto
  <2>2. NextEvent(p)' = NextEvent(p)
        BY <2>1 DEF NextEvent
  <2>3. <<NextEvent(p).key, NextEvent(p).no>> \in applied'
        BY <2>1 DEF ApplyToEtcd
  <2>4. batch[p] # {}
        BY <1>1, <2>1
  <2>5. QED
        BY <2>1, <2>2, <2>3, <2>4
<1>5. ASSUME NEW p \in Users, FetchEvent(p) PROVE Safe(p)'
  <2>1. CASE NextEvent(p) \in events
    <3>1. writer[p] = "fetch" /\ writer'[p] = "delete" /\ batch' = batch
          BY <1>1, <1>5, <2>1 DEF FetchEvent, WriterGoto
    <3>2. NextEvent(p)' = NextEvent(p)
          BY <3>1 DEF NextEvent
    <3>3. batch[p] # {} /\ <<NextEvent(p).key, NextEvent(p).no>> \in applied
          BY <1>1, <3>1
    <3>4. QED
          BY <1>1, <3>1, <3>2, <3>3
  <2>2. CASE NextEvent(p) \notin events
    <3>1. writer'[p] = "unlock"
          BY <1>1, <1>5, <2>2 DEF FetchEvent, RunFails, WriterGoto
    <3>2. QED
          BY <3>1
  <2>3. QED
        BY <2>1, <2>2
<1>6. ASSUME NEW p \in Users, DeleteEvent(p) PROVE Safe(p)'
  <2>1. /\ writer[p] = "delete"
        /\ writer'[p] = IF Cardinality(batch[p]) = 1 THEN "select" ELSE "push"
        /\ batch'[p] = batch[p] \ {NextEvent(p)}
        BY <1>1, <1>6 DEF DeleteEvent, WriterGoto
  <2>2. batch[p] # {}
        BY <1>1, <2>1
  <2>3. ASSUME batch'[p] = {} PROVE Cardinality(batch[p]) = 1
    <3>1. batch[p] = {NextEvent(p)}
          BY <2>1, <2>2, <2>3
    <3>2. QED
          BY <3>1, FS_Singleton, Zenon
  <2>4. QED
        BY <2>1, <2>3
<1>7. ASSUME NEW p \in Users, RetryEvent(p) PROVE Safe(p)'
  <2>1. writer[p] \in {"fetch", "delete"} /\ writer'[p] = "push" /\ batch' = batch
        BY <1>1, <1>7 DEF RetryEvent, WriterGoto
  <2>2. batch[p] # {}
        BY <1>1, <2>1
  <2>3. QED
        BY <2>1, <2>2
<1>8. ASSUME NEW p \in Users, writer'[p] \notin {"push", "fetch", "delete"} PROVE Safe(p)'
      BY <1>8
<1> HIDE DEF Safe
<1>9. \A p \in Users : Safe(p)'
  <2>1. CASE UNCHANGED <<writer, batch>>
        BY <1>2, <2>1
  <2>2. ASSUME NEW p \in Users,
               \A q \in Users : q # p => writer'[q] = writer[q] /\ batch'[q] = batch[q],
               ListEvents(p) \/ PushEvent(p) \/ FetchEvent(p) \/ DeleteEvent(p) \/ RetryEvent(p)
                 \/ writer'[p] \notin {"push", "fetch", "delete"}
        PROVE  \A q \in Users : Safe(q)'
    <3>1. Safe(p)'
          BY <1>3, <1>4, <1>5, <1>6, <1>7, <1>8, <2>2
    <3>2. QED
          BY <1>2, <2>2, <3>1
  <2>3. QED
        BY <1>1, <2>1, <2>2, WriterSteps
<1>10. QED
      BY <1>9 DEF AppliedFirst, Safe

\* No step loses a write that is neither applied nor in the table.
LEMMA AppliedBeforeRemovedStep ==
  ASSUME RowsInv, [Next]_pipelineVars
  PROVE  AppliedBeforeRemoved'
<1>1. /\ applied \subseteq applied' /\ AppliedBeforeRemoved /\ AppliedFirst /\ DbTypeOK
      /\ WriterTypeOK
      BY TypeParts, AppliedGrows DEF RowsInv
<1>2. ASSUME writes' = writes, events \subseteq events' PROVE AppliedBeforeRemoved'
  <2>1. SUFFICES ASSUME NEW k \in Keys, NEW n \in 1 .. writes'[k]
                 PROVE  <<k, n>> \in applied' \/ \E e \in events' : e.key = k /\ e.no = n
        BY DEF AppliedBeforeRemoved
  <2>2. n \in 1 .. writes[k]
        BY <1>2
  <2>3. <<k, n>> \in applied \/ \E e \in events : e.key = k /\ e.no = n
        BY <1>1, <2>2, Zenon DEF AppliedBeforeRemoved
  <2>4. QED
        BY <1>1, <1>2, <2>3
<1>3. ASSUME NEW p \in Users, CommitRows(p) PROVE AppliedBeforeRemoved'
  <2>1. /\ writes' = [k \in Keys |-> WritesIn(p, k)]
        /\ events' = events \cup tx[p]
        BY <1>3 DEF CommitRows
  <2>2. SUFFICES ASSUME NEW k \in Keys, NEW n \in 1 .. writes'[k]
                 PROVE  <<k, n>> \in applied' \/ \E e \in events' : e.key = k /\ e.no = n
        BY DEF AppliedBeforeRemoved
  <2>3. OpenOK(p) /\ writes[k] \in Nat /\ WritesIn(p, k) \in Nat
        BY <1>1, ContentsType, BoundsAreNat DEF RowsInv, DbTypeOK
  <2>4. n \in 1 .. WritesIn(p, k)
        BY <2>1
  <2>5. CASE n <= writes[k]
    <3>1. n \in 1 .. writes[k]
          BY <2>3, <2>4, <2>5
    <3>2. <<k, n>> \in applied \/ \E e \in events : e.key = k /\ e.no = n
          BY <1>1, <3>1 DEF AppliedBeforeRemoved
    <3>3. QED
          BY <1>1, <2>1, <3>2
  <2>6. CASE ~(n <= writes[k])
    <3>1. n \in writes[k] + 1 .. WritesIn(p, k)
          BY <2>3, <2>4, <2>6
    <3>2. \E e \in Own(p, k) : e.no = n
          BY <2>3, <3>1 DEF OpenOK
    <3>3. QED
          BY <2>1, <3>2 DEF Own
  <2>7. QED
        BY <2>5, <2>6
<1>4. ASSUME NEW p \in Users, DeleteEvent(p) \/ Removal(p) PROVE AppliedBeforeRemoved'
  <2>1. /\ writer[p] = "delete" /\ writes' = writes
        /\ events' = events \ {NextEvent(p)}
        BY <1>4 DEF DeleteEvent, Removal, DeleteUnknown
  <2>2. <<NextEvent(p).key, NextEvent(p).no>> \in applied
        BY <1>1, <2>1 DEF AppliedFirst
  <2>3. SUFFICES ASSUME NEW k \in Keys, NEW n \in 1 .. writes'[k]
                 PROVE  <<k, n>> \in applied' \/ \E e \in events' : e.key = k /\ e.no = n
        BY DEF AppliedBeforeRemoved
  <2>4. n \in 1 .. writes[k]
        BY <2>1
  <2>5. <<k, n>> \in applied \/ \E e \in events : e.key = k /\ e.no = n
        BY <1>1, <2>4, Zenon DEF AppliedBeforeRemoved
  <2>6. QED
        BY <1>1, <2>1, <2>2, <2>5
<1>5. ASSUME NEW p \in Users, Rollback(p) \/ Crash(p) PROVE AppliedBeforeRemoved'
  <2>1. writes' = writes /\ events' = events
        BY <1>5 DEF Rollback, Crash
  <2>2. QED
        BY <1>2, <2>1
<1>6. ASSUME NEW p \in Users, NEW k, NEW type, NEW body, LogEvent(p, k, type, body)
      PROVE  AppliedBeforeRemoved'
  <2>1. writes' = writes /\ events' = events
        BY <1>6 DEF LogEvent
  <2>2. QED
        BY <1>2, <2>1
<1>7. QED
      BY <1>2, <1>3, <1>4, <1>5, <1>6, DbSteps

\* RowsInv is inductive.
LEMMA RowsInvStep == RowsInv /\ [Next]_pipelineVars => RowsInv'
<1> SUFFICES ASSUME RowsInv, [Next]_pipelineVars PROVE RowsInv'
    OBVIOUS
<1>1. TypeOK /\ AppliedFirst /\ DbInv
      BY TypeParts DEF RowsInv, DbInv
<1>2. DbInv'
      BY <1>1, OtherTypesStep, DbInvStep
<1>3. TypeOK'
      BY <1>1, <1>2, OtherTypesStep DEF DbInv, TypeOK, DbTypeOK, InformerTypeOK, EtcdTypeOK,
         WriterTypeOK, FaultTypeOK
<1>4. QED
      BY <1>1, <1>2, <1>3, AppliedFirstStep, AppliedBeforeRemovedStep DEF RowsInv, DbInv

\* TableInv is inductive.
LEMMA TableInvStep == TableInv /\ [Next]_pipelineVars => TableInv'
<1> SUFFICES ASSUME TableInv, [Next]_pipelineVars PROVE TableInv'
    OBVIOUS
<1>1. RowsInv' /\ DbInv /\ TableOK
      BY TypeParts, RowsInvStep DEF TableInv, RowsInv, DbInv
<1>2. DbInv'
  <2>1. DbTypeOK'
        BY <1>1 DEF RowsInv, TypeOK, DbTypeOK
  <2>2. QED
        BY <1>1, <2>1 DEF RowsInv, DbInv
<1>3. QED
      BY <1>1, <1>2, TableStep DEF TableInv

\* It holds initially.
LEMMA TableInvInit == Init => TableInv
<1> SUFFICES ASSUME Init PROVE TableInv
    OBVIOUS
<1>1. TypeOK
  <2>1. LockTypeOK /\ WriterTypeOK
        BY DEF Init, LockInit, LockTypeOK, WriterTypeOK, WriterPC
  <2>2. DbTypeOK
        BY BoundsAreNat DEF Init, DbTypeOK
  <2>3. InformerTypeOK
    <3>1. txKey \in BOOLEAN
          BY Zenon DEF Init
    <3>2. chan \in [Users -> 0 .. ChanCap] /\ informer \in [Users -> {"idle", "notify"}]
          BY BoundsAreNat DEF Init
    <3>3. QED
          BY <3>1, <3>2, Zenon DEF InformerTypeOK
  <2>4. EtcdTypeOK
        BY BoundsAreNat DEF Init, EtcdTypeOK
  <2>5. FaultTypeOK
    <3>1. unheard \in BOOLEAN
          BY Zenon DEF Init
    <3>2. faults \in 0 .. MaxFaults /\ crashes \in 0 .. MaxCrashes /\ expiries \in 0 .. MaxExpiries
          BY BoundsAreNat DEF Init
    <3>3. QED
          BY <3>1, <3>2, Zenon DEF FaultTypeOK
  <2>6. QED
        BY <2>1, <2>2, <2>3, <2>4, <2>5, TypeParts
<1>2. \A p \in Users, k \in Keys : Own(p, k) = {} /\ WritesIn(p, k) = 0
      BY FS_EmptySet DEF Init, Own, WritesIn
<1>3. \A p \in Users : OpenOK(p)
      BY <1>2, FS_EmptySet DEF Init, OpenOK, Ordered
<1>4. RowLocks
      BY <1>2 DEF RowLocks
<1>5. RowsOK /\ TableOK /\ AppliedBeforeRemoved
      BY DEF Init, RowsOK, TableOK, Ordered, AppliedBeforeRemoved
<1>6. AppliedFirst
      BY DEF Init, AppliedFirst
<1>7. QED
      BY <1>1, <1>3, <1>4, <1>5, <1>6 DEF TableInv, RowsInv

\* TableInv holds in every reachable state.
THEOREM TableCorrect == Spec => []TableInv
BY TableInvInit, TableInvStep, PTL DEF Spec

\* Every variable of the pipeline stays in its set: the channel transactionCommitted
\* never has more than ChanCap values, an event never more numbers than were logged.
THEOREM PipelineTypeCorrect == Spec => []TypeOK
<1>1. TableInv => TypeOK
      BY DEF TableInv, RowsInv
<1>2. QED
      BY TableCorrect, <1>1, PTL

\* A row leaves the event table only after its change has been applied to etcd,
\* however many writers work beside each other after an expired lease, and
\* whatever fails or crashes.
THEOREM RemovedWereApplied == Spec => []AppliedBeforeRemoved
<1>1. TableInv => AppliedBeforeRemoved
      BY DEF TableInv, RowsInv
<1>2. QED
      BY TableCorrect, <1>1, PTL

-----------------------------------------------------------------------------
(* One writer until a lease expires *)

\* The places of a writer between Lock and Unlock.
Active == {"watch", "select", "push", "fetch", "delete", "unlock"}

\* A number of expired leases is never taken back.
LEMMA ExpiriesGrow ==
  ASSUME TypeOK, [Next]_pipelineVars, expiries' = 0
  PROVE  expiries = 0 /\ ~ExpireLease
<1>1. expiries \in Nat
      BY BoundsAreNat DEF TypeOK
<1>2. ~ExpireLease
      BY <1>1 DEF ExpireLease
<1>3. ASSUME NEW p \in Users, ApiStep(p) \/ InformerStep(p) \/ ReportLost(p)
      PROVE  expiries' = expiries
      BY <1>3 DEF ApiStep, LogEvent, Commit, CommitRows, Rollback, TriggerSyncWriter, InformerStep, Receive,
                  Notify, ReportLost, faultVars
<1>4. ASSUME NEW p \in Users, WriterStep(p) PROVE expiries' = expiries
      BY <1>4 DEF WriterStep, TakeLock, StartWatch, ListEvents, PushEvent, PushUnsyncable,
                  FetchEvent, DeleteEvent, LockLost, Unlock, Backoff, faultVars
<1>5. ASSUME NEW p \in Users, FaultStep(p) PROVE expiries' = expiries
      BY <1>5 DEF FaultStep, CommitUnknown, NotifyError, TakeLockUnknown, PushError, DeleteUnknown,
                  WriterError, RetryEvent, ReportLostSpuriously, Crash, Restart, Fault, faultVars
<1>6. ReleaseKey \/ UNCHANGED pipelineVars => expiries' = expiries
      BY DEF ReleaseKey, pipelineVars, faultVars
<1>7. expiries' = expiries
      BY <1>2, <1>3, <1>4, <1>5, <1>6 DEF Next
<1>8. QED
      BY <1>2, <1>7

\* Two writers that are active are one.
LEMMA OneActive ==
  ASSUME Exclusive, WriterTypeOK, NEW p \in Users, NEW q \in Users,
         writer[p] \in Active, writer[q] \in Active
  PROVE  p = q
BY DEF Exclusive, Sole, Active

\* Table and lists are finite.
LEMMA FiniteStep ==
  ASSUME TableInv, FiniteLists, [Next]_pipelineVars
  PROVE  FiniteLists'
<1>1. /\ WriterTypeOK /\ DbTypeOK /\ IsFiniteSet(events) /\ \A p \in Users : IsFiniteSet(batch[p])
      /\ \A p \in Users : IsFiniteSet(tx[p])
      BY TypeParts DEF TableInv, RowsInv, FiniteLists, OpenOK
<1>2. IsFiniteSet(events')
  <2>1. ASSUME NEW p \in Users, CommitRows(p) PROVE IsFiniteSet(events')
    <3>1. events' = events \cup tx[p]
          BY <2>1 DEF CommitRows
    <3>2. QED
          BY <1>1, <3>1, FS_Union
  <2>2. ASSUME NEW p \in Users, DeleteEvent(p) \/ Removal(p) PROVE IsFiniteSet(events')
    <3>1. events' \subseteq events
          BY <2>2 DEF DeleteEvent, Removal, DeleteUnknown
    <3>2. QED
          BY <1>1, <3>1, FS_Subset
  <2>3. ASSUME NEW p \in Users, Rollback(p) \/ Crash(p) PROVE events' = events
        BY <2>3 DEF Rollback, Crash
  <2>4. ASSUME NEW p \in Users, NEW k, NEW type, NEW body, LogEvent(p, k, type, body)
        PROVE  events' = events
        BY <2>4 DEF LogEvent
  <2>5. QED
        BY <1>1, <2>1, <2>2, <2>3, <2>4, DbSteps
<1>3. \A p \in Users : IsFiniteSet(batch'[p])
  <2>1. ASSUME NEW p \in Users, ListEvents(p) PROVE batch'[p] = events
        BY <1>1, <2>1 DEF ListEvents, WriterTypeOK
  <2>2. ASSUME NEW p \in Users, PushEvent(p) \/ RetryEvent(p) PROVE batch'[p] = batch[p]
        BY <2>2 DEF PushEvent, RetryEvent
  <2>3. ASSUME NEW p \in Users, FetchEvent(p) PROVE batch'[p] \in {batch[p], {}}
        BY <1>1, <2>3 DEF FetchEvent, RunFails, WriterTypeOK
  <2>4. ASSUME NEW p \in Users, DeleteEvent(p) PROVE batch'[p] \subseteq batch[p]
        BY <1>1, <2>4 DEF DeleteEvent, WriterTypeOK
  <2>5. IsFiniteSet({})
        BY FS_EmptySet
  <2>6. ASSUME NEW p \in Users,
               ListEvents(p) \/ PushEvent(p) \/ FetchEvent(p) \/ DeleteEvent(p) \/ RetryEvent(p)
                 \/ batch'[p] \in {batch[p], {}}
        PROVE  IsFiniteSet(batch'[p])
        BY <1>1, <2>1, <2>2, <2>3, <2>4, <2>5, <2>6, FS_Subset
  <2>7. QED
        BY <1>1, <2>6, WriterSteps
<1>4. QED
      BY <1>2, <1>3 DEF FiniteLists

\* Without an expiry the lock keeps the writers apart.
LEMMA ExclusiveStep ==
  ASSUME TableInv, Exclusive, FiniteLists, [Next]_pipelineVars, ~ExpireLease
  PROVE  Exclusive'
<1>1. /\ writer \in [Users -> WriterPC] /\ batch \in [Users -> SUBSET Event]
      /\ inside \subseteq Users /\ inside \subseteq {holder}
      /\ \A p \in Users : Sole(p)
      /\ \A p \in Users : writer[p] \in {"push", "fetch", "delete"} => batch[p] # {}
      /\ \A p \in Users : IsFiniteSet(batch[p])
      /\ WriterTypeOK
      BY TypeParts DEF TableInv, RowsInv, TypeOK, LockTypeOK, Exclusive, AppliedFirst, FiniteLists,
                       WriterTypeOK
<1>2. ASSUME UNCHANGED <<writer, batch, holder, inside>> PROVE Exclusive'
      BY <1>1, <1>2 DEF Exclusive, Sole
<1>3. ASSUME NEW p \in Users, writer[p] \in Active, UNCHANGED <<holder, inside>>,
             \A q \in Users : q # p => writer'[q] = writer[q] /\ batch'[q] = batch[q],
             batch'[p] # {} => writer'[p] \in {"push", "fetch", "delete"}
      PROVE  Exclusive'
      BY <1>1, <1>3 DEF Exclusive, Sole, Active
<1>4. ASSUME NEW p \in Users, RunFails(p)
      PROVE  /\ batch'[p] = {}
             /\ \A q \in Users : q # p => writer'[q] = writer[q] /\ batch'[q] = batch[q]
      BY <1>1, <1>4 DEF RunFails, WriterGoto
<1>5. ASSUME NEW p \in Users,
             ApiStep(p) \/ InformerStep(p) \/ ReportLost(p) \/ CommitUnknown(p) \/ NotifyError(p)
               \/ ReportLostSpuriously(p)
      PROVE  Exclusive'
  <2>1. UNCHANGED <<writer, batch, holder, inside>>
    <3>1. CASE ApiStep(p) \/ CommitUnknown(p)
          BY <3>1 DEF ApiStep, LogEvent, Commit, CommitUnknown, CommitRows, Rollback,
                      TriggerSyncWriter, writerVars, lockVars
    <3>2. CASE InformerStep(p) \/ NotifyError(p)
          BY <3>2 DEF InformerStep, Receive, Notify, NotifyError, writerVars, lockVars
    <3>3. CASE ReportLost(p) \/ ReportLostSpuriously(p)
          BY <3>3 DEF ReportLost, ReportLostSpuriously, SignalLost, writerVars
    <3>4. QED
          BY <1>5, <3>1, <3>2, <3>3
  <2>2. QED
        BY <1>2, <2>1
<1>6. ASSUME NEW p \in Users, TakeLock(p) PROVE Exclusive'
  <2>1. /\ holder = NoUser /\ holder' = p /\ inside' = inside \cup {p} /\ batch' = batch
        /\ writer[p] = "lock" /\ writer' = [writer EXCEPT ![p] = "watch"]
        BY <1>6 DEF TakeLock, Acquire, WriterGoto
  <2>2. inside = {}
        BY <1>1, <2>1, NoUserAssumption
  <2>3. QED
        BY <1>1, <2>1, <2>2 DEF Exclusive, Sole
<1>7. ASSUME NEW p \in Users, TakeLockUnknown(p) PROVE Exclusive'
  <2>1. holder = NoUser /\ inside' = inside /\ UNCHANGED <<writer, batch>>
        BY <1>7 DEF TakeLockUnknown, AcquireUnknown, writerVars
  <2>2. inside = {}
        BY <1>1, <2>1, NoUserAssumption
  <2>3. QED
        BY <1>1, <2>1, <2>2 DEF Exclusive, Sole
<1>8. ASSUME NEW p \in Users, StartWatch(p) \/ PushEvent(p) \/ RetryEvent(p) PROVE Exclusive'
  <2>1. /\ writer[p] \in Active /\ UNCHANGED <<holder, inside, batch>>
        /\ \A q \in Users : q # p => writer'[q] = writer[q]
        /\ writer[p] = "watch" \/ writer'[p] \in {"push", "fetch"}
        BY <1>1, <1>8 DEF StartWatch, PushEvent, RetryEvent, WriterGoto, Active, lockVars
  <2>2. batch'[p] # {} => writer'[p] \in {"push", "fetch", "delete"}
        BY <1>1, <2>1 DEF Sole
  <2>3. QED
        BY <1>3, <2>1, <2>2
<1>9. ASSUME NEW p \in Users, ListEvents(p) PROVE Exclusive'
  <2>1. /\ writer[p] \in Active /\ UNCHANGED <<holder, inside>>
        /\ \A q \in Users : q # p => writer'[q] = writer[q] /\ batch'[q] = batch[q]
        /\ batch'[p] # {} => writer'[p] = "push"
        BY <1>1, <1>9 DEF ListEvents, WriterGoto, Active, lockVars
  <2>2. QED
        BY <1>3, <2>1
<1>10. ASSUME NEW p \in Users, DeleteEvent(p) PROVE Exclusive'
  <2>1. /\ writer[p] \in Active /\ UNCHANGED <<holder, inside>> /\ writer[p] = "delete"
        /\ \A q \in Users : q # p => writer'[q] = writer[q] /\ batch'[q] = batch[q]
        /\ writer'[p] = IF Cardinality(batch[p]) = 1 THEN "select" ELSE "push"
        /\ batch'[p] = batch[p] \ {NextEvent(p)}
        BY <1>1, <1>10 DEF DeleteEvent, WriterGoto, Active, lockVars
  <2>2. NextEvent(p) \in batch[p]
        BY <1>1, <2>1, NextEventType DEF TableInv, RowsInv
  <2>3. ASSUME Cardinality(batch[p]) = 1 PROVE batch'[p] = {}
    <3>1. PICK x : batch[p] = {x}
          BY <1>1, <2>3, FS_Singleton
    <3>2. QED
          BY <2>1, <2>2, <3>1
  <2>4. batch'[p] # {} => writer'[p] \in {"push", "fetch", "delete"}
        BY <2>1, <2>3
  <2>5. QED
        BY <1>3, <2>1, <2>4
<1>11. ASSUME NEW p \in Users, \/ PushUnsyncable(p) \/ LockLost(p) \/ PushError(p)
                               \/ DeleteUnknown(p, "delete") \/ WriterError(p)
       PROVE  Exclusive'
  <2>1. writer[p] \in Active /\ RunFails(p) /\ UNCHANGED <<holder, inside>>
        BY <1>11 DEF PushUnsyncable, LockLost, PushError, DeleteUnknown, WriterError, Active, lockVars
  <2>2. QED
        BY <1>3, <1>4, <2>1
<1>12. ASSUME NEW p \in Users, FetchEvent(p) PROVE Exclusive'
  <2>1. writer[p] \in Active /\ UNCHANGED <<holder, inside>>
        BY <1>12 DEF FetchEvent, Active, lockVars
  <2>2. CASE NextEvent(p) \in events
    <3>1. /\ \A q \in Users : q # p => writer'[q] = writer[q] /\ batch'[q] = batch[q]
          /\ writer'[p] = "delete"
          BY <1>1, <1>12, <2>2 DEF FetchEvent, WriterGoto
    <3>2. QED
          BY <1>3, <2>1, <3>1
  <2>3. CASE NextEvent(p) \notin events
    <3>1. RunFails(p)
          BY <1>12, <2>3 DEF FetchEvent
    <3>2. QED
          BY <1>3, <1>4, <2>1, <3>1
  <2>4. QED
        BY <2>2, <2>3
<1>13. ASSUME NEW p \in Users, Unlock(p) PROVE Exclusive'
  <2>1. /\ writer[p] = "unlock" /\ writer' = [writer EXCEPT ![p] = "backoff"] /\ batch' = batch
        /\ inside' = inside \ {p} /\ holder' = holder
        BY <1>13 DEF Unlock, Leave, WriterGoto
  <2>2. ASSUME NEW q \in Users PROVE Sole(q)'
    <3>1. CASE q = p
          BY <1>1, <2>1, <3>1 DEF Sole
    <3>2. CASE q # p
          BY <1>1, <2>1, <3>2 DEF Sole
    <3>3. QED
          BY <3>1, <3>2
  <2>3. QED
        BY <1>1, <2>1, <2>2 DEF Exclusive
<1>14. ASSUME NEW p \in Users, Backoff(p) \/ Restart(p) PROVE Exclusive'
  <2>1. /\ writer[p] \in {"backoff", "dead"} /\ writer' = [writer EXCEPT ![p] = "lock"]
        /\ UNCHANGED <<batch, holder, inside>>
        BY <1>14 DEF Backoff, Restart, WriterGoto, lockVars
  <2>2. ASSUME NEW q \in Users PROVE Sole(q)'
    <3>1. CASE q = p
          BY <1>1, <2>1, <3>1 DEF Sole
    <3>2. CASE q # p
          BY <1>1, <2>1, <3>2 DEF Sole
    <3>3. QED
          BY <3>1, <3>2
  <2>3. QED
        BY <1>1, <2>1, <2>2 DEF Exclusive
<1>15. ASSUME NEW p \in Users, Crash(p) PROVE Exclusive'
  <2>1. /\ writer' = [writer EXCEPT ![p] = "dead"] /\ batch' = [batch EXCEPT ![p] = {}]
        /\ inside' = inside \ {p} /\ holder' = holder
        BY <1>15 DEF Crash, Leave, WriterGoto, lockVars
  <2>2. ASSUME NEW q \in Users PROVE Sole(q)'
    <3>1. CASE q = p
          BY <1>1, <2>1, <3>1 DEF Sole
    <3>2. CASE q # p
          BY <1>1, <2>1, <3>2 DEF Sole
    <3>3. QED
          BY <3>1, <3>2
  <2>3. QED
        BY <1>1, <2>1, <2>2 DEF Exclusive
<1>16. ASSUME ReleaseKey PROVE Exclusive'
  <2>1. /\ holder \notin inside /\ inside' = inside
        /\ UNCHANGED <<writer, batch>>
        BY <1>16 DEF ReleaseKey, Drop, writerVars
  <2>2. inside = {}
        BY <1>1, <2>1
  <2>3. QED
        BY <1>1, <2>1, <2>2 DEF Exclusive, Sole
<1>17. ASSUME UNCHANGED pipelineVars PROVE Exclusive'
  <2>1. UNCHANGED <<writer, batch, holder, inside>>
        BY <1>17 DEF pipelineVars, writerVars, lockVars
  <2>2. QED
        BY <1>2, <2>1
<1>18. ASSUME NEW p \in Users, WriterStep(p) PROVE Exclusive'
      BY <1>6, <1>8, <1>9, <1>10, <1>11, <1>12, <1>13, <1>14, <1>18, Zenon DEF WriterStep
<1>19. ASSUME NEW p \in Users, FaultStep(p) PROVE Exclusive'
      BY <1>5, <1>7, <1>8, <1>11, <1>14, <1>15, <1>19, Zenon DEF FaultStep
<1>20. QED
      BY <1>5, <1>16, <1>17, <1>18, <1>19 DEF Next

-----------------------------------------------------------------------------
(* No change is forgotten, and the copy moves forward *)

\* What SoleInv says beside who is the writer, for every value of expiries.
CopyInv ==
  /\ \A p \in Users : BatchOK(p)
  /\ RowsReachEnd
  /\ "empty" \notin Bodies => NoChangeForgotten

\* The event a writer handles is the first of its resource in the table.
LEMMA FirstOfKey ==
  ASSUME TableInv, NEW p \in Users, BatchOK(p), writer[p] \in {"push", "fetch", "delete"}
  PROVE  /\ NextEvent(p) \in events /\ NextEvent(p) \in batch[p] /\ NextEvent(p) \in Event
         /\ \A e \in events : e.key = NextEvent(p).key /\ e # NextEvent(p)
                                => NextEvent(p).no < e.no
<1> DEFINE first == NextEvent(p)
<1>1. first \in events /\ first \in batch[p] /\ first \in Event /\ \A f \in batch[p] : first.id <= f.id
      BY TypeParts, NextEventType DEF TableInv, RowsInv, BatchOK
<1>2. events \subseteq Event /\ Ordered(events)
      BY DEF TableInv, RowsInv, TypeOK, TableOK
<1>3. \A e \in Event : e.id \in Nat /\ e.no \in Nat
      BY BoundsAreNat DEF Event
<1> HIDE DEF first
<1>4. ASSUME NEW e \in events, e.key = first.key, e # first PROVE first.no < e.no
  <2>1. \/ e.id < first.id /\ e.no < first.no
        \/ first.id < e.id /\ first.no < e.no
        BY <1>1, <1>2, <1>4 DEF Ordered
  <2>2. ASSUME e.id < first.id, e.no < first.no PROVE FALSE
    <3>1. e \in batch[p]
          BY <1>1, <1>4, <2>2 DEF BatchOK
    <3>2. QED
          BY <1>1, <1>2, <1>3, <2>2, <3>1
  <2>3. QED
        BY <2>1, <2>2
<1>5. QED
      BY <1>1, <1>4 DEF first

\* A process without a list that is not handling an event.
LEMMA NoBatch ==
  ASSUME NEW p \in Users, batch'[p] = {}, writer'[p] \notin {"fetch", "delete"}
  PROVE  BatchOK(p)'
BY DEF BatchOK

\* When a transaction commits, its rows follow the committed ones.
LEMMA CopyCommit ==
  ASSUME TableInv, CopyInv, NEW c \in Users, CommitRows(c)
  PROVE  CopyInv'
<1>1. /\ DbTypeOK /\ EtcdTypeOK /\ OpenOK(c) /\ RowsOK
      /\ writes' = [k \in Keys |-> WritesIn(c, k)]
      /\ db' = [k \in Keys |-> ContentsIn(c, k)]
      /\ events' = events \cup tx[c]
      /\ UNCHANGED <<etcd, copied, writer, batch>>
      BY TypeParts DEF TableInv, RowsInv, CommitRows, etcdVars, writerVars
<1>2. \A k \in Keys : /\ writes[k] \in Nat /\ WritesIn(c, k) \in Nat /\ copied[k] \in Nat
                      /\ writes'[k] = WritesIn(c, k)
      BY <1>1, ContentsType, BoundsAreNat DEF DbTypeOK, EtcdTypeOK
<1>3. \A k \in Keys : writes[k] <= WritesIn(c, k)
  <2>1. TAKE k \in Keys
  <2>2. IsFiniteSet(Own(c, k))
        BY <1>1, FS_Subset DEF OpenOK, Own
  <2>3. Cardinality(Own(c, k)) \in Nat
        BY <2>2, FS_CardinalityType
  <2>4. QED
        BY <1>2, <2>3 DEF WritesIn
<1>4. events \subseteq Event /\ tx[c] \subseteq Event /\ \A e \in Event : e.no \in Nat /\ e.key \in Keys
      BY <1>1, BoundsAreNat DEF DbTypeOK, Event
<1>5. \A e \in tx[c] : writes[e.key] < e.no /\ e.no <= WritesIn(c, e.key)
      BY <1>1, <1>4 DEF OpenOK, Own
<1>6. \A k \in Keys : \A n \in writes[k] + 1 .. WritesIn(c, k) :
        \E f \in events' : f.key = k /\ f.no = n
      BY <1>1 DEF OpenOK, Own
<1>7. ASSUME NEW p \in Users PROVE BatchOK(p)'
  <2>1. BatchOK(p) /\ batch'[p] = batch[p] /\ writer'[p] = writer[p] /\ NextEvent(p)' = NextEvent(p)
        BY <1>1 DEF CopyInv, NextEvent
  <2>2. batch[p] \subseteq events'
        BY <1>1, <2>1 DEF BatchOK
  <2>3. ASSUME NEW e \in batch[p], NEW f \in events', f.key = e.key, f.no < e.no
        PROVE  f \in batch[p]
    <3>1. e \in events /\ e.no <= writes[e.key]
          BY <1>1, <2>1 DEF BatchOK, RowsOK
    <3>2. CASE f \in events
          BY <2>1, <2>3, <3>2 DEF BatchOK
    <3>3. CASE f \in tx[c]
      <4>1. writes[e.key] < f.no
            BY <1>5, <2>3, <3>3
      <4>2. e.no \in Nat /\ f.no \in Nat /\ writes[e.key] \in Nat
            BY <1>2, <1>4, <3>1, <3>3
      <4>3. QED
            BY <2>3, <3>1, <4>1, <4>2
    <3>4. QED
          BY <1>1, <3>2, <3>3
  <2>4. writer[p] \in {"fetch", "delete"} =>
          /\ copied'[NextEvent(p).key] = NextEvent(p).no
          /\ "empty" \notin Bodies => etcd'[NextEvent(p).key] = ValueOf(NextEvent(p))
        BY <1>1, <2>1 DEF BatchOK
  <2>5. QED
        BY <2>1, <2>2, <2>3, <2>4 DEF BatchOK, ValueOf
<1>8. RowsReachEnd'
  <2>1. ASSUME NEW e \in events', NEW n \in e.no .. writes'[e.key]
        PROVE  \E f \in events' : f.key = e.key /\ f.no = n
    <3>1. e.key \in Keys /\ e.no \in Nat
          BY <1>1, <1>4
    <3>2. n \in Nat /\ e.no <= n /\ n <= WritesIn(c, e.key)
          BY <1>2, <3>1
    <3>3. CASE writes[e.key] < n
          BY <1>2, <1>6, <3>1, <3>2, <3>3
    <3>4. CASE n <= writes[e.key]
      <4>1. e \notin tx[c]
            BY <1>2, <1>5, <3>1, <3>2, <3>4
      <4>2. e \in events /\ n \in e.no .. writes[e.key]
            BY <1>1, <1>2, <3>1, <3>2, <3>4, <4>1
      <4>3. \E f \in events : f.key = e.key /\ f.no = n
            BY <4>2, Zenon DEF CopyInv, RowsReachEnd
      <4>4. QED
            BY <1>1, <4>3
    <3>5. QED
          BY <1>2, <3>1, <3>2, <3>3, <3>4
  <2>2. ASSUME NEW e \in events' PROVE copied'[e.key] <= e.no
    <3>1. e.key \in Keys /\ e.no \in Nat
          BY <1>1, <1>4
    <3>2. CASE e \in events
          BY <1>1, <3>2 DEF CopyInv, RowsReachEnd
    <3>3. CASE e \in tx[c]
      <4>1. copied[e.key] <= writes[e.key] /\ writes[e.key] < e.no
            BY <1>5, <3>1, <3>3 DEF CopyInv, RowsReachEnd
      <4>2. QED
            BY <1>1, <1>2, <3>1, <4>1
    <3>4. QED
          BY <1>1, <3>2, <3>3
  <2>3. ASSUME NEW k \in Keys PROVE copied'[k] <= writes'[k]
    <3>1. copied[k] <= writes[k]
          BY DEF CopyInv, RowsReachEnd
    <3>2. QED
          BY <1>1, <1>2, <1>3, <3>1
  <2>4. QED
        BY <2>1, <2>2, <2>3 DEF RowsReachEnd
<1>9. ASSUME "empty" \notin Bodies PROVE NoChangeForgotten'
  <2>1. SUFFICES ASSUME NEW k \in Keys
                 PROVE  etcd'[k] = db'[k] \/ \E e \in events' : e.key = k /\ e.no = writes'[k]
        BY DEF NoChangeForgotten
  <2>2. CASE Own(c, k) = {}
    <3>1. WritesIn(c, k) = writes[k] /\ ContentsIn(c, k) = db[k]
          BY <1>2, <2>2, FS_EmptySet DEF WritesIn, ContentsIn
    <3>2. etcd[k] = db[k] \/ \E e \in events : e.key = k /\ e.no = writes[k]
          BY <1>9 DEF CopyInv, NoChangeForgotten
    <3>3. QED
          BY <1>1, <3>1, <3>2
  <2>3. CASE Own(c, k) # {}
    <3>1. Latest(Own(c, k)) \in Own(c, k) /\ Latest(Own(c, k)).no = WritesIn(c, k)
          BY <1>1, <2>3, LatestExists
    <3>2. QED
          BY <1>1, <3>1 DEF Own
  <2>4. QED
        BY <2>2, <2>3
<1>10. QED
      BY <1>7, <1>8, <1>9 DEF CopyInv

\* Removing the first row of a resource, which has been applied.
LEMMA CopyDelete ==
  ASSUME TableInv, Exclusive, Exclusive', CopyInv, NEW p \in Users, DeleteEvent(p) \/ Removal(p)
  PROVE  CopyInv'
<1> DEFINE first == NextEvent(p)
<1>1. /\ WriterTypeOK /\ DbTypeOK /\ TableOK /\ BatchOK(p) /\ writer[p] = "delete"
      /\ events' = events \ {first}
      /\ batch'[p] \in {batch[p] \ {first}, {}} /\ writer'[p] \in {"select", "push", "unlock"}
      /\ \A q \in Users : q # p => writer'[q] = writer[q] /\ batch'[q] = batch[q]
      /\ UNCHANGED <<db, writes, etcd, copied>>
  <2>1. WriterTypeOK /\ DbTypeOK /\ TableOK /\ BatchOK(p)
        BY TypeParts DEF TableInv, RowsInv, CopyInv
  <2>2. CASE DeleteEvent(p)
        BY <2>1, <2>2 DEF DeleteEvent, WriterGoto, etcdVars, WriterTypeOK
  <2>3. CASE Removal(p)
        BY <2>1, <2>3 DEF Removal, DeleteUnknown, RunFails, WriterGoto, etcdVars, WriterTypeOK
  <2>4. QED
        BY <2>1, <2>2, <2>3
<1>2. /\ first \in events /\ first \in batch[p] /\ first \in Event
      /\ \A e \in events : e.key = first.key /\ e # first => first.no < e.no
      BY <1>1, FirstOfKey
<1>3. /\ copied[first.key] = first.no
      /\ "empty" \notin Bodies => etcd[first.key] = ValueOf(first)
      BY <1>1 DEF BatchOK
<1> HIDE DEF first
<1>4. \A e \in Event : e.no \in Nat /\ e.key \in Keys
      BY BoundsAreNat DEF Event
<1>5. events \subseteq Event /\ writes \in [Keys -> 0 .. MaxEvents] /\ MaxEvents \in Nat
      BY <1>1, BoundsAreNat DEF DbTypeOK
<1>6. ASSUME NEW q \in Users PROVE BatchOK(q)'
  <2>1. CASE q = p
    <3>1. writer'[q] \notin {"fetch", "delete"}
          BY <1>1, <2>1
    <3>2. CASE batch'[q] = {}
          BY <3>1, <3>2, NoBatch
    <3>3. CASE batch'[q] = batch[p] \ {first}
          BY <1>1, <2>1, <3>1, <3>3 DEF BatchOK
    <3>4. QED
          BY <1>1, <2>1, <3>2, <3>3
  <2>2. CASE q # p
    <3>1. writer[q] \notin Active
          BY <1>1, <2>2, OneActive DEF Active
    <3>2. batch[q] = {} /\ writer'[q] = writer[q] /\ batch'[q] = batch[q]
          BY <1>1, <2>2, <3>1 DEF Exclusive, Sole, Active, WriterTypeOK
    <3>3. QED
          BY <3>1, <3>2, NoBatch DEF Active
  <2>3. QED
        BY <2>1, <2>2
<1>7. RowsReachEnd'
  <2>1. ASSUME NEW e \in events', NEW n \in e.no .. writes'[e.key]
        PROVE  \E f \in events' : f.key = e.key /\ f.no = n
    <3>1. e \in events /\ e # first /\ n \in e.no .. writes[e.key]
          BY <1>1
    <3>2. PICK f \in events : f.key = e.key /\ f.no = n
          BY <3>1, Zenon DEF CopyInv, RowsReachEnd
    <3>3. ASSUME f = first PROVE FALSE
      <4>1. first.no < e.no
            BY <1>2, <3>1, <3>2, <3>3
      <4>2. first.no \in Nat /\ e.no \in Nat /\ e.no <= n /\ writes[e.key] \in Nat
            BY <1>2, <1>4, <1>5, <3>1
      <4>3. QED
            BY <3>1, <3>2, <3>3, <4>1, <4>2
    <3>4. QED
          BY <1>1, <3>2, <3>3
  <2>2. \A e \in events' : copied'[e.key] <= e.no
        BY <1>1 DEF CopyInv, RowsReachEnd
  <2>3. \A k \in Keys : copied'[k] <= writes'[k]
        BY <1>1 DEF CopyInv, RowsReachEnd
  <2>4. QED
        BY <2>1, <2>2, <2>3 DEF RowsReachEnd
<1>8. ASSUME "empty" \notin Bodies PROVE NoChangeForgotten'
  <2>1. SUFFICES ASSUME NEW k \in Keys
                 PROVE  etcd'[k] = db'[k] \/ \E e \in events' : e.key = k /\ e.no = writes'[k]
        BY DEF NoChangeForgotten
  <2>2. etcd[k] = db[k] \/ \E e \in events : e.key = k /\ e.no = writes[k]
        BY <1>8 DEF CopyInv, NoChangeForgotten
  <2>3. CASE first.key = k /\ first.no = writes[k]
    <3>1. db[k] = ValueOf(first)
          BY <1>1, <1>2, <2>3 DEF TableOK
    <3>2. QED
          BY <1>1, <1>3, <1>8, <2>3, <3>1
  <2>4. CASE ~(first.key = k /\ first.no = writes[k])
        BY <1>1, <2>2, <2>4
  <2>5. QED
        BY <2>3, <2>4
<1>9. QED
      BY <1>6, <1>7, <1>8 DEF CopyInv

\* Applying the first event of a resource.
LEMMA CopyPush ==
  ASSUME TableInv, Exclusive, CopyInv, NEW p \in Users, PushEvent(p) \/ PushError(p),
         writer[p] = "push", ApplyToEtcd(NextEvent(p))
  PROVE  /\ CopyInv'
         /\ NextEvent(p).key \in Keys
         /\ NextEvent(p).no \in copied[NextEvent(p).key] .. writes[NextEvent(p).key]
         /\ copied' = [copied EXCEPT ![NextEvent(p).key] = NextEvent(p).no]
         /\ writes' = writes
<1> DEFINE first == NextEvent(p)
<1>1. /\ WriterTypeOK /\ DbTypeOK /\ EtcdTypeOK /\ RowsOK /\ TableOK /\ BatchOK(p)
      /\ UNCHANGED <<db, writes, events>>
      BY TypeParts DEF TableInv, RowsInv, CopyInv, PushEvent, PushError, dbVars
<1>2. /\ first \in events /\ first \in batch[p] /\ first \in Event
      /\ \A e \in events : e.key = first.key /\ e # first => first.no < e.no
      BY <1>1, FirstOfKey
<1>3. /\ etcd' = [etcd EXCEPT ![first.key] =
                    IF first.type = "delete" THEN 0
                    ELSE IF first.body = "empty" THEN etcd[first.key] ELSE first.no]
      /\ copied' = [copied EXCEPT ![first.key] = first.no]
      BY DEF ApplyToEtcd
<1>4. \/ batch'[p] = {} /\ writer'[p] = "unlock"
      \/ batch'[p] = batch[p] /\ NextEvent(p)' = first
  <2>1. PushEvent(p) => batch'[p] = batch[p] /\ NextEvent(p)' = first
        BY DEF PushEvent, NextEvent
  <2>2. PushError(p) => batch'[p] = {} /\ writer'[p] = "unlock"
        BY <1>1 DEF PushError, RunFails, WriterGoto, WriterTypeOK
  <2>3. QED
        BY <2>1, <2>2
<1>5. \A q \in Users : q # p => writer'[q] = writer[q] /\ batch'[q] = batch[q]
  <2>1. PushEvent(p) => \A q \in Users : q # p => writer'[q] = writer[q] /\ batch'[q] = batch[q]
        BY <1>1 DEF PushEvent, WriterGoto, WriterTypeOK
  <2>2. PushError(p) => \A q \in Users : q # p => writer'[q] = writer[q] /\ batch'[q] = batch[q]
        BY <1>1 DEF PushError, RunFails, WriterGoto, WriterTypeOK
  <2>3. QED
        BY <2>1, <2>2
<1> HIDE DEF first
<1>6. \A e \in Event : e.no \in Nat /\ e.key \in Keys
      BY BoundsAreNat DEF Event
<1>7. /\ events \subseteq Event /\ writes \in [Keys -> 0 .. MaxEvents] /\ MaxEvents \in Nat
      /\ copied \in [Keys -> 0 .. MaxEvents] /\ etcd \in [Keys -> 0 .. MaxEvents]
      BY <1>1, BoundsAreNat DEF DbTypeOK, EtcdTypeOK
<1>8. /\ first.key \in Keys /\ first.no \in Nat /\ first.body \in Bodies
      /\ copied[first.key] <= first.no /\ first.no <= writes[first.key]
      BY <1>1, <1>2, <1>6 DEF RowsOK, CopyInv, RowsReachEnd
<1>9. first.no \in copied[first.key] .. writes[first.key]
  <2>1. copied[first.key] \in Nat /\ writes[first.key] \in Nat
        BY <1>7, <1>8
  <2>2. QED
        BY <1>8, <2>1
<1>10. ASSUME NEW q \in Users PROVE BatchOK(q)'
  <2>1. CASE q = p
    <3>1. CASE batch'[p] = {} /\ writer'[p] = "unlock"
          BY <2>1, <3>1, NoBatch
    <3>2. CASE batch'[p] = batch[p] /\ NextEvent(p)' = first
      <4>1. /\ batch'[p] \subseteq events'
            /\ \A e \in batch'[p], f \in events' : f.key = e.key /\ f.no < e.no => f \in batch'[p]
            BY <1>1, <3>2 DEF BatchOK
      <4>2. copied'[first.key] = first.no
            BY <1>3, <1>7, <1>8
      <4>3. "empty" \notin Bodies => etcd'[first.key] = ValueOf(first)
            BY <1>3, <1>7, <1>8 DEF ValueOf
      <4>4. QED
            BY <2>1, <3>2, <4>1, <4>2, <4>3 DEF BatchOK, ValueOf
    <3>3. QED
          BY <1>4, <3>1, <3>2
  <2>2. CASE q # p
    <3>1. writer[q] \notin Active
          BY <1>1, <2>2, OneActive DEF Active
    <3>2. batch[q] = {} /\ writer'[q] = writer[q] /\ batch'[q] = batch[q]
          BY <1>5, <2>2, <3>1 DEF Exclusive, Sole, Active
    <3>3. QED
          BY <3>1, <3>2, NoBatch DEF Active
  <2>3. QED
        BY <2>1, <2>2
<1>11. RowsReachEnd'
  <2>1. \A e \in events' : \A n \in e.no .. writes'[e.key] :
          \E f \in events' : f.key = e.key /\ f.no = n
        BY <1>1, Zenon DEF CopyInv, RowsReachEnd
  <2>2. ASSUME NEW e \in events' PROVE copied'[e.key] <= e.no
    <3>1. e \in events /\ e.key \in Keys /\ e.no \in Nat
          BY <1>1, <1>6, <1>7
    <3>2. CASE e.key = first.key
      <4>1. copied'[e.key] = first.no
            BY <1>3, <1>7, <1>8, <3>2
      <4>2. e = first \/ first.no < e.no
            BY <1>2, <3>1, <3>2
      <4>3. QED
            BY <1>8, <3>1, <4>1, <4>2
    <3>3. CASE e.key # first.key
      <4>1. copied'[e.key] = copied[e.key]
            BY <1>3, <1>7, <3>1, <3>3
      <4>2. QED
            BY <3>1, <4>1 DEF CopyInv, RowsReachEnd
    <3>4. QED
          BY <3>2, <3>3
  <2>3. ASSUME NEW k \in Keys PROVE copied'[k] <= writes'[k]
    <3>1. copied'[k] = IF k = first.key THEN first.no ELSE copied[k]
          BY <1>3, <1>7
    <3>2. copied[k] <= writes[k]
          BY DEF CopyInv, RowsReachEnd
    <3>3. QED
          BY <1>1, <1>8, <3>1, <3>2
  <2>4. QED
        BY <2>1, <2>2, <2>3 DEF RowsReachEnd
<1>12. ASSUME "empty" \notin Bodies PROVE NoChangeForgotten'
  <2>1. SUFFICES ASSUME NEW k \in Keys
                 PROVE  etcd'[k] = db'[k] \/ \E e \in events' : e.key = k /\ e.no = writes'[k]
        BY DEF NoChangeForgotten
  <2>2. CASE k = first.key
    <3>1. writes[k] \in first.no .. writes[k]
      <4>1. writes[k] \in Nat
            BY <1>7
      <4>2. QED
            BY <1>8, <2>2, <4>1
    <3>2. \E f \in events : f.key = k /\ f.no = writes[k]
          BY <1>2, <2>2, <3>1, Zenon DEF CopyInv, RowsReachEnd
    <3>3. QED
          BY <1>1, <3>2
  <2>3. CASE k # first.key
    <3>1. etcd'[k] = etcd[k]
          BY <1>3, <1>7, <2>3
    <3>2. etcd[k] = db[k] \/ \E e \in events : e.key = k /\ e.no = writes[k]
          BY <1>12 DEF CopyInv, NoChangeForgotten
    <3>3. QED
          BY <1>1, <3>1, <3>2
  <2>4. QED
        BY <2>2, <2>3
<1>13. QED
      BY <1>1, <1>3, <1>8, <1>9, <1>10, <1>11, <1>12 DEF CopyInv, first

\* Steps that change neither the table nor etcd: a writer moves on or gives up,
\* or reads the table.
LEMMA CopySame ==
  ASSUME TableInv, CopyInv, UNCHANGED <<db, writes, events, etcd, copied>>,
         NEW q \in Users,
         \/ writer'[q] = writer[q] /\ batch'[q] = batch[q]
         \/ ListEvents(q) \/ FetchEvent(q) \/ RetryEvent(q)
         \/ writer'[q] \notin {"push", "fetch", "delete"} /\ batch'[q] \in {batch[q], {}}
  PROVE  BatchOK(q)'
<1>1. WriterTypeOK /\ BatchOK(q)
      BY TypeParts DEF TableInv, RowsInv, CopyInv
<1>2. ASSUME batch'[q] \in {batch[q], {}}, writer'[q] \notin {"fetch", "delete"}
      PROVE  BatchOK(q)'
      BY <1>1, <1>2 DEF BatchOK
<1>3. ASSUME batch'[q] = batch[q], writer[q] \in {"fetch", "delete"} PROVE BatchOK(q)'
  <2>1. NextEvent(q)' = NextEvent(q)
        BY <1>3 DEF NextEvent
  <2>2. QED
        BY <1>1, <1>3, <2>1 DEF BatchOK, ValueOf
<1>4. CASE writer'[q] = writer[q] /\ batch'[q] = batch[q]
      BY <1>2, <1>3, <1>4
<1>5. CASE ListEvents(q)
  <2>1. batch'[q] = events /\ writer'[q] \in {"select", "push"}
        BY <1>1, <1>5 DEF ListEvents, WriterGoto, WriterTypeOK
  <2>2. QED
        BY <2>1 DEF BatchOK
<1>6. CASE FetchEvent(q)
  <2>1. writer[q] = "fetch"
        BY <1>6 DEF FetchEvent
  <2>2. CASE NextEvent(q) \in events
    <3>1. batch' = batch
          BY <1>6, <2>2 DEF FetchEvent
    <3>2. QED
          BY <1>3, <2>1, <3>1
  <2>3. CASE NextEvent(q) \notin events
    <3>1. batch'[q] = {} /\ writer'[q] = "unlock"
          BY <1>1, <1>6, <2>3 DEF FetchEvent, RunFails, WriterGoto, WriterTypeOK
    <3>2. QED
          BY <1>2, <3>1
  <2>4. QED
        BY <2>2, <2>3
<1>7. CASE RetryEvent(q)
  <2>1. batch' = batch /\ writer[q] \in {"fetch", "delete"}
        BY <1>7 DEF RetryEvent
  <2>2. QED
        BY <1>3, <2>1
<1>8. CASE writer'[q] \notin {"push", "fetch", "delete"} /\ batch'[q] \in {batch[q], {}}
      BY <1>2, <1>8
<1>9. QED
      BY <1>4, <1>5, <1>6, <1>7, <1>8

\* Until a lease expires every step keeps the copy in order, and is a step of the
\* abstract replication.
LEMMA CopyStep ==
  ASSUME TableInv, Exclusive, Exclusive', CopyInv, [Next]_pipelineVars
  PROVE  /\ CopyInv'
         /\ R!RepNext \/ UNCHANGED <<writes, copied>>
<1>1. WriterTypeOK /\ DbTypeOK /\ \A p \in Users : OpenOK(p)
      BY TypeParts DEF TableInv, RowsInv
<1>2. ASSUME NEW p \in Users, PushEvent(p) \/ PushError(p), writer[p] = "push",
             ApplyToEtcd(NextEvent(p))
      PROVE  CopyInv' /\ R!RepNext
  <2>1. CopyInv'
        BY <1>2, CopyPush
  <2>2. \E k \in Keys : \E v \in copied[k] .. writes[k] :
          copied' = [copied EXCEPT ![k] = v] /\ writes' = writes
        BY <1>2, CopyPush
  <2>3. QED
        BY <2>1, <2>2 DEF R!RepNext, R!Propagate
<1>3. ASSUME NEW p \in Users, CommitRows(p) PROVE CopyInv' /\ R!RepNext
  <2>1. CopyInv'
        BY <1>3, CopyCommit
  <2>2. writes' = [k \in Keys |-> WritesIn(p, k)] /\ copied' = copied
        BY <1>3 DEF CommitRows, etcdVars
  <2>3. \A k \in Keys : WritesIn(p, k) \in Nat /\ writes[k] \in Nat
        BY <1>1, ContentsType, BoundsAreNat DEF DbTypeOK
  <2>4. \A k \in Keys : WritesIn(p, k) >= writes[k]
    <3>1. TAKE k \in Keys
    <3>2. IsFiniteSet(Own(p, k))
          BY <1>1, FS_Subset DEF OpenOK, Own
    <3>3. Cardinality(Own(p, k)) \in Nat
          BY <3>2, FS_CardinalityType
    <3>4. QED
          BY <2>3, <3>3 DEF WritesIn
  <2>5. R!Write
        BY <2>2, <2>3, <2>4 DEF R!Write
  <2>6. QED
        BY <2>1, <2>5 DEF R!RepNext
<1>4. ASSUME NEW p \in Users, DeleteEvent(p) \/ Removal(p) PROVE CopyInv' /\ UNCHANGED <<writes, copied>>
  <2>1. UNCHANGED <<writes, copied>>
        BY <1>4 DEF DeleteEvent, Removal, DeleteUnknown, etcdVars
  <2>2. QED
        BY <1>4, <2>1, CopyDelete
<1>5. ASSUME NEW p \in Users, PushEvent(p) PROVE CopyInv' /\ R!RepNext
  <2>1. writer[p] = "push" /\ ApplyToEtcd(NextEvent(p))
        BY <1>5 DEF PushEvent
  <2>2. QED
        BY <1>2, <1>5, <2>1
<1>6. ASSUME UNCHANGED <<db, writes, events, etcd, copied>>,
             \/ UNCHANGED <<writer, batch>>
             \/ \E p \in Users :
                  /\ \A q \in Users : q # p => writer'[q] = writer[q] /\ batch'[q] = batch[q]
                  /\ \/ ListEvents(p) \/ FetchEvent(p) \/ RetryEvent(p)
                     \/ writer'[p] \notin {"push", "fetch", "delete"} /\ batch'[p] \in {batch[p], {}}
      PROVE  CopyInv' /\ UNCHANGED <<writes, copied>>
  <2>1. \A q \in Users : BatchOK(q)'
        BY <1>6, CopySame
  <2>2. RowsReachEnd'
        BY <1>6 DEF CopyInv, RowsReachEnd
  <2>3. NoChangeForgotten => NoChangeForgotten'
        BY <1>6 DEF NoChangeForgotten
  <2>4. QED
        BY <1>6, <2>1, <2>2, <2>3 DEF CopyInv
<1>7. ASSUME UNCHANGED <<db, writes, events, etcd, copied>>
      PROVE  CopyInv' /\ (R!RepNext \/ UNCHANGED <<writes, copied>>)
      BY <1>1, <1>4, <1>5, <1>6, <1>7, WriterSteps
<1>8. ASSUME NEW p \in Users, Rollback(p) \/ Crash(p) PROVE UNCHANGED <<db, writes, events>>
      BY <1>8 DEF Rollback, Crash
<1>9. ASSUME NEW p \in Users, NEW k, NEW type, NEW body, LogEvent(p, k, type, body)
      PROVE  UNCHANGED <<db, writes, events>>
      BY <1>9 DEF LogEvent
<1>10. UNCHANGED etcdVars => UNCHANGED <<etcd, copied>>
      BY DEF etcdVars
<1>11. CASE UNCHANGED etcdVars
  <2>1. CASE UNCHANGED <<db, writes, events>>
        BY <1>7, <1>10, <1>11, <2>1
  <2>2. CASE ~UNCHANGED <<db, writes, events>>
    <3>1. \E p \in Users : CommitRows(p) \/ DeleteEvent(p) \/ Removal(p)
          BY <1>8, <1>9, <2>2, DbSteps
    <3>2. QED
          BY <1>3, <1>4, <3>1
  <2>3. QED
        BY <2>1, <2>2
<1>12. QED
      BY <1>2, <1>11, EtcdSteps

\* SoleInv is inductive relative to TableInv.
LEMMA SoleInvStep == TableInv /\ SoleInv /\ [Next]_pipelineVars => SoleInv'
<1> SUFFICES ASSUME TableInv, SoleInv, [Next]_pipelineVars, expiries' = 0
             PROVE  Exclusive' /\ FiniteLists' /\ CopyInv'
    BY DEF SoleInv, CopyInv
<1>1. expiries = 0 /\ ~ExpireLease
      BY ExpiriesGrow DEF TableInv, RowsInv
<1>2. Exclusive /\ FiniteLists /\ CopyInv
      BY <1>1 DEF SoleInv, CopyInv
<1>3. Exclusive' /\ FiniteLists'
      BY <1>1, <1>2, ExclusiveStep, FiniteStep
<1>4. QED
      BY <1>2, <1>3, CopyStep

\* It holds initially.
LEMMA SoleInvInit == Init => SoleInv
<1> SUFFICES ASSUME Init PROVE SoleInv
    OBVIOUS
<1>1. Exclusive
      BY DEF Init, LockInit, Exclusive, Sole
<1>2. FiniteLists
      BY FS_EmptySet DEF Init, FiniteLists
<1>3. \A p \in Users : BatchOK(p)
      BY DEF Init, BatchOK
<1>4. RowsReachEnd /\ NoChangeForgotten
      BY DEF Init, RowsReachEnd, NoChangeForgotten
<1>5. QED
      BY <1>1, <1>2, <1>3, <1>4 DEF SoleInv

\* Both invariants hold in every reachable state.
THEOREM PipelineCorrect == Spec => [](TableInv /\ SoleInv)
BY TableInvInit, TableInvStep, SoleInvInit, SoleInvStep, PTL DEF Spec

\* Until a lease expires, one process at most is between Lock and Unlock of
\* SyncWriter.run, and whatever fails or crashes no committed change is forgotten:
\* it is in etcd or in the event table.  (An empty string of a sync_plain
\* schema is the exception: sync.Update does not write it.)
THEOREM ChangesRemembered ==
  ASSUME "empty" \notin Bodies
  PROVE  Spec => [](expiries = 0 => NoChangeForgotten)
<1>1. TableInv /\ SoleInv => (expiries = 0 => NoChangeForgotten)
      BY DEF SoleInv
<1>2. QED
      BY PipelineCorrect, <1>1, PTL

\* Where leases do not expire, the copy of every resource in etcd only moves
\* forward through the committed versions: commits, retries, failed calls,
\* crashes and takeovers are steps of the abstract replication or change nothing
\* of it.
THEOREM CopyRefinesReplication ==
  ASSUME MaxExpiries = 0
  PROVE  Spec => CopyMovesForward
<1>1. Init => R!RepInit
      BY DEF Init, R!RepInit
<1>2. TableInv /\ SoleInv /\ [Next]_pipelineVars => [R!RepNext]_(R!repVars)
  <2> SUFFICES ASSUME TableInv, SoleInv, [Next]_pipelineVars
               PROVE  R!RepNext \/ UNCHANGED <<writes, copied>>
      BY DEF R!repVars
  <2>1. expiries = 0
        BY DEF TableInv, RowsInv, TypeOK
  <2>2. Exclusive /\ FiniteLists /\ CopyInv
        BY <2>1 DEF SoleInv, CopyInv
  <2>3. ~ExpireLease
        BY <2>1 DEF ExpireLease
  <2>4. Exclusive'
        BY <2>2, <2>3, ExclusiveStep
  <2>5. QED
        BY <2>2, <2>4, CopyStep
<1>3. QED
      BY PipelineCorrect, <1>1, <1>2, PTL DEF Spec, CopyMovesForward, R!RepSpec

-----------------------------------------------------------------------------
(* The resync tool *)

\* Finite lists of rows that have been in the table.
Lists ==
  /\ IsFiniteSet(events) /\ IsFiniteSet(emitted)
  /\ \A p \in Users : IsFiniteSet(batch[p])
  /\ \A p \in Users : \A e \in batch[p] : e.id < nextId /\ e.body \in Bodies

\* Where the tool is; it has a list only while it handles it.
ToolOK ==
  /\ tool \in ToolPC /\ alone \in BOOLEAN
  /\ tool \in {"off", "log"} => writer[Tool] = "lock"
  /\ tool = "sync" => writer[Tool] \in {"select", "push", "fetch", "unlock"}
  /\ writer[Tool] \notin {"push", "fetch"} => batch[Tool] = {}
  /\ tool \in {"done", "failed"} => writer[Tool] \notin {"push", "fetch", "delete"}

\* What it has listed are contents the resources have had, and what it has logged
\* are updates to such contents, one for each resource.
EmittedOK ==
  /\ \A k \in DOMAIN found : k \in Keys /\ found[k] \in 1 .. writes[k]
  /\ emitted \subseteq Event
  /\ \A e \in emitted : /\ e.id < nextId /\ e.body \in Bodies /\ e.type = "update"
                        /\ e.no <= writes[e.key] /\ e.key \notin DOMAIN found
  /\ \A e, f \in emitted : e.key = f.key => e = f
  /\ tool # "log" => emitted = {}

\* The inductive invariant of what holds beside the tool whoever else writes.
ToolInv == RowsInv /\ Lists /\ ToolOK /\ EmittedOK

\* e has the contents resource k has in the database.
Current(e, k) == e.key = k /\ e.type # "delete" /\ e.no = db[k]

\* S has a row of resource k.
Has(S, k) == \E e \in S : e.key = k

\* The last row of k in S, if there is one, has the contents of k in the database.
EndsWell(S, k) ==
  Has(S, k) => \E e \in S : Current(e, k) /\ \A f \in S : f.key = k /\ f # e => f.id < e.id

\* The rows of k in S are older than e.
Older(S, k, e) == \A f \in S : f.key = k => f.id < e.id

\* As long as the tool is alone, what it has not logged it still has to log, and
\* what it has logged comes after all rows there are.
LogOK ==
  tool = "log" /\ alone =>
    \A k \in Keys : db[k] # 0 =>
      \/ k \in DOMAIN found /\ found[k] = db[k]
      \/ \E e \in emitted : /\ Current(e, k) /\ Older(events, k, e)
                            /\ \A p \in Users : Older(batch[p], k, e)

\* e is the last row of its resource in the table.
IsEnd(e) == \A f \in events : f.key = e.key => f.id <= e.id

\* A list that has the last row of k in the table has all before it.
Complete(p, k) ==
  \A e \in batch[p] : e.key = k /\ IsEnd(e) => \A f \in events : f.key = k => f \in batch[p]

\* A sync writer that is about to delete the last row of k has left in etcd what the
\* database has, unless the tool still has to write k.
Agrees(p, k) ==
  LET e == NextEvent(p) IN
    writer[p] \in {"fetch", "delete"} /\ e.key = k /\ e \in events /\ IsEnd(e) /\ ~Has(batch[Tool], k)
      => etcd[k] = db[k]

\* While the tool works on the table, the table and its list end with the contents
\* of the database, and these are in etcd if neither has a row of k.
KeyOK(k) ==
  /\ EndsWell(events, k) /\ EndsWell(batch[Tool], k)
  /\ Has(batch[Tool], k) \/ Has(events, k) \/ etcd[k] = db[k]
  /\ \A p \in Users : Complete(p, k)
  /\ \A p \in Cluster : Agrees(p, k)

Handling == tool = "sync" /\ alone /\ writer[Tool] # "unlock"

SyncOK == Handling => \A k \in Keys : db[k] # 0 => KeyOK(k)

\* What the tool has written is in etcd when it deletes the row.
WrittenOK ==
  tool = "sync" /\ alone /\ writer[Tool] = "fetch" =>
    etcd[NextEvent(Tool).key] = ValueOf(NextEvent(Tool))

\* The inductive invariant of the tool at work alone.
AloneInv == LogOK /\ SyncOK /\ WrittenOK /\ ResyncRestores

-----------------------------------------------------------------------------
(* The steps of the tool keep RowsInv *)

\* The tool is a user.
LEMMA ToolIsUser == Tool \in Users
BY ToolAssumption DEF ToolAssumption

\* Rows are added or removed, and nothing else of the database changes.
LEMMA RowsStep ==
  ASSUME DbInv, UNCHANGED <<db, writes, tx, api>>, nextId' \in nextId .. MaxEvents + 1,
         events' \subseteq Event,
         \A e \in events' : e.id < nextId' /\ e.body \in Bodies /\ e.no <= writes[e.key]
  PROVE  DbInv'
<1>1. /\ DbTypeOK /\ nextId \in Nat /\ nextId' \in Nat /\ nextId' >= nextId
      /\ \A k \in Keys : writes[k] \in Nat /\ writes[k] < nextId'
      BY BoundsAreNat DEF DbInv, DbTypeOK, RowsOK
<1>2. DbTypeOK'
      BY <1>1, BoundsAreNat DEF DbTypeOK
<1>3. ASSUME NEW p \in Users PROVE OpenOK(p)'
      BY <1>1, OpenSame DEF DbInv
<1>4. RowLocks'
      BY DEF DbInv, RowLocks, Own
<1>5. RowsOK'
      BY <1>1 DEF DbInv, RowsOK
<1>6. QED
      BY <1>2, <1>3, <1>4, <1>5 DEF DbInv

\* What the writers are about to delete they have applied.
LEMMA AppliedFirstOthers ==
  ASSUME AppliedFirst, applied \subseteq applied',
         \A q \in Users : q # Tool => writer'[q] = writer[q] /\ batch'[q] = batch[q],
         writer'[Tool] = "push" => batch'[Tool] # {},
         writer'[Tool] \notin {"fetch", "delete"}
  PROVE  AppliedFirst'
<1>1. \A q \in Users : q # Tool => NextEvent(q)' = NextEvent(q)
      BY DEF NextEvent
<1>2. QED
      BY <1>1 DEF AppliedFirst

\* As long as no row is removed, none is removed before it is applied.
LEMMA NoneRemoved ==
  ASSUME AppliedBeforeRemoved, writes' = writes, applied \subseteq applied', events \subseteq events'
  PROVE  AppliedBeforeRemoved'
<1>1. SUFFICES ASSUME NEW k \in Keys, NEW n \in 1 .. writes'[k]
               PROVE  <<k, n>> \in applied' \/ \E e \in events' : e.key = k /\ e.no = n
      BY DEF AppliedBeforeRemoved
<1>2. n \in 1 .. writes[k]
      OBVIOUS
<1>3. <<k, n>> \in applied \/ \E e \in events : e.key = k /\ e.no = n
      BY <1>2, Zenon DEF AppliedBeforeRemoved
<1>4. QED
      BY <1>3

\* RowsInv put together.
LEMMA RowsInvParts ==
  RowsInv <=> /\ LockTypeOK /\ InformerTypeOK /\ EtcdTypeOK /\ WriterTypeOK /\ FaultTypeOK
              /\ DbInv /\ AppliedFirst /\ AppliedBeforeRemoved
BY TypeParts DEF RowsInv, DbInv

\* The same in the next state.
LEMMA RowsInvNext ==
  ASSUME LockTypeOK', InformerTypeOK', EtcdTypeOK', WriterTypeOK', FaultTypeOK',
         DbInv', AppliedFirst', AppliedBeforeRemoved'
  PROVE  RowsInv'
<1>1. TypeOK'
      BY DEF DbInv, TypeOK, DbTypeOK, InformerTypeOK, EtcdTypeOK, WriterTypeOK, FaultTypeOK
<1>2. QED
      BY <1>1 DEF RowsInv, DbInv

\* Steps of the tool that change neither the writers nor etcd.
LEMMA QuietRows ==
  ASSUME RowsInv, FaultTypeOK', UNCHANGED <<db, writes, tx, api, informerVars, etcdVars, writerVars, lockVars>>,
         nextId' \in nextId .. MaxEvents + 1, events \subseteq events', events' \subseteq Event,
         \A e \in events' : e.id < nextId' /\ e.body \in Bodies /\ e.no <= writes[e.key]
  PROVE  RowsInv'
<1>1. /\ LockTypeOK /\ InformerTypeOK /\ EtcdTypeOK /\ WriterTypeOK /\ DbInv
      /\ AppliedFirst /\ AppliedBeforeRemoved
      BY RowsInvParts
<1>2. LockTypeOK' /\ InformerTypeOK' /\ EtcdTypeOK' /\ WriterTypeOK'
      BY <1>1, SameTypes
<1>3. DbInv'
      BY <1>1, RowsStep
<1>4. AppliedFirst'
      BY <1>1 DEF AppliedFirst, NextEvent, writerVars, etcdVars
<1>5. AppliedBeforeRemoved'
      BY <1>1, NoneRemoved DEF etcdVars
<1>6. QED
      BY <1>2, <1>3, <1>4, <1>5, RowsInvNext

\* What RowsInv says of the numbers of the database.
LEMMA RowsFacts ==
  ASSUME RowsInv
  PROVE  /\ nextId \in Nat /\ nextId \in nextId .. MaxEvents + 1 /\ FaultTypeOK
         /\ events \subseteq Event
         /\ \A e \in events : e.id < nextId /\ e.id \in Nat /\ e.body \in Bodies /\ e.no <= writes[e.key]
         /\ \A e \in Event : e.id \in Nat /\ e.no \in Nat /\ e.key \in Keys
         /\ \A k \in Keys : writes[k] \in Nat /\ db[k] \in {0, writes[k]} /\ writes[k] <= MaxEvents
         /\ writer \in [Users -> WriterPC] /\ batch \in [Users -> SUBSET Event]
         /\ etcd \in [Keys -> Nat]
<1>1. DbInv /\ DbTypeOK /\ WriterTypeOK /\ EtcdTypeOK /\ FaultTypeOK
      BY RowsInvParts DEF DbInv
<1>2. \A e \in Event : e.id \in Nat /\ e.no \in Nat /\ e.key \in Keys
      BY BoundsAreNat DEF Event
<1>3. etcd \in [Keys -> Nat]
      BY <1>1, BoundsAreNat DEF EtcdTypeOK
<1>4. QED
      BY <1>1, <1>2, <1>3, BoundsAreNat DEF DbInv, DbTypeOK, RowsOK, WriterTypeOK

\* Every step of the tool, and the loss of a key.
LEMMA ToolRows ==
  ASSUME RowsInv, EmittedOK, ToolOK, Lists,
         ToolStep \/ ToolFault \/ \E k \in Keys : LoseKey(k)
  PROVE  RowsInv'
<1>1. ASSUME UNCHANGED pipelineVars PROVE RowsInv'
      BY <1>1, RowsInvStep
<1>2. CASE List \/ SyncFails
      BY <1>1, <1>2 DEF List, SyncFails
<1>3. ASSUME NEW k \in Keys, NEW body \in Bodies, Emit(k, body) PROVE RowsInv'
  <2>1. /\ UNCHANGED <<db, writes, tx, api, events, informerVars, etcdVars, writerVars, faultVars, lockVars>>
        /\ nextId' = nextId + 1 /\ nextId <= MaxEvents
        BY <1>3 DEF Emit
  <2>2. nextId' \in nextId .. MaxEvents + 1
        BY <2>1, RowsFacts, BoundsAreNat
  <2>3. \A e \in events' : e.id < nextId' /\ e.body \in Bodies /\ e.no <= writes[e.key]
        BY <2>1, RowsFacts
  <2>4. FaultTypeOK'
        BY <2>1, RowsFacts, SameTypes
  <2>5. QED
        BY <2>1, <2>2, <2>3, <2>4, RowsFacts, QuietRows
<1>4. ASSUME Fault, UNCHANGED <<dbVars, informerVars, etcdVars, writerVars, lockVars>> PROVE RowsInv'
  <2>1. FaultTypeOK'
        BY <1>4, RowsFacts, FaultType
  <2>2. UNCHANGED <<db, writes, tx, api, events, nextId>>
        BY <1>4 DEF dbVars
  <2>3. QED
        BY <1>4, <2>1, <2>2, RowsFacts, QuietRows
<1>5. CASE ToolError \/ \E k \in Keys : EmitError(k)
      BY <1>4, <1>5 DEF ToolError, EmitError
<1>6. CASE CommitEmitted \/ CommitEmittedUnknown
  <2>1. /\ UNCHANGED <<db, writes, tx, api, nextId, pending, batch, informerVars, etcdVars, lockVars>>
        /\ events' = events \cup emitted
        /\ UNCHANGED faultVars \/ Fault
        /\ writer' = [writer EXCEPT ![Tool] = "select"] \/ (writer' = writer /\ tool = "log")
    <3>1. CASE CommitEmitted
          BY <3>1 DEF CommitEmitted, WriterGoto
    <3>2. CASE CommitEmittedUnknown
          BY <3>2 DEF CommitEmittedUnknown, writerVars
    <3>3. QED
          BY <1>6, <3>1, <3>2
  <2>2. /\ LockTypeOK /\ InformerTypeOK /\ EtcdTypeOK /\ WriterTypeOK /\ DbInv /\ FaultTypeOK
        /\ AppliedFirst /\ AppliedBeforeRemoved
        BY RowsInvParts
  <2>3. LockTypeOK' /\ InformerTypeOK' /\ EtcdTypeOK' /\ FaultTypeOK'
        BY <2>1, <2>2, SameTypes, FaultType
  <2>4. DbInv'
    <3>1. events' \subseteq Event
          BY <2>1, RowsFacts DEF EmittedOK
    <3>2. \A e \in events' : e.id < nextId' /\ e.body \in Bodies /\ e.no <= writes[e.key]
          BY <2>1, RowsFacts DEF EmittedOK
    <3>3. QED
          BY <2>1, <2>2, <3>1, <3>2, RowsFacts, RowsStep
  <2>5. WriterTypeOK'
        BY <2>1, <2>2 DEF WriterTypeOK, WriterPC
  <2>6. AppliedFirst'
    <3>1. writer'[Tool] \in {"select", "lock"} /\ \A q \in Users : q # Tool => writer'[q] = writer[q]
          BY <2>1, RowsFacts, ToolIsUser DEF ToolOK
    <3>2. applied \subseteq applied'
          BY <2>1 DEF etcdVars
    <3>3. QED
          BY <2>1, <2>2, <3>1, <3>2, AppliedFirstOthers
  <2>7. AppliedBeforeRemoved'
        BY <2>1, <2>2, NoneRemoved DEF etcdVars
  <2>8. QED
        BY <2>3, <2>4, <2>5, <2>6, <2>7, RowsInvNext
<1>7. CASE SyncAgain \/ StartAgain
  <2>1. /\ UNCHANGED <<pending, dbVars, informerVars, etcdVars, faultVars, lockVars>>
        /\ batch' = [batch EXCEPT ![Tool] = events] \/ batch' = batch
        /\ \/ writer' = writer /\ writer[Tool] = "select"
           \/ writer' = [writer EXCEPT ![Tool] = "push"] /\ batch'[Tool] # {}
           \/ writer' = [writer EXCEPT ![Tool] = "lock"]
    <3>1. CASE StartAgain
          BY <3>1 DEF StartAgain, WriterGoto
    <3>2. CASE SyncAgain
      <4>1. batch'[Tool] = events
            BY <3>2, RowsFacts, ToolIsUser DEF SyncAgain
      <4>2. QED
            BY <3>2, <4>1 DEF SyncAgain, WriterGoto
    <3>3. QED
          BY <1>7, <3>1, <3>2
  <2>2. /\ LockTypeOK /\ InformerTypeOK /\ EtcdTypeOK /\ WriterTypeOK /\ DbInv /\ FaultTypeOK
        /\ AppliedFirst /\ AppliedBeforeRemoved
        BY RowsInvParts
  <2>3. LockTypeOK' /\ InformerTypeOK' /\ EtcdTypeOK' /\ FaultTypeOK'
        BY <2>1, <2>2, SameTypes
  <2>4. DbInv'
    <3>1. UNCHANGED <<db, writes, tx, api, events, nextId>>
          BY <2>1 DEF dbVars
    <3>2. QED
          BY <2>2, <3>1, RowsFacts, RowsStep
  <2>5. WriterTypeOK'
    <3>1. batch' \in [Users -> SUBSET Event]
          BY <2>1, RowsFacts
    <3>2. writer' \in [Users -> WriterPC]
          BY <2>1, RowsFacts DEF WriterPC
    <3>3. QED
          BY <2>1, <2>2, <3>1, <3>2 DEF WriterTypeOK
  <2>6. AppliedFirst'
    <3>1. /\ \A q \in Users : q # Tool => writer'[q] = writer[q] /\ batch'[q] = batch[q]
          /\ writer'[Tool] = "push" => batch'[Tool] # {}
          /\ writer'[Tool] \notin {"fetch", "delete"}
          BY <2>1, RowsFacts, ToolIsUser
    <3>2. applied \subseteq applied'
          BY <2>1 DEF etcdVars
    <3>3. QED
          BY <2>2, <3>1, <3>2, AppliedFirstOthers
  <2>7. AppliedBeforeRemoved'
        BY <2>1, <2>2, NoneRemoved DEF etcdVars, dbVars
  <2>8. QED
        BY <2>3, <2>4, <2>5, <2>6, <2>7, RowsInvNext
<1>8. CASE (SyncPush \/ SyncEventError) /\ ~DeleteUnknown(Tool, "fetch")
  <2>1. PushEvent(Tool) \/ PushUnsyncable(Tool) \/ PushError(Tool) \/ WriterError(Tool) \/ RetryEvent(Tool)
        BY <1>8, Zenon DEF SyncPush, SyncEventError
  <2>2. WriterStep(Tool) \/ FaultStep(Tool)
        BY <2>1, Zenon DEF WriterStep, FaultStep
  <2>3. Next
        BY <2>2, ToolIsUser, Zenon DEF Next
  <2>4. QED
        BY <2>3, RowsInvStep
<1>9. CASE SyncDelete \/ DeleteUnknown(Tool, "fetch")
  <2> DEFINE m == NextEvent(Tool)
  <2>1. /\ UNCHANGED <<db, writes, nextId, tx, api, pending, informerVars, etcdVars, lockVars>>
        /\ UNCHANGED faultVars \/ Fault
        /\ events' = events \ {m} /\ writer[Tool] = "fetch"
        /\ \/ /\ batch' = [batch EXCEPT ![Tool] = batch[Tool] \ {m}]
              /\ writer' = [writer EXCEPT ![Tool] = IF Cardinality(batch[Tool]) = 1 THEN "select" ELSE "push"]
           \/ batch' = [batch EXCEPT ![Tool] = {}] /\ writer' = [writer EXCEPT ![Tool] = "unlock"]
    <3>1. CASE SyncDelete
          BY <3>1 DEF SyncDelete, WriterGoto
    <3>2. CASE DeleteUnknown(Tool, "fetch")
          BY <3>2 DEF DeleteUnknown, RunFails, WriterGoto
    <3>3. QED
          BY <1>9, <3>1, <3>2
  <2>2. /\ LockTypeOK /\ InformerTypeOK /\ EtcdTypeOK /\ WriterTypeOK /\ DbInv /\ FaultTypeOK
        /\ AppliedFirst /\ AppliedBeforeRemoved
        BY RowsInvParts
  <2>3. LockTypeOK' /\ InformerTypeOK' /\ EtcdTypeOK' /\ FaultTypeOK'
        BY <2>1, <2>2, SameTypes, FaultType
  <2>4. DbInv'
        BY <2>1, <2>2, RowsFacts, RowsStep
  <2>5. WriterTypeOK'
    <3>1. batch' \in [Users -> SUBSET Event]
          BY <2>1, RowsFacts
    <3>2. writer' \in [Users -> WriterPC]
          BY <2>1, RowsFacts DEF WriterPC
    <3>3. QED
          BY <2>1, <2>2, <3>1, <3>2 DEF WriterTypeOK
  <2>6. AppliedFirst'
    <3>1. batch[Tool] \ {m} = {} => Cardinality(batch[Tool]) = 1
      <4>1. m \in batch[Tool]
            BY <2>1, <2>2, ToolIsUser, NextEventType
      <4>2. batch[Tool] \ {m} = {} => batch[Tool] = {m}
            BY <4>1
      <4>3. QED
            BY <4>2, FS_Singleton, Zenon
    <3>2. /\ \A q \in Users : q # Tool => writer'[q] = writer[q] /\ batch'[q] = batch[q]
          /\ writer'[Tool] = "push" => batch'[Tool] # {}
          /\ writer'[Tool] \notin {"fetch", "delete"}
          BY <2>1, <3>1, RowsFacts, ToolIsUser
    <3>3. applied \subseteq applied'
          BY <2>1 DEF etcdVars
    <3>4. QED
          BY <2>2, <3>2, <3>3, AppliedFirstOthers
  <2>7. AppliedBeforeRemoved'
    <3>1. <<m.key, m.no>> \in applied /\ applied' = applied
          BY <2>1, <2>2, ToolIsUser DEF AppliedFirst, etcdVars
    <3>2. SUFFICES ASSUME NEW k \in Keys, NEW n \in 1 .. writes'[k]
                   PROVE  <<k, n>> \in applied' \/ \E e \in events' : e.key = k /\ e.no = n
          BY DEF AppliedBeforeRemoved
    <3>3. n \in 1 .. writes[k]
          BY <2>1
    <3>4. <<k, n>> \in applied \/ \E e \in events : e.key = k /\ e.no = n
          BY <2>2, <3>3, Zenon DEF AppliedBeforeRemoved
    <3>5. QED
          BY <2>1, <3>1, <3>4
  <2>8. QED
        BY <2>3, <2>4, <2>5, <2>6, <2>7, RowsInvNext
<1>10. ASSUME NEW k \in Keys, LoseKey(k) PROVE RowsInv'
  <2>1. /\ UNCHANGED <<copied, applied, dbVars, informerVars, writerVars, faultVars, lockVars>>
        /\ etcd' = [etcd EXCEPT ![k] = 0]
        BY <1>10 DEF LoseKey
  <2>2. /\ LockTypeOK /\ InformerTypeOK /\ EtcdTypeOK /\ WriterTypeOK /\ DbInv /\ FaultTypeOK
        /\ AppliedFirst /\ AppliedBeforeRemoved
        BY RowsInvParts
  <2>3. LockTypeOK' /\ InformerTypeOK' /\ WriterTypeOK' /\ FaultTypeOK'
        BY <2>1, <2>2, SameTypes
  <2>4. EtcdTypeOK'
        BY <2>1, <2>2, BoundsAreNat DEF EtcdTypeOK
  <2>5. DbInv'
    <3>1. UNCHANGED <<db, writes, tx, api, events, nextId>>
          BY <2>1 DEF dbVars
    <3>2. QED
          BY <2>2, <3>1, RowsFacts, RowsStep
  <2>6. AppliedFirst'
        BY <2>1, <2>2 DEF AppliedFirst, NextEvent, writerVars
  <2>7. AppliedBeforeRemoved'
        BY <2>1, <2>2, NoneRemoved DEF dbVars
  <2>8. QED
        BY <2>3, <2>4, <2>5, <2>6, <2>7, RowsInvNext
<1>11. QED
      BY <1>2, <1>3, <1>5, <1>6, <1>7, <1>8, <1>9, <1>10, Zenon DEF ToolStep, ToolFault

-----------------------------------------------------------------------------
(* What a step of a process does to the table and the lists *)

\* The lists of the others are left alone.
Others(p) == \A q \in Users : q # p => writer'[q] = writer[q] /\ batch'[q] = batch[q]

\* Rows are neither added nor removed, and p has no list to handle, or not more than before.
Quiet(p) ==
  /\ UNCHANGED <<db, writes, events, nextId>>
  /\ \/ UNCHANGED <<writer, batch>>
     \/ writer'[p] \notin {"push", "fetch", "delete"} /\ batch'[p] \in {batch[p], {}}

\* The steps that matter to the table and the lists, one by one.
LEMMA ProcessSteps ==
  ASSUME WriterTypeOK, NEW p \in Users,
         ApiStep(p) \/ InformerStep(p) \/ WriterStep(p) \/ FaultStep(p) \/ ReportLost(p)
  PROVE  /\ Others(p)
         /\ \/ \E k \in Keys, type \in {"create", "update", "delete"}, body \in Bodies :
                  LogEvent(p, k, type, body)
            \/ CommitRows(p) \/ ListEvents(p) \/ PushEvent(p) \/ FetchEvent(p) \/ DeleteEvent(p) \/ Removal(p)
            \/ RetryEvent(p) \/ Quiet(p)
<1>t. writer \in [Users -> WriterPC] /\ batch \in [Users -> SUBSET Event]
      BY DEF WriterTypeOK
<1>o. UNCHANGED <<writer, batch>> => Others(p)
      BY DEF Others
<1>q. UNCHANGED <<dbVars, writer, batch>> => Quiet(p)
      BY DEF Quiet, dbVars
<1>r. ASSUME RunFails(p), UNCHANGED dbVars PROVE Others(p) /\ Quiet(p)
      BY <1>r, <1>t DEF RunFails, WriterGoto, Others, Quiet, dbVars
<1>1. ASSUME NEW k, NEW type, NEW body, LogEvent(p, k, type, body) PROVE Others(p)
      BY <1>o, <1>1 DEF LogEvent, writerVars
<1>2. /\ Commit(p) \/ CommitUnknown(p) => CommitRows(p)
      /\ CommitRows(p) => Others(p)
      BY <1>o DEF Commit, CommitUnknown, CommitRows, writerVars
<1>3. ASSUME Rollback(p) \/ TriggerSyncWriter(p) PROVE Others(p) /\ Quiet(p)
      BY <1>o, <1>3 DEF Rollback, TriggerSyncWriter, writerVars, Quiet
<1>4. ASSUME Receive(p) \/ Notify(p) \/ NotifyError(p) \/ ReportLost(p) PROVE Others(p) /\ Quiet(p)
      BY <1>o, <1>q, <1>4 DEF Receive, Notify, NotifyError, ReportLost, writerVars
<1>5. ASSUME TakeLockUnknown(p) \/ ReportLostSpuriously(p) PROVE Others(p) /\ Quiet(p)
      BY <1>o, <1>q, <1>5 DEF TakeLockUnknown, ReportLostSpuriously, writerVars
<1>6. ASSUME TakeLock(p) \/ StartWatch(p) \/ Unlock(p) \/ Backoff(p) \/ Restart(p)
      PROVE  Others(p) /\ Quiet(p)
      BY <1>6, <1>t DEF TakeLock, StartWatch, Unlock, Backoff, Restart, WriterGoto, Others, Quiet, dbVars
<1>7. ASSUME PushUnsyncable(p) \/ LockLost(p) \/ PushError(p) \/ WriterError(p)
      PROVE  Others(p) /\ Quiet(p)
  <2>1. RunFails(p) /\ UNCHANGED dbVars
        BY <1>7 DEF PushUnsyncable, LockLost, PushError, WriterError
  <2>2. QED
        BY <1>r, <2>1
<1>8. Crash(p) => Others(p) /\ Quiet(p)
      BY <1>t DEF Crash, WriterGoto, Others, Quiet
<1>9. ListEvents(p) \/ DeleteEvent(p) \/ Removal(p) => Others(p)
      BY <1>t DEF ListEvents, DeleteEvent, Removal, DeleteUnknown, RunFails, WriterGoto, Others
<1>10. PushEvent(p) \/ RetryEvent(p) => Others(p)
      BY <1>t DEF PushEvent, RetryEvent, WriterGoto, Others
<1>11. ASSUME FetchEvent(p) PROVE Others(p)
  <2>1. CASE NextEvent(p) \in events
        BY <1>11, <1>t, <2>1 DEF FetchEvent, WriterGoto, Others
  <2>2. CASE NextEvent(p) \notin events
        BY <1>11, <1>r, <2>2 DEF FetchEvent
  <2>3. QED
        BY <2>1, <2>2
<1>12. QED
      BY <1>1, <1>2, <1>3, <1>4, <1>5, <1>6, <1>7, <1>8, <1>9, <1>10, <1>11, Zenon
      DEF ApiStep, InformerStep, WriterStep, FaultStep, Removal

\* What a process may have as its list after a step: what it had, nothing, the table,
\* or all but the row it has deleted.
LEMMA ListSteps ==
  ASSUME WriterTypeOK, NEW p \in Users
  PROVE  /\ ListEvents(p) => /\ batch'[p] = events /\ UNCHANGED dbVars
                             /\ writer'[p] \notin {"fetch", "delete"}
         /\ PushEvent(p) \/ RetryEvent(p) => UNCHANGED <<dbVars, batch>>
         /\ RetryEvent(p) => writer'[p] = "push"
         /\ FetchEvent(p) => batch'[p] \in {batch[p], {}} /\ UNCHANGED dbVars
         /\ DeleteEvent(p) => /\ batch'[p] = batch[p] \ {NextEvent(p)}
                              /\ events' = events \ {NextEvent(p)}
                              /\ UNCHANGED <<db, writes, nextId>>
                              /\ writer'[p] \notin {"fetch", "delete"}
         /\ Removal(p) => /\ batch'[p] = {} /\ writer[p] = "delete"
                          /\ events' = events \ {NextEvent(p)}
                          /\ UNCHANGED <<db, writes, nextId>>
                          /\ writer'[p] \notin {"fetch", "delete"}
         /\ Quiet(p) => batch'[p] \in {batch[p], {}}
<1>t. writer \in [Users -> WriterPC] /\ batch \in [Users -> SUBSET Event]
      BY DEF WriterTypeOK
<1>1. ListEvents(p) => /\ batch'[p] = events /\ UNCHANGED dbVars
                       /\ writer'[p] \notin {"fetch", "delete"}
      BY <1>t DEF ListEvents, WriterGoto
<1>2. /\ PushEvent(p) \/ RetryEvent(p) => UNCHANGED <<dbVars, batch>>
      /\ RetryEvent(p) => writer'[p] = "push"
      BY <1>t DEF PushEvent, RetryEvent, WriterGoto
<1>3. FetchEvent(p) => batch'[p] \in {batch[p], {}} /\ UNCHANGED dbVars
      BY <1>t DEF FetchEvent, RunFails
<1>4. DeleteEvent(p) => /\ batch'[p] = batch[p] \ {NextEvent(p)}
                        /\ events' = events \ {NextEvent(p)}
                        /\ UNCHANGED <<db, writes, nextId>>
                        /\ writer'[p] \notin {"fetch", "delete"}
      BY <1>t DEF DeleteEvent, WriterGoto
<1>4u. Removal(p) => /\ batch'[p] = {} /\ writer[p] = "delete"
                     /\ events' = events \ {NextEvent(p)}
                     /\ UNCHANGED <<db, writes, nextId>>
                     /\ writer'[p] \notin {"fetch", "delete"}
      BY <1>t DEF Removal, DeleteUnknown, RunFails, WriterGoto
<1>5. Quiet(p) => batch'[p] \in {batch[p], {}}
      BY DEF Quiet
<1>6. QED
      BY <1>1, <1>2, <1>3, <1>4, <1>4u, <1>5

\* No step of a process of the cluster touches the list of the tool.
LEMMA ClusterSteps ==
  ASSUME WriterTypeOK, ClusterNext
  PROVE  /\ writer'[Tool] = writer[Tool] /\ batch'[Tool] = batch[Tool]
         /\ UNCHANGED <<tool, found, emitted>> /\ alone' = (alone /\ db' = db /\ etcdVars' = etcdVars)
         /\ \/ UNCHANGED <<db, writes, events, nextId, writer, batch>>
            \/ \E p \in Cluster :
                 /\ Others(p)
                 /\ \/ \E k \in Keys, type \in {"create", "update", "delete"}, body \in Bodies :
                          LogEvent(p, k, type, body)
                    \/ CommitRows(p) \/ ListEvents(p) \/ PushEvent(p) \/ FetchEvent(p) \/ DeleteEvent(p) \/ Removal(p)
                    \/ RetryEvent(p) \/ Quiet(p)
<1> DEFINE Some(p) == \/ \E k \in Keys, type \in {"create", "update", "delete"}, body \in Bodies :
                            LogEvent(p, k, type, body)
                      \/ CommitRows(p) \/ ListEvents(p) \/ PushEvent(p) \/ FetchEvent(p) \/ DeleteEvent(p) \/ Removal(p)
                      \/ RetryEvent(p) \/ Quiet(p)
           Same == UNCHANGED <<db, writes, events, nextId, writer, batch>>
<1>1. \A p \in Cluster : p \in Users /\ p # Tool
      BY DEF Cluster
<1>2. ReleaseKey \/ ExpireLease => Same
      BY DEF ReleaseKey, ExpireLease, dbVars, writerVars
<1>3. ASSUME NEW p \in Cluster,
             ApiStep(p) \/ InformerStep(p) \/ WriterStep(p) \/ FaultStep(p) \/ ReportLost(p)
      PROVE  Others(p) /\ Some(p)
      BY <1>1, <1>3, ProcessSteps
<1>4. /\ UNCHANGED <<tool, found, emitted>> /\ alone' = (alone /\ db' = db /\ etcdVars' = etcdVars)
      /\ \/ ReleaseKey \/ ExpireLease
         \/ \E p \in Cluster : ApiStep(p) \/ InformerStep(p) \/ WriterStep(p) \/ FaultStep(p) \/ ReportLost(p)
      BY DEF ClusterNext
<1> HIDE DEF Some, Same
<1>5. Same \/ \E p \in Cluster : Others(p) /\ Some(p)
      BY <1>2, <1>3, <1>4, Zenon
<1>6. writer'[Tool] = writer[Tool] /\ batch'[Tool] = batch[Tool]
      BY <1>1, <1>5, ToolIsUser DEF Same, Others
<1>7. QED
      BY <1>4, <1>5, <1>6, Zenon DEF Some, Same

-----------------------------------------------------------------------------
(* ToolInv is inductive *)

\* The number of writes of a resource does not go down, nor does the counter of the table.
LEMMA CountersGrow ==
  ASSUME ToolInv, ClusterNext
  PROVE  /\ nextId' \in Nat /\ nextId' >= nextId
         /\ \A k \in Keys : writes'[k] \in Nat /\ writes'[k] >= writes[k]
<1>1. WriterTypeOK /\ DbInv
      BY RowsInvParts DEF ToolInv
<1>2. /\ nextId \in Nat /\ \A k \in Keys : writes[k] \in Nat
      BY RowsFacts DEF ToolInv
<1>3. ASSUME UNCHANGED <<writes, nextId>>
      PROVE  /\ nextId' \in Nat /\ nextId' >= nextId
             /\ \A k \in Keys : writes'[k] \in Nat /\ writes'[k] >= writes[k]
      BY <1>2, <1>3
<1>4. ASSUME NEW p \in Users, CommitRows(p)
      PROVE  /\ nextId' \in Nat /\ nextId' >= nextId
             /\ \A k \in Keys : writes'[k] \in Nat /\ writes'[k] >= writes[k]
  <2>1. ASSUME NEW k \in Keys PROVE WritesIn(p, k) \in Nat /\ WritesIn(p, k) >= writes[k]
    <3>1. IsFiniteSet(Own(p, k))
          BY <1>1, FS_Subset DEF Own, DbInv, OpenOK
    <3>2. Cardinality(Own(p, k)) \in Nat
          BY <3>1, FS_CardinalityType
    <3>3. QED
          BY <1>2, <3>2 DEF WritesIn
  <2>2. QED
        BY <1>2, <1>4, <2>1 DEF CommitRows
<1>5. ASSUME NEW p \in Users, NEW k, NEW type, NEW body, LogEvent(p, k, type, body)
      PROVE  nextId' = nextId + 1 /\ writes' = writes
      BY <1>5 DEF LogEvent
<1>6. ASSUME NEW p \in Users,
             ListEvents(p) \/ PushEvent(p) \/ FetchEvent(p) \/ DeleteEvent(p) \/ Removal(p) \/ RetryEvent(p) \/ Quiet(p)
      PROVE  UNCHANGED <<writes, nextId>>
      BY <1>1, <1>6, ListSteps DEF dbVars, Quiet
<1>7. \A p \in Cluster : p \in Users
      BY DEF Cluster
<1>8. QED
      BY <1>1, <1>2, <1>3, <1>4, <1>5, <1>6, <1>7, ClusterSteps

\* The processes of the cluster keep the lists finite.
LEMMA ClusterLists ==
  ASSUME ToolInv, ClusterNext
  PROVE  Lists'
<1>1. WriterTypeOK /\ DbInv /\ Lists
      BY RowsInvParts DEF ToolInv
<1>2. /\ nextId \in Nat /\ events \subseteq Event /\ \A p \in Users : batch[p] \subseteq Event
      /\ \A e \in Event : e.id \in Nat
      /\ \A e \in events : e.id < nextId /\ e.body \in Bodies
      BY RowsFacts DEF ToolInv
<1>3. /\ emitted' = emitted /\ nextId' \in Nat /\ nextId' >= nextId
      BY <1>1, ClusterSteps, CountersGrow
<1>4. \A p \in Cluster : p \in Users
      BY DEF Cluster
<1>5. IsFiniteSet(events')
  <2>1. ASSUME NEW p \in Users, CommitRows(p) PROVE IsFiniteSet(events')
    <3>1. events' = events \cup tx[p] /\ IsFiniteSet(tx[p]) /\ IsFiniteSet(events)
          BY <1>1, <2>1 DEF CommitRows, DbInv, OpenOK, Lists
    <3>2. QED
          BY <3>1, FS_Union
  <2>2. ASSUME events' \subseteq events PROVE IsFiniteSet(events')
        BY <1>1, <2>2, FS_Subset DEF Lists
  <2>3. ASSUME NEW p \in Users, NEW k, NEW type, NEW body, LogEvent(p, k, type, body)
        PROVE  events' \subseteq events
        BY <2>3 DEF LogEvent
  <2>4. ASSUME NEW p \in Users,
               ListEvents(p) \/ PushEvent(p) \/ FetchEvent(p) \/ DeleteEvent(p) \/ Removal(p) \/ RetryEvent(p) \/ Quiet(p)
        PROVE  events' \subseteq events
        BY <1>1, <2>4, ListSteps DEF dbVars, Quiet
  <2>5. QED
        BY <1>1, <1>4, <2>1, <2>2, <2>3, <2>4, ClusterSteps
<1>6. ASSUME NEW q \in Users PROVE batch'[q] \subseteq batch[q] \/ batch'[q] = events
  <2>1. ASSUME NEW p \in Users, Others(p), p # q PROVE batch'[q] = batch[q]
        BY <2>1 DEF Others
  <2>2. ASSUME NEW k, NEW type, NEW body, LogEvent(q, k, type, body) PROVE batch' = batch
        BY <2>2 DEF LogEvent, writerVars
  <2>3. CommitRows(q) => batch' = batch
        BY DEF CommitRows, writerVars
  <2>4. ASSUME ListEvents(q) \/ PushEvent(q) \/ FetchEvent(q) \/ DeleteEvent(q) \/ Removal(q) \/ RetryEvent(q) \/ Quiet(q)
        PROVE  batch'[q] \subseteq batch[q] \/ batch'[q] = events
        BY <1>1, <2>4, ListSteps
  <2>5. QED
        BY <1>1, <1>4, <2>1, <2>2, <2>3, <2>4, ClusterSteps
<1>7. ASSUME NEW q \in Users
      PROVE  IsFiniteSet(batch'[q]) /\ \A e \in batch'[q] : e.id < nextId' /\ e.body \in Bodies
  <2>1. IsFiniteSet(batch[q]) /\ IsFiniteSet(events)
        BY <1>1 DEF Lists
  <2>2. IsFiniteSet(batch'[q])
        BY <1>6, <2>1, FS_Subset
  <2>3. \A e \in batch'[q] : e \in Event /\ e.id < nextId /\ e.body \in Bodies
        BY <1>1, <1>2, <1>6 DEF Lists
  <2>4. QED
        BY <1>2, <1>3, <2>2, <2>3
<1>8. QED
      BY <1>1, <1>3, <1>5, <1>7 DEF Lists

\* The processes of the cluster leave the tool where it is.
LEMMA ClusterTool ==
  ASSUME ToolInv, ClusterNext
  PROVE  ToolOK' /\ EmittedOK'
<1>1. WriterTypeOK /\ ToolOK /\ EmittedOK
      BY RowsInvParts DEF ToolInv
<1>2. /\ writer'[Tool] = writer[Tool] /\ batch'[Tool] = batch[Tool] /\ UNCHANGED <<tool, found, emitted>>
      /\ alone' = (alone /\ db' = db /\ etcdVars' = etcdVars)
      BY <1>1, ClusterSteps
<1>3. alone' \in BOOLEAN
      BY <1>2, Zenon
<1>4. ToolOK'
      BY <1>1, <1>2, <1>3 DEF ToolOK
<1>5. /\ nextId \in Nat /\ nextId' \in Nat /\ nextId' >= nextId
      /\ \A k \in Keys : writes[k] \in Nat /\ writes'[k] \in Nat /\ writes'[k] >= writes[k]
      BY RowsFacts, CountersGrow DEF ToolInv
<1>6. \A e \in emitted : e.id \in Nat /\ e.no \in Nat /\ e.key \in Keys
      BY <1>1, RowsFacts DEF EmittedOK, ToolInv
<1>7. EmittedOK'
      BY <1>1, <1>2, <1>5, <1>6 DEF EmittedOK
<1>8. QED
      BY <1>4, <1>7

\* The tool logs one more resource.
LEMMA EmitStep ==
  ASSUME ToolInv, NEW k \in Keys, NEW body \in Bodies, Emit(k, body)
  PROVE  Lists' /\ ToolOK' /\ EmittedOK'
<1> DEFINE e == [id |-> nextId, key |-> k, type |-> "update", no |-> found[k], body |-> body]
<1>1. Lists /\ ToolOK /\ EmittedOK
      BY DEF ToolInv
<1>2. /\ tool = "log" /\ k \in DOMAIN found /\ nextId <= MaxEvents
      /\ emitted' = emitted \cup {e} /\ nextId' = nextId + 1
      /\ found' = [j \in DOMAIN found \ {k} |-> found[j]]
      /\ UNCHANGED <<tool, alone, writes, events, writer, batch>>
      BY DEF Emit, Logged, writerVars
<1>3. /\ nextId \in Nat /\ \A j \in Keys : writes[j] \in Nat /\ writes[j] <= MaxEvents
      /\ \A f \in Event : f.id \in Nat /\ f.no \in Nat /\ f.key \in Keys
      /\ \A p \in Users : batch[p] \subseteq Event
      BY RowsFacts DEF ToolInv
<1>4. nextId >= 1
      BY RowsInvParts DEF ToolInv, DbInv, DbTypeOK
<1>5. found[k] \in 1 .. MaxEvents /\ found[k] <= writes[k]
      BY <1>1, <1>2, <1>3, BoundsAreNat DEF EmittedOK
<1>6. e \in Event
      BY <1>2, <1>3, <1>4, <1>5, BoundsAreNat DEF Event
<1>7. Lists'
  <2>1. IsFiniteSet(emitted')
        BY <1>1, <1>2, FS_AddElement DEF Lists
  <2>2. \A p \in Users : \A f \in batch[p] : f.id < nextId'
        BY <1>1, <1>2, <1>3 DEF Lists
  <2>3. QED
        BY <1>1, <1>2, <2>1, <2>2 DEF Lists
<1>8. ToolOK'
      BY <1>1, <1>2 DEF ToolOK
<1>9. EmittedOK'
  <2> HIDE DEF e
  <2>0. e.id = nextId /\ e.key = k /\ e.type = "update" /\ e.no = found[k] /\ e.body = body
        BY DEF e
  <2>1. DOMAIN found' = DOMAIN found \ {k} /\ \A j \in DOMAIN found' : found'[j] = found[j]
        BY <1>2
  <2>2. \A j \in DOMAIN found' : j \in Keys /\ found'[j] \in 1 .. writes'[j]
        BY <1>1, <1>2, <2>1 DEF EmittedOK
  <2>3. emitted' \subseteq Event
        BY <1>1, <1>2, <1>6 DEF EmittedOK
  <2>4. \A f \in emitted' : /\ f.id < nextId' /\ f.body \in Bodies /\ f.type = "update"
                            /\ f.no <= writes'[f.key] /\ f.key \notin DOMAIN found'
        BY <1>1, <1>2, <1>3, <1>5, <2>0, <2>1 DEF EmittedOK
  <2>5. \A f, g \in emitted' : f.key = g.key => f = g
        BY <1>1, <1>2, <2>0 DEF EmittedOK
  <2>6. QED
        BY <1>2, <2>2, <2>3, <2>4, <2>5 DEF EmittedOK
<1>10. QED
      BY <1>7, <1>8, <1>9

\* It has handled a row.
LEMMA HandledStep ==
  ASSUME ToolInv, SyncDelete
  PROVE  /\ NextEvent(Tool) \in batch[Tool] /\ NextEvent(Tool) \in Event
         /\ \A f \in batch[Tool] : NextEvent(Tool).id <= f.id
         /\ batch'[Tool] = batch[Tool] \ {NextEvent(Tool)}
         /\ \A q \in Users : q # Tool => writer'[q] = writer[q] /\ batch'[q] = batch[q]
         /\ \/ writer'[Tool] = "select" /\ batch'[Tool] = {}
            \/ writer'[Tool] = "push"
<1> DEFINE m == NextEvent(Tool)
<1>1. WriterTypeOK /\ AppliedFirst /\ Lists
      BY RowsInvParts DEF ToolInv
<1>2. /\ writer[Tool] = "fetch" /\ batch' = [batch EXCEPT ![Tool] = @ \ {m}]
      /\ writer' = [writer EXCEPT ![Tool] = IF Cardinality(batch[Tool]) = 1 THEN "select" ELSE "push"]
      BY DEF SyncDelete, WriterGoto
<1>3. m \in batch[Tool] /\ m \in Event /\ \A f \in batch[Tool] : m.id <= f.id
      BY <1>1, <1>2, ToolIsUser, NextEventType
<1>4. /\ batch'[Tool] = batch[Tool] \ {m}
      /\ writer'[Tool] = IF Cardinality(batch[Tool]) = 1 THEN "select" ELSE "push"
      /\ \A q \in Users : q # Tool => writer'[q] = writer[q] /\ batch'[q] = batch[q]
      BY <1>1, <1>2, ToolIsUser DEF WriterTypeOK
<1>5. ASSUME Cardinality(batch[Tool]) = 1 PROVE batch'[Tool] = {}
  <2>1. IsFiniteSet(batch[Tool])
        BY <1>1, ToolIsUser DEF Lists
  <2>2. \E x : batch[Tool] = {x}
        BY <1>5, <2>1, FS_Singleton, Zenon
  <2>3. QED
        BY <1>3, <1>4, <2>2
<1>6. QED
      BY <1>3, <1>4, <1>5

\* The other steps of the tool, and the loss of a key.
LEMMA ToolKeeps ==
  ASSUME ToolInv, ToolStep \/ ToolFault \/ \E k \in Keys : LoseKey(k)
  PROVE  Lists' /\ ToolOK' /\ EmittedOK'
<1> DEFINE Goal == Lists' /\ ToolOK' /\ EmittedOK'
<1>1. WriterTypeOK /\ AppliedFirst /\ Lists /\ ToolOK /\ EmittedOK
      BY RowsInvParts DEF ToolInv
<1>2. /\ nextId \in Nat /\ \A k \in Keys : writes[k] \in Nat /\ db[k] \in {0, writes[k]}
      /\ \A p \in Users : batch[p] \subseteq Event
      /\ \A e \in events : e.id < nextId /\ e.body \in Bodies
      /\ writer \in [Users -> WriterPC] /\ batch \in [Users -> SUBSET Event]
      BY RowsFacts DEF ToolInv
<1>3. ASSUME List PROVE Goal
  <2>1. /\ tool = "off" /\ tool' = "log" /\ alone' = TRUE
        /\ found' = [k \in {k \in Keys : db[k] # 0} |-> db[k]]
        /\ UNCHANGED <<emitted, writes, events, nextId, writer, batch>>
        BY <1>3 DEF List, pipelineVars, dbVars, writerVars
  <2>2. Lists' /\ ToolOK'
        BY <1>1, <2>1 DEF Lists, ToolOK, ToolPC
  <2>3. EmittedOK'
    <3>1. DOMAIN found' = {k \in Keys : db[k] # 0} /\ \A k \in DOMAIN found' : found'[k] = db[k]
          BY <2>1
    <3>2. \A k \in DOMAIN found' : k \in Keys /\ found'[k] \in 1 .. writes'[k]
          BY <1>2, <2>1, <3>1
    <3>3. emitted' = {}
          BY <1>1, <2>1 DEF EmittedOK
    <3>4. QED
          BY <3>2, <3>3 DEF EmittedOK
  <2>4. QED
        BY <2>2, <2>3
<1>4. ASSUME NEW k \in Keys, NEW body \in Bodies, Emit(k, body) PROVE Goal
      BY <1>4, EmitStep
<1>5. ASSUME NEW k \in Keys, EmitError(k) PROVE Goal
  <2>1. /\ tool = "log" /\ alone' = FALSE
        /\ found' = [j \in DOMAIN found \ {k} |-> found[j]]
        /\ UNCHANGED <<tool, emitted, writes, events, nextId, writer, batch>>
        BY <1>5 DEF EmitError, Logged, dbVars, writerVars
  <2>2. Lists' /\ ToolOK'
        BY <1>1, <2>1 DEF Lists, ToolOK
  <2>3. EmittedOK'
    <3>1. DOMAIN found' = DOMAIN found \ {k} /\ \A j \in DOMAIN found' : found'[j] = found[j]
          BY <2>1
    <3>2. QED
          BY <1>1, <2>1, <3>1 DEF EmittedOK
  <2>4. QED
        BY <2>2, <2>3
<1>6. ASSUME CommitEmitted PROVE Goal
  <2>1. /\ tool = "log" /\ found = Nothing /\ events' = events \cup emitted /\ emitted' = {} /\ tool' = "sync"
        /\ UNCHANGED <<found, alone, writes, nextId, batch>>
        /\ writer' = [writer EXCEPT ![Tool] = "select"]
        BY <1>6 DEF CommitEmitted, WriterGoto
  <2>2. writer'[Tool] = "select" /\ batch[Tool] = {}
        BY <1>1, <1>2, <2>1, ToolIsUser DEF ToolOK
  <2>3. IsFiniteSet(events') /\ IsFiniteSet(emitted')
        BY <1>1, <2>1, FS_Union, FS_EmptySet DEF Lists
  <2>4. Lists' /\ ToolOK'
        BY <1>1, <2>1, <2>2, <2>3 DEF Lists, ToolOK, ToolPC
  <2>5. EmittedOK'
        BY <1>1, <2>1 DEF EmittedOK
  <2>6. QED
        BY <2>4, <2>5
<1>6u. ASSUME CommitEmittedUnknown PROVE Goal
  <2>1. /\ tool = "log" /\ found = Nothing /\ events' = events \cup emitted /\ emitted' = {}
        /\ tool' = "failed" /\ UNCHANGED <<found, alone, writes, nextId, writer, batch>>
        BY <1>6u DEF CommitEmittedUnknown, writerVars
  <2>2. IsFiniteSet(events') /\ IsFiniteSet(emitted')
        BY <1>1, <2>1, FS_Union, FS_EmptySet DEF Lists
  <2>3. Lists' /\ ToolOK'
        BY <1>1, <2>1, <2>2 DEF Lists, ToolOK, ToolPC
  <2>4. EmittedOK'
        BY <1>1, <2>1 DEF EmittedOK
  <2>5. QED
        BY <2>3, <2>4
<1>7. ASSUME ToolError PROVE Goal
  <2>1. /\ tool = "log" /\ found' = Nothing /\ emitted' = {} /\ tool' = "failed"
        /\ UNCHANGED <<alone, writes, events, nextId, writer, batch>>
        BY <1>7 DEF ToolError, dbVars, writerVars
  <2>2. IsFiniteSet(emitted')
        BY <2>1, FS_EmptySet
  <2>3. Lists' /\ ToolOK'
        BY <1>1, <2>1, <2>2 DEF Lists, ToolOK, ToolPC
  <2>4. DOMAIN found' = {}
        BY <2>1 DEF Nothing
  <2>5. EmittedOK'
        BY <2>1, <2>4 DEF EmittedOK
  <2>6. QED
        BY <2>3, <2>5
<1>8. ASSUME SyncAgain PROVE Goal
  <2>1. /\ tool = "sync" /\ writer[Tool] = "select" /\ batch' = [batch EXCEPT ![Tool] = events]
        /\ \/ events = {} /\ tool' = "done" /\ writer' = writer
           \/ tool' = tool /\ writer' = [writer EXCEPT ![Tool] = "push"]
        /\ UNCHANGED <<found, emitted, alone, writes, events, nextId>>
        BY <1>8 DEF SyncAgain, WriterGoto, dbVars
  <2>2. /\ batch'[Tool] = events /\ \A q \in Users : q # Tool => batch'[q] = batch[q]
        /\ \/ events = {} /\ tool' = "done" /\ writer'[Tool] = "select"
           \/ tool' = "sync" /\ writer'[Tool] = "push"
        BY <1>2, <2>1, ToolIsUser
  <2>3. Lists'
        BY <1>1, <1>2, <2>1, <2>2, ToolIsUser DEF Lists
  <2>4. ToolOK'
        BY <1>1, <2>1, <2>2 DEF ToolOK, ToolPC
  <2>5. EmittedOK'
        BY <1>1, <2>1, <2>2 DEF EmittedOK
  <2>6. QED
        BY <2>3, <2>4, <2>5
<1>9. ASSUME SyncPush \/ (tool = "sync" /\ UNCHANGED toolVars /\ RetryEvent(Tool)) PROVE Goal
  <2>1. /\ tool = "sync" /\ UNCHANGED <<tool, found, emitted, alone, writes, events, nextId, batch>>
        /\ writer[Tool] \in {"push", "fetch", "delete"}
        /\ writer' = [writer EXCEPT ![Tool] = "fetch"] \/ writer' = [writer EXCEPT ![Tool] = "push"]
        BY <1>9 DEF SyncPush, PushEvent, RetryEvent, WriterGoto, dbVars, toolVars
  <2>2. writer'[Tool] \in {"push", "fetch"}
        BY <1>2, <2>1, ToolIsUser
  <2>3. QED
        BY <1>1, <2>1, <2>2 DEF Lists, ToolOK, EmittedOK
<1>10. ASSUME SyncDelete PROVE Goal
  <2>1. /\ tool = "sync" /\ UNCHANGED <<tool, found, emitted, alone, writes, nextId>>
        /\ events' = events \ {NextEvent(Tool)}
        BY <1>10 DEF SyncDelete, toolVars
  <2>2. /\ \A q \in Users : batch'[q] \subseteq batch[q]
        /\ \/ writer'[Tool] = "select" /\ batch'[Tool] = {}
           \/ writer'[Tool] = "push"
        BY <1>10, HandledStep
  <2>3. IsFiniteSet(events') /\ \A q \in Users : IsFiniteSet(batch'[q])
        BY <1>1, <2>1, <2>2, FS_Subset DEF Lists
  <2>4. Lists' /\ ToolOK'
        BY <1>1, <2>1, <2>2, <2>3 DEF Lists, ToolOK
  <2>5. EmittedOK'
        BY <1>1, <2>1 DEF EmittedOK
  <2>6. QED
        BY <2>4, <2>5
<1>11. ASSUME tool = "sync", UNCHANGED toolVars, PushUnsyncable(Tool) \/ PushError(Tool) \/ WriterError(Tool)
       PROVE  Goal
  <2>1. RunFails(Tool) /\ UNCHANGED dbVars
        BY <1>11 DEF PushUnsyncable, PushError, WriterError
  <2>2. /\ UNCHANGED <<tool, found, emitted, alone, writes, events, nextId>>
        /\ batch'[Tool] = {} /\ \A q \in Users : q # Tool => batch'[q] = batch[q]
        /\ writer'[Tool] = "unlock"
        BY <1>2, <1>11, <2>1, ToolIsUser DEF RunFails, WriterGoto, dbVars, toolVars
  <2>3. Lists'
        BY <1>1, <2>2, FS_EmptySet DEF Lists
  <2>4. QED
        BY <1>1, <1>11, <2>2, <2>3 DEF ToolOK, EmittedOK
<1>11u. ASSUME tool = "sync", UNCHANGED toolVars, DeleteUnknown(Tool, "fetch") PROVE Goal
  <2>1. /\ UNCHANGED <<tool, found, emitted, alone, writes, nextId>> /\ events' \subseteq events
        /\ batch'[Tool] = {} /\ \A q \in Users : q # Tool => batch'[q] = batch[q]
        /\ writer'[Tool] = "unlock"
        BY <1>2, <1>11u, ToolIsUser DEF DeleteUnknown, RunFails, WriterGoto, toolVars
  <2>2. IsFiniteSet(events')
        BY <1>1, <2>1, FS_Subset DEF Lists
  <2>3. Lists'
        BY <1>1, <2>1, <2>2, FS_EmptySet DEF Lists
  <2>4. QED
        BY <1>1, <1>11u, <2>1, <2>3 DEF ToolOK, EmittedOK
<1>12. ASSUME SyncFails PROVE Goal
  <2>1. /\ tool = "sync" /\ writer[Tool] = "unlock" /\ tool' = "failed"
        /\ UNCHANGED <<found, emitted, alone, writes, events, nextId, writer, batch>>
        BY <1>12 DEF SyncFails, pipelineVars, dbVars, writerVars
  <2>2. QED
        BY <1>1, <2>1 DEF Lists, ToolOK, EmittedOK, ToolPC
<1>13. ASSUME StartAgain PROVE Goal
  <2>1. /\ tool \in {"done", "failed"} /\ tool' = "off" /\ writer' = [writer EXCEPT ![Tool] = "lock"]
        /\ UNCHANGED <<found, emitted, alone, writes, events, nextId, batch>>
        BY <1>13 DEF StartAgain, WriterGoto, dbVars
  <2>2. writer'[Tool] = "lock"
        BY <1>2, <2>1, ToolIsUser
  <2>3. QED
        BY <1>1, <2>1, <2>2 DEF Lists, ToolOK, EmittedOK, ToolPC
<1>14. ASSUME NEW k \in Keys, LoseKey(k) PROVE Goal
  <2>1. UNCHANGED <<tool, found, emitted, alone, writes, events, nextId, writer, batch>>
        BY <1>14 DEF LoseKey, dbVars, writerVars, toolVars
  <2>2. QED
        BY <1>1, <2>1 DEF Lists, ToolOK, EmittedOK
<1>15. SyncEventError => Goal
      BY <1>9, <1>11, <1>11u, Zenon DEF SyncEventError
<1> HIDE DEF Goal
<1>16. Goal
      BY <1>3, <1>4, <1>5, <1>6, <1>6u, <1>7, <1>8, <1>9, <1>10, <1>12, <1>13, <1>14, <1>15, Zenon
      DEF ToolStep, ToolFault
<1>17. QED
      BY <1>16 DEF Goal

\* A step of the cluster is a step of the pipeline.
LEMMA ClusterIsPipeline == ClusterNext => Next
BY Zenon DEF ClusterNext, Next, Cluster

\* Every step keeps ToolInv.
LEMMA ToolInvStep == ToolInv /\ [ResyncNext]_resyncVars => ToolInv'
<1>1. ASSUME ToolInv, ClusterNext PROVE ToolInv'
      BY <1>1, ClusterIsPipeline, RowsInvStep, ClusterLists, ClusterTool DEF ToolInv
<1>2. ASSUME ToolInv, ToolStep \/ ToolFault \/ \E k \in Keys : LoseKey(k) PROVE ToolInv'
      BY <1>2, ToolRows, ToolKeeps DEF ToolInv
<1>3. ASSUME ToolInv, UNCHANGED resyncVars PROVE ToolInv'
  <2>1. UNCHANGED pipelineVars /\ UNCHANGED <<tool, found, emitted, alone>>
        BY <1>3 DEF resyncVars, toolVars
  <2>2. UNCHANGED <<writes, events, nextId, writer, batch>>
        BY <2>1 DEF pipelineVars, dbVars, writerVars
  <2>3. RowsInv'
        BY <1>3, <2>1, RowsInvStep DEF ToolInv
  <2>4. Lists' /\ ToolOK' /\ EmittedOK'
        BY <1>3, <2>1, <2>2 DEF ToolInv, Lists, ToolOK, EmittedOK
  <2>5. QED
        BY <2>3, <2>4 DEF ToolInv
<1>4. QED
      BY <1>1, <1>2, <1>3, Zenon DEF ResyncNext

-----------------------------------------------------------------------------
(* The tool at work alone *)

\* A commit that leaves the contents of an existing resource alone has no row of it.
LEMMA CommitElsewhere ==
  ASSUME RowsInv, NEW p \in Users, CommitRows(p), db' = db, NEW k \in Keys, db[k] # 0
  PROVE  \A e \in tx[p] : e.key # k
<1>1. DbInv /\ DbTypeOK /\ OpenOK(p)
      BY RowsInvParts DEF DbInv
<1>2. db[k] = ContentsIn(p, k)
      BY DEF CommitRows
<1>3. writes[k] \in Nat /\ db[k] = writes[k]
      BY RowsFacts
<1>4. ASSUME Own(p, k) # {} PROVE FALSE
  <2>1. Latest(Own(p, k)) \in Own(p, k)
        BY <1>1, <1>4, LatestExists
  <2>2. writes[k] < Latest(Own(p, k)).no
        BY <1>1, <2>1 DEF OpenOK
  <2>3. Latest(Own(p, k)).no \in Nat
        BY <1>1, <2>1, RowsFacts DEF Own, DbTypeOK
  <2>4. QED
        BY <1>2, <1>3, <1>4, <2>2, <2>3 DEF ContentsIn
<1>5. QED
      BY <1>4 DEF Own

\* The table has the same rows of k after the step.
SameRows(k) == \A e : e.key = k => (e \in events' <=> e \in events)

\* What the properties of a table with the same rows of k are.
LEMMA SameTable ==
  ASSUME NEW k, SameRows(k), db' = db
  PROVE  /\ EndsWell(events, k) => EndsWell(events, k)'
         /\ Has(events', k) <=> Has(events, k)
         /\ \A e : e.key = k => (IsEnd(e)' <=> IsEnd(e))
<1>1. Has(events', k) <=> Has(events, k)
      BY DEF SameRows, Has
<1>2. \A e : e.key = k => (IsEnd(e)' <=> IsEnd(e))
      BY DEF SameRows, IsEnd
<1>3. ASSUME EndsWell(events, k), Has(events', k)
      PROVE  \E e \in events' : Current(e, k)' /\ \A f \in events' : f.key = k /\ f # e => f.id < e.id
  <2>1. PICK e \in events : Current(e, k) /\ \A f \in events : f.key = k /\ f # e => f.id < e.id
        BY <1>1, <1>3 DEF EndsWell
  <2>2. Current(e, k)' /\ e \in events'
        BY <2>1 DEF Current, SameRows
  <2>3. QED
        BY <2>1, <2>2 DEF SameRows
<1>4. QED
      BY <1>1, <1>2, <1>3 DEF EndsWell

\* The first row m of a list leaves the table: a list with the last row has all
\* rows, so that m is the last one only if it is the only one.
LEMMA RowLeaves ==
  ASSUME RowsInv, NEW p \in Users, NEW k \in Keys, NEW m \in batch[p],
         \A f \in batch[p] : m.id <= f.id, m.key = k, m \in events,
         EndsWell(events, k), Complete(p, k), events' = events \ {m}, db' = db
  PROVE  /\ EndsWell(events, k)'
         /\ Has(events', k) \/ (IsEnd(m) /\ Current(m, k))
         /\ Has(events', k) => \A e \in Event : e.key = k /\ IsEnd(e)' => IsEnd(e)
<1>1. PICK t \in events : Current(t, k) /\ \A f \in events : f.key = k /\ f # t => f.id < t.id
      BY DEF EndsWell, Has
<1>2. \A e \in events : e \in Event /\ e.id \in Nat
      BY RowsFacts
<1>3. \A e \in Event : e.id \in Nat
      BY RowsFacts
<1>4. IsEnd(t) /\ t.key = k
      BY <1>1, <1>2 DEF IsEnd, Current
<1>5. CASE t = m
  <2>1. \A f \in events : f.key = k => f = m
    <3>1. \A f \in events : f.key = k => f \in batch[p]
          BY <1>4, <1>5 DEF Complete
    <3>2. QED
          BY <1>1, <1>2, <1>5, <3>1
  <2>2. ~Has(events', k)
        BY <2>1 DEF Has
  <2>3. QED
        BY <1>1, <1>4, <1>5, <2>2 DEF EndsWell
<1>6. CASE t # m
  <2>1. t \in events' /\ Has(events', k) /\ m.id < t.id
        BY <1>1, <1>4, <1>6 DEF Has
  <2>2. Current(t, k)'
        BY <1>1 DEF Current
  <2>3. EndsWell(events, k)'
        BY <1>1, <2>1, <2>2 DEF EndsWell
  <2>4. ASSUME NEW e \in Event, e.key = k, IsEnd(e)' PROVE IsEnd(e)
    <3>1. \A f \in events' : f.key = k => f.id <= e.id
          BY <2>4 DEF IsEnd
    <3>2. t.id <= e.id
          BY <1>4, <2>1, <3>1
    <3>3. m.id <= e.id
          BY <1>2, <1>3, <2>1, <3>2
    <3>4. QED
          BY <2>4, <3>1, <3>3 DEF IsEnd
  <2>5. QED
        BY <2>1, <2>3, <2>4
<1>7. QED
      BY <1>5, <1>6

\* A list stays complete as the table shrinks, if it loses nothing the table keeps.
LEMMA StaysComplete ==
  ASSUME NEW q, NEW k, Complete(q, k), events' \subseteq events,
         batch'[q] \subseteq batch[q], batch[q] \subseteq Event,
         \A f \in events' : f.key = k /\ f \in batch[q] => f \in batch'[q],
         Has(events', k) => \A e \in Event : e.key = k /\ IsEnd(e)' => IsEnd(e)
  PROVE  Complete(q, k)'
<1>1. SUFFICES ASSUME NEW e \in batch'[q], e.key = k, IsEnd(e)', NEW f \in events', f.key = k
               PROVE  f \in batch'[q]
      BY DEF Complete
<1>2. Has(events', k)
      BY <1>1 DEF Has
<1>3. IsEnd(e) /\ e \in batch[q]
      BY <1>1, <1>2
<1>4. f \in batch[q]
      BY <1>1, <1>3 DEF Complete
<1>5. QED
      BY <1>1, <1>4

\* A process works on its list while the table keeps its rows of k.
LEMMA SameKey ==
  ASSUME NEW k \in Keys, KeyOK(k), SameRows(k), db' = db, etcd' = etcd, batch'[Tool] = batch[Tool],
         NEW p \in Cluster, Others(p),
         \/ writer'[p] = writer[p] /\ batch'[p] = batch[p]
         \/ Complete(p, k)' /\ Agrees(p, k)'
  PROVE  KeyOK(k)'
<1>1. /\ EndsWell(events, k)' /\ (Has(events', k) <=> Has(events, k))
      /\ \A e : e.key = k => (IsEnd(e)' <=> IsEnd(e))
      BY SameTable DEF KeyOK
<1>2. EndsWell(batch[Tool], k)'
      BY DEF KeyOK, EndsWell, Has, Current
<1>3. (Has(batch[Tool], k) \/ Has(events, k) \/ etcd[k] = db[k])'
      BY <1>1 DEF KeyOK, Has
<1>4. ASSUME NEW q \in Users, batch'[q] = batch[q] PROVE Complete(q, k)'
  <2>1. SUFFICES ASSUME NEW e \in batch[q], e.key = k, IsEnd(e)', NEW f \in events', f.key = k
                 PROVE  f \in batch[q]
        BY <1>4 DEF Complete
  <2>2. IsEnd(e) /\ f \in events
        BY <1>1, <2>1 DEF SameRows
  <2>3. QED
        BY <1>4, <2>1, <2>2 DEF KeyOK, Complete
<1>5. ASSUME NEW q \in Cluster, writer'[q] = writer[q], batch'[q] = batch[q] PROVE Agrees(q, k)'
  <2>1. NextEvent(q)' = NextEvent(q)
        BY <1>5 DEF NextEvent
  <2>2. SUFFICES ASSUME writer[q] \in {"fetch", "delete"}, NextEvent(q).key = k, NextEvent(q) \in events',
                        IsEnd(NextEvent(q))', ~Has(batch[Tool], k)
                 PROVE  etcd[k] = db[k]
        BY <1>5, <2>1 DEF Agrees, Has, IsEnd
  <2>3. NextEvent(q) \in events /\ IsEnd(NextEvent(q))
        BY <1>1, <2>1, <2>2 DEF SameRows, IsEnd
  <2>4. QED
        BY <1>5, <2>2, <2>3 DEF KeyOK, Agrees
<1>6. \A q \in Cluster : q \in Users
      BY DEF Cluster
<1>7. \A q \in Users : Complete(q, k)'
      BY <1>4, <1>6 DEF Others
<1>8. \A q \in Cluster : Agrees(q, k)'
      BY <1>5, <1>6 DEF Others
<1>9. QED
      BY <1>1, <1>2, <1>3, <1>7, <1>8 DEF KeyOK

\* A sync writer deletes a row of k.
LEMMA KeyDelete ==
  ASSUME ToolInv, NEW k \in Keys, KeyOK(k), etcd' = etcd, batch'[Tool] = batch[Tool],
         NEW p \in Cluster, Others(p), DeleteEvent(p) \/ Removal(p), NextEvent(p).key = k, NextEvent(p) \in events
  PROVE  KeyOK(k)'
<1> DEFINE m == NextEvent(p)
<1>1. WriterTypeOK /\ AppliedFirst /\ p \in Users /\ RowsInv /\ \A q \in Users : batch[q] \subseteq Event
      BY RowsInvParts, RowsFacts DEF Cluster, ToolInv
<1>2. writer[p] = "delete"
      BY DEF DeleteEvent, Removal, DeleteUnknown
<1>3. m \in batch[p] /\ m \in Event /\ \A f \in batch[p] : m.id <= f.id
      BY <1>1, <1>2, NextEventType
<1>4. /\ batch'[p] \in {batch[p] \ {m}, {}} /\ events' = events \ {m} /\ db' = db
      /\ writer'[p] \notin {"fetch", "delete"}
      BY <1>1, ListSteps
<1>5. /\ EndsWell(events, k)'
      /\ Has(events', k) \/ (IsEnd(m) /\ Current(m, k))
      /\ Has(events', k) => \A e \in Event : e.key = k /\ IsEnd(e)' => IsEnd(e)
      BY <1>1, <1>3, <1>4, RowLeaves DEF KeyOK
<1>6. EndsWell(batch[Tool], k)'
      BY <1>4 DEF KeyOK, EndsWell, Has, Current
<1>7. (Has(batch[Tool], k) \/ Has(events, k) \/ etcd[k] = db[k])'
  <2>1. Has(events', k) \/ Has(batch[Tool], k) \/ etcd[k] = db[k]
        BY <1>2, <1>5 DEF KeyOK, Agrees
  <2>2. QED
        BY <1>4, <2>1 DEF Has
<1>8. ASSUME NEW q \in Users PROVE Complete(q, k)'
  <2>1. CASE batch'[q] = {}
        BY <2>1 DEF Complete
  <2>2. CASE batch'[q] # {}
    <3>1. /\ batch'[q] \subseteq batch[q] /\ batch[q] \subseteq Event
          /\ \A f \in events' : f.key = k /\ f \in batch[q] => f \in batch'[q]
          BY <1>1, <1>4, <2>2 DEF Others
    <3>2. QED
          BY <1>4, <1>5, <3>1, StaysComplete DEF KeyOK
  <2>3. QED
        BY <2>1, <2>2
<1>9. ASSUME NEW q \in Cluster PROVE Agrees(q, k)'
  <2>1. CASE q = p
        BY <1>4, <2>1 DEF Agrees
  <2>2. CASE q # p
    <3>1. writer'[q] = writer[q] /\ batch'[q] = batch[q] /\ NextEvent(q)' = NextEvent(q) /\ q \in Users
          BY <2>2 DEF Others, Cluster, NextEvent
    <3>2. SUFFICES ASSUME writer[q] \in {"fetch", "delete"}, NextEvent(q).key = k,
                          NextEvent(q) \in events', IsEnd(NextEvent(q))', ~Has(batch[Tool], k)
                   PROVE  etcd[k] = db[k]
          BY <1>4, <3>1 DEF Agrees, Has, IsEnd
    <3>3. Has(events', k) /\ NextEvent(q) \in Event /\ NextEvent(q) \in events
          BY <1>1, <1>4, <3>1, <3>2, NextEventType DEF Has
    <3>4. IsEnd(NextEvent(q))
          BY <1>5, <3>1, <3>2, <3>3 DEF IsEnd
    <3>5. QED
          BY <3>2, <3>3, <3>4 DEF KeyOK, Agrees
  <2>3. QED
        BY <2>1, <2>2
<1>10. QED
      BY <1>5, <1>6, <1>7, <1>8, <1>9 DEF KeyOK

\* A sync writer writes what etcd already has: the row was the last one only if it
\* has the contents of the database.
LEMMA KeyPush ==
  ASSUME "empty" \notin Bodies, ToolInv, NEW k \in Keys, KeyOK(k), db' = db, etcd' = etcd,
         batch'[Tool] = batch[Tool], NEW p \in Cluster, PushEvent(p)
  PROVE  Complete(p, k)' /\ Agrees(p, k)'
<1> DEFINE m == NextEvent(p)
<1>1. /\ WriterTypeOK /\ AppliedFirst /\ p \in Users /\ etcd \in [Keys -> Nat]
      /\ \A e \in events : e.id \in Nat /\ e.body \in Bodies
      BY RowsInvParts, RowsFacts DEF Cluster, ToolInv
<1>2. writer[p] = "push" /\ ApplyToEtcd(m) /\ batch' = batch /\ events' = events
      BY DEF PushEvent, dbVars
<1>3. m \in Event /\ m.key \in Keys
      BY <1>1, <1>2, NextEventType, RowsFacts DEF ToolInv
<1>4. Complete(p, k)'
      BY <1>1, <1>2 DEF KeyOK, Complete, IsEnd
<1>5. ASSUME m.key = k, m \in events, IsEnd(m) PROVE etcd[k] = db[k]
  <2>1. PICK t \in events : Current(t, k) /\ \A f \in events : f.key = k /\ f # t => f.id < t.id
        BY <1>5 DEF KeyOK, EndsWell, Has
  <2>2. t.id <= m.id
        BY <1>5, <2>1 DEF IsEnd, Current
  <2>3. m = t
        BY <1>1, <1>5, <2>1, <2>2
  <2>4. m.type # "delete" /\ m.no = db[k] /\ m.body # "empty"
        BY <1>1, <1>5, <2>1, <2>3 DEF Current
  <2>5. etcd'[k] = m.no
        BY <1>1, <1>2, <1>5, <2>4 DEF ApplyToEtcd
  <2>6. QED
        BY <2>4, <2>5
<1>6. Agrees(p, k)'
      BY <1>2, <1>5 DEF Agrees, NextEvent, IsEnd
<1>7. QED
      BY <1>4, <1>6

\* Every step of the cluster, as long as the tool is alone.
LEMMA ClusterKey ==
  ASSUME "empty" \notin Bodies, ToolInv, ClusterNext, db' = db, etcd' = etcd,
         NEW k \in Keys, db[k] # 0, KeyOK(k)
  PROVE  KeyOK(k)'
<1>1. /\ WriterTypeOK /\ RowsInv /\ \A q \in Users : batch[q] \subseteq Event
      BY RowsInvParts, RowsFacts DEF ToolInv
<1>2. batch'[Tool] = batch[Tool]
      BY <1>1, ClusterSteps
<1>3. \A p \in Cluster : p \in Users
      BY DEF Cluster
<1>4. CASE UNCHANGED <<db, writes, events, nextId, writer, batch>>
      BY <1>4 DEF KeyOK, EndsWell, Has, Current, Complete, Agrees, IsEnd, NextEvent
<1>5. ASSUME NEW p \in Cluster, Others(p), NEW j, NEW type, NEW body, LogEvent(p, j, type, body)
      PROVE  KeyOK(k)'
  <2>1. SameRows(k) /\ writer' = writer /\ batch' = batch
        BY <1>5 DEF LogEvent, SameRows, writerVars
  <2>2. QED
        BY <1>2, <1>5, <2>1, SameKey
<1>6. ASSUME NEW p \in Cluster, Others(p), CommitRows(p) PROVE KeyOK(k)'
  <2>1. events' = events \cup tx[p] /\ writer' = writer /\ batch' = batch
        BY <1>6 DEF CommitRows, writerVars
  <2>2. SameRows(k)
        BY <1>1, <1>3, <1>6, <2>1, CommitElsewhere DEF SameRows
  <2>3. QED
        BY <1>2, <1>6, <2>1, <2>2, SameKey
<1>7. ASSUME NEW p \in Cluster, Others(p), ListEvents(p) \/ RetryEvent(p) \/ Quiet(p) PROVE KeyOK(k)'
  <2>1. events' = events
        BY <1>1, <1>3, <1>7, ListSteps DEF dbVars, Quiet
  <2>2. \/ writer'[p] = writer[p] /\ batch'[p] = batch[p]
        \/ writer'[p] \notin {"fetch", "delete"} /\ batch'[p] \in {batch[p], {}, events}
        BY <1>1, <1>3, <1>7, ListSteps DEF Quiet
  <2>3. SameRows(k)
        BY <2>1 DEF SameRows
  <2>4. ASSUME writer'[p] \notin {"fetch", "delete"}, batch'[p] \in {batch[p], {}, events}
        PROVE  Complete(p, k)' /\ Agrees(p, k)'
        BY <1>3, <2>1, <2>4 DEF KeyOK, Complete, Agrees, IsEnd
  <2>5. QED
        BY <1>2, <1>7, <2>2, <2>3, <2>4, SameKey
<1>8. ASSUME NEW p \in Cluster, Others(p), PushEvent(p) PROVE KeyOK(k)'
  <2>1. SameRows(k)
        BY <1>8 DEF PushEvent, SameRows, dbVars
  <2>2. QED
        BY <1>2, <1>8, <2>1, KeyPush, SameKey
<1>9. ASSUME NEW p \in Cluster, Others(p), FetchEvent(p) PROVE KeyOK(k)'
  <2>1. events' = events /\ writer[p] = "fetch"
        BY <1>9 DEF FetchEvent, dbVars
  <2>2. \/ batch' = batch
        \/ batch'[p] = {} /\ writer'[p] = "unlock"
        BY <1>1, <1>3, <1>9 DEF FetchEvent, RunFails, WriterGoto, WriterTypeOK
  <2>3. Complete(p, k)'
        BY <1>3, <2>1, <2>2 DEF KeyOK, Complete, IsEnd
  <2>4. Agrees(p, k)'
        BY <1>2, <2>1, <2>2, <1>9 DEF KeyOK, Agrees, NextEvent, IsEnd
  <2>5. SameRows(k)
        BY <2>1 DEF SameRows
  <2>6. QED
        BY <1>2, <1>9, <2>3, <2>4, <2>5, SameKey
<1>10. ASSUME NEW p \in Cluster, Others(p), DeleteEvent(p) \/ Removal(p) PROVE KeyOK(k)'
  <2> DEFINE m == NextEvent(p)
  <2>1. /\ batch'[p] \in {batch[p] \ {m}, {}} /\ events' = events \ {m}
        /\ writer'[p] \notin {"fetch", "delete"}
        BY <1>1, <1>3, <1>10, ListSteps
  <2>2. CASE m.key = k /\ m \in events
        BY <1>2, <1>10, <2>2, KeyDelete
  <2>3. CASE m.key # k \/ m \notin events
    <3>1. SameRows(k)
          BY <2>1, <2>3 DEF SameRows
    <3>2. \A e : e.key = k => (IsEnd(e)' <=> IsEnd(e))
          BY <3>1, SameTable
    <3>3. Complete(p, k)'
      <4>1. CASE batch'[p] = {}
            BY <4>1 DEF Complete
      <4>2. CASE batch'[p] # {}
        <5>1. /\ batch'[p] \subseteq batch[p] /\ batch[p] \subseteq Event /\ events' \subseteq events
              /\ \A f \in events' : f.key = k /\ f \in batch[p] => f \in batch'[p]
              BY <1>1, <1>3, <2>1, <4>2
        <5>2. QED
              BY <1>3, <3>2, <5>1, StaysComplete DEF KeyOK
      <4>3. QED
            BY <4>1, <4>2
    <3>4. Agrees(p, k)'
          BY <2>1 DEF Agrees
    <3>5. QED
          BY <1>2, <1>10, <3>1, <3>3, <3>4, SameKey
  <2>4. QED
        BY <2>2, <2>3
<1>11. QED
      BY <1>1, <1>4, <1>5, <1>6, <1>7, <1>8, <1>9, <1>10, ClusterSteps

\* Every step of the cluster keeps AloneInv.
LEMMA ClusterAlone ==
  ASSUME "empty" \notin Bodies, ToolInv, AloneInv, ClusterNext
  PROVE  AloneInv'
<1>1. WriterTypeOK /\ RowsInv /\ LogOK /\ SyncOK /\ WrittenOK /\ ResyncRestores
      BY RowsInvParts DEF ToolInv, AloneInv
<1>2. /\ writer'[Tool] = writer[Tool] /\ batch'[Tool] = batch[Tool] /\ UNCHANGED <<tool, found, emitted>>
      /\ alone' = (alone /\ db' = db /\ etcdVars' = etcdVars)
      BY <1>1, ClusterSteps
<1>3. alone' => alone /\ db' = db /\ etcd' = etcd
      BY <1>2 DEF etcdVars
<1>4. ResyncRestores'
      BY <1>1, <1>2, <1>3 DEF ResyncRestores
<1>5. WrittenOK'
      BY <1>1, <1>2, <1>3 DEF WrittenOK, NextEvent
<1>6. SyncOK'
      BY <1>1, <1>2, <1>3, ClusterKey DEF SyncOK, Handling
<1>7. LogOK'
  <2>1. SUFFICES ASSUME tool = "log", alone', NEW k \in Keys, db[k] # 0,
                        ~(k \in DOMAIN found /\ found[k] = db[k])
                 PROVE  \E e \in emitted : /\ Current(e, k)' /\ Older(events', k, e)
                                           /\ \A q \in Users : Older(batch'[q], k, e)
        BY <1>2, <1>3 DEF LogOK, Older
  <2>2. PICK e \in emitted : /\ Current(e, k) /\ Older(events, k, e)
                             /\ \A q \in Users : Older(batch[q], k, e)
        BY <1>1, <1>3, <2>1 DEF LogOK
  <2>3. Current(e, k)'
        BY <1>3, <2>1, <2>2 DEF Current
  <2>4. \A p \in Cluster : p \in Users
        BY DEF Cluster
  <2>5. ASSUME NEW p \in Users, CommitRows(p) PROVE Older(events', k, e)
    <3>1. \A f \in tx[p] : f.key # k
          BY <1>1, <1>3, <2>1, <2>5, CommitElsewhere
    <3>2. events' = events \cup tx[p]
          BY <2>5 DEF CommitRows
    <3>3. QED
          BY <2>2, <3>1, <3>2 DEF Older
  <2>6. ASSUME NEW p \in Users, NEW j, NEW type, NEW body, LogEvent(p, j, type, body)
        PROVE  events' = events /\ batch' = batch
        BY <2>6 DEF LogEvent, writerVars
  <2>7. ASSUME NEW p \in Users,
               ListEvents(p) \/ PushEvent(p) \/ FetchEvent(p) \/ DeleteEvent(p) \/ Removal(p) \/ RetryEvent(p) \/ Quiet(p)
        PROVE  events' \subseteq events /\ (batch'[p] \subseteq batch[p] \/ batch'[p] = events)
        BY <1>1, <2>7, ListSteps DEF dbVars, Quiet
  <2>8. \A p \in Users : CommitRows(p) => batch' = batch
        BY DEF CommitRows, writerVars
  <2>9. Older(events', k, e)
        BY <1>1, <2>2, <2>4, <2>5, <2>6, <2>7, ClusterSteps DEF Older
  <2>10. ASSUME NEW q \in Users PROVE Older(batch'[q], k, e)
    <3>1. batch'[q] \subseteq batch[q] \/ batch'[q] = events
          BY <1>1, <2>4, <2>6, <2>7, <2>8, ClusterSteps DEF Others
    <3>2. QED
          BY <2>2, <3>1 DEF Older
  <2>11. QED
        BY <2>3, <2>9, <2>10
<1>8. QED
      BY <1>4, <1>5, <1>6, <1>7 DEF AloneInv

\* The tool commits: what it has logged is the end of the table.
LEMMA CommitKey ==
  ASSUME ToolInv, LogOK, CommitEmitted, alone, NEW k \in Keys, db[k] # 0
  PROVE  KeyOK(k)'
<1>1. WriterTypeOK /\ AppliedFirst /\ ToolOK /\ EmittedOK
      BY RowsInvParts DEF ToolInv
<1>2. /\ tool = "log" /\ found = Nothing /\ events' = events \cup emitted
      /\ UNCHANGED <<db, batch>> /\ writer' = [writer EXCEPT ![Tool] = "select"]
      BY DEF CommitEmitted, WriterGoto
<1>3. PICK e \in emitted : /\ Current(e, k) /\ Older(events, k, e)
                           /\ \A p \in Users : Older(batch[p], k, e)
      BY <1>2 DEF LogOK, Nothing
<1>4. Current(e, k)' /\ e \in events' /\ e.key = k /\ e.id \in Nat
      BY <1>1, <1>2, <1>3, RowsFacts DEF Current, EmittedOK, ToolInv
<1>5. \A f \in events' : f.key = k /\ f # e => f.id < e.id
      BY <1>1, <1>2, <1>3, <1>4 DEF Older, EmittedOK
<1>6. EndsWell(events, k)' /\ Has(events', k)
      BY <1>4, <1>5 DEF EndsWell, Has
<1>7. batch'[Tool] = {}
      BY <1>1, <1>2 DEF ToolOK
<1>8. \A p \in Users : \A x \in batch[p] : x.id \in Nat
      BY RowsFacts DEF ToolInv
<1>9. ASSUME NEW p \in Users, NEW x \in batch[p], x.key = k PROVE ~(e.id <= x.id)
      BY <1>3, <1>4, <1>8, <1>9 DEF Older
<1>10. \A p \in Users : Complete(p, k)'
      BY <1>2, <1>4, <1>9 DEF Complete, IsEnd
<1>11. ASSUME NEW p \in Cluster PROVE Agrees(p, k)'
  <2>1. p \in Users /\ writer'[p] = writer[p] /\ NextEvent(p)' = NextEvent(p)
        BY <1>1, <1>2 DEF Cluster, WriterTypeOK, NextEvent
  <2>2. writer[p] \in {"fetch", "delete"} => NextEvent(p) \in batch[p]
        BY <1>1, <2>1, NextEventType
  <2>3. QED
        BY <1>4, <1>9, <2>1, <2>2 DEF Agrees, IsEnd
<1>12. QED
      BY <1>6, <1>7, <1>10, <1>11 DEF KeyOK, EndsWell, Has

\* It writes etcd: a resource of its list is still to be deleted from it.
LEMMA PushKey ==
  ASSUME "empty" \notin Bodies, ToolInv, PushEvent(Tool)
  PROVE  /\ \A k \in Keys : KeyOK(k) => KeyOK(k)'
         /\ etcd'[NextEvent(Tool)'.key] = ValueOf(NextEvent(Tool)')
<1> DEFINE m == NextEvent(Tool)
<1>1. WriterTypeOK /\ AppliedFirst /\ Lists /\ etcd \in [Keys -> Nat]
      BY RowsInvParts, RowsFacts DEF ToolInv
<1>2. /\ writer[Tool] = "push" /\ ApplyToEtcd(m) /\ UNCHANGED <<db, events, batch>>
      /\ writer' = [writer EXCEPT ![Tool] = "fetch"]
      BY DEF PushEvent, WriterGoto, dbVars
<1>3. m \in batch[Tool] /\ m \in Event
      BY <1>1, <1>2, ToolIsUser, NextEventType
<1>4. m.key \in Keys /\ m.body # "empty"
      BY <1>1, <1>3, ToolIsUser, RowsFacts DEF Lists, ToolInv
<1>5. etcd' = [etcd EXCEPT ![m.key] = ValueOf(m)]
      BY <1>2, <1>4 DEF ApplyToEtcd, ValueOf
<1>6. NextEvent(Tool)' = m
      BY <1>2 DEF NextEvent
<1>7. ASSUME NEW k \in Keys, KeyOK(k) PROVE KeyOK(k)'
  <2>1. etcd'[k] = etcd[k] \/ Has(batch[Tool], k)
        BY <1>1, <1>3, <1>5 DEF Has
  <2>2. EndsWell(events, k)' /\ EndsWell(batch[Tool], k)'
        BY <1>2, <1>7 DEF KeyOK, EndsWell, Has, Current
  <2>3. (Has(batch[Tool], k) \/ Has(events, k) \/ etcd[k] = db[k])'
        BY <1>2, <1>7, <2>1 DEF KeyOK, Has
  <2>4. \A p \in Users : Complete(p, k)'
        BY <1>2, <1>7 DEF KeyOK, Complete, IsEnd
  <2>5. ASSUME NEW p \in Cluster PROVE Agrees(p, k)'
    <3>1. p \in Users /\ p # Tool /\ writer'[p] = writer[p]
          BY <1>1, <1>2 DEF Cluster, WriterTypeOK
    <3>2. QED
          BY <1>2, <1>7, <2>1, <3>1 DEF KeyOK, Agrees, NextEvent, IsEnd, Has
  <2>6. QED
        BY <2>2, <2>3, <2>4, <2>5 DEF KeyOK
<1>8. QED
      BY <1>1, <1>4, <1>5, <1>6, <1>7

\* It deletes the row it has written.
LEMMA DeleteKey ==
  ASSUME ToolInv, SyncDelete, NEW k \in Keys, KeyOK(k),
         etcd[NextEvent(Tool).key] = ValueOf(NextEvent(Tool))
  PROVE  KeyOK(k)'
<1> DEFINE m == NextEvent(Tool)
<1>1. /\ WriterTypeOK /\ RowsInv /\ \A q \in Users : batch[q] \subseteq Event
      /\ \A e \in Event : e.id \in Nat
      BY RowsInvParts, RowsFacts DEF ToolInv
<1>2. /\ m \in batch[Tool] /\ \A f \in batch[Tool] : m.id <= f.id
      /\ batch'[Tool] = batch[Tool] \ {m}
      /\ \A q \in Users : q # Tool => writer'[q] = writer[q] /\ batch'[q] = batch[q]
      BY HandledStep
<1>3. events' = events \ {m} /\ UNCHANGED <<db, etcd>>
      BY DEF SyncDelete, etcdVars
<1>4. \/ SameRows(k)
      \/ m.key = k /\ m \in events
      BY <1>3 DEF SameRows
<1>5. /\ EndsWell(events, k)'
      /\ Has(events', k) => \A e \in Event : e.key = k /\ IsEnd(e)' => IsEnd(e)
  <2>1. CASE SameRows(k)
        BY <1>3, <2>1, SameTable DEF KeyOK
  <2>2. CASE m.key = k /\ m \in events
        BY <1>1, <1>2, <1>3, <2>2, ToolIsUser, RowLeaves DEF KeyOK
  <2>3. QED
        BY <1>4, <2>1, <2>2
<1>6. ASSUME m.key = k PROVE EndsWell(batch[Tool], k)' /\ (Has(batch'[Tool], k) \/ etcd[k] = db[k])
  <2>1. PICK t \in batch[Tool] : Current(t, k) /\ \A f \in batch[Tool] : f.key = k /\ f # t => f.id < t.id
        BY <1>2, <1>6 DEF KeyOK, EndsWell, Has
  <2>2. CASE t = m
    <3>1. \A f \in batch[Tool] : f.key = k => f = m
          BY <1>1, <1>2, <2>1, <2>2, ToolIsUser
    <3>2. etcd[k] = db[k]
          BY <1>6, <2>1, <2>2 DEF Current, ValueOf
    <3>3. QED
          BY <1>2, <3>1, <3>2 DEF EndsWell, Has
  <2>3. CASE t # m
    <3>1. t \in batch'[Tool] /\ Current(t, k)' /\ t.key = k
          BY <1>2, <1>3, <2>1, <2>3 DEF Current
    <3>2. QED
          BY <1>2, <2>1, <3>1 DEF EndsWell, Has
  <2>4. QED
        BY <2>2, <2>3
<1>7. ASSUME m.key # k PROVE EndsWell(batch[Tool], k)' /\ (Has(batch'[Tool], k) <=> Has(batch[Tool], k))
  <2>1. \A f : f.key = k => (f \in batch'[Tool] <=> f \in batch[Tool])
        BY <1>2, <1>7
  <2>2. Has(batch'[Tool], k) <=> Has(batch[Tool], k)
        BY <2>1 DEF Has
  <2>3. ASSUME Has(batch[Tool], k)
        PROVE  \E t \in batch'[Tool] : Current(t, k)' /\ \A f \in batch'[Tool] : f.key = k /\ f # t => f.id < t.id
    <3>1. PICK t \in batch[Tool] : Current(t, k) /\ \A f \in batch[Tool] : f.key = k /\ f # t => f.id < t.id
          BY <2>3 DEF KeyOK, EndsWell
    <3>2. t \in batch'[Tool] /\ Current(t, k)'
          BY <1>3, <2>1, <3>1 DEF Current
    <3>3. QED
          BY <2>1, <3>1, <3>2
  <2>4. QED
        BY <2>2, <2>3 DEF EndsWell
<1>8. Has(batch'[Tool], k) \/ Has(events', k) \/ etcd[k] = db[k]
  <2>1. CASE m.key = k
        BY <1>6, <2>1
  <2>2. CASE m.key # k
    <3>1. SameRows(k)
          BY <1>4, <2>2
    <3>2. Has(events', k) <=> Has(events, k)
          BY <1>3, <3>1, SameTable
    <3>3. QED
          BY <1>7, <2>2, <3>2 DEF KeyOK
  <2>3. QED
        BY <2>1, <2>2
<1>9. ASSUME NEW q \in Users PROVE Complete(q, k)'
  <2>1. /\ batch'[q] \subseteq batch[q] /\ batch[q] \subseteq Event /\ events' \subseteq events
        /\ \A f \in events' : f.key = k /\ f \in batch[q] => f \in batch'[q]
        BY <1>1, <1>2, <1>3
  <2>2. QED
        BY <1>5, <2>1, StaysComplete DEF KeyOK
<1>10. ASSUME NEW q \in Cluster PROVE Agrees(q, k)'
  <2>1. q \in Users /\ writer'[q] = writer[q] /\ NextEvent(q)' = NextEvent(q)
        BY <1>2 DEF Cluster, NextEvent
  <2>2. SUFFICES ASSUME writer[q] \in {"fetch", "delete"}, NextEvent(q).key = k, NextEvent(q) \in events',
                        IsEnd(NextEvent(q))', ~Has(batch'[Tool], k)
                 PROVE  etcd[k] = db[k]
        BY <1>3, <2>1 DEF Agrees, Has, IsEnd
  <2>3. CASE m.key = k
        BY <1>6, <2>2, <2>3
  <2>4. CASE m.key # k
    <3>1. Has(events', k) /\ NextEvent(q) \in events /\ NextEvent(q) \in Event
          BY <1>3, <2>2, RowsFacts DEF Has, ToolInv
    <3>2. IsEnd(NextEvent(q))
          BY <1>5, <2>1, <2>2, <3>1 DEF IsEnd
    <3>3. QED
          BY <1>7, <2>2, <2>4, <3>1, <3>2 DEF KeyOK, Agrees
  <2>5. QED
        BY <2>3, <2>4
<1>11. EndsWell(batch[Tool], k)'
      BY <1>6, <1>7
<1>12. QED
      BY <1>3, <1>5, <1>8, <1>9, <1>10, <1>11 DEF KeyOK, Has

\* It lists the table.
LEMMA ListKey ==
  ASSUME ToolInv, SyncAgain, NEW k \in Keys, KeyOK(k)
  PROVE  KeyOK(k)' /\ (events = {} => etcd[k] = db[k])
<1>1. WriterTypeOK /\ ToolOK
      BY RowsInvParts DEF ToolInv
<1>2. /\ writer[Tool] = "select" /\ batch' = [batch EXCEPT ![Tool] = events]
      /\ writer' = writer \/ writer' = [writer EXCEPT ![Tool] = "push"]
      /\ UNCHANGED <<db, events, etcd>>
      BY DEF SyncAgain, WriterGoto, dbVars, etcdVars
<1>3. /\ batch[Tool] = {} /\ batch'[Tool] = events
      /\ \A q \in Users : q # Tool => writer'[q] = writer[q] /\ batch'[q] = batch[q]
      BY <1>1, <1>2, ToolIsUser DEF ToolOK, WriterTypeOK
<1>4. EndsWell(events, k)' /\ EndsWell(batch[Tool], k)'
      BY <1>2, <1>3 DEF KeyOK, EndsWell, Has, Current
<1>5. Has(events, k) \/ etcd[k] = db[k]
      BY <1>3 DEF KeyOK, Has
<1>6. \A q \in Users : Complete(q, k)'
      BY <1>2, <1>3 DEF KeyOK, Complete, IsEnd
<1>7. \A q \in Cluster : Agrees(q, k)'
      BY <1>2, <1>3 DEF Agrees, Has
<1>8. QED
      BY <1>2, <1>3, <1>4, <1>5, <1>6, <1>7 DEF KeyOK, Has

\* The tool logs one more resource, after all the rows there are.
LEMMA EmitLog ==
  ASSUME ToolInv, LogOK, NEW j \in Keys, NEW body \in Bodies, Emit(j, body)
  PROVE  LogOK'
<1> DEFINE e == [id |-> nextId, key |-> j, type |-> "update", no |-> found[j], body |-> body]
<1>1. Lists /\ \A x \in events : x.id < nextId
      BY RowsFacts DEF ToolInv
<1>2. /\ tool = "log" /\ emitted' = emitted \cup {e}
      /\ found' = [i \in DOMAIN found \ {j} |-> found[i]]
      /\ UNCHANGED <<tool, alone, db, events, batch>>
      BY DEF Emit, Logged, writerVars
<1> DEFINE LastOf(x, k) == /\ Current(x, k) /\ Older(events, k, x)
                           /\ \A p \in Users : Older(batch[p], k, x)
<1>3. SUFFICES ASSUME alone, NEW k \in Keys, db[k] # 0, ~(k \in DOMAIN found' /\ found'[k] = db[k])
               PROVE  \E x \in emitted' : LastOf(x, k)
      BY <1>2 DEF LogOK, Current, Older
<1>4. CASE \E x \in emitted : LastOf(x, k)
      BY <1>2, <1>4
<1>5. CASE k \in DOMAIN found /\ found[k] = db[k]
  <2>1. k = j
        BY <1>2, <1>3, <1>5
  <2>2. e.key = k /\ e.type = "update" /\ e.no = db[k] /\ e.id = nextId
        BY <1>5, <2>1
  <2> HIDE DEF e
  <2>3. LastOf(e, k)
        BY <1>1, <2>2 DEF Current, Older, Lists
  <2>4. QED
        BY <1>2, <2>3
<1>6. QED
      BY <1>2, <1>3, <1>4, <1>5 DEF LogOK

\* Every step of the tool, and the loss of a key.
LEMMA ToolAlone ==
  ASSUME "empty" \notin Bodies, ToolInv, AloneInv, ToolStep \/ ToolFault \/ \E k \in Keys : LoseKey(k)
  PROVE  AloneInv'
<1>1. LogOK /\ SyncOK /\ WrittenOK /\ ResyncRestores
      BY DEF AloneInv
<1>2. /\ WriterTypeOK /\ ToolOK /\ Tool \in Users
      BY ToolIsUser, RowsInvParts DEF ToolInv
<1>3. ASSUME tool' \notin {"log", "sync", "done"} \/ ~alone' PROVE AloneInv'
      BY <1>3 DEF AloneInv, LogOK, SyncOK, Handling, WrittenOK, ResyncRestores
<1>4. ASSUME List PROVE AloneInv'
  <2>1. /\ tool' = "log" /\ db' = db
        /\ found' = [k \in {k \in Keys : db[k] # 0} |-> db[k]]
        BY <1>4 DEF List, pipelineVars, dbVars
  <2>2. LogOK'
        BY <2>1 DEF LogOK
  <2>3. QED
        BY <2>1, <2>2 DEF AloneInv, SyncOK, Handling, WrittenOK, ResyncRestores
<1>5. ASSUME NEW k \in Keys, NEW body \in Bodies, Emit(k, body) PROVE AloneInv'
  <2>1. tool' = "log"
        BY <1>5 DEF Emit
  <2>2. LogOK'
        BY <1>1, <1>5, EmitLog
  <2>3. QED
        BY <2>1, <2>2 DEF AloneInv, SyncOK, Handling, WrittenOK, ResyncRestores
<1>6. ASSUME CommitEmitted PROVE AloneInv'
  <2>1. /\ tool' = "sync" /\ UNCHANGED <<db, alone>> /\ writer' = [writer EXCEPT ![Tool] = "select"]
        BY <1>6 DEF CommitEmitted, WriterGoto
  <2>2. writer'[Tool] = "select"
        BY <1>2, <2>1 DEF WriterTypeOK
  <2>3. SyncOK'
        BY <1>1, <1>6, <2>1, CommitKey DEF SyncOK, Handling
  <2>4. QED
        BY <2>1, <2>2, <2>3 DEF AloneInv, LogOK, WrittenOK, ResyncRestores
<1>7. ASSUME SyncAgain PROVE AloneInv'
  <2>1. /\ tool = "sync" /\ writer[Tool] = "select" /\ UNCHANGED <<db, etcd, alone>>
        /\ \/ events = {} /\ tool' = "done"
           \/ tool' = "sync" /\ writer' = [writer EXCEPT ![Tool] = "push"]
        BY <1>7 DEF SyncAgain, WriterGoto, dbVars, etcdVars
  <2>2. alone => \A k \in Keys : db[k] # 0 => KeyOK(k)
        BY <1>1, <2>1 DEF SyncOK, Handling
  <2>3. alone => \A k \in Keys : db[k] # 0 => KeyOK(k)' /\ (events = {} => etcd[k] = db[k])
        BY <1>7, <2>2, ListKey
  <2>4. SyncOK' /\ ResyncRestores'
        BY <2>1, <2>3 DEF SyncOK, Handling, ResyncRestores
  <2>5. WrittenOK' /\ LogOK'
        BY <1>2, <2>1 DEF WrittenOK, LogOK, WriterTypeOK
  <2>6. QED
        BY <2>4, <2>5 DEF AloneInv
<1>8. ASSUME SyncPush PROVE AloneInv'
  <2>1. /\ tool = "sync" /\ tool' = "sync" /\ PushEvent(Tool) /\ UNCHANGED <<db, alone>> /\ writer[Tool] = "push"
        BY <1>8 DEF SyncPush, PushEvent, toolVars, dbVars
  <2>2. SyncOK'
        BY <1>1, <2>1, PushKey DEF SyncOK, Handling
  <2>3. WrittenOK'
        BY <2>1, PushKey DEF WrittenOK, ValueOf
  <2>4. QED
        BY <2>1, <2>2, <2>3 DEF AloneInv, LogOK, ResyncRestores
<1>9. ASSUME SyncDelete PROVE AloneInv'
  <2>1. /\ tool = "sync" /\ tool' = "sync" /\ UNCHANGED <<db, alone>> /\ writer[Tool] = "fetch"
        BY <1>9 DEF SyncDelete, toolVars
  <2>2. writer'[Tool] # "fetch"
        BY <1>9, HandledStep
  <2>3. SyncOK'
        BY <1>1, <1>9, <2>1, DeleteKey DEF SyncOK, Handling, WrittenOK
  <2>4. QED
        BY <2>1, <2>2, <2>3 DEF AloneInv, LogOK, WrittenOK, ResyncRestores
<1>10. ASSUME tool = "sync", UNCHANGED toolVars,
              \/ PushUnsyncable(Tool) \/ PushError(Tool)
              \/ DeleteUnknown(Tool, "fetch") \/ WriterError(Tool)
       PROVE  AloneInv'
  <2>1. RunFails(Tool) /\ tool' = "sync"
        BY <1>10 DEF PushUnsyncable, PushError, DeleteUnknown, WriterError, toolVars
  <2>2. writer'[Tool] = "unlock"
        BY <1>2, <2>1 DEF RunFails, WriterGoto, WriterTypeOK
  <2>3. QED
        BY <2>1, <2>2 DEF AloneInv, LogOK, SyncOK, Handling, WrittenOK, ResyncRestores
<1>11. ASSUME tool = "sync", UNCHANGED toolVars, RetryEvent(Tool) PROVE AloneInv'
  <2>1. /\ tool' = "sync" /\ UNCHANGED <<alone, db, events, etcd, batch>>
        /\ writer[Tool] \in {"fetch", "delete"} /\ writer' = [writer EXCEPT ![Tool] = "push"]
        BY <1>11 DEF RetryEvent, WriterGoto, toolVars, dbVars, etcdVars
  <2>2. writer'[Tool] = "push" /\ \A q \in Cluster : writer'[q] = writer[q]
        BY <1>2, <2>1 DEF WriterTypeOK, Cluster
  <2>3. \A k \in Keys : KeyOK(k) => KeyOK(k)'
        BY <2>1, <2>2 DEF KeyOK, EndsWell, Has, Current, Complete, Agrees, IsEnd, NextEvent
  <2>4. SyncOK'
        BY <1>1, <1>11, <2>1, <2>3 DEF SyncOK, Handling
  <2>5. QED
        BY <2>1, <2>2, <2>4 DEF AloneInv, LogOK, WrittenOK, ResyncRestores
<1>12. ASSUME NEW k \in Keys, EmitError(k) PROVE AloneInv'
  <2>1. ~alone'
        BY <1>12 DEF EmitError
  <2>2. QED
        BY <1>3, <2>1
<1>13. ASSUME ToolError \/ CommitEmittedUnknown \/ SyncFails \/ StartAgain \/ \E k \in Keys : LoseKey(k) PROVE AloneInv'
  <2>1. tool' \in {"failed", "off"}
        BY <1>13 DEF ToolError, CommitEmittedUnknown, SyncFails, StartAgain, LoseKey, toolVars
  <2>2. QED
        BY <1>3, <2>1
<1>14. SyncEventError => AloneInv'
      BY <1>10, <1>11, Zenon DEF SyncEventError
<1>15. QED
      BY <1>4, <1>5, <1>6, <1>7, <1>8, <1>9, <1>12, <1>13, <1>14, Zenon DEF ToolStep, ToolFault

-----------------------------------------------------------------------------
(* The theorems about the tool *)

\* The initial states.
LEMMA ResyncInvInit == ResyncInit => ToolInv /\ AloneInv
<1>1. ASSUME ResyncInit PROVE ToolInv /\ AloneInv
  <2>1. /\ Init /\ tool = "off" /\ found = Nothing /\ emitted = {} /\ alone = TRUE
        BY <1>1 DEF ResyncInit
  <2>2. RowsInv
        BY <2>1, TableInvInit DEF TableInv
  <2>3. events = {} /\ writer = [p \in Users |-> "lock"] /\ batch = [p \in Users |-> {}]
        BY <2>1 DEF Init
  <2>4. Lists
        BY <2>1, <2>3, FS_EmptySet DEF Lists
  <2>5. ToolOK
        BY <2>1, <2>3, ToolIsUser DEF ToolOK, ToolPC
  <2>6. DOMAIN found = {}
        BY <2>1 DEF Nothing
  <2>7. EmittedOK
        BY <2>1, <2>6 DEF EmittedOK
  <2>8. AloneInv
        BY <2>1 DEF AloneInv, LogOK, SyncOK, Handling, WrittenOK, ResyncRestores
  <2>9. QED
        BY <2>2, <2>4, <2>5, <2>7, <2>8 DEF ToolInv
<1>2. QED
      BY <1>1

\* Every step keeps AloneInv.
LEMMA AloneInvStep ==
  ASSUME "empty" \notin Bodies
  PROVE  ToolInv /\ AloneInv /\ [ResyncNext]_resyncVars => AloneInv'
<1>1. ASSUME ToolInv, AloneInv, UNCHANGED resyncVars PROVE AloneInv'
  <2>1. UNCHANGED <<tool, found, emitted, alone>> /\ UNCHANGED <<db, events, etcd, writer, batch>>
        BY <1>1 DEF resyncVars, toolVars, pipelineVars, dbVars, etcdVars, writerVars
  <2>2. NextEvent(Tool)' = NextEvent(Tool) /\ \A k \in Keys : KeyOK(k)' <=> KeyOK(k)
        BY <2>1 DEF KeyOK, EndsWell, Has, Current, Complete, Agrees, IsEnd, NextEvent
  <2>3. LogOK' /\ SyncOK' /\ WrittenOK' /\ ResyncRestores'
        BY <1>1, <2>1, <2>2
        DEF AloneInv, LogOK, SyncOK, Handling, WrittenOK, ResyncRestores, Current, Older, ValueOf
  <2>4. QED
        BY <2>3 DEF AloneInv
<1>2. QED
      BY <1>1, ClusterAlone, ToolAlone, Zenon DEF ResyncNext

\* Beside the tool, which takes no lock, the rows and the lists of the pipeline stay as
\* they should be, whoever fails or loses the lock.
THEOREM ToolCorrect == ResyncSpec => []ToolInv
<1>1. QED
      BY ResyncInvInit, ToolInvStep, PTL DEF ResyncSpec

\* A row leaves the table only after its change has been applied to etcd, whichever of
\* the tool and the sync writers works on it and whoever has deleted it first.
THEOREM RemovedWereAppliedBesideTool == ResyncSpec => []AppliedBeforeRemoved
<1>1. ToolInv => AppliedBeforeRemoved
      BY DEF ToolInv, RowsInv
<1>2. QED
      BY <1>1, ToolCorrect, PTL

\* When "gohan resync" ends well, and nobody but it has written meanwhile, every resource
\* is in etcd as it is in the database, for any number of processes whose writers went on
\* with older rows, and whatever leases have expired and keys have been lost before.  A
\* body written to etcd as it is, or refused: the empty string that Update ignores is not
\* among the contents.
THEOREM ResyncRestoresEtcd ==
  ASSUME "empty" \notin Bodies
  PROVE  ResyncSpec => []ResyncRestores
<1>1. ToolInv /\ AloneInv /\ [ResyncNext]_resyncVars => (ToolInv /\ AloneInv)'
      BY ToolInvStep, AloneInvStep
<1>2. AloneInv => ResyncRestores
      BY DEF AloneInv
<1>3. QED
      BY <1>1, <1>2, ResyncInvInit, PTL DEF ResyncSpec
=============================================================================
