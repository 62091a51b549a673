--------------------------- MODULE Request_proofs ---------------------------
(***************************************************************************)
(* Proofs about a request, its handlers and its cached transaction, for    *)
(* any set of fields and any number of retries, effects of handlers and    *)
(* commits of other processes.                                             *)
(***************************************************************************)
EXTENDS Request, TLAPS

\* The maps of some of the fields, and the contexts made of them.
DataSet == UNION {[fs -> Nat] : fs \in SUBSET Fields}
Contexts == [resource : {Own} \cup DataSet, response : {NoRow} \cup DataSet, exception : Errors]

\* The parts of TypeOK that are about the request.
RequestTypeOK ==
  /\ op \in Ops /\ policy \in Policies /\ pc \in PC /\ err \in Errors
  /\ data \in DataSet /\ first \in DataSet /\ ctx \in Contexts
  /\ attempt \in 0 .. MaxRetries + 1 /\ raised \in 0 .. attempt
  /\ result \in {"none", "ok", "error"}
  /\ shared \subseteq Keys \X Fields /\ lent \subseteq Nested
  /\ touched \subseteq Keys /\ meddled \subseteq Fields

\* The request has read the resource it changes, in its transaction.
HasRead == op # "create" /\ pc \in {"pre_in_tx", "write", "post_in_tx", "commit"}

\* How far the request is: what the transaction has done by then, and what the
\* context refers to.
PhaseOK ==
  /\ pc \in {"pre", "prefetch"} => attempt = 0
  /\ pc = "begin" => attempt <= MaxRetries
  /\ pc = "prefetch" => op = "delete"
  /\ pc \in {"check", "fetch"} => op # "create" /\ touched = {} /\ shared = {}
  /\ pc \in {"pre", "prefetch", "begin", "check", "fetch"} => own = NoWrite
  /\ pc \in {"pre", "prefetch", "begin"} => DOMAIN cache = {}
  /\ pc \in {"pre", "prefetch", "check", "fetch"} => ctx.resource = Own
  /\ op = "create" => ctx.resource = Own /\ data \in Rows
  /\ HasRead \/ (op # "create" /\ pc = "post") => ctx.resource \in Rows

\* The parts of TypeOK that are about the transaction.
TxTypeOK ==
  /\ isolation \in Isolations
  /\ row \in Rows \cup {NoRow} /\ own \in Rows \cup {NoRow, NoWrite}
  /\ snapshot \in Rows \cup {NoRow, NoWrite} /\ locked \in BOOLEAN
  /\ DOMAIN cache \subseteq Keys
  /\ \A k \in DOMAIN cache : cache[k] \in [row : Rows \cup {NoRow}, locked : BOOLEAN]
  /\ others \in Nat

\* What the transaction has locked and seen accounts for the entries of the cache.
CacheOK ==
  /\ Written => locked
  /\ isolation = "read committed" => DOMAIN cache = {}
  /\ \A k \in DOMAIN cache :
       /\ cache[k].locked \/ isolation = "serializable" => locked
       /\ ~cache[k].locked /\ ~Written /\ isolation = "repeatable read" => snapshot # NoWrite

TxInv == TxTypeOK /\ CacheOK

\* The context shares values only with resources that the cache has found.
SharedOK == \A k \in DOMAIN cache, f \in Fields : <<k, f>> \in shared => cache[k].row \in Rows

\* The entry of the cache is what the database would answer to a read of the kind
\* that has made it.
Current(k) == cache[k].row = IF cache[k].locked THEN Latest ELSE PlainRead
EntriesCurrent ==
  \A k \in DOMAIN cache \ touched :
    cache[k].row = IF cache[k].locked THEN Latest ELSE PlainRead

\* A guarded request keeps the row locked that it has read, and changes of it what
\* the request and the handlers name.
ReadIsLocked == HasRead /\ Guarded => locked /\ row # NoRow
UpdateOK ==
  HasRead /\ Guarded /\ op = "update" =>
    /\ Latest \in Rows
    /\ \A f \in Fields \ (DOMAIN first \cup meddled) : Latest[f] = row[f] /\ Resource[f] = row[f]
DeleteOK ==
  HasRead /\ Guarded /\ op = "delete" => \A f \in Fields \ meddled : Resource[f] = row[f]

\* What is written is what the client is told.
ResponseOK ==
  pc \in {"post_in_tx", "commit"} /\ Guarded /\ op # "delete" /\ meddled = {} =>
    Written /\ ctx.response = own

\* The map the request came with.
DataOK ==
  /\ op = "update" \/ attempt > 0 => DOMAIN data = DOMAIN first
  /\ op # "create" /\ attempt > 0 => \A f \in DOMAIN first \ Nested : data[f] = first[f]

\* The inductive invariant.
RequestInv ==
  /\ TxInv /\ EntriesCurrent /\ SharedOK
  /\ RequestTypeOK /\ PhaseOK /\ NoStaleException
  /\ ReadIsLocked /\ UpdateOK /\ DeleteOK /\ ResponseOK /\ DataOK

-----------------------------------------------------------------------------
(* The transaction *)

\* The markers are no rows.
LEMMA Markers ==
  /\ NoRow \notin Rows /\ NoWrite \notin Rows /\ Own \notin Rows /\ NoRow # NoWrite
  /\ MaxRetries \in Nat /\ Nested \subseteq Fields
BY RequestConstants DEF RequestConstants

\* Latest and PlainRead are rows or NoRow.
LEMMA ReadType ==
  ASSUME TxTypeOK
  PROVE  Latest \in Rows \cup {NoRow} /\ PlainRead \in Rows \cup {NoRow}
BY DEF TxTypeOK, Latest, PlainRead, Written

\* An entry of the cache.
LEMMA EntryType ==
  ASSUME NEW S, NEW x \in S, NEW b \in BOOLEAN
  PROVE  [row |-> x, locked |-> b] \in [row : S, locked : BOOLEAN]
OBVIOUS

\* What a query does to the transaction, and the cache s that it leaves: entries that
\* are current stay so.
ReadResult(s, key, lock) ==
  /\ UNCHANGED <<isolation, row, own, others>>
  /\ locked' \in BOOLEAN /\ (locked => locked')
  /\ lock \/ isolation = "serializable" => locked'
  /\ snapshot' \in Rows \cup {NoRow, NoWrite}
  /\ Found(key, lock) \in Rows \cup {NoRow}
  /\ DOMAIN s \subseteq Keys
  /\ \A k \in DOMAIN s :
       /\ s[k] \in [row : Rows \cup {NoRow}, locked : BOOLEAN]
       /\ s[k].locked \/ isolation = "serializable" => locked'
       /\ ~s[k].locked /\ ~Written /\ isolation = "repeatable read" => snapshot' # NoWrite
       /\ (k \in DOMAIN cache /\ Current(k)) \/ (k = key /\ ~CacheHit(key, lock))
            => s[k].row = IF s[k].locked THEN Latest' ELSE PlainRead'
       /\ k \in DOMAIN cache \/ (k = key /\ ~CacheHit(key, lock))
       /\ ~(k = key /\ ~CacheHit(key, lock)) => s[k] = cache[k]
  /\ isolation = "read committed" => DOMAIN s = {}
  /\ key \in DOMAIN s => s[key].row = Found(key, lock)

\* Every query of a transaction does that.
LEMMA ReadFacts ==
  ASSUME TxInv, NEW key \in Keys, NEW lock \in BOOLEAN, ReadThrough(key, lock),
         NEW s, s = Saved(key, lock)
  PROVE  ReadResult(s, key, lock)
<1>1. TxTypeOK /\ CacheOK /\ NoRow # NoWrite /\ NoWrite \notin Rows
      BY Markers DEF TxInv
<1>2. Found(key, lock) \in Rows \cup {NoRow}
  <2>1. CASE CacheHit(key, lock)
    <3>1. key \in DOMAIN cache
          BY <2>1 DEF CacheHit
    <3>2. cache[key] \in [row : Rows \cup {NoRow}, locked : BOOLEAN]
          BY <1>1, <3>1 DEF TxTypeOK
    <3>3. QED
          BY <2>1, <3>2 DEF Found
  <2>2. CASE ~CacheHit(key, lock)
        BY <1>1, <2>2, ReadType DEF Found
  <2>3. QED
        BY <2>1, <2>2
<1>3. CASE CacheHit(key, lock)
  <2>1. s = cache /\ UNCHANGED <<isolation, row, own, snapshot, locked, others>>
        BY <1>3 DEF Saved, ReadThrough, dbVars
  <2>2. key \in DOMAIN cache /\ (lock => cache[key].locked) /\ Found(key, lock) = cache[key].row
        BY <1>3 DEF CacheHit, Found
  <2>3. Latest' = Latest /\ PlainRead' = PlainRead
        BY <2>1 DEF Latest, PlainRead, Written
  <2>4. \A k \in DOMAIN cache :
              /\ cache[k] \in [row : Rows \cup {NoRow}, locked : BOOLEAN]
              /\ cache[k].locked \/ isolation = "serializable" => locked
              /\ ~cache[k].locked /\ ~Written /\ isolation = "repeatable read" => snapshot # NoWrite
        BY <1>1 DEF TxTypeOK, CacheOK
  <2>5. lock \/ isolation = "serializable" => locked
        BY <2>2, <2>4
  <2>6. \A k \in DOMAIN cache : Current(k) => cache[k].row = IF cache[k].locked THEN Latest' ELSE PlainRead'
        BY <2>3 DEF Current
  <2>7. /\ locked' \in BOOLEAN /\ snapshot' \in Rows \cup {NoRow, NoWrite}
        /\ DOMAIN cache \subseteq Keys
        /\ isolation = "read committed" => DOMAIN cache = {}
        BY <1>1, <2>1 DEF TxTypeOK, CacheOK
  <2>8. QED
        BY <1>2, <1>3, <2>1, <2>2, <2>4, <2>5, <2>6, <2>7 DEF ReadResult
<1>4. CASE ~CacheHit(key, lock)
  <2>1. /\ locked' = (locked \/ lock \/ isolation = "serializable")
        /\ snapshot' = IF lock \/ snapshot # NoWrite \/ isolation # "repeatable read"
                       THEN snapshot ELSE row
        /\ UNCHANGED <<isolation, row, own, others>>
        BY <1>4 DEF ReadThrough, DbRead
  <2>2. Found(key, lock) = IF lock THEN Latest ELSE PlainRead
        BY <1>4 DEF Found
  <2>3. s = IF ~IsCached THEN cache
            ELSE [k \in DOMAIN cache \cup {key} |->
                    IF k = key THEN [row |-> Found(key, lock), locked |-> lock] ELSE cache[k]]
        BY <1>4 DEF Saved
  <2>4. Latest' = Latest /\ Written' = Written
        BY <2>1 DEF Latest, Written
  <2>5. snapshot' \in Rows \cup {NoRow, NoWrite} /\ (snapshot # NoWrite => snapshot' = snapshot)
        BY <1>1, <2>1 DEF TxTypeOK
  <2>6. ~Written /\ isolation = "repeatable read" /\ ~lock => snapshot' # NoWrite
        BY <1>1, <2>1 DEF TxTypeOK
  <2>7. (snapshot = NoWrite => PlainRead' = Latest) /\ (snapshot # NoWrite => PlainRead' = PlainRead)
        BY <1>1, <2>1, <2>4, <2>5 DEF PlainRead, Latest, Written
  <2>8. PlainRead' = PlainRead
        BY <2>7 DEF PlainRead
  <2>9. locked' \in BOOLEAN /\ (locked => locked') /\ (lock \/ isolation = "serializable" => locked')
        BY <2>1
  <2>10. \A k \in DOMAIN cache :
              /\ cache[k] \in [row : Rows \cup {NoRow}, locked : BOOLEAN]
              /\ cache[k].locked \/ isolation = "serializable" => locked'
              /\ ~cache[k].locked /\ ~Written /\ isolation = "repeatable read" => snapshot' # NoWrite
              /\ Current(k) => cache[k].row = IF cache[k].locked THEN Latest' ELSE PlainRead'
        BY <1>1, <2>4, <2>5, <2>8, <2>9 DEF TxTypeOK, CacheOK, Current
  <2>11. DOMAIN cache \subseteq Keys /\ (isolation = "read committed" => DOMAIN cache = {})
        BY <1>1 DEF TxTypeOK, CacheOK
  <2>12. CASE ~IsCached
    <3>1. isolation = "read committed" /\ DOMAIN cache = {} /\ s = cache
          BY <1>1, <2>3, <2>12 DEF TxTypeOK, CacheOK, Isolations, IsCached
    <3>2. QED
          BY <1>2, <2>1, <2>5, <2>9, <3>1 DEF ReadResult
  <2>13. CASE IsCached
    <3>1. /\ DOMAIN s = DOMAIN cache \cup {key} /\ isolation # "read committed"
          /\ s[key] = [row |-> Found(key, lock), locked |-> lock]
          /\ \A k \in DOMAIN cache : k # key => s[k] = cache[k]
          BY <2>3, <2>13 DEF IsCached
    <3>2. s[key].row = Found(key, lock) /\ (s[key].locked <=> lock)
      <4>1. s[key] = [row |-> Found(key, lock), locked |-> lock]
            BY <3>1
      <4>2. CASE lock = TRUE
            BY <4>1, <4>2
      <4>3. CASE lock = FALSE
            BY <4>1, <4>3
      <4>4. QED
            BY <4>2, <4>3
    <3>b. s[key] \in [row : Rows \cup {NoRow}, locked : BOOLEAN]
      <4>1. s[key] = [row |-> Found(key, lock), locked |-> lock]
            BY <3>1
      <4>2. [row |-> Found(key, lock), locked |-> lock] \in [row : Rows \cup {NoRow}, locked : BOOLEAN]
            BY <1>2, EntryType, Zenon
      <4>3. QED
            BY <4>1, <4>2, Zenon
    <3>3. s[key].row = IF s[key].locked THEN Latest' ELSE PlainRead'
          BY <2>2, <2>4, <2>8, <3>2
    <3>4. ASSUME NEW k \in DOMAIN s
          PROVE  /\ s[k] \in [row : Rows \cup {NoRow}, locked : BOOLEAN]
                 /\ s[k].locked \/ isolation = "serializable" => locked'
                 /\ ~s[k].locked /\ ~Written /\ isolation = "repeatable read" => snapshot' # NoWrite
                 /\ (k \in DOMAIN cache /\ Current(k)) \/ (k = key /\ ~CacheHit(key, lock))
                     => s[k].row = IF s[k].locked THEN Latest' ELSE PlainRead'
                 /\ k \in DOMAIN cache \/ (k = key /\ ~CacheHit(key, lock))
                 /\ ~(k = key /\ ~CacheHit(key, lock)) => s[k] = cache[k]
      <4>1. CASE k = key
            BY <1>4, <2>6, <2>9, <3>2, <3>b, <3>3, <4>1
      <4>2. CASE k # key
        <5>1. k \in DOMAIN cache /\ s[k] = cache[k]
              BY <3>1, <4>2
        <5>2. QED
              BY <2>10, <4>2, <5>1
      <4>3. QED
            BY <4>1, <4>2
    <3>5. QED
          BY <1>2, <2>1, <2>5, <2>9, <2>11, <3>1, <3>2, <3>4 DEF ReadResult
  <2>14. QED
        BY <2>12, <2>13
<1>5. QED
      BY <1>3, <1>4

\* A step that leaves the transaction alone, and the history of its cache.
LEMMA TxUnchanged ==
  ASSUME TxInv, EntriesCurrent, UNCHANGED <<txVars, touched>>
  PROVE  TxInv' /\ EntriesCurrent' /\ Latest' = Latest
BY DEF TxInv, TxTypeOK, CacheOK, EntriesCurrent, Latest, PlainRead, Written, txVars, dbVars

\* Nothing of an empty cache is stale.
LEMMA EmptyCache ==
  ASSUME TxTypeOK', (Written => locked)', cache' = NoCache
  PROVE  TxInv' /\ EntriesCurrent' /\ SharedOK' /\ DOMAIN cache' = {}
<1>1. DOMAIN cache' = {}
      BY DEF NoCache
<1>2. QED
      BY <1>1 DEF TxInv, CacheOK, EntriesCurrent, SharedOK

\* A write empties the cache and keeps the row locked.
LEMMA WriteTx ==
  ASSUME TxInv, NEW r \in Rows \cup {NoRow, NoWrite}, Write(r)
  PROVE  /\ TxInv' /\ EntriesCurrent' /\ SharedOK' /\ DOMAIN cache' = {}
         /\ own' = r /\ locked' /\ row' = row /\ isolation' = isolation
         /\ Latest' = IF r # NoWrite THEN r ELSE row
<1>1. /\ own' = r /\ locked' = TRUE /\ cache' = NoCache
      /\ UNCHANGED <<isolation, row, snapshot, others>>
      BY DEF Write
<1>2. DOMAIN cache' = {}
      BY <1>1 DEF NoCache
<1>3. TxTypeOK'
      BY <1>1, <1>2 DEF TxInv, TxTypeOK
<1>4. (Written => locked)'
      BY <1>1
<1>5. Latest' = IF r # NoWrite THEN r ELSE row
      BY <1>1 DEF Latest, Written
<1>6. QED
      BY <1>1, <1>3, <1>4, <1>5, EmptyCache

\* The end of a transaction leaves nothing of it but what it has committed.
LEMMA EndOfTx ==
  ASSUME TxInv, EndTx, row' \in Rows \cup {NoRow}
  PROVE  TxInv' /\ EntriesCurrent' /\ SharedOK' /\ DOMAIN cache' = {} /\ own' = NoWrite
<1>1. /\ own' = NoWrite /\ snapshot' = NoWrite /\ locked' = FALSE /\ cache' = NoCache
      /\ UNCHANGED <<isolation, others>>
      BY DEF EndTx
<1>2. DOMAIN cache' = {}
      BY <1>1 DEF NoCache
<1>3. TxTypeOK'
      BY <1>1, <1>2 DEF TxInv, TxTypeOK
<1>4. (Written => locked)'
      BY <1>1 DEF Written
<1>5. QED
      BY <1>1, <1>3, <1>4, EmptyCache

\* Another process can commit only while the transaction has no lock; then its cache
\* holds nothing but answers to plain reads of its snapshot.
LEMMA OtherTx ==
  ASSUME TxInv, EntriesCurrent, OtherCommits, UNCHANGED touched
  PROVE  TxInv' /\ EntriesCurrent'
<1>1. /\ ~locked /\ others' = others + 1 /\ row' \in {NoRow, [f \in Fields |-> 100 + others]}
      /\ UNCHANGED <<isolation, own, snapshot, locked, cache>>
      BY DEF OtherCommits
<1>2. TxTypeOK /\ CacheOK
      BY DEF TxInv
<1>3. [f \in Fields |-> 100 + others] \in Rows
      BY <1>2 DEF TxTypeOK, Rows
<1>4. TxTypeOK'
      BY <1>1, <1>2, <1>3 DEF TxTypeOK
<1>5. CacheOK'
      BY <1>1, <1>2 DEF CacheOK, Written
<1>6. EntriesCurrent'
  <2> SUFFICES ASSUME NEW k \in DOMAIN cache \ touched
               PROVE  cache[k].row = IF cache[k].locked THEN Latest' ELSE PlainRead'
      BY <1>1 DEF EntriesCurrent
  <2>1. ~Written /\ ~cache[k].locked /\ isolation = "repeatable read" /\ snapshot # NoWrite
        BY <1>1, <1>2 DEF CacheOK, TxTypeOK, Isolations
  <2>2. PlainRead = snapshot /\ PlainRead' = snapshot
        BY <1>1, <2>1 DEF PlainRead, Written
  <2>3. cache[k].row = PlainRead
        BY <2>1 DEF EntriesCurrent
  <2>4. QED
        BY <2>1, <2>2, <2>3
<1>7. QED
      BY <1>4, <1>5, <1>6 DEF TxInv

\* A query of a transaction whose cache is current.
LEMMA ReadTx ==
  ASSUME TxInv, EntriesCurrent, NEW key \in Keys, NEW lock \in BOOLEAN,
         ReadThrough(key, lock), cache' = Saved(key, lock),
         touched' = touched \ (IF CacheHit(key, lock) THEN {} ELSE {key}) \/ touched' = touched
  PROVE  /\ TxInv' /\ EntriesCurrent'
         /\ UNCHANGED <<isolation, row, own>> /\ Latest' = Latest /\ (locked => locked')
<1>a. PICK s : s = Saved(key, lock)
      OBVIOUS
<1>b. cache' = s
      BY <1>a
<1>c. ReadResult(s, key, lock)
      BY <1>a, ReadFacts
<1>1. /\ UNCHANGED <<isolation, row, own, others>>
      /\ locked' \in BOOLEAN /\ (locked => locked')
      /\ snapshot' \in Rows \cup {NoRow, NoWrite}
      /\ DOMAIN cache' \subseteq Keys
      /\ \A k \in DOMAIN cache' :
           /\ cache'[k] \in [row : Rows \cup {NoRow}, locked : BOOLEAN]
           /\ cache'[k].locked \/ isolation = "serializable" => locked'
           /\ ~cache'[k].locked /\ ~Written /\ isolation = "repeatable read" => snapshot' # NoWrite
           /\ (k \in DOMAIN cache /\ Current(k)) \/ (k = key /\ ~CacheHit(key, lock))
                => cache'[k].row = IF cache'[k].locked THEN Latest' ELSE PlainRead'
           /\ k \in DOMAIN cache \/ (k = key /\ ~CacheHit(key, lock))
      /\ isolation = "read committed" => DOMAIN cache' = {}
      BY <1>b, <1>c DEF ReadResult
<1>2. Written' = Written /\ Latest' = Latest
      BY <1>1 DEF Latest, Written
<1>3. TxTypeOK'
      BY <1>1 DEF TxInv, TxTypeOK
<1>4. CacheOK'
      BY <1>1, <1>2 DEF TxInv, CacheOK
<1>5. EntriesCurrent'
  <2> SUFFICES ASSUME NEW k \in DOMAIN cache' \ touched'
               PROVE  cache'[k].row = IF cache'[k].locked THEN Latest' ELSE PlainRead'
      BY DEF EntriesCurrent
  <2>1. CASE k = key /\ ~CacheHit(key, lock)
        BY <1>1, <2>1
  <2>2. CASE ~(k = key /\ ~CacheHit(key, lock))
    <3>1. k \in DOMAIN cache /\ k \notin touched
          BY <1>1, <2>2
    <3>2. Current(k)
          BY <3>1 DEF Current, EntriesCurrent
    <3>3. QED
          BY <1>1, <3>1, <3>2
  <2>3. QED
        BY <2>1, <2>2
<1>6. QED
      BY <1>1, <1>2, <1>3, <1>4, <1>5 DEF TxInv

-----------------------------------------------------------------------------
(* The maps of the request *)

\* A map stays one when a field is changed in place.
LEMMA DataFacts ==
  ASSUME NEW d \in DataSet
  PROVE  /\ DOMAIN d \subseteq Fields /\ d \in [DOMAIN d -> Nat]
         /\ \A f, n : n \in Nat => [d EXCEPT ![f] = n] \in DataSet
         /\ \A f : DOMAIN [d EXCEPT ![f] = d[f] + 10] = DOMAIN d
         /\ \A f \in DOMAIN d : d[f] + 10 \in Nat
<1>1. PICK fs \in SUBSET Fields : d \in [fs -> Nat]
      BY DEF DataSet
<1>2. DOMAIN d = fs
      BY <1>1
<1>3. ASSUME NEW f, NEW n \in Nat PROVE [d EXCEPT ![f] = n] \in DataSet
  <2>1. [d EXCEPT ![f] = n] \in [fs -> Nat]
        BY <1>1
  <2>2. QED
        BY <2>1 DEF DataSet
<1>4. \A f \in DOMAIN d : d[f] + 10 \in Nat
      BY <1>1, <1>2
<1>5. QED
      BY <1>1, <1>2, <1>3, <1>4

\* A row is a map, of all the fields.
LEMMA RowsAreData ==
  /\ Rows \subseteq DataSet
  /\ \A d \in DataSet : DOMAIN d = Fields => d \in Rows
  /\ \A r \in Rows : DOMAIN r = Fields
<1>1. Rows \subseteq DataSet
      BY DEF Rows, DataSet
<1>2. \A d \in DataSet : DOMAIN d = Fields => d \in Rows
      BY DataFacts DEF Rows
<1>3. \A r \in Rows : DOMAIN r = Fields
      BY DEF Rows
<1>4. QED
      BY <1>1, <1>2, <1>3

\* IsData is membership in DataSet.
LEMMA IsDataSet == \A d : IsData(d) <=> d \in DataSet
BY DEF IsData, DataSet

\* The entries of the context are assigned one by one.
LEMMA ContextFacts ==
  ASSUME NEW c \in Contexts
  PROVE  /\ c.resource \in {Own} \cup DataSet /\ c.response \in {NoRow} \cup DataSet
         /\ c.exception \in Errors
         /\ \A r \in {Own} \cup DataSet : LET d == [c EXCEPT !.resource = r] IN
              d \in Contexts /\ d.resource = r /\ d.response = c.response /\ d.exception = c.exception
         /\ \A r \in {NoRow} \cup DataSet : LET d == [c EXCEPT !.response = r] IN
              d \in Contexts /\ d.resource = c.resource /\ d.response = r /\ d.exception = c.exception
         /\ \A e \in Errors : LET d == [c EXCEPT !.exception = e] IN
              d \in Contexts /\ d.resource = c.resource /\ d.response = c.response /\ d.exception = e
BY DEF Contexts

\* The context of a new transaction.
LEMMA FreshFacts ==
  FreshCtx \in Contexts /\ FreshCtx.resource = Own /\ FreshCtx.exception = "none"
BY DEF FreshCtx, Contexts, Errors

\* The map of the context is one.
LEMMA ResourceIsData ==
  ASSUME RequestTypeOK
  PROVE  Resource \in DataSet
BY ContextFacts DEF RequestTypeOK, Resource

\* The type invariant from its parts.
LEMMA PartsOfType ==
  ASSUME TxTypeOK, RequestTypeOK
  PROVE  TypeOK
<1>1. IsData(data) /\ IsData(first)
      BY IsDataSet DEF RequestTypeOK
<1>2. /\ ctx.resource = Own \/ IsData(ctx.resource)
      /\ ctx.response = NoRow \/ IsData(ctx.response)
      /\ ctx.exception \in Errors
      BY IsDataSet, ContextFacts DEF RequestTypeOK
<1>3. QED
      BY <1>1, <1>2 DEF TypeOK, TxTypeOK, RequestTypeOK

-----------------------------------------------------------------------------
(* The steps *)

\* Initially nothing has been read, and the context refers to the request's map.
LEMMA InitInv ==
  ASSUME Init
  PROVE  RequestInv
<1>1. PICK level \in Isolations, nil \in SUBSET Nested :
        InitTx(level, IF op = "create" THEN NoRow
                      ELSE [f \in Fields |-> IF f \in nil THEN Nil ELSE 5])
      BY DEF Init
<1>2. /\ isolation = level /\ own = NoWrite /\ snapshot = NoWrite /\ locked = FALSE
      /\ cache = NoCache /\ others = 0
      /\ row = IF op = "create" THEN NoRow ELSE [f \in Fields |-> IF f \in nil THEN Nil ELSE 5]
      BY <1>1 DEF InitTx
<1>3. [f \in Fields |-> IF f \in nil THEN Nil ELSE 5] \in Rows
      BY DEF Rows, Nil
<1>4. DOMAIN cache = {}
      BY <1>2 DEF NoCache
<1>5. TxInv
  <2>1. TxTypeOK
        BY <1>1, <1>2, <1>3, <1>4 DEF TxTypeOK
  <2>2. CacheOK
        BY <1>2, <1>4 DEF CacheOK, Written
  <2>3. QED
        BY <2>1, <2>2 DEF TxInv
<1>6. EntriesCurrent /\ SharedOK
      BY <1>4 DEF EntriesCurrent, SharedOK
<1>7. /\ op \in Ops /\ policy \in Policies /\ pc = "pre" /\ ctx = FreshCtx
      /\ attempt = 0 /\ effects = 0 /\ raised = 0 /\ err = "none" /\ result = "none"
      /\ shared = {} /\ lent = {} /\ touched = {} /\ meddled = {} /\ first = data
      BY DEF Init
<1>8. data \in DataSet /\ (op = "create" => data \in Rows)
  <2>1. CASE op = "create"
    <3>1. data = [f \in Fields |-> 1]
          BY <2>1 DEF Init
    <3>2. data \in Rows
          BY <3>1 DEF Rows
    <3>3. QED
          BY <3>2, RowsAreData
  <2>2. CASE op = "update"
    <3>1. PICK fs \in SUBSET Fields : data = [f \in fs |-> 1]
          BY <2>2 DEF Init
    <3>2. data \in [fs -> Nat]
          BY <3>1
    <3>3. QED
          BY <2>2, <3>2 DEF DataSet
  <2>3. CASE op = "delete"
    <3>1. data = [f \in {} |-> 0]
          BY <2>3 DEF Init
    <3>2. data \in [{} -> Nat]
          BY <3>1
    <3>3. {} \in SUBSET Fields
          OBVIOUS
    <3>4. QED
          BY <2>3, <3>2, <3>3 DEF DataSet
  <2>4. QED
        BY <1>7, <2>1, <2>2, <2>3 DEF Ops
<1>9. RequestTypeOK
      BY <1>7, <1>8, FreshFacts, Markers DEF RequestTypeOK, PC, Errors
<1>10. PhaseOK
      BY <1>2, <1>4, <1>7, <1>8, FreshFacts DEF PhaseOK, HasRead
<1>11. NoStaleException
      BY <1>7, FreshFacts DEF NoStaleException
<1>12. ReadIsLocked /\ UpdateOK /\ DeleteOK /\ ResponseOK
      BY <1>7 DEF ReadIsLocked, UpdateOK, DeleteOK, ResponseOK, HasRead
<1>13. DataOK
      BY <1>7 DEF DataOK
<1>14. QED
      BY <1>5, <1>6, <1>9, <1>10, <1>11, <1>12, <1>13 DEF RequestInv

\* What the properties of a guarded request depend on does not change: the row, the
\* maps, and how far the request is.  A transaction keeps its lock.
LEMMA GuardedUnchanged ==
  ASSUME RequestInv, HasRead' => HasRead, pc' \in {"post_in_tx", "commit"} => pc = "post_in_tx",
         locked => locked', Latest' = Latest,
         UNCHANGED <<isolation, row, own, op, policy, data, ctx, meddled, first>>
  PROVE  ReadIsLocked' /\ UpdateOK' /\ DeleteOK' /\ ResponseOK'
<1>1. Guarded' = Guarded /\ Resource' = Resource /\ Written' = Written
      BY DEF Guarded, Resource, Written
<1>2. ReadIsLocked'
      BY <1>1 DEF RequestInv, ReadIsLocked
<1>3. UpdateOK'
      BY <1>1 DEF RequestInv, UpdateOK
<1>4. DeleteOK'
      BY <1>1 DEF RequestInv, DeleteOK
<1>5. ResponseOK'
      BY <1>1 DEF RequestInv, ResponseOK
<1>6. QED
      BY <1>2, <1>3, <1>4, <1>5

\* The next step that a request goes to when it only goes on or fails.
Goes ==
  \/ pc' \in {"rollback", "done"}
  \/ pc = "pre" /\ pc' = "prefetch" /\ op = "delete"
  \/ pc = "pre" /\ pc' = "begin"
  \/ pc = "pre_in_tx" /\ pc' = "write"
  \/ pc = "post_in_tx" /\ pc' = "commit"

\* A request that goes on, or fails, and changes nothing else.
LEMMA GoesInv ==
  ASSUME RequestInv, Goes, err' \in Errors, result' \in {"none", "ok", "error"},
         UNCHANGED <<txVars, op, policy, data, ctx, attempt, shared, lent, hist>>
  PROVE  RequestInv'
<1>1. UNCHANGED <<isolation, row, own, snapshot, locked, cache, others>>
      /\ UNCHANGED <<touched, meddled, raised, first>>
      BY DEF txVars, dbVars, hist
<1>2. TxInv' /\ EntriesCurrent' /\ Latest' = Latest
      BY <1>1, TxUnchanged DEF RequestInv
<1>3. SharedOK'
      BY <1>1 DEF RequestInv, SharedOK
<1>4. RequestTypeOK'
      BY <1>1 DEF RequestInv, RequestTypeOK, Goes, PC
<1>5. PhaseOK'
      BY <1>1, Markers DEF RequestInv, PhaseOK, HasRead, Goes
<1>6. NoStaleException' /\ DataOK'
      BY <1>1 DEF RequestInv, NoStaleException, DataOK
<1>7. ReadIsLocked' /\ UpdateOK' /\ DeleteOK' /\ ResponseOK'
  <2>1. (HasRead' => HasRead) /\ (pc' \in {"post_in_tx", "commit"} => pc = "post_in_tx")
        BY DEF Goes, HasRead
  <2>2. QED
        BY <1>1, <1>2, <2>1, GuardedUnchanged
<1>8. QED
      BY <1>2, <1>3, <1>4, <1>5, <1>6, <1>7 DEF RequestInv

\* The steps of that kind.
LEMMA GoingSteps ==
  ASSUME RequestInv,
         \/ PreHandled \/ Handled("pre_in_tx", "write") \/ Handled("post_in_tx", "commit")
         \/ HandlerFails \/ HandlerFailsInTx \/ Deadlock \/ Rejected \/ PostHandled
  PROVE  RequestInv'
<1>1. RequestTypeOK
      BY DEF RequestInv
<1>2. err \in Errors /\ result \in {"none", "ok", "error"} /\ ctx.exception \in Errors
      BY <1>1, ContextFacts DEF RequestTypeOK
<1>3. CASE PreHandled
  <2>1. /\ Goes /\ UNCHANGED <<err, result>>
        /\ UNCHANGED <<txVars, op, policy, data, ctx, attempt, shared, lent, hist>>
        BY <1>3 DEF PreHandled, Handled, Goes
  <2>2. QED
        BY <1>2, <2>1, GoesInv
<1>4. CASE Handled("pre_in_tx", "write") \/ Handled("post_in_tx", "commit")
  <2>1. /\ Goes /\ UNCHANGED <<err, result>>
        /\ UNCHANGED <<txVars, op, policy, data, ctx, attempt, shared, lent, hist>>
        BY <1>4 DEF Handled, Goes
  <2>2. QED
        BY <1>2, <2>1, GoesInv
<1>5. CASE HandlerFails \/ PostHandled
  <2>1. /\ Goes /\ UNCHANGED err /\ result' \in {"none", "ok", "error"}
        /\ UNCHANGED <<txVars, op, policy, data, ctx, attempt, shared, lent, hist>>
        BY <1>5 DEF HandlerFails, PostHandled, Goes
  <2>2. QED
        BY <1>2, <2>1, GoesInv
<1>6. CASE HandlerFailsInTx
  <2>1. /\ Goes /\ err' = ctx.exception /\ UNCHANGED result
        /\ UNCHANGED <<txVars, op, policy, data, ctx, attempt, shared, lent, hist>>
        BY <1>6 DEF HandlerFailsInTx, Goes
  <2>2. QED
        BY <1>2, <2>1, GoesInv
<1>7. CASE Deadlock \/ Rejected
  <2>1. /\ Goes /\ err' \in Errors /\ UNCHANGED result
        /\ UNCHANGED <<txVars, op, policy, data, ctx, attempt, shared, lent, hist>>
        BY <1>7 DEF Deadlock, Rejected, GiveUp, Goes, Errors
  <2>2. QED
        BY <1>2, <2>1, GoesInv
<1>8. QED
      BY <1>3, <1>4, <1>5, <1>6, <1>7

\* A handler throws: the exception is of this attempt.
LEMMA HandlerThrowsInv ==
  ASSUME RequestInv, NEW kind \in {"temporary", "permanent"}, HandlerThrows(kind)
  PROVE  RequestInv'
<1>1. /\ ctx' = [ctx EXCEPT !.exception = kind] /\ raised' = attempt
      /\ UNCHANGED <<isolation, row, own, snapshot, locked, cache, others>>
      /\ UNCHANGED <<op, policy, pc, data, attempt, err, result, shared, lent, touched, meddled, first>>
      BY DEF HandlerThrows, txVars, dbVars
<1>2. TxInv' /\ EntriesCurrent' /\ Latest' = Latest
  <2>1. UNCHANGED <<txVars, touched>>
        BY <1>1 DEF txVars, dbVars
  <2>2. QED
        BY <2>1, TxUnchanged DEF RequestInv
<1>3. SharedOK'
      BY <1>1 DEF RequestInv, SharedOK
<1>4. /\ ctx' \in Contexts /\ ctx'.resource = ctx.resource
      /\ ctx'.response = ctx.response /\ ctx'.exception = kind
  <2>1. ctx \in Contexts /\ kind \in Errors
        BY DEF RequestInv, RequestTypeOK, Errors
  <2>2. QED
        BY <1>1, <2>1, ContextFacts
<1>5. RequestTypeOK'
      BY <1>1, <1>4 DEF RequestInv, RequestTypeOK
<1>6. PhaseOK' /\ NoStaleException' /\ DataOK'
      BY <1>1, <1>4 DEF RequestInv, PhaseOK, HasRead, NoStaleException, DataOK
<1>7. Resource' = Resource /\ Guarded' = Guarded /\ Written' = Written /\ HasRead' = HasRead
      BY <1>1, <1>4 DEF Resource, Guarded, Written, HasRead
<1>8. ReadIsLocked' /\ UpdateOK' /\ DeleteOK' /\ ResponseOK'
      BY <1>1, <1>2, <1>4, <1>7 DEF RequestInv, ReadIsLocked, UpdateOK, DeleteOK, ResponseOK
<1>9. QED
      BY <1>2, <1>3, <1>5, <1>6, <1>8 DEF RequestInv

\* A delete takes over the resource it has fetched beforehand.
LEMMA PrefetchInv ==
  ASSUME RequestInv, Prefetch
  PROVE  RequestInv'
<1>1. /\ pc = "prefetch" /\ op = "delete" /\ attempt = 0 /\ ctx.resource = Own
      /\ DOMAIN cache = {} /\ own = NoWrite
      BY DEF Prefetch, RequestInv, PhaseOK
<1>2. /\ UNCHANGED <<isolation, row, own, snapshot, locked, cache, others>>
      /\ UNCHANGED <<op, policy, ctx, attempt, err, shared, lent, touched, meddled, raised, first>>
      /\ \/ pc' = "done" /\ result' = "error" /\ data' = data
         \/ pc' = "begin" /\ result' = result /\ data' = row /\ row # NoRow
      BY DEF Prefetch, txVars, dbVars, hist
<1>3. data' \in DataSet
      BY <1>2, RowsAreData DEF RequestInv, RequestTypeOK, TxInv, TxTypeOK
<1>4. TxInv' /\ EntriesCurrent' /\ Latest' = Latest
  <2>1. UNCHANGED <<txVars, touched>>
        BY <1>2 DEF txVars, dbVars
  <2>2. QED
        BY <2>1, TxUnchanged DEF RequestInv
<1>5. SharedOK'
      BY <1>2 DEF RequestInv, SharedOK
<1>6. RequestTypeOK'
      BY <1>2, <1>3 DEF RequestInv, RequestTypeOK, PC
<1>7. PhaseOK'
      BY <1>1, <1>2, Markers DEF PhaseOK, HasRead
<1>8. NoStaleException' /\ DataOK'
      BY <1>1, <1>2 DEF RequestInv, NoStaleException, DataOK
<1>9. ReadIsLocked' /\ UpdateOK' /\ DeleteOK' /\ ResponseOK'
      BY <1>2 DEF ReadIsLocked, UpdateOK, DeleteOK, ResponseOK, HasRead
<1>10. QED
      BY <1>4, <1>5, <1>6, <1>7, <1>8, <1>9 DEF RequestInv

\* A transaction begins with the context restored and an empty cache.
LEMMA BeginInv ==
  ASSUME RequestInv, Begin
  PROVE  RequestInv'
<1>1. pc = "begin" /\ attempt <= MaxRetries /\ own = NoWrite /\ DOMAIN cache = {}
      BY DEF Begin, RequestInv, PhaseOK
<1>2. /\ UNCHANGED <<isolation, row, own, snapshot, locked, cache, others>>
      /\ UNCHANGED <<op, policy, data, err, result, raised>>
      /\ attempt' = attempt + 1 /\ ctx' = FreshCtx
      /\ shared' = {} /\ lent' = {} /\ touched' = {} /\ meddled' = {}
      /\ first' = IF attempt = 0 THEN data ELSE first
      BY DEF Begin, RestoredContext, txVars, dbVars
<1>3. pc' = IF op = "create" THEN "pre_in_tx" ELSE IF op = "update" THEN "check" ELSE "fetch"
      BY DEF Begin, RequestInv, RequestTypeOK, Ops
<1>4. ctx' \in Contexts /\ ctx'.resource = Own /\ ctx'.exception = "none"
      BY <1>2, FreshFacts
<1>5. TxInv' /\ EntriesCurrent' /\ SharedOK'
  <2>1. TxInv'
        BY <1>2 DEF RequestInv, TxInv, TxTypeOK, CacheOK, Written
  <2>2. QED
        BY <1>1, <1>2, <2>1 DEF EntriesCurrent, SharedOK
<1>6. RequestTypeOK'
  <2>1. attempt' \in 0 .. MaxRetries + 1 /\ raised' \in 0 .. attempt'
        BY <1>1, <1>2, Markers DEF RequestInv, RequestTypeOK
  <2>2. pc' \in PC
        BY <1>3 DEF PC
  <2>3. QED
        BY <1>2, <1>4, <2>1, <2>2 DEF RequestInv, RequestTypeOK
<1>7. PhaseOK'
      BY <1>1, <1>2, <1>3, <1>4 DEF RequestInv, PhaseOK, HasRead
<1>8. NoStaleException'
      BY <1>4 DEF NoStaleException
<1>9. DataOK'
  <2>1. attempt \in Nat
        BY DEF RequestInv, RequestTypeOK
  <2>2. QED
        BY <1>2, <2>1 DEF RequestInv, DataOK
<1>10. ReadIsLocked' /\ UpdateOK' /\ DeleteOK' /\ ResponseOK'
      BY <1>2, <1>3 DEF ReadIsLocked, UpdateOK, DeleteOK, ResponseOK, HasRead
<1>11. QED
      BY <1>5, <1>6, <1>7, <1>8, <1>9, <1>10 DEF RequestInv

\* Another process cannot commit while a guarded request holds the row it has read.
LEMMA OtherCommitsInv ==
  ASSUME RequestInv, OtherCommits, UNCHANGED reqVars
  PROVE  RequestInv'
<1>1. /\ UNCHANGED <<op, policy, pc, data, ctx, attempt, err, result, shared, lent>>
      /\ UNCHANGED <<touched, meddled, raised, first>>
      BY DEF reqVars, hist
<1>2. ~locked /\ UNCHANGED <<isolation, own, locked, cache>>
      BY DEF OtherCommits
<1>3. TxInv' /\ EntriesCurrent'
      BY <1>1, OtherTx DEF RequestInv
<1>4. SharedOK' /\ RequestTypeOK'
      BY <1>1, <1>2 DEF RequestInv, SharedOK, RequestTypeOK
<1>5. PhaseOK' /\ NoStaleException' /\ DataOK'
      BY <1>1, <1>2 DEF RequestInv, PhaseOK, HasRead, NoStaleException, DataOK
<1>6. ~(HasRead /\ Guarded) /\ HasRead' = HasRead /\ Guarded' = Guarded
      BY <1>1, <1>2 DEF RequestInv, ReadIsLocked, HasRead, Guarded
<1>7. ReadIsLocked' /\ UpdateOK' /\ DeleteOK'
      BY <1>6 DEF ReadIsLocked, UpdateOK, DeleteOK
<1>8. ResponseOK'
      BY <1>1, <1>2, <1>6 DEF RequestInv, ResponseOK, Written
<1>9. QED
      BY <1>3, <1>4, <1>5, <1>7, <1>8 DEF RequestInv

\* A handler reads the resource.
LEMMA HandlerFetchInv ==
  ASSUME RequestInv, NEW key \in Keys, NEW lock \in BOOLEAN, HandlerFetch(key, lock)
  PROVE  RequestInv'
<1> DEFINE replaced == IF CacheHit(key, lock) THEN {} ELSE {key}
<1>1. /\ ReadThrough(key, lock) /\ cache' = Saved(key, lock)
      /\ shared' = shared \ (replaced \X Fields) /\ touched' = touched \ replaced
      /\ UNCHANGED <<op, policy, pc, data, ctx, attempt, err, result, lent, meddled, raised, first>>
      /\ Handling /\ InTx
      BY DEF HandlerFetch, Effect
<1>2. /\ TxInv' /\ EntriesCurrent'
      /\ UNCHANGED <<isolation, row, own>> /\ Latest' = Latest /\ (locked => locked')
      BY <1>1, ReadTx DEF RequestInv
<1>3. SharedOK'
  <2>1. PICK s : s = Saved(key, lock)
        OBVIOUS
  <2>2. ReadResult(s, key, lock) /\ cache' = s
        BY <1>1, <2>1, ReadFacts DEF RequestInv
  <2>3. \A k \in DOMAIN s : /\ k \in DOMAIN cache \/ (k = key /\ ~CacheHit(key, lock))
                            /\ ~(k = key /\ ~CacheHit(key, lock)) => s[k] = cache[k]
        BY <2>2 DEF ReadResult
  <2>4. ASSUME NEW k \in DOMAIN s, NEW f \in Fields, <<k, f>> \in shared'
        PROVE  s[k].row \in Rows
    <3>1. <<k, f>> \in shared /\ ~(k = key /\ ~CacheHit(key, lock))
          BY <1>1, <2>4
    <3>2. k \in DOMAIN cache /\ s[k] = cache[k]
          BY <2>3, <3>1
    <3>3. QED
          BY <3>1, <3>2 DEF RequestInv, SharedOK
  <2>5. QED
        BY <2>2, <2>4 DEF SharedOK
<1>4. RequestTypeOK'
      BY <1>1 DEF RequestInv, RequestTypeOK
<1>5. pc \in {"pre_in_tx", "post_in_tx"}
      BY <1>1 DEF Handling, InTx
<1>6. PhaseOK' /\ NoStaleException' /\ DataOK'
      BY <1>1, <1>5 DEF RequestInv, PhaseOK, HasRead, NoStaleException, DataOK
<1>7. ReadIsLocked' /\ UpdateOK' /\ DeleteOK' /\ ResponseOK'
  <2>1. (HasRead' => HasRead) /\ (pc' \in {"post_in_tx", "commit"} => pc = "post_in_tx")
        BY <1>1, <1>5 DEF HasRead
  <2>2. QED
        BY <1>1, <1>2, <2>1, GuardedUnchanged
<1>8. QED
      BY <1>2, <1>3, <1>4, <1>6, <1>7 DEF RequestInv

\* The queries of the request use one of the keys.
LEMMA FetchArguments ==
  FetchKey \in Keys /\ FetchLocks \in BOOLEAN /\ "plain" \in Keys /\ FALSE \in BOOLEAN
BY DEF FetchKey, FetchLocks, Keys

\* A query of the request itself finds the resource or not, and the transaction is
\* given up, or goes on to fetch it.
LEMMA RequestReads ==
  ASSUME RequestInv, NEW key \in Keys, NEW lock \in BOOLEAN,
         pc \in {"check", "fetch"}, pc' \in {"fetch", "rollback"}, err' \in Errors,
         ReadThrough(key, lock), cache' = Saved(key, lock),
         UNCHANGED <<op, policy, data, ctx, attempt, result, shared, lent, hist>>
  PROVE  RequestInv'
<1>1. UNCHANGED <<touched, meddled, raised, first>>
      BY DEF hist
<1>2. op # "create" /\ touched = {} /\ shared = {} /\ own = NoWrite /\ ctx.resource = Own
      BY DEF RequestInv, PhaseOK
<1>3. /\ TxInv' /\ EntriesCurrent'
      /\ UNCHANGED <<isolation, row, own>> /\ Latest' = Latest /\ (locked => locked')
      BY <1>1, ReadTx DEF RequestInv
<1>4. SharedOK'
      BY <1>2 DEF SharedOK
<1>5. RequestTypeOK'
      BY <1>1 DEF RequestInv, RequestTypeOK, PC
<1>6. PhaseOK'
      BY <1>1, <1>2, <1>3 DEF PhaseOK, HasRead
<1>7. NoStaleException' /\ DataOK'
      BY <1>1 DEF RequestInv, NoStaleException, DataOK
<1>8. ReadIsLocked' /\ UpdateOK' /\ DeleteOK' /\ ResponseOK'
      BY DEF ReadIsLocked, UpdateOK, DeleteOK, ResponseOK, HasRead
<1>9. QED
      BY <1>3, <1>4, <1>5, <1>6, <1>7, <1>8 DEF RequestInv

\* The check before an update, and a fetch that finds nothing.
LEMMA CheckInv ==
  ASSUME RequestInv, Check \/ FetchFindsNothing
  PROVE  RequestInv'
<1>1. CASE Check
  <2>1. /\ pc \in {"check", "fetch"} /\ pc' \in {"fetch", "rollback"} /\ err' \in Errors
        /\ ReadThrough("plain", FALSE) /\ cache' = Saved("plain", FALSE)
        /\ UNCHANGED <<op, policy, data, ctx, attempt, result, shared, lent, hist>>
        BY <1>1 DEF Check, GiveUp, Errors, RequestInv, RequestTypeOK
  <2>2. QED
        BY <2>1, FetchArguments, RequestReads
<1>2. CASE FetchFindsNothing
  <2>1. /\ pc \in {"check", "fetch"} /\ pc' \in {"fetch", "rollback"} /\ err' \in Errors
        /\ ReadThrough(FetchKey, FetchLocks) /\ cache' = Saved(FetchKey, FetchLocks)
        /\ UNCHANGED <<op, policy, data, ctx, attempt, result, shared, lent, hist>>
        BY <1>2 DEF FetchFindsNothing, GiveUp, Errors
  <2>2. QED
        BY <2>1, FetchArguments, RequestReads
<1>3. QED
      BY <1>1, <1>2

\* The fetch of a guarded request locks the row and finds its latest version, even
\* when the cache answers it.
LEMMA FetchFacts ==
  ASSUME RequestInv, pc = "fetch", ReadThrough(FetchKey, FetchLocks),
         NEW r, r = Found(FetchKey, FetchLocks), r # NoRow,
         NEW s, s = Saved(FetchKey, FetchLocks)
  PROVE  /\ ReadResult(s, FetchKey, FetchLocks) /\ r \in Rows
         /\ op # "create" /\ touched = {} /\ shared = {} /\ own = NoWrite /\ ctx.resource = Own
         /\ UNCHANGED <<isolation, row, own, others>> /\ Latest' = row
         /\ Guarded => locked' /\ r = row
         /\ \A k \in DOMAIN s : s[k].row = IF s[k].locked THEN Latest' ELSE PlainRead'
<1>1. FetchKey \in Keys /\ FetchLocks \in BOOLEAN
      BY FetchArguments
<1>2. op # "create" /\ touched = {} /\ shared = {} /\ own = NoWrite /\ ctx.resource = Own
      BY DEF RequestInv, PhaseOK
<1>3. ReadResult(s, FetchKey, FetchLocks)
      BY <1>1, ReadFacts DEF RequestInv
<1>4. r \in Rows /\ UNCHANGED <<isolation, row, own, others>>
      BY <1>3 DEF ReadResult
<1>5. Latest = row /\ Latest' = row
      BY <1>2, <1>4 DEF Latest, Written
<1>6. \A k \in DOMAIN cache : Current(k)
      BY <1>2 DEF RequestInv, EntriesCurrent, Current
<1>7. \A k \in DOMAIN s : s[k].row = IF s[k].locked THEN Latest' ELSE PlainRead'
      BY <1>3, <1>6 DEF ReadResult
<1>8. ASSUME Guarded
      PROVE  locked' /\ r = row
  <2>1. FetchLocks \/ isolation = "serializable"
        BY <1>8 DEF Guarded, FetchLocks
  <2>2. locked'
        BY <1>3, <2>1 DEF ReadResult
  <2>3. isolation = "serializable" => PlainRead = row
        BY <1>5 DEF PlainRead
  <2>4. CASE CacheHit(FetchKey, FetchLocks)
    <3>1. FetchKey \in DOMAIN cache /\ (FetchLocks => cache[FetchKey].locked)
          BY <2>4 DEF CacheHit
    <3>2. r = cache[FetchKey].row
          BY <2>4 DEF Found
    <3>3. r = IF cache[FetchKey].locked THEN Latest ELSE PlainRead
          BY <1>6, <3>1, <3>2 DEF Current
    <3>4. QED
          BY <1>5, <2>1, <2>2, <2>3, <3>1, <3>3
  <2>5. CASE ~CacheHit(FetchKey, FetchLocks)
    <3>1. r = IF FetchLocks THEN Latest ELSE PlainRead
          BY <2>5 DEF Found
    <3>2. QED
          BY <1>5, <2>1, <2>2, <2>3, <3>1
  <2>6. QED
        BY <2>4, <2>5
<1>9. QED
      BY <1>2, <1>3, <1>4, <1>5, <1>7, <1>8

\* The fields of the request over those of a row make a row.
LEMMA CloneFacts ==
  ASSUME NEW r \in Rows, NEW d \in DataSet
  PROVE  /\ CloneWithUpdate(r, d) \in Rows
         /\ \A f \in Fields : CloneWithUpdate(r, d)[f] = IF f \in DOMAIN d THEN d[f] ELSE r[f]
<1>1. d \in [DOMAIN d -> Nat]
      BY DataFacts
<1>2. \A f \in Fields : (IF f \in DOMAIN d THEN d[f] ELSE r[f]) \in Nat
      BY <1>1 DEF Rows
<1>3. QED
      BY <1>2 DEF CloneWithUpdate, Rows

\* A fetch puts a row into the context: what is left to show is about the cache.
LEMMA FetchInv ==
  ASSUME RequestInv, pc = "fetch", ReadThrough(FetchKey, FetchLocks),
         NEW r, r = Found(FetchKey, FetchLocks), r # NoRow,
         NEW m \in Rows, PutIntoContext(m), pc' = "pre_in_tx",
         Guarded => \A f \in Fields \ (IF op = "update" THEN DOMAIN first ELSE {}) : m[f] = r[f],
         shared' \subseteq Keys \X Fields, lent' \subseteq Nested, touched' \subseteq Keys,
         UNCHANGED <<op, policy, attempt, err, result, meddled, raised, first>>,
         TxInv', EntriesCurrent', SharedOK'
  PROVE  RequestInv'
<1>1. PICK s : s = Saved(FetchKey, FetchLocks)
      OBVIOUS
<1>2. /\ op # "create" /\ ctx.resource = Own /\ own = NoWrite
      /\ UNCHANGED <<isolation, row, own>> /\ Latest' = row /\ r \in Rows
      /\ Guarded => locked' /\ r = row
      BY <1>1, FetchFacts
<1>3. /\ ctx' \in Contexts /\ ctx'.resource = m /\ ctx'.response = ctx.response
      /\ ctx'.exception = ctx.exception /\ data' = data
  <2>1. ctx \in Contexts /\ m \in {Own} \cup DataSet
        BY RowsAreData DEF RequestInv, RequestTypeOK
  <2>2. QED
        BY <2>1, ContextFacts DEF PutIntoContext
<1>4. Guarded' = Guarded /\ Resource' = m
      BY <1>2, <1>3, Markers DEF Guarded, Resource
<1>5. RequestTypeOK'
      BY <1>3 DEF RequestInv, RequestTypeOK, PC
<1>6. PhaseOK'
      BY <1>2, <1>3 DEF PhaseOK, HasRead
<1>7. NoStaleException' /\ DataOK'
      BY <1>3 DEF RequestInv, NoStaleException, DataOK
<1>8. ReadIsLocked'
      BY <1>2, <1>4, Markers DEF ReadIsLocked
<1>9. UpdateOK'
  <2> SUFFICES ASSUME Guarded, op = "update"
               PROVE  row \in Rows /\ \A f \in Fields \ (DOMAIN first \cup meddled) : m[f] = row[f]
      BY <1>2, <1>4 DEF UpdateOK
  <2>1. QED
        BY <1>2
<1>10. DeleteOK'
      BY <1>2, <1>4 DEF DeleteOK
<1>11. ResponseOK'
      BY DEF ResponseOK
<1>12. QED
      BY <1>5, <1>6, <1>7, <1>8, <1>9, <1>10, <1>11 DEF RequestInv

\* A delete: the context has the fetched row.
LEMMA FetchForDeleteInv ==
  ASSUME RequestInv, FetchForDelete
  PROVE  RequestInv'
<1>1. PICK r : r = Found(FetchKey, FetchLocks)
      OBVIOUS
<1>2. PICK s : s = Saved(FetchKey, FetchLocks)
      OBVIOUS
<1>3. /\ pc = "fetch" /\ op = "delete" /\ r # NoRow /\ ReadThrough(FetchKey, FetchLocks)
      /\ cache' = s /\ shared' = (DOMAIN s \cap {FetchKey}) \X Fields
      /\ PutIntoContext(r) /\ pc' = "pre_in_tx"
      /\ UNCHANGED <<op, policy, attempt, err, result, lent, touched, meddled, raised, first>>
      BY <1>1, <1>2 DEF FetchForDelete, hist
<1>4. ReadResult(s, FetchKey, FetchLocks) /\ r \in Rows
      BY <1>1, <1>2, <1>3, FetchFacts
<1>5. TxInv' /\ EntriesCurrent'
      BY <1>2, <1>3, FetchArguments, ReadTx DEF RequestInv
<1>6. SharedOK' /\ shared' \subseteq Keys \X Fields
      BY <1>1, <1>3, <1>4 DEF SharedOK, ReadResult
<1>7. lent' \subseteq Nested /\ touched' \subseteq Keys
      BY <1>3 DEF RequestInv, RequestTypeOK
<1>8. QED
      BY <1>1, <1>3, <1>4, <1>5, <1>6, <1>7, FetchInv

\* An update: what the request has for the nested fields is merged into the fetched
\* resource, and so into its entry of the cache, which counts as touched then.
LEMMA FetchForUpdateInv ==
  ASSUME RequestInv, FetchForUpdate
  PROVE  RequestInv'
<1>1. PICK r : r = Found(FetchKey, FetchLocks)
      OBVIOUS
<1>2. PICK s : s = Saved(FetchKey, FetchLocks)
      OBVIOUS
<1>3. PICK m : m = CloneWithUpdate(r, Resource)
      OBVIOUS
<1>4. PICK maps : maps = {f \in Nested : r[f] # Nil}
      OBVIOUS
<1>5. PICK alias : alias = DOMAIN s \cap {FetchKey}
      OBVIOUS
<1>6. /\ pc = "fetch" /\ op = "update" /\ r # NoRow /\ ReadThrough(FetchKey, FetchLocks)
      /\ cache' = [k \in DOMAIN s |->
                     IF k \notin alias THEN s[k]
                     ELSE [s[k] EXCEPT !.row = [f \in Fields |-> IF f \in maps THEN m[f] ELSE @[f]]]]
      /\ touched' = IF maps \cap DOMAIN Resource = {} THEN touched ELSE touched \cup alias
      /\ shared' = alias \X maps
      /\ lent' = (Nested \ maps) \cap DOMAIN Resource
      /\ PutIntoContext(m) /\ pc' = "pre_in_tx"
      /\ UNCHANGED <<op, policy, attempt, err, result, meddled, raised, first>>
      BY <1>1, <1>2, <1>3, <1>4, <1>5 DEF FetchForUpdate
<1>7. /\ ReadResult(s, FetchKey, FetchLocks) /\ r \in Rows /\ touched = {} /\ ctx.resource = Own
      /\ UNCHANGED <<isolation, row, own, others>> /\ Latest' = row
      /\ \A k \in DOMAIN s : s[k].row = IF s[k].locked THEN Latest' ELSE PlainRead'
      BY <1>1, <1>2, <1>6, FetchFacts
<1>8. /\ m \in Rows
      /\ \A f \in Fields : m[f] = IF f \in DOMAIN Resource THEN Resource[f] ELSE r[f]
  <2>1. Resource \in DataSet
        BY ResourceIsData DEF RequestInv
  <2>2. QED
        BY <1>3, <1>7, <2>1, CloneFacts
<1>9. maps \subseteq Nested /\ maps \subseteq Fields /\ alias \subseteq Keys /\ alias \subseteq {FetchKey}
      BY <1>4, <1>5, FetchArguments, Markers
<1>10. PICK w : w = [f \in Fields |-> IF f \in maps THEN m[f] ELSE r[f]]
      OBVIOUS
<1>11. w \in Rows /\ (maps \cap DOMAIN Resource = {} => w = r)
      BY <1>7, <1>8, <1>10 DEF Rows
<1>12. /\ DOMAIN cache' = DOMAIN s
       /\ \A k \in DOMAIN s : k \notin alias => cache'[k] = s[k]
       /\ \A k \in alias : k \in DOMAIN s /\ cache'[k].row = w /\ cache'[k].locked = s[k].locked
                            /\ cache'[k] \in [row : Rows \cup {NoRow}, locked : BOOLEAN]
  <2>1. DOMAIN cache' = DOMAIN s /\ \A k \in DOMAIN s : k \notin alias => cache'[k] = s[k]
        BY <1>6
  <2>2. ASSUME NEW k \in alias
        PROVE  /\ k \in DOMAIN s /\ cache'[k].row = w /\ cache'[k].locked = s[k].locked
               /\ cache'[k] \in [row : Rows \cup {NoRow}, locked : BOOLEAN]
    <3>1. k \in DOMAIN s /\ k = FetchKey
          BY <1>5
    <3>2. s[k].row = r /\ s[k] \in [row : Rows \cup {NoRow}, locked : BOOLEAN]
          BY <1>1, <1>7, <3>1 DEF ReadResult
    <3>3. cache'[k] = [s[k] EXCEPT !.row = [f \in Fields |-> IF f \in maps THEN m[f] ELSE s[k].row[f]]]
          BY <1>6, <3>1
    <3>4. [f \in Fields |-> IF f \in maps THEN m[f] ELSE s[k].row[f]] = w
          BY <1>10, <3>2
    <3>5. cache'[k] = [s[k] EXCEPT !.row = w]
          BY <3>3, <3>4
    <3>6. QED
          BY <1>11, <3>1, <3>2, <3>5
  <2>3. QED
        BY <2>1, <2>2
<1>13. \A k \in DOMAIN s : cache'[k] \in [row : Rows \cup {NoRow}, locked : BOOLEAN]
                           /\ cache'[k].locked = s[k].locked
      BY <1>7, <1>12 DEF ReadResult
<1>14. TxInv'
  <2>1. TxTypeOK'
        BY <1>7, <1>12, <1>13 DEF RequestInv, TxInv, TxTypeOK, ReadResult
  <2>2. CacheOK'
        BY <1>7, <1>12, <1>13 DEF RequestInv, TxInv, CacheOK, ReadResult, Written
  <2>3. QED
        BY <2>1, <2>2 DEF TxInv
<1>15. EntriesCurrent'
  <2> SUFFICES ASSUME NEW k \in DOMAIN s, k \notin touched'
               PROVE  cache'[k].row = IF cache'[k].locked THEN Latest' ELSE PlainRead'
      BY <1>12 DEF EntriesCurrent
  <2>1. cache'[k].row = s[k].row
    <3>1. CASE k \notin alias
          BY <1>12, <3>1
    <3>2. CASE k \in alias
      <4>1. maps \cap DOMAIN Resource = {}
            BY <1>6, <3>2
      <4>2. s[k].row = r
            BY <1>1, <1>5, <1>7, <3>2 DEF ReadResult
      <4>3. QED
            BY <1>11, <1>12, <3>2, <4>1, <4>2
    <3>3. QED
          BY <3>1, <3>2
  <2>2. QED
        BY <1>7, <1>13, <2>1
<1>16. SharedOK'
      BY <1>6, <1>11, <1>12 DEF SharedOK
<1>17. shared' \subseteq Keys \X Fields /\ lent' \subseteq Nested /\ touched' \subseteq Keys
      BY <1>6, <1>7, <1>9
<1>18. \A f \in Fields \ DOMAIN first : m[f] = r[f]
  <2>1. DOMAIN Resource = DOMAIN first
        BY <1>6, <1>7 DEF RequestInv, DataOK, Resource
  <2>2. QED
        BY <1>8, <2>1
<1>19. QED
      BY <1>1, <1>6, <1>8, <1>14, <1>15, <1>16, <1>17, <1>18, FetchInv

\* A handler writes a field of the row, which the transaction holds from then on.
LEMMA HandlerUpdateInv ==
  ASSUME RequestInv, NEW f \in Fields, HandlerUpdate(f)
  PROVE  RequestInv'
<1>1. PICK r : r = [Latest EXCEPT ![f] = 50]
      OBVIOUS
<1>2. /\ Handling /\ InTx /\ Latest # NoRow /\ Write(r)
      /\ shared' = {} /\ touched' = {} /\ meddled' = meddled \cup {f}
      /\ UNCHANGED <<op, policy, pc, data, ctx, attempt, err, result, lent, raised, first>>
      BY <1>1 DEF HandlerUpdate, Effect
<1>3. Latest \in Rows /\ r \in Rows /\ \A g \in Fields \ {f} : r[g] = Latest[g]
  <2>1. Latest \in Rows
        BY <1>2, ReadType DEF RequestInv, TxInv
  <2>2. QED
        BY <1>1, <2>1 DEF Rows
<1>4. /\ TxInv' /\ EntriesCurrent' /\ SharedOK' /\ DOMAIN cache' = {}
      /\ own' = r /\ locked' /\ row' = row /\ isolation' = isolation /\ Latest' = r
      BY <1>2, <1>3, WriteTx, Markers DEF RequestInv
<1>5. pc \in {"pre_in_tx", "post_in_tx"}
      BY <1>2 DEF Handling, InTx
<1>6. RequestTypeOK'
      BY <1>2 DEF RequestInv, RequestTypeOK
<1>7. PhaseOK' /\ NoStaleException' /\ DataOK'
      BY <1>2, <1>5 DEF RequestInv, PhaseOK, HasRead, NoStaleException, DataOK
<1>8. Guarded' = Guarded /\ Resource' = Resource /\ HasRead' = HasRead
      BY <1>2, <1>4 DEF Guarded, Resource, HasRead
<1>9. ReadIsLocked' /\ DeleteOK'
      BY <1>2, <1>4, <1>8 DEF RequestInv, ReadIsLocked, DeleteOK
<1>10. UpdateOK'
      BY <1>2, <1>3, <1>4, <1>8 DEF RequestInv, UpdateOK
<1>11. ResponseOK'
      BY <1>2 DEF ResponseOK
<1>12. QED
      BY <1>4, <1>6, <1>7, <1>9, <1>10, <1>11 DEF RequestInv

\* Where the request writes, the context has a row.
LEMMA WrittenRow ==
  ASSUME RequestInv, pc = "write"
  PROVE  Resource \in Rows
<1>1. CASE op = "create"
      BY <1>1 DEF RequestInv, PhaseOK, Resource
<1>2. CASE op # "create"
  <2>1. ctx.resource \in Rows
        BY <1>2 DEF RequestInv, PhaseOK, HasRead
  <2>2. QED
        BY <2>1, Markers DEF Resource
<1>3. QED
      BY <1>1, <1>2

\* A create or an update writes the resource of the context, and answers with it.
LEMMA WriteResourceInv ==
  ASSUME RequestInv, WriteResource
  PROVE  RequestInv'
<1>1. PICK r : r = IF op = "update" /\ Latest = NoRow THEN own ELSE Resource
      OBVIOUS
<1>2. /\ pc = "write" /\ op \in {"create", "update"} /\ (op = "create" => Latest = NoRow)
      /\ Write(r) /\ ctx' = [ctx EXCEPT !.response = Resource]
      /\ shared' = {} /\ touched' = {} /\ pc' = "post_in_tx"
      /\ UNCHANGED <<op, policy, data, attempt, err, result, lent, meddled, raised, first>>
      BY <1>1 DEF WriteResource, Response
<1>3. Resource \in Rows /\ Resource \in DataSet
      BY <1>2, WrittenRow, RowsAreData
<1>4. r \in Rows \cup {NoRow, NoWrite}
      BY <1>1, <1>3 DEF RequestInv, TxInv, TxTypeOK
<1>5. /\ TxInv' /\ EntriesCurrent' /\ SharedOK' /\ DOMAIN cache' = {}
      /\ own' = r /\ locked' /\ row' = row /\ isolation' = isolation
      /\ Latest' = IF r # NoWrite THEN r ELSE row
      BY <1>2, <1>4, WriteTx DEF RequestInv
<1>6. /\ ctx' \in Contexts /\ ctx'.resource = ctx.resource /\ ctx'.response = Resource
      /\ ctx'.exception = ctx.exception
      BY <1>2, <1>3, ContextFacts DEF RequestInv, RequestTypeOK
<1>7. RequestTypeOK'
      BY <1>2, <1>6 DEF RequestInv, RequestTypeOK, PC
<1>8. PhaseOK' /\ NoStaleException' /\ DataOK'
      BY <1>2, <1>6 DEF RequestInv, PhaseOK, HasRead, NoStaleException, DataOK
<1>9. Guarded' = Guarded /\ Resource' = Resource /\ HasRead' = HasRead
      BY <1>2, <1>5, <1>6 DEF Guarded, Resource, HasRead
<1>10. Guarded => r = Resource /\ Latest' = r /\ Written'
  <2>1. HasRead /\ Guarded /\ op = "update" => Latest # NoRow
        BY Markers DEF RequestInv, UpdateOK
  <2>2. Guarded => r = Resource
        BY <1>1, <1>2, <2>1 DEF HasRead
  <2>3. QED
        BY <1>3, <1>5, <2>2, Markers DEF Written
<1>11. ReadIsLocked' /\ DeleteOK'
      BY <1>2, <1>5, <1>9 DEF RequestInv, ReadIsLocked, DeleteOK
<1>12. UpdateOK'
      BY <1>2, <1>3, <1>5, <1>9, <1>10 DEF RequestInv, UpdateOK
<1>13. ResponseOK'
      BY <1>5, <1>6, <1>9, <1>10 DEF ResponseOK
<1>14. QED
      BY <1>5, <1>7, <1>8, <1>11, <1>12, <1>13 DEF RequestInv

\* A delete removes the row.
LEMMA WriteDeleteInv ==
  ASSUME RequestInv, WriteDelete
  PROVE  RequestInv'
<1>1. /\ pc = "write" /\ op = "delete" /\ Write(NoRow)
      /\ shared' = {} /\ touched' = {} /\ pc' = "post_in_tx"
      /\ UNCHANGED <<op, policy, data, ctx, attempt, err, result, lent, meddled, raised, first>>
      BY DEF WriteDelete
<1>2. /\ TxInv' /\ EntriesCurrent' /\ SharedOK' /\ DOMAIN cache' = {}
      /\ locked' /\ row' = row /\ isolation' = isolation
      BY <1>1, WriteTx DEF RequestInv
<1>3. RequestTypeOK'
      BY <1>1 DEF RequestInv, RequestTypeOK, PC
<1>4. PhaseOK' /\ NoStaleException' /\ DataOK'
      BY <1>1 DEF RequestInv, PhaseOK, HasRead, NoStaleException, DataOK
<1>5. Guarded' = Guarded /\ Resource' = Resource /\ HasRead' = HasRead
      BY <1>1, <1>2 DEF Guarded, Resource, HasRead
<1>6. ReadIsLocked' /\ DeleteOK'
      BY <1>1, <1>2, <1>5 DEF RequestInv, ReadIsLocked, DeleteOK
<1>7. UpdateOK' /\ ResponseOK'
      BY <1>1 DEF UpdateOK, ResponseOK
<1>8. QED
      BY <1>2, <1>3, <1>4, <1>6, <1>7 DEF RequestInv

\* A create that finds the resource there.
LEMMA CreateDuplicateInv ==
  ASSUME RequestInv, CreateDuplicate
  PROVE  RequestInv'
<1>1. /\ cache' = NoCache /\ UNCHANGED <<isolation, row, own, snapshot, locked, others>>
      /\ pc' = "rollback" /\ err' = "permanent"
      /\ UNCHANGED <<op, policy, data, ctx, attempt, result, shared, lent>>
      /\ UNCHANGED <<touched, meddled, raised, first>>
      BY DEF CreateDuplicate, GiveUp, dbVars, hist
<1>2. TxInv' /\ EntriesCurrent' /\ SharedOK'
  <2>1. DOMAIN cache' = {}
        BY <1>1 DEF NoCache
  <2>2. TxTypeOK' /\ (Written => locked)'
        BY <1>1, <2>1 DEF RequestInv, TxInv, TxTypeOK, CacheOK, Written
  <2>3. QED
        BY <1>1, <2>2, EmptyCache
<1>3. RequestTypeOK'
      BY <1>1 DEF RequestInv, RequestTypeOK, PC, Errors
<1>4. PhaseOK' /\ NoStaleException' /\ DataOK'
      BY <1>1 DEF RequestInv, PhaseOK, HasRead, NoStaleException, DataOK
<1>5. ReadIsLocked' /\ UpdateOK' /\ DeleteOK' /\ ResponseOK'
      BY <1>1 DEF ReadIsLocked, UpdateOK, DeleteOK, ResponseOK, HasRead
<1>6. QED
      BY <1>2, <1>3, <1>4, <1>5 DEF RequestInv

\* The end of the transaction, for good or for a retry.
LEMMA EndInv ==
  ASSUME RequestInv, Commit \/ Rollback
  PROVE  RequestInv'
<1>1. /\ EndTx /\ row' \in {row, Latest}
      /\ shared' = {} /\ touched' = {}
      /\ UNCHANGED <<op, policy, data, ctx, attempt, lent, meddled, raised, first>>
      BY DEF Commit, Rollback, CommitTx, RollbackTx
<1>2. /\ err' \in Errors /\ result' \in {"none", "ok", "error"}
      /\ \/ pc = "commit" /\ pc' = "post"
         \/ pc = "rollback" /\ pc' = "begin" /\ attempt <= MaxRetries
         \/ pc = "rollback" /\ pc' = "done"
      BY DEF Commit, Rollback, MayRetry, Errors, RequestInv, RequestTypeOK
<1>3. TxInv' /\ EntriesCurrent' /\ SharedOK' /\ DOMAIN cache' = {} /\ own' = NoWrite
  <2>1. row' \in Rows \cup {NoRow}
        BY <1>1, ReadType DEF RequestInv, TxInv, TxTypeOK
  <2>2. QED
        BY <1>1, <2>1, EndOfTx DEF RequestInv
<1>4. RequestTypeOK'
      BY <1>1, <1>2 DEF RequestInv, RequestTypeOK, PC
<1>5. PhaseOK'
      BY <1>1, <1>2, <1>3 DEF RequestInv, PhaseOK, HasRead
<1>6. NoStaleException' /\ DataOK'
      BY <1>1 DEF RequestInv, NoStaleException, DataOK
<1>7. ReadIsLocked' /\ UpdateOK' /\ DeleteOK' /\ ResponseOK'
      BY <1>2 DEF ReadIsLocked, UpdateOK, DeleteOK, ResponseOK, HasRead
<1>8. QED
      BY <1>3, <1>4, <1>5, <1>6, <1>7 DEF RequestInv

\* A handler changes the resource of the context: the request's own map only before
\* the resource is fetched, or for a create; and of the map of an update or a delete
\* only fields that the two share.
LEMMA ChangeResourceInv ==
  ASSUME RequestInv, NEW f \in Fields, ChangeResource(f)
  PROVE  RequestInv'
<1>1. PICK changed : changed = [Resource EXCEPT ![f] = @ + 10]
      OBVIOUS
<1>2. PICK entries : entries = {k \in DOMAIN cache : <<k, f>> \in shared}
      OBVIOUS
<1>3. /\ Handling /\ f \in DOMAIN Resource
      /\ ctx' = IF ctx.resource = Own THEN ctx ELSE [ctx EXCEPT !.resource = changed]
      /\ data' = IF ctx.resource = Own THEN changed
                 ELSE IF f \in lent THEN [data EXCEPT ![f] = changed[f]] ELSE data
      /\ cache' = [k \in DOMAIN cache |->
                     IF k \in entries THEN [cache[k] EXCEPT !.row = [@ EXCEPT ![f] = changed[f]]]
                     ELSE cache[k]]
      /\ touched' = touched \cup entries /\ meddled' = meddled \cup {f}
      /\ UNCHANGED <<op, policy, pc, attempt, err, result, shared, lent, raised, first>>
      /\ UNCHANGED <<isolation, row, own, snapshot, locked, others>>
      BY <1>1, <1>2 DEF ChangeResource, Effect, dbVars
<1>4. /\ changed \in DataSet /\ changed[f] \in Nat /\ DOMAIN changed = DOMAIN Resource
      /\ \A g \in DOMAIN Resource : g # f => changed[g] = Resource[g]
  <2>1. Resource \in DataSet
        BY ResourceIsData DEF RequestInv
  <2>2. Resource[f] + 10 \in Nat /\ changed \in DataSet /\ DOMAIN changed = DOMAIN Resource
        BY <1>1, <1>3, <2>1, DataFacts
  <2>3. QED
        BY <1>1, <1>3, <2>2
<1>5. /\ ctx' \in Contexts /\ ctx'.response = ctx.response /\ ctx'.exception = ctx.exception
      /\ ctx'.resource = IF ctx.resource = Own THEN Own ELSE changed
      BY <1>3, <1>4, ContextFacts DEF RequestInv, RequestTypeOK
<1>6. data \in DataSet /\ data' \in DataSet
      BY <1>3, <1>4, DataFacts DEF RequestInv, RequestTypeOK
<1>7. /\ DOMAIN cache' = DOMAIN cache
      /\ \A k \in DOMAIN cache : k \notin entries => cache'[k] = cache[k]
      /\ \A k \in entries : /\ k \in DOMAIN cache /\ cache'[k].row \in Rows
                            /\ cache'[k] \in [row : Rows \cup {NoRow}, locked : BOOLEAN]
                            /\ cache'[k].locked = cache[k].locked
  <2>1. /\ DOMAIN cache' = DOMAIN cache
        /\ \A k \in DOMAIN cache : k \notin entries => cache'[k] = cache[k]
        BY <1>3
  <2>2. ASSUME NEW k \in entries
        PROVE  /\ k \in DOMAIN cache /\ cache'[k].row \in Rows
               /\ cache'[k] \in [row : Rows \cup {NoRow}, locked : BOOLEAN]
               /\ cache'[k].locked = cache[k].locked
    <3>1. k \in DOMAIN cache /\ cache[k].row \in Rows
          BY <1>2 DEF RequestInv, SharedOK
    <3>2. cache[k] \in [row : Rows \cup {NoRow}, locked : BOOLEAN]
          BY <3>1 DEF RequestInv, TxInv, TxTypeOK
    <3>3. PICK w : w = [cache[k].row EXCEPT ![f] = changed[f]]
          OBVIOUS
    <3>4. w \in Rows
          BY <1>4, <3>1, <3>3 DEF Rows
    <3>5. cache'[k] = [cache[k] EXCEPT !.row = w]
          BY <1>3, <3>1, <3>3
    <3>6. QED
          BY <3>1, <3>2, <3>4, <3>5
  <2>3. QED
        BY <2>1, <2>2
<1>8. \A k \in DOMAIN cache : /\ cache'[k] \in [row : Rows \cup {NoRow}, locked : BOOLEAN]
                              /\ cache'[k].locked = cache[k].locked
      BY <1>7 DEF RequestInv, TxInv, TxTypeOK
<1>9. Latest' = Latest /\ PlainRead' = PlainRead /\ Written' = Written
      BY <1>3 DEF Latest, PlainRead, Written
<1>10. TxInv'
  <2>1. TxTypeOK'
        BY <1>3, <1>7, <1>8 DEF RequestInv, TxInv, TxTypeOK
  <2>2. CacheOK'
    <3>1. CacheOK
          BY DEF RequestInv, TxInv
    <3>2. (Written => locked)' /\ (isolation = "read committed" => DOMAIN cache = {})'
          BY <1>3, <1>7, <1>9, <3>1 DEF CacheOK
    <3>3. ASSUME NEW k \in DOMAIN cache
          PROVE  /\ cache'[k].locked \/ isolation' = "serializable" => locked'
                 /\ ~cache'[k].locked /\ ~Written' /\ isolation' = "repeatable read" => snapshot' # NoWrite
      <4>1. cache'[k].locked = cache[k].locked
            BY <1>8
      <4>2. UNCHANGED <<isolation, locked, snapshot>>
            BY <1>3
      <4>3. /\ cache[k].locked \/ isolation = "serializable" => locked
            /\ ~cache[k].locked /\ ~Written /\ isolation = "repeatable read" => snapshot # NoWrite
            BY <3>1 DEF CacheOK
      <4>4. QED
            BY <1>9, <4>1, <4>2, <4>3
    <3>4. QED
          BY <1>7, <3>2, <3>3 DEF CacheOK
  <2>3. QED
        BY <2>1, <2>2 DEF TxInv
<1>11. EntriesCurrent'
      BY <1>3, <1>7, <1>9 DEF RequestInv, EntriesCurrent
<1>12. SharedOK'
      BY <1>3, <1>7 DEF RequestInv, SharedOK
<1>13. RequestTypeOK'
  <2>1. touched' \subseteq Keys
        BY <1>2, <1>3 DEF RequestInv, RequestTypeOK, TxInv, TxTypeOK
  <2>2. QED
        BY <1>3, <1>5, <1>6, <2>1 DEF RequestInv, RequestTypeOK
<1>14. pc \in {"pre", "pre_in_tx", "post_in_tx", "post"}
      BY <1>3 DEF Handling
<1>15. PhaseOK'
  <2>1. ctx.resource \in Rows => ctx'.resource \in Rows
        BY <1>4, <1>5, RowsAreData, Markers DEF Resource
  <2>2. op = "create" => ctx'.resource = Own /\ data' \in Rows
        BY <1>3, <1>4, <1>5, RowsAreData DEF RequestInv, PhaseOK, Resource
  <2>3. HasRead' = HasRead
        BY <1>3 DEF HasRead
  <2>4. QED
        BY <1>3, <1>5, <1>7, <1>14, <2>1, <2>2, <2>3 DEF RequestInv, PhaseOK
<1>16. NoStaleException'
      BY <1>3, <1>5 DEF RequestInv, NoStaleException
<1>17. HasRead => ctx.resource \in Rows /\ Resource' = changed /\ Resource \in Rows
      BY <1>4, <1>5, RowsAreData, Markers DEF RequestInv, PhaseOK, Resource
<1>18. HasRead' = HasRead /\ Guarded' = Guarded
      BY <1>3 DEF HasRead, Guarded
<1>19. HasRead => \A g \in Fields \ {f} : Resource'[g] = Resource[g]
      BY <1>4, <1>17, RowsAreData
<1>20. ReadIsLocked' /\ ResponseOK'
      BY <1>3, <1>18 DEF RequestInv, ReadIsLocked, ResponseOK
<1>21. UpdateOK'
      BY <1>3, <1>9, <1>18, <1>19 DEF RequestInv, UpdateOK
<1>22. DeleteOK'
      BY <1>3, <1>18, <1>19 DEF RequestInv, DeleteOK
<1>23. DataOK'
  <2>1. DOMAIN data' = DOMAIN data
    <3>1. ctx.resource = Own => DOMAIN data' = DOMAIN data
          BY <1>3, <1>4 DEF Resource
    <3>2. ctx.resource # Own => DOMAIN data' = DOMAIN data
          BY <1>3, <1>6
    <3>3. QED
          BY <3>1, <3>2
  <2>2. ASSUME op # "create", attempt > 0
        PROVE  \A g \in DOMAIN first \ Nested : data'[g] = data[g]
    <3>1. pc # "pre"
          BY <2>2 DEF RequestInv, PhaseOK
    <3>2. ctx.resource # Own
          BY <1>14, <2>2, <3>1, Markers DEF RequestInv, PhaseOK, HasRead
    <3>3. lent \subseteq Nested
          BY DEF RequestInv, RequestTypeOK
    <3>4. CASE f \notin lent
          BY <1>3, <3>2, <3>4
    <3>5. CASE f \in lent
      <4>1. data' = [data EXCEPT ![f] = changed[f]] /\ f \in Nested
            BY <1>3, <3>2, <3>3, <3>5
      <4>2. \A g \in DOMAIN data : g # f => data'[g] = data[g]
            BY <1>6, <4>1
      <4>3. DOMAIN first = DOMAIN data
            BY <2>2 DEF RequestInv, DataOK
      <4>4. QED
            BY <4>1, <4>2, <4>3
    <3>6. QED
          BY <3>4, <3>5
  <2>3. QED
        BY <1>3, <2>1, <2>2 DEF RequestInv, DataOK
<1>24. QED
      BY <1>10, <1>11, <1>12, <1>13, <1>15, <1>16, <1>20, <1>21, <1>22, <1>23 DEF RequestInv

-----------------------------------------------------------------------------
(* Theorems *)

\* Every step of the system preserves the inductive invariant.
LEMMA NextInv ==
  ASSUME RequestInv, [Next]_vars
  PROVE  RequestInv'
<1>1. CASE HandlerStep
      BY <1>1, ChangeResourceInv, HandlerUpdateInv, HandlerFetchInv, HandlerThrowsInv DEF HandlerStep
<1>2. CASE RequestStep
      BY <1>2, GoingSteps, PrefetchInv, BeginInv, CheckInv, FetchForUpdateInv, FetchForDeleteInv,
         WriteResourceInv, CreateDuplicateInv, WriteDeleteInv, EndInv DEF RequestStep
<1>3. CASE OtherCommits /\ UNCHANGED reqVars
      BY <1>3, OtherCommitsInv
<1>4. CASE UNCHANGED vars
  <2>1. /\ UNCHANGED <<isolation, row, own, snapshot, locked, cache, others>>
        /\ UNCHANGED <<op, policy, pc, data, ctx, attempt, err, result, shared, lent>>
        /\ UNCHANGED <<touched, meddled, raised, first>>
        BY <1>4 DEF vars, txVars, dbVars, reqVars, hist
  <2>2. TxInv' /\ EntriesCurrent' /\ Latest' = Latest
    <3>1. UNCHANGED <<txVars, touched>>
          BY <2>1 DEF txVars, dbVars
    <3>2. QED
          BY <3>1, TxUnchanged DEF RequestInv
  <2>3. SharedOK' /\ RequestTypeOK'
        BY <2>1 DEF RequestInv, SharedOK, RequestTypeOK
  <2>4. PhaseOK' /\ NoStaleException' /\ DataOK'
        BY <2>1 DEF RequestInv, PhaseOK, HasRead, NoStaleException, DataOK
  <2>5. Guarded' = Guarded /\ Resource' = Resource /\ Written' = Written /\ HasRead' = HasRead
        BY <2>1 DEF Guarded, Resource, Written, HasRead
  <2>6. ReadIsLocked' /\ UpdateOK' /\ DeleteOK' /\ ResponseOK'
        BY <2>1, <2>2, <2>5 DEF RequestInv, ReadIsLocked, UpdateOK, DeleteOK, ResponseOK
  <2>7. QED
        BY <2>2, <2>3, <2>4, <2>6 DEF RequestInv
<1>5. QED
      BY <1>1, <1>2, <1>3, <1>4 DEF Next

\* The inductive invariant holds: of the cache, of the locks, and of what the maps of
\* the request hold at every step.
THEOREM RequestCorrect == Spec => []RequestInv
<1>1. Init => RequestInv
      BY InitInv
<1>2. RequestInv /\ [Next]_vars => RequestInv'
      BY NextInv
<1>3. QED
      BY <1>1, <1>2, PTL DEF Spec

\* Every variable keeps its type; no more attempts are made than RetryTxCount allows.
THEOREM RequestTypeCorrect == Spec => []TypeOK
<1>1. RequestInv => TypeOK
      BY PartsOfType DEF RequestInv, TxInv
<1>2. QED
      BY <1>1, RequestCorrect, PTL

\* A locking read that the cache answers gets the latest version; a plain one gets what
\* the database would give it or, when an entry of LockList answers it at "repeatable
\* read", the latest version instead of the snapshot.  This holds of the entries that no
\* shared map has changed, whatever handlers and other processes do
\* (cached_transaction.go: List, LockList and the writes that empty the cache).
THEOREM CachedReadsCorrect == Spec => []CachedReadsAreCurrent
<1>1. RequestInv => CachedReadsAreCurrent
  <2> SUFFICES ASSUME RequestInv, NEW key \in DOMAIN cache \ touched, NEW lock \in BOOLEAN,
                      CacheHit(key, lock)
               PROVE  Found(key, lock) =
                        IF lock \/ NewerThanSnapshot(key, lock) THEN Latest ELSE PlainRead
      BY DEF CachedReadsAreCurrent
  <2>1. Found(key, lock) = IF cache[key].locked THEN Latest ELSE PlainRead
        BY DEF Found, RequestInv, EntriesCurrent
  <2>2. lock => cache[key].locked
        BY DEF CacheHit
  <2>3. isolation # "repeatable read" => PlainRead = Latest
        BY DEF PlainRead
  <2>4. QED
        BY <2>1, <2>2, <2>3 DEF NewerThanSnapshot
<1>2. QED
      BY <1>1, RequestCorrect, PTL

\* An exception in the context is of the current attempt, however many retries there
\* are (resourceTransactionWithContext restores the context).
THEOREM ExceptionsAreFresh == Spec => []NoStaleException
<1>1. RequestInv => NoStaleException
      BY DEF RequestInv
<1>2. QED
      BY <1>1, RequestCorrect, PTL

\* The commit of an update or a delete that reads with a lock undoes nothing that
\* another process has committed (UpdateResourceInTransaction, DeleteResourceInTransaction).
THEOREM NoUpdateIsLost == Spec => NoUpdateLost
<1> DEFINE Kept ==
      Commit /\ Guarded =>
       /\ op = "update" => row # NoRow /\ \A f \in Fields \ (DOMAIN first \cup meddled) : row'[f] = row[f]
       /\ op = "delete" => row # NoRow /\ \A f \in Fields \ meddled : Resource[f] = row[f]
<1>1. RequestInv => Kept
  <2> SUFFICES ASSUME RequestInv, Commit, Guarded PROVE Kept
      OBVIOUS
  <2>1. pc = "commit" /\ row' = Latest
        BY DEF Commit, CommitTx
  <2>2. op # "create" => HasRead
        BY <2>1 DEF HasRead
  <2>3. op # "create" => row # NoRow
        BY <2>2 DEF RequestInv, ReadIsLocked
  <2>4. op = "update" => \A f \in Fields \ (DOMAIN first \cup meddled) : Latest[f] = row[f]
        BY <2>2 DEF RequestInv, UpdateOK
  <2>5. op = "delete" => \A f \in Fields \ meddled : Resource[f] = row[f]
        BY <2>2 DEF RequestInv, DeleteOK
  <2>6. QED
        BY <2>1, <2>3, <2>4, <2>5
<1>2. RequestInv /\ [Next]_vars => [Kept]_vars
      BY <1>1
<1> HIDE DEF Kept
<1>3. Spec => [][Kept]_vars
      BY <1>2, RequestCorrect, PTL DEF Spec
<1>4. QED
      BY <1>3 DEF NoUpdateLost, Kept

\* A create or an update that commits answers with the committed row, after any number
\* of retries.
THEOREM ResponseIsWhatIsCommitted == Spec => ResponseIsCommitted
<1> DEFINE Told == Commit /\ Guarded /\ op # "delete" /\ meddled = {} => ctx.response = row'
<1>1. RequestInv => Told
  <2> SUFFICES ASSUME RequestInv, Commit, Guarded, op # "delete", meddled = {}
               PROVE  ctx.response = row'
      OBVIOUS
  <2>1. pc = "commit" /\ row' = Latest
        BY DEF Commit, CommitTx
  <2>2. Written /\ ctx.response = own
        BY <2>1 DEF RequestInv, ResponseOK
  <2>3. QED
        BY <2>1, <2>2 DEF Latest
<1>2. RequestInv /\ [Next]_vars => [Told]_vars
      BY <1>1
<1> HIDE DEF Told
<1>3. Spec => [][Told]_vars
      BY <1>2, RequestCorrect, PTL DEF Spec
<1>4. QED
      BY <1>3 DEF ResponseIsCommitted, Told

\* An update or a delete is retried with the plain fields it came with.
THEOREM RetriesAreAlike == Spec => RetriesStartAlike
<1> DEFINE Alike == Begin /\ attempt > 0 /\ op # "create" =>
                      \A f \in DOMAIN first \ Nested : data[f] = first[f]
<1>1. RequestInv => Alike
      BY DEF RequestInv, DataOK
<1>2. RequestInv /\ [Next]_vars => [Alike]_vars
      BY <1>1
<1> HIDE DEF Alike
<1>3. Spec => [][Alike]_vars
      BY <1>2, RequestCorrect, PTL DEF Spec
<1>4. QED
      BY <1>3 DEF RetriesStartAlike, Alike
=============================================================================
