------------------------- MODULE SyncWatcher_proofs -------------------------
(***************************************************************************)
(* Proofs about the load balancing of the sync watcher, for any number of  *)
(* processes and keys, and however often processes die, leases expire and  *)
(* watches fail.                                                           *)
(***************************************************************************)
EXTENDS SyncWatcher, FiniteSetTheorems, TLAPS

\* The i-th event of s is the last one about q.
IsLast(s, q, i) ==
  s[i].proc = q /\ \A j \in 1 .. Len(s) : j > i => s[j].proc # q

\* A process whose list is ps knows the processes R once it has handled the events s:
\* the last event about a process, or else the list, says whether it is in R.
Foretells(s, ps, R) ==
  \A q \in Procs :
    /\ (\A i \in 1 .. Len(s) : s[i].proc # q) => (q \in ps <=> q \in R)
    /\ \A i \in 1 .. Len(s) : IsLast(s, q, i) => (s[i].action # "delete" <=> q \in R)

\* An error ends the watch before what follows it is handled.
HasError(s) == \E i \in 1 .. Len(s) : s[i].action = "error"

Types ==
  /\ members \in Seq(Procs) /\ IsInjective(members)
  /\ pc \in [Procs -> PC]
  /\ lost \cup closing \cup stopping \subseteq Procs
  /\ inbox \in [Procs -> Seq(Event)]
  /\ list \in [Procs -> SUBSET Procs]
  /\ watches \in [Procs -> [size : Nat, position : Nat]]

\* The events of an open watch lead from the list to the registered processes.
EventsForetell ==
  \A p \in Procs : Watching(p) => Foretells(inbox[p], list[p], Registered) \/ HasError(inbox[p])

\* A process that is not in its loop has forgotten its list.
ListsForgotten == \A p \in Procs : pc[p] # "loop" => list[p] = {}

\* The path watchers run with what the list says.
WatchesFitList == \A p \in Procs : watches[p] = WatchesFor(list[p], p)

\* The inductive invariant.
WatcherInv == Types /\ EventsForetell /\ ListsForgotten /\ WatchesFitList

-----------------------------------------------------------------------------
(* Sequences *)

\* The constants of the module.
LEMMA Constants == Procs \subseteq Nat /\ IsFiniteSet(Procs) /\ WatchKeys \in Nat
BY WatcherConstants DEF WatcherConstants

\* Append, by positions.
LEMMA AppendFacts ==
  ASSUME NEW S, NEW s \in Seq(S), NEW e \in S
  PROVE  /\ Append(s, e) \in Seq(S) /\ Len(s) \in Nat /\ Len(Append(s, e)) = Len(s) + 1
         /\ Append(s, e)[Len(s) + 1] = e
         /\ \A i \in 1 .. Len(s) : Append(s, e)[i] = s[i]
OBVIOUS

\* Head and Tail, by positions.
LEMMA TailFacts ==
  ASSUME NEW S, NEW s \in Seq(S), s # <<>>
  PROVE  /\ Tail(s) \in Seq(S) /\ Len(s) \in Nat \ {0} /\ Len(Tail(s)) = Len(s) - 1
         /\ Head(s) = s[1] /\ s[1] \in S
         /\ \A i \in 1 .. Len(s) - 1 : Tail(s)[i] = s[i + 1]
OBVIOUS

\* Concatenation, by positions.
LEMMA ConcatFacts ==
  ASSUME NEW S, NEW a \in Seq(S), NEW b \in Seq(S)
  PROVE  /\ a \o b \in Seq(S) /\ Len(a) \in Nat /\ Len(b) \in Nat /\ Len(a \o b) = Len(a) + Len(b)
         /\ \A i \in 1 .. Len(a) : (a \o b)[i] = a[i]
         /\ \A i \in Len(a) + 1 .. Len(a) + Len(b) : (a \o b)[i] = b[i - Len(a)]
OBVIOUS

\* An element is taken out of a sequence that has every element once.
LEMMA RemoveFacts ==
  ASSUME NEW S, NEW s \in Seq(S), IsInjective(s), NEW n \in 1 .. Len(s)
  PROVE  /\ RemoveAt(s, n) \in Seq(S) /\ IsInjective(RemoveAt(s, n))
         /\ ToSet(RemoveAt(s, n)) = ToSet(s) \ {s[n]}
<1>1. PICK t : t = RemoveAt(s, n)
      OBVIOUS
<1>2. /\ t \in Seq(S) /\ Len(s) \in Nat /\ Len(t) = Len(s) - 1
      /\ \A i \in 1 .. Len(t) : t[i] = IF i < n THEN s[i] ELSE s[i + 1]
  <2>1. PICK a, b : a = SubSeq(s, 1, n - 1) /\ b = SubSeq(s, n + 1, Len(s))
        OBVIOUS
  <2>2. Len(s) \in Nat /\ n \in Nat
        OBVIOUS
  <2>3. a \in Seq(S) /\ Len(a) = n - 1 /\ \A i \in 1 .. n - 1 : a[i] = s[i]
        BY <2>1, <2>2
  <2>4. b \in Seq(S) /\ Len(b) = Len(s) - n /\ \A i \in 1 .. Len(s) - n : b[i] = s[n + i]
        BY <2>1, <2>2
  <2>5. t = a \o b
        BY <1>1, <2>1 DEF RemoveAt
  <2>6. /\ t \in Seq(S) /\ Len(t) = Len(a) + Len(b)
        /\ \A i \in 1 .. Len(a) : t[i] = a[i]
        /\ \A i \in Len(a) + 1 .. Len(a) + Len(b) : t[i] = b[i - Len(a)]
    <3>1. a \in Seq(S) /\ b \in Seq(S)
          BY <2>3, <2>4
    <3>2. /\ a \o b \in Seq(S) /\ Len(a \o b) = Len(a) + Len(b)
          /\ \A i \in 1 .. Len(a) : (a \o b)[i] = a[i]
          /\ \A i \in Len(a) + 1 .. Len(a) + Len(b) : (a \o b)[i] = b[i - Len(a)]
          BY <3>1, ConcatFacts, Zenon
    <3>3. QED
          BY <2>5, <3>2, Zenon
  <2>7. Len(t) = Len(s) - 1
        BY <2>2, <2>3, <2>4, <2>6
  <2>8. ASSUME NEW i \in 1 .. Len(t)
        PROVE  t[i] = IF i < n THEN s[i] ELSE s[i + 1]
    <3>1. CASE i < n
          BY <2>2, <2>3, <2>6, <2>7, <3>1
    <3>2. CASE i >= n
      <4>1. i - Len(a) \in 1 .. Len(s) - n /\ n + (i - Len(a)) = i + 1
            BY <2>2, <2>3, <2>7, <3>2
      <4>2. t[i] = b[i - Len(a)]
            BY <2>2, <2>3, <2>4, <2>6, <3>2
      <4>3. b[i - Len(a)] = s[n + (i - Len(a))]
            BY <2>4, <4>1
      <4>4. QED
            BY <2>2, <3>2, <4>1, <4>2, <4>3
    <3>3. QED
          BY <2>2, <3>1, <3>2
  <2>9. QED
        BY <2>2, <2>6, <2>7, <2>8
<1>3. DOMAIN t = 1 .. Len(t) /\ DOMAIN s = 1 .. Len(s)
      BY <1>2
<1>4. \A i, j \in 1 .. Len(s) : s[i] = s[j] => i = j
      BY <1>3 DEF IsInjective
<1>5. IsInjective(t)
  <2> SUFFICES ASSUME NEW i \in 1 .. Len(t), NEW j \in 1 .. Len(t), t[i] = t[j]
               PROVE  i = j
      BY <1>3 DEF IsInjective
  <2>1. /\ t[i] = s[IF i < n THEN i ELSE i + 1] /\ t[j] = s[IF j < n THEN j ELSE j + 1]
        BY <1>2
  <2>2. /\ (IF i < n THEN i ELSE i + 1) \in 1 .. Len(s) /\ (IF j < n THEN j ELSE j + 1) \in 1 .. Len(s)
        BY <1>2
  <2>3. (IF i < n THEN i ELSE i + 1) = (IF j < n THEN j ELSE j + 1)
        BY <1>4, <2>1, <2>2
  <2>4. QED
        BY <1>2, <2>3
<1>6. ToSet(t) = ToSet(s) \ {s[n]}
  <2>1. ASSUME NEW x \in ToSet(t) PROVE x \in ToSet(s) \ {s[n]}
    <3>1. PICK i \in 1 .. Len(t) : x = t[i]
          BY <1>3 DEF ToSet
    <3>2. x = s[IF i < n THEN i ELSE i + 1]
          BY <1>2, <3>1
    <3>3. (IF i < n THEN i ELSE i + 1) \in 1 .. Len(s) /\ (IF i < n THEN i ELSE i + 1) # n
          BY <1>2
    <3>4. x # s[n]
          BY <1>4, <3>2, <3>3
    <3>5. QED
          BY <1>3, <3>2, <3>3, <3>4 DEF ToSet
  <2>2. ASSUME NEW x \in ToSet(s) \ {s[n]} PROVE x \in ToSet(t)
    <3>1. PICK i \in 1 .. Len(s) : x = s[i] /\ i # n
          BY <1>3 DEF ToSet
    <3>2. CASE i < n
      <4>1. i \in 1 .. Len(t) /\ t[i] = x
            BY <1>2, <3>1, <3>2
      <4>2. QED
            BY <1>3, <4>1 DEF ToSet
    <3>3. CASE i > n
      <4>1. i - 1 \in 1 .. Len(t) /\ t[i - 1] = x
            BY <1>2, <3>1, <3>3
      <4>2. QED
            BY <1>3, <4>1 DEF ToSet
    <3>4. QED
          BY <1>2, <3>1, <3>2, <3>3
  <2>3. QED
        BY <2>1, <2>2
<1>7. QED
      BY <1>1, <1>2, <1>5, <1>6

-----------------------------------------------------------------------------
(* Events *)

\* A watch begins with the keys there are, for a process that knows nothing.
LEMMA ForetellsOpen ==
  ASSUME NEW ms \in Seq(Procs)
  PROVE  LET s == [i \in 1 .. Len(ms) |-> [action |-> "get", proc |-> ms[i]]] IN
         s \in Seq(Event) /\ Foretells(s, {}, ToSet(ms))
<1>1. PICK s : s = [i \in 1 .. Len(ms) |-> [action |-> "get", proc |-> ms[i]]]
      OBVIOUS
<1>2. Len(ms) \in Nat /\ DOMAIN ms = 1 .. Len(ms) /\ \A i \in 1 .. Len(ms) : ms[i] \in Procs
      OBVIOUS
<1>3. s \in Seq(Event) /\ Len(s) = Len(ms)
  <2>1. \A i \in 1 .. Len(ms) : [action |-> "get", proc |-> ms[i]] \in Event
        BY <1>2 DEF Event
  <2>2. QED
        BY <1>1, <1>2, <2>1
<1>4. \A i \in 1 .. Len(ms) : s[i].action = "get" /\ s[i].proc = ms[i]
      BY <1>1
<1>5. Foretells(s, {}, ToSet(ms))
  <2> SUFFICES ASSUME NEW q \in Procs
               PROVE  /\ (\A i \in 1 .. Len(s) : s[i].proc # q) => q \notin ToSet(ms)
                      /\ \A i \in 1 .. Len(s) : s[i].proc = q => s[i].action # "delete" /\ q \in ToSet(ms)
      BY DEF Foretells, IsLast
  <2>1. \A i \in 1 .. Len(s) : s[i].proc = q => q \in ToSet(ms)
        BY <1>2, <1>3, <1>4 DEF ToSet
  <2>2. q \in ToSet(ms) => \E i \in 1 .. Len(s) : s[i].proc = q
        BY <1>2, <1>3, <1>4 DEF ToSet
  <2>3. QED
        BY <1>3, <1>4, <2>1, <2>2
<1>6. QED
      BY <1>1, <1>3, <1>5

\* A change is added at the end.
LEMMA ForetellsAppend ==
  ASSUME NEW s \in Seq(Event), NEW ps, NEW R, NEW Q, NEW e \in Event,
         Foretells(s, ps, R) \/ HasError(s),
         e.action # "delete" <=> e.proc \in Q,
         \A q \in Procs : q # e.proc => (q \in Q <=> q \in R)
  PROVE  /\ Append(s, e) \in Seq(Event)
         /\ Foretells(Append(s, e), ps, Q) \/ HasError(Append(s, e))
<1>1. PICK t : t = Append(s, e)
      OBVIOUS
<1>2. /\ t \in Seq(Event) /\ Len(s) \in Nat /\ Len(t) = Len(s) + 1 /\ t[Len(s) + 1] = e
      /\ \A i \in 1 .. Len(s) : t[i] = s[i]
      BY <1>1, AppendFacts
<1>3. CASE HasError(s)
  <2>1. PICK i \in 1 .. Len(s) : s[i].action = "error"
        BY <1>3 DEF HasError
  <2>2. i \in 1 .. Len(t) /\ t[i].action = "error"
        BY <1>2, <2>1
  <2>3. QED
        BY <1>1, <1>2, <2>2 DEF HasError
<1>4. CASE Foretells(s, ps, R)
  <2>1. ASSUME NEW q \in Procs, \A i \in 1 .. Len(t) : t[i].proc # q
        PROVE  q \in ps <=> q \in Q
    <3>1. q # e.proc
          BY <1>2, <2>1
    <3>2. \A i \in 1 .. Len(s) : s[i].proc # q
          BY <1>2, <2>1
    <3>3. QED
          BY <1>4, <3>1, <3>2 DEF Foretells
  <2>2. ASSUME NEW q \in Procs, NEW i \in 1 .. Len(t), IsLast(t, q, i)
        PROVE  t[i].action # "delete" <=> q \in Q
    <3>1. CASE i = Len(s) + 1
      <4>1. t[i] = e /\ e.proc = q
            BY <1>2, <2>2, <3>1 DEF IsLast
      <4>2. QED
            BY <4>1
    <3>2. CASE i # Len(s) + 1
      <4>1. i \in 1 .. Len(s) /\ t[i] = s[i]
            BY <1>2, <3>2
      <4>2. Len(s) + 1 \in 1 .. Len(t) /\ Len(s) + 1 > i
            BY <1>2, <4>1
      <4>3. e.proc # q
            BY <1>2, <2>2, <4>2 DEF IsLast
      <4>4. IsLast(s, q, i)
        <5>1. s[i].proc = q
              BY <2>2, <4>1 DEF IsLast
        <5>2. ASSUME NEW j \in 1 .. Len(s), j > i PROVE s[j].proc # q
          <6>1. j \in 1 .. Len(t) /\ t[j] = s[j]
                BY <1>2
          <6>2. QED
                BY <2>2, <5>2, <6>1 DEF IsLast
        <5>3. QED
              BY <5>1, <5>2 DEF IsLast
      <4>5. s[i].action # "delete" <=> q \in R
            BY <1>4, <4>1, <4>4 DEF Foretells
      <4>6. QED
            BY <4>1, <4>3, <4>5
    <3>3. QED
          BY <3>1, <3>2
  <2>3. Foretells(t, ps, Q)
        BY <2>1, <2>2 DEF Foretells
  <2>4. QED
        BY <1>1, <1>2, <2>3
<1>5. QED
      BY <1>3, <1>4

\* The first event is handled; it is not the error.
LEMMA ForetellsTail ==
  ASSUME NEW s \in Seq(Event), s # <<>>, NEW ps, NEW R, Head(s).action # "error",
         Foretells(s, ps, R) \/ HasError(s)
  PROVE  Foretells(Tail(s), NewList(ps, Head(s)), R) \/ HasError(Tail(s))
<1>1. PICK t : t = Tail(s)
      OBVIOUS
<1>2. PICK e : e = Head(s)
      OBVIOUS
<1>3. /\ t \in Seq(Event) /\ Len(s) \in Nat \ {0} /\ Len(t) = Len(s) - 1
      /\ e = s[1] /\ e \in Event /\ \A i \in 1 .. Len(s) - 1 : t[i] = s[i + 1]
      BY <1>1, <1>2, TailFacts
<1>4. CASE HasError(s)
  <2>1. PICK i \in 1 .. Len(s) : s[i].action = "error"
        BY <1>4 DEF HasError
  <2>2. i # 1
        BY <1>2, <1>3, <2>1
  <2>3. i - 1 \in 1 .. Len(t) /\ t[i - 1] = s[(i - 1) + 1] /\ (i - 1) + 1 = i
        BY <1>3, <2>2
  <2>4. t[i - 1].action = "error"
        BY <2>1, <2>3
  <2>5. QED
        BY <1>1, <2>3, <2>4 DEF HasError
<1>5. CASE Foretells(s, ps, R)
  <2>1. ASSUME NEW q \in Procs, \A i \in 1 .. Len(t) : t[i].proc # q
        PROVE  q \in NewList(ps, e) <=> q \in R
    <3>1. \A j \in 1 .. Len(s) : j > 1 => s[j].proc # q
      <4> SUFFICES ASSUME NEW j \in 1 .. Len(s), j > 1 PROVE s[j].proc # q
          OBVIOUS
      <4>1. j - 1 \in 1 .. Len(t) /\ t[j - 1] = s[(j - 1) + 1] /\ (j - 1) + 1 = j
            BY <1>3
      <4>2. QED
            BY <2>1, <4>1
    <3>2. CASE e.proc = q
      <4>1. 1 \in 1 .. Len(s) /\ IsLast(s, q, 1)
            BY <1>3, <3>1, <3>2 DEF IsLast
      <4>2. s[1].action # "delete" <=> q \in R
            BY <1>5, <4>1 DEF Foretells
      <4>3. QED
            BY <1>3, <3>2, <4>2 DEF NewList
    <3>3. CASE e.proc # q
      <4>1. \A j \in 1 .. Len(s) : s[j].proc # q
            BY <1>3, <3>1, <3>3
      <4>2. q \in ps <=> q \in R
            BY <1>5, <4>1 DEF Foretells
      <4>3. QED
            BY <3>3, <4>2 DEF NewList
    <3>4. QED
          BY <3>2, <3>3
  <2>2. ASSUME NEW q \in Procs, NEW i \in 1 .. Len(t), IsLast(t, q, i)
        PROVE  t[i].action # "delete" <=> q \in R
    <3>1. i + 1 \in 1 .. Len(s) /\ t[i] = s[i + 1]
          BY <1>3
    <3>2. s[i + 1].proc = q
          BY <2>2, <3>1 DEF IsLast
    <3>3. ASSUME NEW j \in 1 .. Len(s), j > i + 1 PROVE s[j].proc # q
      <4>1. j - 1 \in 1 .. Len(t) /\ t[j - 1] = s[(j - 1) + 1] /\ (j - 1) + 1 = j /\ j - 1 > i
            BY <1>3, <3>3
      <4>2. QED
            BY <2>2, <4>1 DEF IsLast
    <3>4. IsLast(s, q, i + 1)
          BY <3>2, <3>3 DEF IsLast
    <3>5. QED
          BY <1>5, <3>1, <3>4 DEF Foretells
  <2>3. Foretells(t, NewList(ps, e), R)
        BY <2>1, <2>2 DEF Foretells
  <2>4. QED
        BY <1>1, <1>2, <2>3
<1>6. QED
      BY <1>4, <1>5

-----------------------------------------------------------------------------
(* The steps *)

\* Initially nobody is registered, and nobody watches.
LEMMA InitInv ==
  ASSUME Init
  PROVE  WatcherInv
<1>1. Types
  <2>1. IsInjective(members) /\ members \in Seq(Procs)
        BY DEF Init, IsInjective
  <2>2. watches \in [Procs -> [size : Nat, position : Nat]]
        BY DEF Init, NoWatches
  <2>3. QED
        BY <2>1, <2>2 DEF Init, Types, PC
<1>2. EventsForetell
      BY DEF Init, EventsForetell, Watching
<1>3. ListsForgotten /\ WatchesFitList
      BY DEF Init, ListsForgotten, WatchesFitList, WatchesFor
<1>4. QED
      BY <1>1, <1>2, <1>3 DEF WatcherInv

\* No watch is opened, and neither etcd nor a list nor an event changes.
LEMMA QuietInv ==
  ASSUME WatcherInv, UNCHANGED <<members, inbox, list, watches>>, pc' \in [Procs -> PC],
         (lost \cup closing \cup stopping \subseteq Procs)',
         \A q \in Procs : /\ Watching(q)' => Watching(q)
                          /\ pc'[q] # "loop" => pc[q] # "loop"
  PROVE  WatcherInv'
<1>1. Types'
      BY DEF WatcherInv, Types
<1>2. Registered' = Registered
      BY DEF Registered
<1>3. EventsForetell'
  <2> SUFFICES ASSUME NEW q \in Procs, Watching(q)'
               PROVE  Foretells(inbox[q], list[q], Registered) \/ HasError(inbox[q])
      BY <1>2 DEF EventsForetell, Foretells, HasError, IsLast
  <2>1. QED
        BY DEF WatcherInv, EventsForetell
<1>4. ListsForgotten' /\ WatchesFitList'
      BY DEF WatcherInv, ListsForgotten, WatchesFitList, WatchesFor, Position
<1>5. QED
      BY <1>1, <1>3, <1>4 DEF WatcherInv

\* The steps of that kind.
LEMMA QuietSteps ==
  ASSUME WatcherInv, NEW p \in Procs,
         \/ LockCancelled(p) \/ CancelWatch(p) \/ UnlockNothing(p) \/ ReportLost(p)
         \/ KeepAliveError(p) \/ Stop(p)
  PROVE  WatcherInv'
<1>1. pc \in [Procs -> PC] /\ lost \cup closing \cup stopping \subseteq Procs
      BY DEF WatcherInv, Types
<1>2. UNCHANGED <<members, inbox, list, watches>>
      BY DEF LockCancelled, CancelWatch, UnlockNothing, ReportLost, KeepAliveError, Stop, procVars
<1>3. (lost \cup closing \cup stopping \subseteq Procs)'
      BY <1>1 DEF LockCancelled, CancelWatch, UnlockNothing, ReportLost, KeepAliveError, Stop, procVars
<1>4. CASE LockCancelled(p) \/ UnlockNothing(p)
  <2>1. PICK where \in {"dead", "lock"} : pc' = [pc EXCEPT ![p] = where]
        BY <1>4 DEF LockCancelled, UnlockNothing, Goto
  <2>2. pc[p] # "loop" /\ closing' = closing
        BY <1>4 DEF LockCancelled, UnlockNothing
  <2>3. /\ pc' \in [Procs -> PC] /\ pc'[p] # "loop"
        /\ \A q \in Procs : q # p => pc'[q] = pc[q]
        BY <1>1, <2>1 DEF PC
  <2>4. \A q \in Procs : (Watching(q)' => Watching(q)) /\ (pc'[q] # "loop" => pc[q] # "loop")
        BY <2>2, <2>3 DEF Watching
  <2>5. QED
        BY <1>2, <1>3, <2>3, <2>4, QuietInv
<1>5. CASE ~(LockCancelled(p) \/ UnlockNothing(p))
  <2>1. pc' = pc /\ (closing' = closing \/ closing' = closing \cup {p})
        BY <1>5 DEF CancelWatch, ReportLost, KeepAliveError, Stop, procVars
  <2>2. \A q \in Procs : (Watching(q)' => Watching(q)) /\ (pc'[q] # "loop" => pc[q] # "loop")
        BY <2>1 DEF Watching
  <2>3. QED
        BY <1>1, <1>2, <1>3, <2>1, <2>2, QuietInv
<1>6. QED
      BY <1>4, <1>5

\* A key is created or deleted, and the open watches are told of it.
LEMMA PublishInv ==
  ASSUME WatcherInv, NEW p \in Procs, NEW action \in {"set", "delete"}, Publish(action, p),
         members' \in Seq(Procs), IsInjective(members)',
         Registered' = IF action = "set" THEN Registered \cup {p} ELSE Registered \ {p},
         UNCHANGED <<closing, list, watches, stopping>>, lost' \subseteq Procs,
         pc' \in [Procs -> PC], \A q \in Procs : pc'[q] = "loop" <=> pc[q] = "loop"
  PROVE  WatcherInv'
<1>1. PICK e : e = [action |-> action, proc |-> p]
      OBVIOUS
<1>2. e \in Event /\ e.action = action /\ e.proc = p
      BY <1>1 DEF Event
<1>3. inbox' = [q \in Procs |-> IF Watching(q) THEN Append(inbox[q], e) ELSE inbox[q]]
      BY <1>1 DEF Publish
<1>4. inbox \in [Procs -> Seq(Event)]
      BY DEF WatcherInv, Types
<1>5. \A q \in Procs : Append(inbox[q], e) \in Seq(Event)
      BY <1>2, <1>4
<1>6. inbox' \in [Procs -> Seq(Event)]
      BY <1>3, <1>4, <1>5
<1>7. Types'
      BY <1>6 DEF WatcherInv, Types
<1>8. EventsForetell'
  <2> SUFFICES ASSUME NEW q \in Procs, Watching(q)'
               PROVE  Foretells(inbox'[q], list'[q], Registered') \/ HasError(inbox'[q])
      BY DEF EventsForetell
  <2>1. Watching(q)
        BY DEF Watching
  <2>2. PICK s, ps, R, Q : s = inbox[q] /\ ps = list[q] /\ R = Registered /\ Q = Registered'
        OBVIOUS
  <2>3. inbox'[q] = Append(s, e) /\ list'[q] = ps
        BY <1>3, <2>1, <2>2
  <2>4. Foretells(s, ps, R) \/ HasError(s)
        BY <2>1, <2>2 DEF WatcherInv, EventsForetell
  <2>5. /\ e.action # "delete" <=> e.proc \in Q
        /\ \A r \in Procs : r # e.proc => (r \in Q <=> r \in R)
        BY <1>2, <2>2
  <2>6. s \in Seq(Event)
        BY <1>4, <2>2
  <2>7. Foretells(Append(s, e), ps, Q) \/ HasError(Append(s, e))
        BY <1>2, <2>4, <2>5, <2>6, ForetellsAppend
  <2>8. QED
        BY <2>2, <2>3, <2>7
<1>9. ListsForgotten' /\ WatchesFitList'
      BY DEF WatcherInv, ListsForgotten, WatchesFitList, WatchesFor, Position
<1>10. QED
      BY <1>7, <1>8, <1>9 DEF WatcherInv

\* p's key goes away.
LEMMA MemberLeaves ==
  ASSUME WatcherInv, NEW p \in Registered, members' = MembersWithout(p)
  PROVE  members' \in Seq(Procs) /\ IsInjective(members)' /\ Registered' = Registered \ {p}
<1>1. members \in Seq(Procs) /\ IsInjective(members)
      BY DEF WatcherInv, Types
<1>2. PICK n : n = CHOOSE i \in DOMAIN members : members[i] = p
      OBVIOUS
<1>3. n \in 1 .. Len(members) /\ members[n] = p
  <2>1. \E i \in DOMAIN members : members[i] = p
        BY DEF Registered, ToSet
  <2>2. n \in DOMAIN members /\ members[n] = p
        BY <1>2, <2>1
  <2>3. QED
        BY <1>1, <2>2
<1>4. members' = RemoveAt(members, n)
      BY <1>2 DEF MembersWithout
<1>5. /\ RemoveAt(members, n) \in Seq(Procs) /\ IsInjective(RemoveAt(members, n))
      /\ ToSet(RemoveAt(members, n)) = ToSet(members) \ {p}
      BY <1>1, <1>3, RemoveFacts
<1>6. QED
      BY <1>4, <1>5 DEF Registered

\* The steps that create or delete a key.
LEMMA PublishSteps ==
  ASSUME WatcherInv, NEW p \in Procs, Register(p) \/ Unlock(p) \/ Lapse(p) \/ Expire(p)
  PROVE  WatcherInv'
<1>1. /\ pc \in [Procs -> PC] /\ lost \subseteq Procs
      /\ members \in Seq(Procs) /\ IsInjective(members)
      BY DEF WatcherInv, Types
<1>2. CASE Register(p)
  <2>1. /\ pc[p] = "lock" /\ p \notin Registered /\ members' = Append(members, p)
        /\ Publish("set", p) /\ pc' = [pc EXCEPT ![p] = "watch"]
        /\ UNCHANGED <<lost, closing, list, watches, stopping>>
        BY <1>2 DEF Register, Goto
  <2>2. /\ members' \in Seq(Procs) /\ Len(members) \in Nat /\ Len(members') = Len(members) + 1
        /\ members'[Len(members) + 1] = p /\ \A i \in 1 .. Len(members) : members'[i] = members[i]
        BY <1>1, <2>1, AppendFacts
  <2>3. DOMAIN members = 1 .. Len(members) /\ DOMAIN members' = 1 .. Len(members) + 1
        BY <1>1, <2>2
  <2>4. \A i \in 1 .. Len(members) : members[i] # p
        BY <2>1, <2>3 DEF Registered, ToSet
  <2>5. IsInjective(members)'
        BY <1>1, <2>2, <2>3, <2>4 DEF IsInjective
  <2>6. Registered' = Registered \cup {p}
        BY <2>2, <2>3 DEF Registered, ToSet
  <2>7. pc' \in [Procs -> PC] /\ \A q \in Procs : pc'[q] = "loop" <=> pc[q] = "loop"
        BY <1>1, <2>1 DEF PC
  <2>8. QED
        BY <1>1, <2>1, <2>2, <2>5, <2>6, <2>7, PublishInv
<1>3. CASE Unlock(p) \/ Lapse(p) \/ Expire(p)
  <2>1. /\ p \in Registered /\ members' = MembersWithout(p) /\ Publish("delete", p)
        /\ UNCHANGED <<closing, list, watches, stopping>> /\ lost' \subseteq Procs
        /\ pc' = pc \/ (pc[p] = "unlock" /\ pc' = [pc EXCEPT ![p] = "lock"])
        BY <1>1, <1>3 DEF Unlock, Lapse, Expire, Goto
  <2>2. members' \in Seq(Procs) /\ IsInjective(members)' /\ Registered' = Registered \ {p}
        BY <2>1, MemberLeaves
  <2>3. pc' \in [Procs -> PC] /\ \A q \in Procs : pc'[q] = "loop" <=> pc[q] = "loop"
        BY <1>1, <2>1 DEF PC
  <2>4. QED
        BY <2>1, <2>2, <2>3, PublishInv
<1>4. QED
      BY <1>2, <1>3

\* What runSyncWatches is called with.
LEMMA WatchesType ==
  ASSUME NEW ps \in SUBSET Procs, NEW p \in Procs
  PROVE  /\ WatchesFor(ps, p) \in [size : Nat, position : Nat]
         /\ p \in ps => /\ WatchesFor(ps, p).size = Cardinality(ps)
                        /\ WatchesFor(ps, p).position = Position(ps, p)
                        /\ Position(ps, p) \in 0 .. Cardinality(ps) - 1
<1>1. IsFiniteSet(ps) /\ Cardinality(ps) \in Nat
      BY Constants, FS_Subset, FS_CardinalityType
<1>2. PICK before : before = {q \in ps : q < p}
      OBVIOUS
<1>3. IsFiniteSet(before) /\ Cardinality(before) \in Nat
      BY <1>1, <1>2, FS_Subset, FS_CardinalityType
<1>4. p \in ps => Cardinality(before) <= Cardinality(ps) - 1
  <2> SUFFICES ASSUME p \in ps PROVE Cardinality(before) <= Cardinality(ps) - 1
      OBVIOUS
  <2>1. IsFiniteSet(ps \ {p}) /\ Cardinality(ps \ {p}) = Cardinality(ps) - 1
        BY <1>1, FS_RemoveElement
  <2>2. before \subseteq ps \ {p}
        BY <1>2, Constants
  <2>3. QED
        BY <2>1, <2>2, FS_Subset
<1>5. Position(ps, p) = Cardinality(before)
      BY <1>2 DEF Position
<1>6. QED
      BY <1>1, <1>3, <1>4, <1>5 DEF WatchesFor, NoWatches

\* The watch begins with the keys there are.
LEMMA OpenWatchInv ==
  ASSUME WatcherInv, NEW p \in Procs, OpenWatch(p)
  PROVE  WatcherInv'
<1>1. PICK s : s = [i \in 1 .. Len(members) |-> [action |-> "get", proc |-> members[i]]]
      OBVIOUS
<1>2. /\ pc[p] = "watch" /\ inbox' = [inbox EXCEPT ![p] = s] /\ pc' = [pc EXCEPT ![p] = "loop"]
      /\ UNCHANGED <<members, lost, closing, list, watches, stopping>>
      BY <1>1 DEF OpenWatch, Goto
<1>3. /\ members \in Seq(Procs) /\ inbox \in [Procs -> Seq(Event)] /\ pc \in [Procs -> PC]
      BY DEF WatcherInv, Types
<1>4. s \in Seq(Event) /\ Foretells(s, {}, Registered)
      BY <1>1, <1>3, ForetellsOpen DEF Registered
<1>5. /\ inbox' \in [Procs -> Seq(Event)] /\ pc' \in [Procs -> PC] /\ inbox'[p] = s /\ pc'[p] = "loop"
      /\ \A q \in Procs : q # p => inbox'[q] = inbox[q] /\ pc'[q] = pc[q]
      BY <1>2, <1>3, <1>4 DEF PC
<1>6. Types'
      BY <1>2, <1>5 DEF WatcherInv, Types
<1>7. Registered' = Registered
      BY <1>2 DEF Registered
<1>8. EventsForetell'
  <2> SUFFICES ASSUME NEW q \in Procs, Watching(q)'
               PROVE  Foretells(inbox'[q], list'[q], Registered') \/ HasError(inbox'[q])
      BY DEF EventsForetell
  <2>1. CASE q = p
    <3>1. list'[p] = {}
          BY <1>2 DEF WatcherInv, ListsForgotten
    <3>2. QED
          BY <1>4, <1>5, <1>7, <2>1, <3>1
  <2>2. CASE q # p
    <3>1. Watching(q)
          BY <1>2, <1>5, <2>2 DEF Watching
    <3>2. Foretells(inbox[q], list[q], Registered) \/ HasError(inbox[q])
          BY <3>1 DEF WatcherInv, EventsForetell
    <3>3. QED
          BY <1>2, <1>5, <1>7, <2>2, <3>2
  <2>3. QED
        BY <2>1, <2>2
<1>9. ListsForgotten' /\ WatchesFitList'
      BY <1>2, <1>5 DEF WatcherInv, ListsForgotten, WatchesFitList, WatchesFor, Position
<1>10. QED
      BY <1>6, <1>8, <1>9 DEF WatcherInv

\* An event is handled.
LEMMA UpdateInv ==
  ASSUME WatcherInv, NEW p \in Procs, Update(p)
  PROVE  WatcherInv'
<1>1. PICK s, e : s = inbox[p] /\ e = Head(s)
      OBVIOUS
<1>2. PICK ps : ps = NewList(list[p], e)
      OBVIOUS
<1>3. /\ pc[p] = "loop" /\ s # <<>> /\ e.action # "error"
      /\ list' = [list EXCEPT ![p] = ps] /\ watches' = [watches EXCEPT ![p] = WatchesFor(ps, p)]
      /\ inbox' = [inbox EXCEPT ![p] = Tail(s)]
      /\ UNCHANGED <<members, pc, lost, closing, stopping>>
      BY <1>1, <1>2 DEF Update
<1>4. /\ inbox \in [Procs -> Seq(Event)] /\ list \in [Procs -> SUBSET Procs]
      /\ watches \in [Procs -> [size : Nat, position : Nat]] /\ s \in Seq(Event)
      BY <1>1 DEF WatcherInv, Types
<1>5. Tail(s) \in Seq(Event) /\ e \in Event
      BY <1>1, <1>3, <1>4, TailFacts
<1>6. ps \in SUBSET Procs
      BY <1>2, <1>4, <1>5 DEF NewList, Event
<1>7. WatchesFor(ps, p) \in [size : Nat, position : Nat]
      BY <1>6, WatchesType
<1>8. /\ list' \in [Procs -> SUBSET Procs] /\ list'[p] = ps
      /\ watches' \in [Procs -> [size : Nat, position : Nat]] /\ watches'[p] = WatchesFor(ps, p)
      /\ inbox' \in [Procs -> Seq(Event)] /\ inbox'[p] = Tail(s)
      /\ \A q \in Procs : q # p =>
           list'[q] = list[q] /\ watches'[q] = watches[q] /\ inbox'[q] = inbox[q]
      BY <1>3, <1>4, <1>5, <1>6, <1>7
<1>9. Types'
      BY <1>3, <1>8 DEF WatcherInv, Types
<1>10. Registered' = Registered
      BY <1>3 DEF Registered
<1>11. EventsForetell'
  <2> SUFFICES ASSUME NEW q \in Procs, Watching(q)'
               PROVE  Foretells(inbox'[q], list'[q], Registered') \/ HasError(inbox'[q])
      BY DEF EventsForetell
  <2>1. Watching(q)
        BY <1>3 DEF Watching
  <2>2. Foretells(inbox[q], list[q], Registered) \/ HasError(inbox[q])
        BY <2>1 DEF WatcherInv, EventsForetell
  <2>3. CASE q = p
    <3>1. Foretells(Tail(s), NewList(list[p], e), Registered) \/ HasError(Tail(s))
          BY <1>1, <1>3, <1>4, <2>2, <2>3, ForetellsTail
    <3>2. QED
          BY <1>2, <1>8, <1>10, <2>3, <3>1
  <2>4. CASE q # p
        BY <1>8, <1>10, <2>2, <2>4
  <2>5. QED
        BY <2>3, <2>4
<1>12. ListsForgotten' /\ WatchesFitList'
  <2>1. ListsForgotten'
        BY <1>3, <1>8 DEF WatcherInv, ListsForgotten
  <2>2. WatchesFitList'
    <3> SUFFICES ASSUME NEW q \in Procs
                 PROVE  watches'[q] = WatchesFor(list'[q], q)
        BY DEF WatchesFitList
    <3>1. watches[q] = WatchesFor(list[q], q)
          BY DEF WatcherInv, WatchesFitList
    <3>2. QED
          BY <1>8, <3>1
  <2>3. QED
        BY <2>1, <2>2
<1>13. QED
      BY <1>9, <1>11, <1>12 DEF WatcherInv

\* The watch of p fails.
LEMMA WatchErrorInv ==
  ASSUME WatcherInv, NEW p \in Procs, WatchError(p)
  PROVE  WatcherInv'
<1>1. pc \in [Procs -> PC] /\ inbox \in [Procs -> Seq(Event)] /\ lost \cup closing \cup stopping \subseteq Procs
      BY DEF WatcherInv, Types
<1>2. UNCHANGED <<members, pc, lost, list, watches, stopping>>
      BY DEF WatchError
<1>3. CASE inbox' = inbox /\ closing' = closing \cup {p}
  <2>1. \A q \in Procs : (Watching(q)' => Watching(q)) /\ (pc'[q] # "loop" => pc[q] # "loop")
        BY <1>2, <1>3 DEF Watching
  <2>2. QED
        BY <1>1, <1>2, <1>3, <2>1, QuietInv
<1>4. CASE closing' = closing
           /\ inbox' = [inbox EXCEPT ![p] = Append(@, [action |-> "error", proc |-> p])]
  <2>1. PICK e, s : e = [action |-> "error", proc |-> p] /\ s = inbox[p]
        OBVIOUS
  <2>2. e \in Event /\ e.action = "error" /\ s \in Seq(Event)
        BY <1>1, <2>1 DEF Event
  <2>3. /\ Append(s, e) \in Seq(Event) /\ Len(s) \in Nat /\ Len(Append(s, e)) = Len(s) + 1
        /\ Append(s, e)[Len(s) + 1] = e
        BY <2>2, AppendFacts
  <2>4. HasError(Append(s, e))
        BY <2>2, <2>3 DEF HasError
  <2>5. /\ inbox' \in [Procs -> Seq(Event)] /\ inbox'[p] = Append(s, e)
        /\ \A q \in Procs : q # p => inbox'[q] = inbox[q]
        BY <1>1, <1>4, <2>1, <2>3
  <2>6. Types'
        BY <1>2, <1>4, <2>5 DEF WatcherInv, Types
  <2>7. EventsForetell'
    <3> SUFFICES ASSUME NEW q \in Procs, Watching(q)'
                 PROVE  Foretells(inbox'[q], list'[q], Registered') \/ HasError(inbox'[q])
        BY DEF EventsForetell
    <3>1. Watching(q) /\ Registered' = Registered /\ list' = list
          BY <1>2, <1>4 DEF Watching, Registered
    <3>2. Foretells(inbox[q], list[q], Registered) \/ HasError(inbox[q])
          BY <3>1 DEF WatcherInv, EventsForetell
    <3>3. QED
          BY <2>4, <2>5, <3>1, <3>2
  <2>8. ListsForgotten' /\ WatchesFitList'
        BY <1>2 DEF WatcherInv, ListsForgotten, WatchesFitList, WatchesFor, Position
  <2>9. QED
        BY <2>6, <2>7, <2>8 DEF WatcherInv
<1>5. QED
      BY <1>3, <1>4 DEF WatchError

\* The loop of p returns, or p dies.
LEMMA ReturnInv ==
  ASSUME WatcherInv, NEW p \in Procs, UpdateError(p) \/ LoopEnds(p) \/ Crash(p)
  PROVE  WatcherInv'
<1>1. /\ watches' = [watches EXCEPT ![p] = NoWatches] /\ inbox' = [inbox EXCEPT ![p] = <<>>]
      /\ list' = [list EXCEPT ![p] = {}] /\ closing' = closing \ {p} /\ members' = members
      /\ lost' \subseteq lost /\ stopping' \subseteq stopping
      BY DEF UpdateError, LoopEnds, LoopReturns, Crash
<1>2. PICK where \in {"unlock", "dead"} : pc' = [pc EXCEPT ![p] = where]
      BY DEF UpdateError, LoopEnds, LoopReturns, Crash, Goto
<1>3. /\ pc \in [Procs -> PC] /\ inbox \in [Procs -> Seq(Event)] /\ list \in [Procs -> SUBSET Procs]
      /\ watches \in [Procs -> [size : Nat, position : Nat]]
      /\ lost \cup closing \cup stopping \subseteq Procs
      BY DEF WatcherInv, Types
<1>4. NoWatches \in [size : Nat, position : Nat] /\ <<>> \in Seq(Event)
      BY DEF NoWatches
<1>5. /\ pc' \in [Procs -> PC] /\ pc'[p] # "loop" /\ list' \in [Procs -> SUBSET Procs] /\ list'[p] = {}
      /\ \A q \in Procs : q # p => pc'[q] = pc[q] /\ list'[q] = list[q]
      BY <1>1, <1>2, <1>3 DEF PC
<1>6. /\ inbox' \in [Procs -> Seq(Event)] /\ watches' \in [Procs -> [size : Nat, position : Nat]]
      /\ watches'[p] = NoWatches
      /\ \A q \in Procs : q # p => inbox'[q] = inbox[q] /\ watches'[q] = watches[q]
      BY <1>1, <1>3, <1>4
<1>7. Types'
      BY <1>1, <1>3, <1>5, <1>6 DEF WatcherInv, Types
<1>8. EventsForetell'
  <2> SUFFICES ASSUME NEW q \in Procs, Watching(q)'
               PROVE  Foretells(inbox'[q], list'[q], Registered') \/ HasError(inbox'[q])
      BY DEF EventsForetell
  <2>1. q # p /\ Watching(q) /\ Registered' = Registered
        BY <1>1, <1>5 DEF Watching, Registered
  <2>2. Foretells(inbox[q], list[q], Registered) \/ HasError(inbox[q])
        BY <2>1 DEF WatcherInv, EventsForetell
  <2>3. QED
        BY <1>5, <1>6, <2>1, <2>2
<1>9. ListsForgotten' /\ WatchesFitList'
      BY <1>5, <1>6 DEF WatcherInv, ListsForgotten, WatchesFitList, WatchesFor, Position
<1>10. QED
      BY <1>7, <1>8, <1>9 DEF WatcherInv

-----------------------------------------------------------------------------
(* Priorities *)

\* As many numbers as the interval is long.
LEMMA IntervalFacts ==
  ASSUME NEW n \in Nat
  PROVE  /\ IsFiniteSet(1 .. n) /\ Cardinality(1 .. n) = n
         /\ IsFiniteSet(0 .. n - 1) /\ Cardinality(0 .. n - 1) = n
<1>1. 0 \in Int /\ 1 \in Int /\ n \in Int /\ n - 1 \in Int
      OBVIOUS
<1>2. IsFiniteSet(1 .. n) /\ Cardinality(1 .. n) = IF 1 > n THEN 0 ELSE n - 1 + 1
      BY <1>1, FS_Interval
<1>3. IsFiniteSet(0 .. n - 1) /\ Cardinality(0 .. n - 1) = IF 0 > n - 1 THEN 0 ELSE n - 1 - 0 + 1
      BY <1>1, FS_Interval
<1>4. QED
      BY <1>2, <1>3

\* The sequence of the registered processes is as long as they are many.
LEMMA LengthIsCardinality ==
  ASSUME Types
  PROVE  /\ Registered \subseteq Procs /\ IsFiniteSet(Registered)
         /\ Len(members) \in Nat /\ Cardinality(Registered) = Len(members)
<1>1. members \in Seq(Procs) /\ IsInjective(members)
      BY DEF Types
<1>2. /\ DOMAIN members = 1 .. Len(members) /\ Len(members) \in Nat
      /\ \A i \in 1 .. Len(members) : members[i] \in Procs
      BY <1>1
<1>3. Registered \subseteq Procs
      BY <1>2 DEF Registered, ToSet
<1>4. members \in [1 .. Len(members) -> Registered]
      BY <1>1, <1>2 DEF Registered, ToSet
<1>5. members \in Bijection(1 .. Len(members), Registered)
  <2>1. members \in Injection(1 .. Len(members), Registered)
        BY <1>1, <1>4 DEF Injection
  <2>2. members \in Surjection(1 .. Len(members), Registered)
        BY <1>2, <1>4 DEF Surjection, Registered, ToSet
  <2>3. QED
        BY <2>1, <2>2 DEF Bijection
<1>6. IsFiniteSet(1 .. Len(members)) /\ Cardinality(1 .. Len(members)) = Len(members)
      BY <1>2, IntervalFacts
<1>7. ExistsBijection(1 .. Len(members), Registered)
      BY <1>5 DEF ExistsBijection
<1>8. QED
      BY <1>2, <1>3, <1>6, <1>7, FS_Bijection

\* The positions on a list are different, and there is none too many.
LEMMA PositionsAreAll ==
  ASSUME NEW R \in SUBSET Procs
  PROVE  \A i \in 0 .. Cardinality(R) - 1 : \E p \in R : Position(R, p) = i
<1>1. R \subseteq Nat /\ IsFiniteSet(R) /\ Cardinality(R) \in Nat
      BY Constants, FS_Subset, FS_CardinalityType
<1>2. PICK n : n = Cardinality(R)
      OBVIOUS
<1>3. PICK rank : rank = [p \in R |-> Position(R, p)]
      OBVIOUS
<1>4. rank \in [R -> 0 .. n - 1]
      BY <1>2, <1>3, WatchesType
<1>5. ASSUME NEW p \in R, NEW q \in R, p < q
      PROVE  Position(R, p) < Position(R, q)
  <2>1. PICK before, more : before = {r \in R : r < p} /\ more = {r \in R : r < q}
        OBVIOUS
  <2>2. IsFiniteSet(before) /\ IsFiniteSet(more) /\ Cardinality(before) \in Nat
        BY <1>1, <2>1, FS_Subset, FS_CardinalityType
  <2>3. p \notin before /\ before \cup {p} \subseteq more
    <3>1. p \in Nat /\ q \in Nat /\ \A r \in R : r \in Nat
          BY <1>1
    <3>2. ~(p < p) /\ \A r \in R : r < p => r < q
          BY <1>5, <3>1
    <3>3. QED
          BY <1>5, <2>1, <3>2
  <2>4. Cardinality(before \cup {p}) = Cardinality(before) + 1
        BY <2>2, <2>3, FS_AddElement
  <2>5. Cardinality(before \cup {p}) <= Cardinality(more) /\ Cardinality(more) \in Nat
        BY <2>2, <2>3, FS_Subset, FS_CardinalityType
  <2>6. QED
        BY <2>1, <2>2, <2>4, <2>5 DEF Position
<1>6. IsInjective(rank)
  <2> SUFFICES ASSUME NEW p \in R, NEW q \in R, Position(R, p) = Position(R, q), p # q
               PROVE  FALSE
      BY <1>3 DEF IsInjective
  <2>1. p < q \/ q < p
        BY <1>1
  <2>2. Position(R, p) \in Nat
        BY <1>1, <1>2, <1>3, <1>4
  <2>3. QED
        BY <1>5, <2>1, <2>2
<1>7. rank \in Injection(R, 0 .. n - 1)
      BY <1>4, <1>6 DEF Injection
<1>8. IsFiniteSet(0 .. n - 1) /\ Cardinality(0 .. n - 1) = n
      BY <1>1, <1>2, IntervalFacts
<1>9. rank \in Surjection(R, 0 .. n - 1)
      BY <1>2, <1>7, <1>8, FS_Injection
<1>10. QED
      BY <1>2, <1>3, <1>9 DEF Surjection

\* The remainder, one turn on.
LEMMA Wraps ==
  ASSUME NEW n \in Nat \ {0}, NEW a \in 0 .. n + n - 1
  PROVE  a % n = IF a < n THEN a ELSE a - n
OBVIOUS

\* A remainder is one of the numbers below n.
LEMMA ModType ==
  ASSUME NEW n \in Nat \ {0}, NEW a \in Nat
  PROVE  a % n \in 0 .. n - 1
OBVIOUS

\* Every distance is some position's.
LEMMA Rotation ==
  ASSUME NEW n \in Nat \ {0}, NEW c \in 0 .. n - 1
  PROVE  /\ \A x \in 0 .. n - 1 : (x - c + n) % n \in 0 .. n - 1
         /\ \A y \in 0 .. n - 1 : \E x \in 0 .. n - 1 : (x - c + n) % n = y
<1>1. \A x \in 0 .. n - 1 : x - c + n \in 0 .. n + n - 1
      OBVIOUS
<1>2. \A x \in 0 .. n - 1 : (x - c + n) % n = IF x - c + n < n THEN x - c + n ELSE (x - c + n) - n
      BY <1>1, Wraps
<1>3. \A x \in 0 .. n - 1 : (x - c + n) % n \in 0 .. n - 1
      BY <1>2
<1>4. ASSUME NEW y \in 0 .. n - 1
      PROVE  \E x \in 0 .. n - 1 : (x - c + n) % n = y
  <2>1. CASE y + c < n
    <3>1. y + c \in 0 .. n - 1 /\ (y + c) - c + n >= n /\ ((y + c) - c + n) - n = y
          BY <2>1
    <3>2. ((y + c) - c + n) % n = y
          BY <1>2, <3>1
    <3>3. QED
          BY <3>1, <3>2
  <2>2. CASE y + c >= n
    <3>1. y + c - n \in 0 .. n - 1 /\ (y + c - n) - c + n = y /\ y < n
          BY <2>2
    <3>2. ((y + c - n) - c + n) % n = y
          BY <1>2, <3>1
    <3>3. QED
          BY <3>1, <3>2
  <2>3. QED
        BY <2>1, <2>2
<1>5. QED
      BY <1>3, <1>4

-----------------------------------------------------------------------------
(* Theorems *)

\* Every step preserves the inductive invariant.
LEMMA NextInv ==
  ASSUME WatcherInv, [Next]_vars
  PROVE  WatcherInv'
<1>1. CASE Next
  <2>1. PICK p \in Procs : RunStep(p) \/ LoopStep(p) \/ Lapse(p) \/ ReportLost(p) \/ TroubleStep(p)
        BY <1>1 DEF Next
  <2>2. CASE RunStep(p)
        BY <2>2, QuietSteps, PublishSteps, OpenWatchInv DEF RunStep
  <2>3. CASE LoopStep(p)
        BY <2>3, UpdateInv, ReturnInv DEF LoopStep
  <2>4. CASE Lapse(p) \/ ReportLost(p)
        BY <2>4, PublishSteps, QuietSteps
  <2>5. CASE TroubleStep(p)
        BY <2>5, PublishSteps, QuietSteps, WatchErrorInv, ReturnInv DEF TroubleStep
  <2>6. QED
        BY <2>1, <2>2, <2>3, <2>4, <2>5
<1>2. CASE UNCHANGED vars
  <2>1. UNCHANGED <<members, pc, lost, closing, inbox, list, watches, stopping>>
        BY <1>2 DEF vars, procVars
  <2>2. pc' \in [Procs -> PC] /\ (lost \cup closing \cup stopping \subseteq Procs)'
        BY <2>1 DEF WatcherInv, Types
  <2>3. \A q \in Procs : (Watching(q)' => Watching(q)) /\ (pc'[q] # "loop" => pc[q] # "loop")
        BY <2>1 DEF Watching
  <2>4. QED
        BY <2>1, <2>2, <2>3, QuietInv
<1>3. QED
      BY <1>1, <1>2

\* The inductive invariant holds: what is still in the channel of a watch leads from
\* the process list to the registered processes (processWatchLoop).
THEOREM WatcherCorrect == Spec => []WatcherInv
<1>1. Init => WatcherInv
      BY InitInv
<1>2. WatcherInv /\ [Next]_vars => WatcherInv'
      BY NextInv
<1>3. QED
      BY <1>1, <1>2, PTL DEF Spec

\* Every variable keeps its type; a process is at a position of its list.
THEOREM WatcherTypeCorrect == Spec => []TypeOK
<1>1. ASSUME WatcherInv PROVE TypeOK
  <2>1. Types /\ WatchesFitList
        BY <1>1 DEF WatcherInv
  <2>2. Registered \subseteq Procs
        BY <2>1, LengthIsCardinality
  <2>3. \A p \in Procs : ToSet(inbox[p]) \subseteq Event
        BY <2>1 DEF Types, ToSet
  <2>4. ASSUME NEW p \in Procs
        PROVE  watches[p] = NoWatches \/ watches[p].position < watches[p].size
    <3>1. watches[p] = WatchesFor(list[p], p) /\ list[p] \in SUBSET Procs
          BY <2>1 DEF WatchesFitList, Types
    <3>2. CASE p \in list[p]
      <4>1. IsFiniteSet(list[p]) /\ Cardinality(list[p]) \in Nat
            BY <3>1, Constants, FS_Subset, FS_CardinalityType
      <4>2. /\ watches[p].size = Cardinality(list[p])
            /\ watches[p].position \in 0 .. Cardinality(list[p]) - 1
            BY <3>1, <3>2, WatchesType
      <4>3. QED
            BY <4>1, <4>2
    <3>3. CASE p \notin list[p]
          BY <3>1, <3>3 DEF WatchesFor
    <3>4. QED
          BY <3>2, <3>3
  <2>5. QED
        BY <2>1, <2>2, <2>3, <2>4 DEF TypeOK, Types
<1>2. QED
      BY <1>1, WatcherCorrect, PTL

\* A process that has handled its events knows the registered processes.
LEMMA CurrentLists ==
  ASSUME WatcherInv
  PROVE  ListIsCurrent
<1> SUFFICES ASSUME NEW p \in Procs, UpToDate(p) PROVE list[p] = Registered
    BY DEF ListIsCurrent
<1>1. Watching(p) /\ inbox[p] = <<>> /\ Len(inbox[p]) = 0
      BY DEF UpToDate, Watching
<1>2. Foretells(inbox[p], list[p], Registered)
      BY <1>1 DEF WatcherInv, EventsForetell, HasError
<1>3. \A q \in Procs : q \in list[p] <=> q \in Registered
      BY <1>1, <1>2 DEF Foretells
<1>4. list[p] \subseteq Procs /\ Registered \subseteq Procs
      BY LengthIsCardinality DEF WatcherInv, Types
<1>5. QED
      BY <1>3, <1>4

\* Whatever has expired, failed or been restarted, a process that has handled the
\* events of its watch has the registered processes on its list (processWatchLoop).
THEOREM ListsAreCurrent == Spec => []ListIsCurrent
<1>1. WatcherInv => ListIsCurrent
      BY CurrentLists
<1>2. QED
      BY <1>1, WatcherCorrect, PTL

\* For any number of processes and keys: once the registered processes have handled
\* their events, the priorities of a key are all the numbers below how many they are,
\* each of one process (runSyncWatches).
THEOREM PrioritiesAreShared == Spec => []OneMasterPerKey
<1>1. ASSUME WatcherInv PROVE OneMasterPerKey
  <2> SUFFICES ASSUME Registered # {}, \A p \in Registered : UpToDate(p), NEW k \in 0 .. WatchKeys - 1
               PROVE  {Priority(p, k) : p \in Registered} = 0 .. Len(members) - 1
      BY DEF OneMasterPerKey
  <2>1. PICK n : n = Len(members)
        OBVIOUS
  <2>2. Registered \in SUBSET Procs /\ IsFiniteSet(Registered) /\ Cardinality(Registered) = n /\ n \in Nat \ {0}
    <3>1. /\ Registered \subseteq Procs /\ IsFiniteSet(Registered)
          /\ n \in Nat /\ Cardinality(Registered) = n
          BY <1>1, <2>1, LengthIsCardinality DEF WatcherInv
    <3>2. n # 0
          BY <3>1, FS_EmptySet
    <3>3. QED
          BY <3>1, <3>2
  <2>3. PICK c : c = k % n
        OBVIOUS
  <2>4. c \in 0 .. n - 1
        BY <2>2, <2>3, ModType, Constants
  <2>5. ASSUME NEW p \in Registered
        PROVE  /\ Position(Registered, p) \in 0 .. n - 1
               /\ Priority(p, k) = (Position(Registered, p) - c + n) % n
    <3>1. p \in Procs /\ list[p] = Registered
          BY <1>1, <2>2, CurrentLists DEF ListIsCurrent
    <3>2. watches[p] = WatchesFor(Registered, p)
          BY <1>1, <3>1 DEF WatcherInv, WatchesFitList
    <3>3. /\ watches[p].size = n /\ watches[p].position = Position(Registered, p)
          /\ Position(Registered, p) \in 0 .. n - 1
          BY <2>2, <3>1, <3>2, WatchesType
    <3>4. QED
          BY <2>3, <3>3 DEF Priority
  <2>6. ASSUME NEW p \in Registered PROVE Priority(p, k) \in 0 .. n - 1
        BY <2>2, <2>4, <2>5, Rotation
  <2>7. ASSUME NEW y \in 0 .. n - 1 PROVE \E p \in Registered : Priority(p, k) = y
    <3>1. PICK x \in 0 .. n - 1 : (x - c + n) % n = y
          BY <2>2, <2>4, Rotation
    <3>2. PICK p \in Registered : Position(Registered, p) = x
          BY <2>2, PositionsAreAll
    <3>3. QED
          BY <2>5, <3>1, <3>2
  <2>8. QED
        BY <2>1, <2>6, <2>7
<1>2. QED
      BY <1>1, WatcherCorrect, PTL
=============================================================================
