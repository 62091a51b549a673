------------------------ MODULE ResourceState_proofs ------------------------
(***************************************************************************)
(* The transactions of ResourceState lose no update and keep the state in  *)
(* order, for any number of clients, retries, versions and reports.        *)
(***************************************************************************)
EXTENDS ResourceState, TLAPS

\* What a reader has fetched is still the row, and the row exists: writers
\* wait for the readers.  A state or monitoring update goes on to write only
\* if the row it read lets it.
ReadersAreCurrent ==
  \A c \in Clients : phase[c] = "write" => read[c] = row /\ Exists /\ ~Ignored(row, job[c])

JobsAreTyped == \A c \in Clients : phase[c] # "idle" => job[c] \in ApiJob \cup Report

Inv == TypeOK /\ JobsAreTyped /\ ReadersAreCurrent /\ NoUpdateLost /\ RecordsBelongToVersions

\* NoRow is a row.
LEMMA NoRowType == NoRow \in Row
  BY StateConstants DEF NoRow, Row, None

\* The invariant holds before the resource is created.
LEMMA StateInit == Init => Inv
<1> SUFFICES ASSUME Init PROVE Inv
  OBVIOUS
<1>1. TypeOK
  BY NoRowType, StateConstants DEF Init, TypeOK, Job
<1>2. JobsAreTyped /\ ReadersAreCurrent
  BY DEF Init, JobsAreTyped, ReadersAreCurrent
<1>3. NoUpdateLost /\ RecordsBelongToVersions
  BY DEF Init, NoUpdateLost, RecordsBelongToVersions, NoRow, None
<1> QED BY <1>1, <1>2, <1>3 DEF Inv

\* The end of a transaction that does not change the row.
LEMMA EndStep ==
  ASSUME Inv, NEW c \in Clients, End(c), UNCHANGED row
  PROVE  Inv'
<1> USE DEF Inv, End
<1>1. TypeOK'
  BY NoRowType, StateConstants DEF TypeOK, Job
<1>2. JobsAreTyped'
  BY DEF JobsAreTyped, TypeOK
<1>3. ReadersAreCurrent'
  BY DEF ReadersAreCurrent, TypeOK, Exists, Ignored, StateIgnored, MonitoringIgnored
<1>4. NoUpdateLost' /\ RecordsBelongToVersions'
  BY DEF NoUpdateLost, RecordsBelongToVersions
<1> QED BY <1>1, <1>2, <1>3, <1>4

\* The end of the one reader's transaction, with the row it writes.
LEMMA WriteEnds ==
  ASSUME Inv, NEW c \in Clients, End(c), CanWrite(c), row' \in Row
  PROVE  TypeOK' /\ JobsAreTyped' /\ ReadersAreCurrent'
<1> USE DEF Inv, End
<1>1. TypeOK'
  BY NoRowType, StateConstants DEF TypeOK, Job
<1>2. JobsAreTyped'
  BY DEF JobsAreTyped, TypeOK
<1>3. ReadersAreCurrent'
  BY DEF ReadersAreCurrent, TypeOK, CanWrite, Readers
<1> QED BY <1>1, <1>2, <1>3

\* An update adds its own number to the columns of the current row.
LEMMA UpdateStep ==
  ASSUME Inv, NEW c \in Clients, phase[c] = "write", UpdateRow(c)
  PROVE  row' \in Row /\ NoUpdateLost' /\ RecordsBelongToVersions' /\ row'.state_version = row.state_version
         /\ row'.state = row.state
<1>1. row \in Row /\ read[c] = row /\ row.config_version \in 1 .. MaxConfig - 1 /\ row.columns = 1 .. row.config_version
  BY StateConstants DEF Inv, TypeOK, ReadersAreCurrent, Exists, UpdateRow, NoUpdateLost, Row
<1>2. row' = [row EXCEPT !.columns = (1 .. row.config_version) \cup {row.config_version + 1},
                         !.config_version = row.config_version + 1]
  BY <1>1 DEF UpdateRow
<1>3. (1 .. row.config_version) \cup {row.config_version + 1} = 1 .. row.config_version + 1
  BY <1>1, StateConstants
<1>4. row' \in Row
  <2>1. row.config_version + 1 \in 0 .. MaxConfig /\ 1 .. row.config_version + 1 \in SUBSET (1 .. MaxConfig)
    BY <1>1, StateConstants
  <2>2. row' = [row EXCEPT !.columns = 1 .. row.config_version + 1, !.config_version = row.config_version + 1]
    BY <1>2, <1>3
  <2> QED BY <1>1, <2>1, <2>2 DEF Row
<1>5. row'.columns = 1 .. row'.config_version
  BY <1>1, <1>2, <1>3 DEF Row
<1>6. /\ row'.state_version = row.state_version /\ row'.state = row.state /\ row'.monitoring = row.monitoring
      /\ row'.config_version = row.config_version + 1
  BY <1>1, <1>2 DEF Row
<1>7. RecordsBelongToVersions'
  <2>1. row.monitoring # None => row.monitoring.version \in Nat
    BY <1>1, StateConstants DEF Row, Report
  <2> QED BY <1>1, <1>6, <2>1, StateConstants DEF Inv, RecordsBelongToVersions
<1> QED BY <1>4, <1>5, <1>6, <1>7 DEF NoUpdateLost

\* A state update is about a later version than the state it replaces, which
\* is not yet that of the config, and leaves the columns as they are.
LEMMA StateStep ==
  ASSUME Inv, NEW c \in Clients, phase[c] = "write", StateUpdate(c)
  PROVE  /\ row' \in Row /\ NoUpdateLost' /\ RecordsBelongToVersions'
         /\ row.state_version # row.config_version
         /\ row'.state_version >= row.state_version
<1>1. job[c] \in Report /\ job[c].kind = "state"
  BY DEF Inv, JobsAreTyped, StateUpdate, ApiJob, Report
<1>2. row \in Row /\ read[c] = row /\ row.state_version # row.config_version /\ job[c].version >= row.state_version
  BY <1>1, StateConstants DEF Inv, TypeOK, ReadersAreCurrent, Ignored, StateIgnored, Row, Report
<1>3. row' = [row EXCEPT !.config_version = row.config_version, !.state_version = job[c].version,
                         !.state = IF job[c].text THEN job[c] ELSE row.state]
  BY <1>2 DEF StateUpdate
<1>4. row' \in Row
  <2>1. (IF job[c].text THEN job[c] ELSE row.state) \in Report \cup {None} /\ job[c].version \in 0 .. MaxConfig
    BY <1>1, <1>2 DEF Row, Report
  <2> QED BY <1>2, <1>3, <2>1 DEF Row
<1>5. /\ row'.columns = row.columns /\ row'.config_version = row.config_version
      /\ row'.state_version = job[c].version /\ row'.state \in {job[c], row.state}
      /\ row'.monitoring = row.monitoring
  BY <1>2, <1>3 DEF Row
<1>6. NoUpdateLost'
  BY <1>5 DEF Inv, NoUpdateLost
<1>7. /\ row.monitoring # None => row.monitoring \in Report
      /\ row.state # None => row.state \in Report
  BY <1>2 DEF Row
<1>8. RecordsBelongToVersions'
  BY <1>1, <1>2, <1>5, <1>7, StateConstants DEF Inv, RecordsBelongToVersions, Report, Row
<1> QED BY <1>2, <1>4, <1>5, <1>6, <1>8

\* A monitoring update leaves the columns and the state as they are and is
\* about the config version.
LEMMA MonitoringStep ==
  ASSUME Inv, NEW c \in Clients, phase[c] = "write", MonitoringUpdate(c)
  PROVE  /\ row' \in Row /\ NoUpdateLost' /\ RecordsBelongToVersions'
         /\ row'.state_version = row.state_version /\ row'.state = row.state
<1>1. job[c] \in Report /\ job[c].kind = "monitoring"
  BY DEF Inv, JobsAreTyped, MonitoringUpdate, ApiJob, Report
<1>2. row \in Row /\ read[c] = row /\ row.state_version = row.config_version /\ job[c].version = row.config_version
  BY <1>1 DEF Inv, TypeOK, ReadersAreCurrent, Ignored, MonitoringIgnored
<1>3. row' = [row EXCEPT !.config_version = row.config_version, !.monitoring = job[c]]
  BY <1>2 DEF MonitoringUpdate
<1>4. row' \in Row
  BY <1>1, <1>2, <1>3 DEF Row
<1>5. /\ row'.columns = row.columns /\ row'.config_version = row.config_version
      /\ row'.state_version = row.state_version /\ row'.state = row.state
      /\ row'.monitoring = job[c]
  BY <1>2, <1>3 DEF Row
<1>6. NoUpdateLost'
  BY <1>5 DEF Inv, NoUpdateLost
<1>7. RecordsBelongToVersions'
  BY <1>2, <1>5, StateConstants DEF Inv, RecordsBelongToVersions, Row
<1> QED BY <1>4, <1>5, <1>6, <1>7

\* A deleted row has no columns, no state and no monitoring.
LEMMA DeleteStep ==
  ASSUME NEW c \in Clients, DeleteRow(c)
  PROVE  row' \in Row /\ NoUpdateLost' /\ RecordsBelongToVersions' /\ ~Exists'
<1>1. row' = NoRow /\ row' \in Row
  BY NoRowType DEF DeleteRow
<1>2. 1 .. 0 = {}
  OBVIOUS
<1> QED BY <1>1, <1>2 DEF NoRow, NoUpdateLost, RecordsBelongToVersions, Exists, None

\* Every step preserves the invariant.
LEMMA StateNext == Inv /\ [Next]_vars => Inv'
<1> SUFFICES ASSUME Inv, [Next]_vars PROVE Inv'
  OBVIOUS
<1>1. ASSUME NEW c \in Clients, NEW j \in ApiJob \cup reports, Begin(c, j) PROVE Inv'
  <2>1. j \in ApiJob \cup Report
    BY <1>1 DEF Inv, TypeOK
  <2>2. TypeOK'
    BY <1>1, <2>1 DEF Inv, Begin, TypeOK, Job
  <2>3. JobsAreTyped'
    BY <1>1, <2>1 DEF Inv, Begin, TypeOK, JobsAreTyped
  <2>4. ReadersAreCurrent'
    BY <1>1 DEF Inv, Begin, TypeOK, ReadersAreCurrent, Exists, Ignored, StateIgnored, MonitoringIgnored
  <2>5. NoUpdateLost' /\ RecordsBelongToVersions'
    BY <1>1 DEF Inv, Begin, NoUpdateLost, RecordsBelongToVersions
  <2> QED BY <2>2, <2>3, <2>4, <2>5 DEF Inv
<1>2. ASSUME NEW c \in Clients, Fetch(c) PROVE Inv'
  <2>1. CASE ~Exists \/ Ignored(row, job[c])
    BY <1>2, <2>1, EndStep DEF Fetch
  <2>2. CASE Exists /\ ~Ignored(row, job[c])
    <3>1. /\ phase' = [phase EXCEPT ![c] = "write"]
          /\ read' = [read EXCEPT ![c] = row]
          /\ UNCHANGED <<row, created, reports, job, attempt>>
      BY <1>2, <2>2 DEF Fetch
    <3>2. TypeOK'
      BY <3>1 DEF Inv, TypeOK
    <3>3. JobsAreTyped'
      BY <1>2, <3>1 DEF Inv, TypeOK, JobsAreTyped, Fetch
    <3>4. ReadersAreCurrent'
      BY <2>2, <3>1 DEF Inv, TypeOK, ReadersAreCurrent, Exists, Ignored, StateIgnored, MonitoringIgnored
    <3>5. NoUpdateLost' /\ RecordsBelongToVersions'
      BY <3>1 DEF Inv, NoUpdateLost, RecordsBelongToVersions
    <3> QED BY <3>2, <3>3, <3>4, <3>5 DEF Inv
  <2> QED BY <2>1, <2>2
<1>3. ASSUME NEW c \in Clients, Write(c) PROVE Inv'
  <2>1. row' \in Row /\ NoUpdateLost' /\ RecordsBelongToVersions'
    BY <1>3, UpdateStep, StateStep, MonitoringStep, DeleteStep DEF Write
  <2>2. TypeOK' /\ JobsAreTyped' /\ ReadersAreCurrent'
    BY <1>3, <2>1, WriteEnds DEF Write
  <2> QED BY <2>1, <2>2 DEF Inv
<1>4. ASSUME NEW c \in Clients, Create(c) PROVE Inv'
  <2>1. row' = [NoRow EXCEPT !.config_version = 1, !.columns = {1}] /\ ~Exists
    BY <1>4 DEF Create
  <2>2. 1 \in 0 .. MaxConfig /\ {1} \in SUBSET (1 .. MaxConfig) /\ {1} = 1 .. 1
    BY StateConstants
  <2>3. row' \in Row
    BY <2>1, <2>2, NoRowType DEF Row
  <2>4. row'.columns = 1 .. row'.config_version /\ row'.state = None /\ row'.monitoring = None
    BY <2>1, <2>2 DEF NoRow
  <2>5. TypeOK'
    BY <1>4, <2>3, StateConstants DEF Create, Inv, TypeOK
  <2>6. JobsAreTyped' /\ ReadersAreCurrent'
    BY <1>4, <2>1 DEF Create, Inv, JobsAreTyped, ReadersAreCurrent
  <2> QED BY <2>4, <2>5, <2>6 DEF Inv, NoUpdateLost, RecordsBelongToVersions
<1>5. ASSUME NEW c \in Clients, Deadlocked(c) PROVE Inv'
  <2>1. CASE attempt[c] < RetryTxCount
    <3>1. /\ phase' = [phase EXCEPT ![c] = "fetch"]
          /\ read' = [read EXCEPT ![c] = NoRow]
          /\ attempt' = [attempt EXCEPT ![c] = @ + 1]
          /\ UNCHANGED <<row, created, reports, job>>
      BY <1>5, <2>1 DEF Deadlocked
    <3>2. TypeOK'
      BY <2>1, <3>1, NoRowType, StateConstants DEF Inv, TypeOK
    <3>3. JobsAreTyped'
      BY <1>5, <3>1 DEF Inv, TypeOK, JobsAreTyped, Deadlocked
    <3>4. ReadersAreCurrent'
      BY <3>1 DEF Inv, TypeOK, ReadersAreCurrent, Exists, Ignored, StateIgnored, MonitoringIgnored
    <3>5. NoUpdateLost' /\ RecordsBelongToVersions'
      BY <3>1 DEF Inv, NoUpdateLost, RecordsBelongToVersions
    <3> QED BY <3>2, <3>3, <3>4, <3>5 DEF Inv
  <2>2. CASE ~(attempt[c] < RetryTxCount)
    BY <1>5, <2>2, EndStep DEF Deadlocked
  <2> QED BY <2>1, <2>2
<1>6. ASSUME NEW c \in Clients, Abort(c) PROVE Inv'
  BY <1>6, EndStep DEF Abort
<1>7. ASSUME NEW kind \in {"state", "monitoring"}, NEW version \in 0 .. MaxConfig,
             NEW text \in BOOLEAN, WriteReport(kind, version, text)
      PROVE  Inv'
  <2>1. [kind |-> kind, version |-> version, text |-> text, no |-> Cardinality(reports) + 1] \in Report
    BY <1>7, StateConstants DEF WriteReport, Report
  <2>2. TypeOK'
    BY <1>7, <2>1 DEF Inv, WriteReport, TypeOK
  <2> QED BY <1>7, <2>2 DEF Inv, WriteReport, JobsAreTyped, ReadersAreCurrent, NoUpdateLost,
             RecordsBelongToVersions, Exists, Ignored, StateIgnored, MonitoringIgnored
<1>8. CASE UNCHANGED vars
  BY <1>8 DEF vars, Inv, TypeOK, JobsAreTyped, ReadersAreCurrent, NoUpdateLost,
     RecordsBelongToVersions, Exists, Ignored, StateIgnored, MonitoringIgnored
<1> QED BY <1>1, <1>2, <1>3, <1>4, <1>5, <1>6, <1>7, <1>8 DEF Next

\* The variables keep their types in every behaviour.
THEOREM StateTypeCorrect == Spec => []TypeOK
<1>1. Inv => TypeOK
  BY DEF Inv
<1> QED BY StateInit, StateNext, <1>1, PTL DEF Spec

\* No interleaving of API requests, state updates, monitoring updates, deadlocks
\* and retries loses an update of the resource.
THEOREM UpdatesAreKept == Spec => []NoUpdateLost
<1>1. Inv => NoUpdateLost
  BY DEF Inv
<1> QED BY StateInit, StateNext, <1>1, PTL DEF Spec

\* State and monitoring are never shown under an earlier version than the one they
\* were reported about, whatever versions the reports name, in whatever order they
\* come and whether or not they have a text.
THEOREM RecordsAreConsistent == Spec => []RecordsBelongToVersions
<1>1. Inv => RecordsBelongToVersions
  BY DEF Inv
<1> QED BY StateInit, StateNext, <1>1, PTL DEF Spec

\* A step that keeps the row either leaves its state alone, or is a state update
\* from a state that is not yet that of the config version to a later one.
LEMMA StateMoves ==
  ASSUME Inv, [Next]_vars, SameRow
  PROVE  \/ row'.state_version = row.state_version /\ row'.state = row.state
         \/ row.state_version # row.config_version /\ row'.state_version >= row.state_version
<1>1. CASE UNCHANGED row
  BY <1>1
<1>2. ASSUME NEW c \in Clients, Write(c)
      PROVE  \/ row'.state_version = row.state_version /\ row'.state = row.state
             \/ row.state_version # row.config_version /\ row'.state_version >= row.state_version
  <2>1. ~DeleteRow(c)
    BY DeleteStep DEF SameRow, Exists
  <2> QED BY <1>2, <2>1, UpdateStep, StateStep, MonitoringStep DEF Write
<1>3. ASSUME NEW c \in Clients, Create(c) PROVE FALSE
  BY <1>3 DEF Create, SameRow
<1>4. UNCHANGED row \/ \E c \in Clients : Write(c) \/ Create(c)
  <2>1. CASE UNCHANGED vars
    BY <2>1 DEF vars
  <2>2. CASE Next
    BY <2>2 DEF Next, Begin, Fetch, Deadlocked, Abort, WriteReport
  <2> QED BY <2>1, <2>2
<1> QED BY <1>1, <1>2, <1>3, <1>4

\* The state version of a row never goes back.
THEOREM StateIsMonotone == Spec => StateNeverGoesBack
<1>1. Inv /\ [Next]_vars => [SameRow => row'.state_version >= row.state_version]_vars
  <2> SUFFICES ASSUME Inv, [Next]_vars, SameRow PROVE row'.state_version >= row.state_version
    BY DEF vars
  <2>1. row.state_version \in Nat
    BY StateConstants DEF Inv, TypeOK, Row
  <2> QED BY <2>1, StateMoves
<1> QED BY StateInit, StateNext, <1>1, PTL DEF Spec, StateNeverGoesBack

\* A state that has reached the config version changes only after an update.
THEOREM SettledStatesStay == Spec => SettledStateIsFinal
<1>1. Inv /\ [Next]_vars =>
        [SameRow /\ row.state_version = row.config_version
           => row'.state_version = row.state_version /\ row'.state = row.state]_vars
  BY StateMoves DEF vars
<1> QED BY StateInit, StateNext, <1>1, PTL DEF Spec, SettledStateIsFinal
=============================================================================
