--------------------------- MODULE ResourceState ---------------------------
(***************************************************************************)
(* One resource of a schema with state_versioning, in its database row:    *)
(* API requests create, update and delete it (resource_management.go);     *)
(* StateUpdate and MonitoringUpdate (state_watcher.go) record what a       *)
(* worker reports about a config version.  Each of them runs in            *)
(* db.WithinTx at isolation level Serializable: it fetches the row and     *)
(* later writes all of its columns back, the ones it does not change as it *)
(* has read them.                                                          *)
(*                                                                         *)
(* The update that produces config version n is called n (the creation is  *)
(* 1), and the row's columns are the set of the updates they show.  The    *)
(* handlers are given any report at any time, late, repeated or out of     *)
(* order: after a takeover or an expired lease nothing orders them.  A     *)
(* report may be about any version, also one the resource has not had, and *)
(* may lack the text it is about (the state and the error of a state       *)
(* report, which are handled alike, or the monitoring).                    *)
(***************************************************************************)
EXTENDS Integers, FiniteSets

CONSTANTS
  Clients,        \* the threads that run transactions
  RetryTxCount,   \* Options.RetryTxCount
  SameId,         \* whether a deleted resource may be created again with its id
  MaxConfig,      \* bound: config versions of the resource
  MaxReports,     \* bound: how many reports workers write
  MaxIncarnations \* bound: how many times the resource is created

ASSUME StateConstants ==
  /\ RetryTxCount \in Nat
  /\ SameId \in BOOLEAN
  /\ MaxReports \in Nat
  /\ {MaxConfig, MaxIncarnations} \subseteq Nat \ {0}

VARIABLES
  row,       \* the row; config_version is 0 when there is none
  created,   \* how many times the resource has been created
  reports,   \* the reports workers have written to etcd
  phase,     \* per client: "idle", "fetch", or "write" after the fetch
  job,       \* per client: what its transaction is for
  read,      \* per client: the row as fetched
  attempt    \* per client: how often WithinTx has tried again

vars == <<row, created, reports, phase, job, read, attempt>>

None == [kind |-> "none"]
Report == [kind : {"state", "monitoring"}, version : 0 .. MaxConfig, text : BOOLEAN,
           no : 1 .. MaxReports]
ApiJob == [kind : {"update", "delete"}]
Job == ApiJob \cup Report \cup {None}

Row == [config_version : 0 .. MaxConfig, columns : SUBSET (1 .. MaxConfig),
        state_version : 0 .. MaxConfig, state : Report \cup {None},
        monitoring : Report \cup {None}]

NoRow == [config_version |-> 0, columns |-> {}, state_version |-> 0,
          state |-> None, monitoring |-> None]

Exists == row.config_version # 0

TypeOK ==
  /\ row \in Row
  /\ created \in 0 .. MaxIncarnations
  /\ reports \subseteq Report
  /\ phase \in [Clients -> {"idle", "fetch", "write"}]
  /\ job \in [Clients -> Job]
  /\ read \in [Clients -> Row]
  /\ attempt \in [Clients -> 0 .. RetryTxCount]

Init ==
  /\ row = NoRow
  /\ created = 0
  /\ reports = {}
  /\ phase = [c \in Clients |-> "idle"]
  /\ job = [c \in Clients |-> None]
  /\ read = [c \in Clients |-> NoRow]
  /\ attempt = [c \in Clients |-> 0]

-----------------------------------------------------------------------------
(* Transactions *)

\* A serializable transaction that has fetched the row holds a shared lock on
\* it; writing needs the row for oneself.
Readers == {c \in Clients : phase[c] = "write"}

\* Mutant: the fetch takes no lock (isolation level Repeatable Read).
NeverBlocked(c) == TRUE

CanWrite(c) == Readers = {c}

Begin(c, j) ==
  /\ phase[c] = "idle"
  /\ phase' = [phase EXCEPT ![c] = "fetch"]
  /\ job' = [job EXCEPT ![c] = j]
  /\ UNCHANGED <<row, created, reports, read, attempt>>

\* The transaction is over, with or without an error.
End(c) ==
  /\ phase' = [phase EXCEPT ![c] = "idle"]
  /\ job' = [job EXCEPT ![c] = None]
  /\ read' = [read EXCEPT ![c] = NoRow]
  /\ attempt' = [attempt EXCEPT ![c] = 0]
  /\ UNCHANGED <<created, reports>>

\* Mutant: one attempt too many.
DeadlockedOnceMore(c) ==
  /\ phase[c] = "write"
  /\ Readers # {c}
  /\ UNCHANGED row
  /\ IF attempt[c] <= RetryTxCount
     THEN /\ phase' = [phase EXCEPT ![c] = "fetch"]
          /\ read' = [read EXCEPT ![c] = NoRow]
          /\ attempt' = [attempt EXCEPT ![c] = @ + 1]
          /\ UNCHANGED <<created, reports, job>>
     ELSE End(c)

\* Two readers that want to write wait for each other.  The database ends one
\* of them; WithinTx tries it again until RetryTxCount is used up.
Deadlocked(c) ==
  /\ phase[c] = "write"
  /\ Readers # {c}
  /\ UNCHANGED row
  /\ IF attempt[c] < RetryTxCount
     THEN /\ phase' = [phase EXCEPT ![c] = "fetch"]
          /\ read' = [read EXCEPT ![c] = NoRow]
          /\ attempt' = [attempt EXCEPT ![c] = @ + 1]
          /\ UNCHANGED <<created, reports, job>>
     ELSE End(c)

\* An extension or a check refuses the change, or the connection breaks.
Abort(c) ==
  /\ phase[c] # "idle"
  /\ UNCHANGED row
  /\ End(c)

-----------------------------------------------------------------------------
(* What the transactions do *)

\* Mutant: a report about an old version is recorded, too.
StateIgnoredOnlyIfCurrent(r, ev) == r.state_version = r.config_version

\* Mutant: only the age of the report counts.
StateIgnoredOnlyIfOlder(r, ev) == ev.version < r.state_version

\* StateUpdate has nothing to record: the state is that of the last config
\* version, or the report is about an earlier version than the state.
StateIgnored(r, ev) ==
  r.state_version = r.config_version \/ ev.version < r.state_version

\* Mutant: the version of the report is compared with nothing.
MonitoringIgnoredIfBehind(r, ev) == r.config_version # r.state_version \/ ~ev.text

\* MonitoringUpdate has nothing to record: the state is not that of the last
\* config version, or the report is not; or it has no text, which is an error.
MonitoringIgnored(r, ev) ==
  r.config_version # r.state_version \/ r.config_version # ev.version \/ ~ev.text

Ignored(r, j) ==
  \/ j.kind = "state" /\ StateIgnored(r, j)
  \/ j.kind = "monitoring" /\ MonitoringIgnored(r, j)

\* Fetch.  Without a row the transaction fails, and without something to
\* change it commits at once.
Fetch(c) ==
  /\ phase[c] = "fetch"
  /\ IF ~Exists \/ Ignored(row, job[c])
     THEN End(c)
     ELSE /\ phase' = [phase EXCEPT ![c] = "write"]
          /\ read' = [read EXCEPT ![c] = row]
          /\ UNCHANGED <<created, reports, job, attempt>>
  /\ UNCHANGED row

\* Update: the new columns are the ones read with the request's changes;
\* config_version is incremented in the database.
UpdateRow(c) ==
  /\ job[c].kind = "update"
  /\ row.config_version < MaxConfig
  /\ row' = [row EXCEPT !.columns = read[c].columns \cup {row.config_version + 1},
                        !.config_version = @ + 1]

DeleteRow(c) ==
  /\ job[c].kind = "delete"
  /\ row' = NoRow

\* tx.StateUpdate writes every column but config_version, as read or as
\* StateUpdate and MonitoringUpdate have changed it.  A state report without a
\* text advances the version and leaves the old state there.
StateUpdate(c) ==
  /\ job[c].kind = "state"
  /\ row' = [read[c] EXCEPT !.config_version = row.config_version,
                            !.state_version = job[c].version,
                            !.state = IF job[c].text THEN job[c] ELSE @]

MonitoringUpdate(c) ==
  /\ job[c].kind = "monitoring"
  /\ row' = [read[c] EXCEPT !.config_version = row.config_version,
                            !.monitoring = job[c]]

\* The statement, the hooks after it and the commit.
Write(c) ==
  /\ phase[c] = "write"
  /\ CanWrite(c)
  /\ UpdateRow(c) \/ DeleteRow(c) \/ StateUpdate(c) \/ MonitoringUpdate(c)
  /\ End(c)

\* CreateResource inserts the row with the defaults of the version columns.
Create(c) ==
  /\ phase[c] = "idle"
  /\ ~Exists
  /\ created < (IF SameId THEN MaxIncarnations ELSE 1)
  /\ created' = created + 1
  /\ row' = [NoRow EXCEPT !.config_version = 1, !.columns = {1}]
  /\ UNCHANGED <<reports, phase, job, read, attempt>>

\* A worker writes a report.  Nobody compares its version with what there is.
WriteReport(kind, version, text) ==
  LET no == Cardinality(reports) + 1 IN
  /\ no \in 1 .. MaxReports
  /\ reports' = reports \cup {[kind |-> kind, version |-> version, text |-> text, no |-> no]}
  /\ UNCHANGED <<row, created, phase, job, read, attempt>>

Next ==
  \/ \E c \in Clients :
       \/ \E j \in ApiJob \cup reports : Begin(c, j)
       \/ Fetch(c) \/ Write(c) \/ Create(c) \/ Deadlocked(c) \/ Abort(c)
  \/ \E kind \in {"state", "monitoring"}, version \in 0 .. MaxConfig, text \in BOOLEAN :
        WriteReport(kind, version, text)

Spec == Init /\ [][Next]_vars

-----------------------------------------------------------------------------
(* Properties *)

\* The row shows every update since its creation: neither another update nor
\* a state or monitoring update, which write back the columns they have read,
\* undoes one.
NoUpdateLost == row.columns = 1 .. row.config_version

\* Within the life of a row the state version never goes back, whichever
\* order reports arrive in.
SameRow == Exists /\ row'.config_version # 0 /\ created' = created
StateNeverGoesBack == [][SameRow => row'.state_version >= row.state_version]_vars

\* "Any state updates made when the state version already equals the config
\* version will be ignored" (docs/cli.md), even if they were read before.
SettledStateIsFinal ==
  [][SameRow /\ row.state_version = row.config_version
       => row'.state_version = row.state_version /\ row'.state = row.state]_vars

\* What is recorded does not come from a version later than the one it is shown
\* under: the state was reported about the state version or, if reports without
\* a text came since, an earlier one; monitoring was reported about a version
\* that had its state then, and one the resource has had, also when a report
\* has put the state version ahead of the config version.
RecordsBelongToVersions ==
  /\ row.state # None => row.state.version <= row.state_version
  /\ row.monitoring # None =>
       row.monitoring.version <= row.state_version /\ row.monitoring.version <= row.config_version

=============================================================================
