-------------------------------- MODULE Cron --------------------------------
(***************************************************************************)
(* One job of cron.go in the processes of a cluster, over the lock of      *)
(* etcd.go.                                                                *)
(*                                                                         *)
(* The timer starts a goroutine for every run of the job.  A run takes the *)
(* job's token out of a channel of the process, tries the lock of the job  *)
(* in etcd without waiting for it, and calls the extension.  Its deferred  *)
(* function puts the token back and then calls Unlock: the next run of the *)
(* process may call Lock while this one is still in Unlock, so that one    *)
(* path has several users in a process, which EtcdLock by itself excludes  *)
(* (OneUserPerProcess).  The lost channel is ignored.                      *)
(***************************************************************************)
EXTENDS EtcdLock, FiniteSets

VARIABLES
  run,        \* per user (a goroutine of the timer): where its run is
  token,      \* per process: how many tokens are in jobLocks[lockKey]
  expired,    \* whether the lease of a run that has the lock has expired (history)
  overtaken   \* whether a run has begun in a process in Unlock (history)

cronVars == <<run, token, expired, overtaken>>
allVars == <<vars, cronVars>>

RunPC == {"off", "lock", "failed", "job", "done", "unlock"}

CronTypeOK ==
  /\ TypeOK
  /\ run \in [Users -> RunPC]
  /\ token \in [Procs -> {0, 1}]
  /\ {expired, overtaken} \subseteq BOOLEAN

CronInit ==
  /\ Init
  /\ run = [u \in Users |-> "off"]
  /\ token = [p \in Procs |-> 1]
  /\ expired = FALSE
  /\ overtaken = FALSE

Mates(u) == {v \in Users \ {u} : ProcOf[v] = ProcOf[u]}

RunGoto(u, where) == run' = [run EXCEPT ![u] = where]

\* A lease is left for every run that will ask for one.
LeaseLeft == granted + Cardinality({u \in Users : run[u] = "lock" /\ pc[u] = "idle"}) < MaxLeases

-----------------------------------------------------------------------------
(* A run *)

\* The timer fires and the run gets the token.  (Without a token it is over:
\* "Another cron job is running".)
TakeToken(u) ==
  /\ run[u] = "off" /\ pc[u] = "idle"
  /\ LeaseLeft
  /\ token[ProcOf[u]] = 1
  /\ token' = [token EXCEPT ![ProcOf[u]] = 0]
  /\ RunGoto(u, "lock")
  /\ overtaken' = (overtaken \/ \E v \in Mates(u) : run[v] = "unlock")
  /\ UNCHANGED <<vars, expired>>

\* Mutant: the error of Lock is logged and nothing else.
TakeLockAnyway(u) ==
  /\ run[u] = "lock"
  /\ LockStep(u)
  /\ pc'[u] # "retry"
  /\ RunGoto(u, IF pc'[u] \in {"idle", "locked"} THEN "job" ELSE "lock")
  /\ UNCHANGED <<token, expired, overtaken>>

\* sync.Lock(ctx, lockKey, false), which fails when it does not get the lock
\* at once.
TakeLock(u) ==
  /\ run[u] = "lock"
  /\ LockStep(u)
  /\ pc'[u] # "retry"
  /\ RunGoto(u, CASE pc'[u] = "idle" -> "failed" [] pc'[u] = "locked" -> "job" [] OTHER -> "lock")
  /\ UNCHANGED <<token, expired, overtaken>>

\* The extension returns, fails or panics.
JobEnds(u) ==
  /\ run[u] = "job" /\ pc[u] # "dead"
  /\ RunGoto(u, "done")
  /\ UNCHANGED <<vars, token, expired, overtaken>>

\* Mutant: the token goes back when the run fails to get it, too.
ReturnTokenTwice(u) ==
  /\ run[u] \in {"failed", "done"} /\ pc[u] # "dead"
  /\ token' = [token EXCEPT ![ProcOf[u]] = 1]
  /\ RunGoto(u, IF run[u] = "failed" THEN "done" ELSE "unlock")
  /\ UNCHANGED <<vars, expired, overtaken>>

\* jobLocks[lockKey] <- 1 waits while the channel is full.
ReturnToken(u) ==
  /\ run[u] \in {"failed", "done"} /\ pc[u] # "dead"
  /\ token[ProcOf[u]] = 0
  /\ token' = [token EXCEPT ![ProcOf[u]] = 1]
  /\ RunGoto(u, IF run[u] = "failed" THEN "off" ELSE "unlock")
  /\ UNCHANGED <<vars, expired, overtaken>>

\* sync.Unlock(ctx, lockKey).
Unlock(u) ==
  /\ run[u] = "unlock"
  /\ UnlockGet(u) \/ UnlockStep(u)
  /\ RunGoto(u, IF pc'[u] = "idle" THEN "off" ELSE "unlock")
  /\ UNCHANGED <<token, expired, overtaken>>

-----------------------------------------------------------------------------
(* The lock service and the processes *)

\* Running(u): the extension is running under the lock.
Running(u) == run[u] = "job" /\ pc[u] # "dead"

KeepAlive(l) == KeepAliveStep(l) /\ UNCHANGED cronVars

CronExpire(l) ==
  /\ Expire(l)
  /\ expired' = (expired \/ \E u \in Users : Inside(u) /\ lease[u] = l)
  /\ UNCHANGED <<run, token, overtaken>>

CronCrash(p) == Crash(p) /\ UNCHANGED cronVars

RunStep(u) == TakeLock(u) \/ JobEnds(u) \/ ReturnToken(u) \/ Unlock(u)

CronNext ==
  \/ \E u \in Users : TakeToken(u) \/ RunStep(u)
  \/ \E l \in Leases : KeepAlive(l) \/ CronExpire(l)
  \/ \E p \in Procs : CronCrash(p)

CronSpec == CronInit /\ [][CronNext]_allVars

-----------------------------------------------------------------------------
(* Properties *)

Dead(p) == \E u \in Users : ProcOf[u] = p /\ pc[u] = "dead"

\* In a process either the token is in the channel or exactly one run has it,
\* whichever way runs fail: no second run of the process calls the extension at
\* the same time, and the deferred send never blocks.
TokenOrRun ==
  \A p \in Procs : ~Dead(p) =>
    token[p] + Cardinality({u \in Users : ProcOf[u] = p /\ run[u] \in {"lock", "failed", "job", "done"}}) = 1

\* The job runs once in the cluster as long as no lease expires under it and no
\* run begins while the process is still in the Unlock of the one before.  Both
\* conditions are needed: that Unlock revokes a lease it finds in the process's
\* map and deletes the key by the process id, be they those of the new run.
JobRunsOnce ==
  ~expired /\ ~overtaken => \A u, v \in Users : Running(u) /\ Running(v) => u = v

\* A running job whose lease lives loses its key only to an Unlock of its own
\* process, never to another process or to a call that fails.
KeyLostOnlyToMate ==
  [][\A u \in Users :
       Running(u) /\ key = lease[u] /\ key' # key /\ lease[u] \in live'
         => \E v \in Mates(u) : run[v] = "unlock" /\ pc[v] = "delete"]_allVars
=============================================================================
