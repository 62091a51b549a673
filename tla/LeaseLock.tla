----------------------------- MODULE LeaseLock -----------------------------
(***************************************************************************)
(* What gohan's cluster lock (sync.Sync.Lock / Unlock, backed by an etcd   *)
(* lease) promises to the code that takes it: SyncWriter, PathWatcher,     *)
(* StateWatcher, SyncWatcher and the cron jobs.                            *)
(*                                                                         *)
(* The promise is weaker than mutual exclusion.  The service has at most   *)
(* one holder and a user gets in only by becoming the holder, but the      *)
(* service may drop the holder (its lease expired) while that user is      *)
(* still inside; the user learns of it only when its lost channel closes.  *)
(***************************************************************************)
CONSTANTS
  Users,    \* the callers of Lock on one path, one per process
  NoUser    \* "nobody holds the lock"

ASSUME NoUserAssumption == NoUser \notin Users

VARIABLES
  holder,   \* the user whose key the lock service stores, or NoUser
  inside,   \* the users between a successful Lock and their Unlock
  lost      \* the users inside whose lost channel is closed

lockVars == <<holder, inside, lost>>

LockTypeOK ==
  /\ holder \in Users \cup {NoUser}
  /\ inside \subseteq Users
  /\ lost \subseteq Users

LockInit ==
  /\ holder = NoUser
  /\ inside = {}
  /\ lost = {}

-----------------------------------------------------------------------------
\* Lock succeeds: the key did not exist and is now the caller's.
Acquire(u) ==
  /\ u \notin inside
  /\ holder = NoUser
  /\ holder' = u
  /\ inside' = inside \cup {u}
  /\ lost' = lost \ {u}

\* Lock reports an error although etcd stored the key: nobody is inside.
AcquireUnknown(u) ==
  /\ u \notin inside
  /\ holder = NoUser
  /\ holder' = u
  /\ UNCHANGED <<inside, lost>>

\* The key goes away: revoked, deleted by its owner's Unlock, or expired.
Drop ==
  /\ holder # NoUser
  /\ holder' = NoUser
  /\ UNCHANGED <<inside, lost>>

\* The keepalive goroutine closes the lost channel (it may do so spuriously).
SignalLost(u) ==
  /\ u \in inside
  /\ lost' = lost \cup {u}
  /\ UNCHANGED <<holder, inside>>

\* Unlock starts, or the user's process dies: it is not inside any more.
\* Its key goes away in a later Drop.
Leave(u) ==
  /\ u \in inside
  /\ inside' = inside \ {u}
  /\ lost' = lost \ {u}
  /\ UNCHANGED holder

LockNext ==
  \/ Drop
  \/ \E u \in Users : Acquire(u) \/ AcquireUnknown(u) \/ SignalLost(u) \/ Leave(u)

LockSpec == LockInit /\ [][LockNext]_lockVars
=============================================================================
