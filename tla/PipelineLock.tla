---------------------------- MODULE PipelineLock ----------------------------
(***************************************************************************)
(* The expiring database lock of data_platform/locking.py.                 *)
(*                                                                         *)
(* A caller computes its clock stamp BEFORE it opens the transaction,      *)
(* which then deletes every expired row and inserts its own; the primary   *)
(* key on lock_name makes the insert fail when a row for the name is left. *)
(* The lock is a lease: it is never renewed and nothing checks it later.   *)
(*                                                                         *)
(* Stamps are datetime.now(UTC) of different machines: a worker's clock    *)
(* may be off from true time (`now') by Skew, either way, at each reading. *)
(***************************************************************************)
EXTENDS Naturals

CONSTANTS
    Runs,         \* callers; owner_run_id is a fresh uuid per pipeline run
    LockNames,    \* "orders_pipeline", "spark_orders_pipeline"
    LockNameOf,   \* the lock each caller asks for
    TTL,          \* ttl_seconds, in clock ticks
    Skew,         \* how far a worker's clock may be off
    MaxTime,      \* bound on the clock
    Faults        \* what may go wrong: "crash", "db", "interrupt", ...

ASSUME LockAssumption ==
    /\ LockNameOf \in [Runs -> LockNames]
    /\ TTL \in Nat
    /\ Skew \in Nat
    /\ MaxTime \in Nat

VARIABLES
    now,          \* the clock
    locks,        \* the rows of pipeline_locks
    lockPhase,    \* where each caller is in acquire_lock / release_lock
    stamp         \* the `now' each caller computed in acquire_lock

lockVars == <<now, locks, lockPhase, stamp>>

LockRows == [name : LockNames, owner : Runs, expires : Nat]

LockPhases == {"idle", "stamped", "holding", "locked_out", "released",
               "leaked", "crashed"}

LockTypeOK ==
    /\ now \in Nat
    /\ locks \subseteq LockRows
    /\ lockPhase \in [Runs -> LockPhases]
    /\ stamp \in [Runs -> Nat]

LockInit ==
    /\ now = 0
    /\ locks = {}
    /\ lockPhase = [r \in Runs |-> "idle"]
    /\ stamp = [r \in Runs |-> 0]

-----------------------------------------------------------------------------

\* Mutation: the lease reaches backwards.
ExpiresEarlier(r) == stamp[r] - TTL

Expires(r) == stamp[r] + TTL

LockRow(r) == [name |-> LockNameOf[r], owner |-> r, expires |-> Expires(r)]

\* Mutation: the DELETE compares with the new expiry instead of the clock.
UnexpiredByNewExpiry(t) == {row \in locks : row.expires > t + TTL}

\* Mutation: expired rows are never deleted.
NothingExpires(t) == {row \in locks : t \in Nat}

\* What DELETE ... WHERE expires_at <= t leaves of the table.
Unexpired(t) == {row \in locks : row.expires > t}

\* The INSERT meets a row of the same lock_name.
Taken(r) == \E row \in Unexpired(stamp[r]) : row.name = LockNameOf[r]

\* Mutation: the release forgets the owner.
LocksWithoutName(r) == {row \in locks : row.name # LockNameOf[r]}

\* What DELETE ... WHERE lock_name = ? AND owner_run_id = ? leaves.
LocksWithout(r) ==
    {row \in locks : ~(row.name = LockNameOf[r] /\ row.owner = r)}

\* now = datetime.now(UTC), before the transaction. A caller that was locked
\* out may call again.
ReadClock(r) ==
    /\ lockPhase[r] \in {"idle", "locked_out"}
    /\ \E t \in 0 .. now + Skew :
           now <= t + Skew /\ stamp' = [stamp EXCEPT ![r] = t]
    /\ lockPhase' = [lockPhase EXCEPT ![r] = "stamped"]
    /\ UNCHANGED <<now, locks>>

\* The transaction commits: expired rows of every lock go, the row comes.
AcquireLock(r) ==
    /\ lockPhase[r] = "stamped"
    /\ ~Taken(r)
    /\ locks' = Unexpired(stamp[r]) \cup {LockRow(r)}
    /\ lockPhase' = [lockPhase EXCEPT ![r] = "holding"]
    /\ UNCHANGED <<now, stamp>>

\* Any exception in the transaction rolls the DELETE back and becomes
\* PipelineLockedError, a database error as much as a taken lock.
LockOut(r) ==
    /\ lockPhase[r] = "stamped"
    /\ Taken(r) \/ "db" \in Faults
    /\ lockPhase' = [lockPhase EXCEPT ![r] = "locked_out"]
    /\ UNCHANGED <<now, locks, stamp>>

ReleaseLock(r) ==
    /\ lockPhase[r] = "holding"
    /\ locks' = LocksWithout(r)
    /\ lockPhase' = [lockPhase EXCEPT ![r] = "released"]
    /\ UNCHANGED <<now, stamp>>

\* A row left behind expires, by every clock, while the bounded clock still
\* runs. Bound: a row is left behind only then, as it would stay for ever.
LeftRowExpires == now + TTL + 2 * Skew <= MaxTime

\* release_lock raises: the row stays until it expires.
ReleaseLockError(r) ==
    /\ "db" \in Faults
    /\ LeftRowExpires
    /\ lockPhase[r] = "holding"
    /\ lockPhase' = [lockPhase EXCEPT ![r] = "leaked"]
    /\ UNCHANGED <<now, locks, stamp>>

\* The process dies inside acquire_lock or while it holds the lock.
CrashHolder(r) ==
    /\ "crash" \in Faults
    /\ LeftRowExpires
    /\ lockPhase[r] \in {"stamped", "holding"}
    /\ lockPhase' = [lockPhase EXCEPT ![r] = "crashed"]
    /\ UNCHANGED <<now, locks, stamp>>

Tick ==
    /\ now < MaxTime
    /\ now' = now + 1
    /\ UNCHANGED <<locks, lockPhase, stamp>>

LockCall(r) ==
    ReadClock(r) \/ AcquireLock(r) \/ LockOut(r) \/ ReleaseLock(r)

LockNext ==
    \/ \E r \in Runs : LockCall(r) \/ ReleaseLockError(r) \/ CrashHolder(r)
    \/ Tick

LockSpec == LockInit /\ [][LockNext]_lockVars

\* Time passes, and a caller that has begun goes on: it retries when locked
\* out (backfill and Airflow do) and releases what it holds (a finally block).
\* Beginning at all is the environment's choice. The strong fairness says that
\* the database does not refuse every one of endlessly many attempts.
LockFairness ==
    /\ WF_lockVars(Tick)
    /\ \A r \in Runs : WF_lockVars(lockPhase[r] # "idle" /\ LockCall(r))
    /\ \A r \in Runs : SF_lockVars(AcquireLock(r))

FairLockSpec == LockSpec /\ LockFairness

-----------------------------------------------------------------------------

\* r's lease has run out by some worker's clock.
Lapsed(r) == Expires(r) <= now + Skew

\* Somebody has called acquire_lock after q's lease had run out.
Late(q) == \E s \in Runs : stamp[s] >= Expires(q)

\* A holder whose lease has not run out by any clock still has its row in the
\* table, whatever other callers, with older or newer stamps, deleted meanwhile.
LiveHolderHasRow ==
    \A r \in Runs :
        lockPhase[r] = "holding" /\ ~Lapsed(r) => LockRow(r) \in locks

\* Two callers are inside the section of one lock only when one of them has
\* outlived its lease by the fastest clock: the mutual exclusion a lease can
\* give.
OverlapOnlyAfterExpiry ==
    \A r, s \in Runs :
        /\ r # s
        /\ LockNameOf[r] = LockNameOf[s]
        /\ lockPhase[r] = "holding"
        /\ lockPhase[s] = "holding"
        => Lapsed(r) \/ Lapsed(s)

\* A row leaves the table only when it has expired by some clock or when its
\* owner releases it; a late holder's release never frees its successor's lock.
RowsLeaveByExpiryOrOwner ==
    [][\A row \in locks \ locks' :
          \/ row.expires <= now + Skew
          \/ lockPhase[row.owner] = "holding" /\ lockPhase'[row.owner] = "released"
      ]_lockVars

\* A crashed worker cannot block a lock permanently: whoever calls
\* acquire_lock and keeps retrying gets the lock (or dies itself).
CallerEventuallyHolds ==
    \A r \in Runs : lockPhase[r] = "stamped" ~> lockPhase[r] \in {"holding", "crashed"}
=============================================================================
