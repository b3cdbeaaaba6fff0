------------------------- MODULE PipelineLockProofs -------------------------
(* Proofs about the lock lease of PipelineLock.                            *)
EXTENDS PipelineLock, TLAPS

\* lock_name is the primary key: AcquireLock keeps it so.
OneRowPerName ==
    \A a, b \in locks : a.name = b.name => a = b

\* A caller's stamp is no further ahead than a clock may be, so the rows its
\* DELETE removes have expired by some clock.
StampsNotAhead ==
    \A r \in Runs : stamp[r] <= now + Skew

\* The inductive invariant of the lease.
LockInv ==
    /\ LockTypeOK
    /\ StampsNotAhead
    /\ OneRowPerName
    /\ LiveHolderHasRow

-----------------------------------------------------------------------------

\* The row a caller inserts is a row of the table.
LEMMA LockRowType ==
    ASSUME LockTypeOK, NEW r \in Runs
    PROVE  /\ Expires(r) \in Nat
           /\ LockRow(r) \in LockRows
BY LockAssumption DEF LockTypeOK, Expires, LockRow, LockRows

\* The variables keep their types, in every step.
LEMMA LockTypeStep ==
    LockTypeOK /\ [LockNext]_lockVars => LockTypeOK'
<1> SUFFICES ASSUME LockTypeOK, [LockNext]_lockVars
             PROVE  LockTypeOK'
    OBVIOUS
<1> USE DEF LockTypeOK, LockPhases
<1>1. ASSUME NEW r \in Runs, ReadClock(r)
      PROVE  LockTypeOK'
    BY <1>1 DEF ReadClock
<1>2. ASSUME NEW r \in Runs, AcquireLock(r)
      PROVE  LockTypeOK'
    <2>1. locks' \subseteq LockRows
        BY <1>2, LockRowType DEF AcquireLock, Unexpired
    <2> QED
        BY <1>2, <2>1 DEF AcquireLock
<1>3. ASSUME NEW r \in Runs, LockOut(r)
      PROVE  LockTypeOK'
    BY <1>3 DEF LockOut
<1>4. ASSUME NEW r \in Runs, ReleaseLock(r)
      PROVE  LockTypeOK'
    BY <1>4 DEF ReleaseLock, LocksWithout
<1>5. ASSUME NEW r \in Runs, ReleaseLockError(r)
      PROVE  LockTypeOK'
    BY <1>5 DEF ReleaseLockError
<1>6. ASSUME NEW r \in Runs, CrashHolder(r)
      PROVE  LockTypeOK'
    BY <1>6 DEF CrashHolder
<1>7. CASE Tick
    BY <1>7 DEF Tick
<1>8. CASE UNCHANGED lockVars
    BY <1>8 DEF lockVars
<1> QED
    BY <1>1, <1>2, <1>3, <1>4, <1>5, <1>6, <1>7, <1>8 DEF LockNext, LockCall

\* True time only moves forward and a stamp is some clock of the moment.
LEMMA StampStep ==
    LockInv /\ [LockNext]_lockVars => StampsNotAhead'
<1> SUFFICES ASSUME LockInv, [LockNext]_lockVars
             PROVE  StampsNotAhead'
    OBVIOUS
<1> USE LockAssumption DEF LockInv, LockTypeOK, StampsNotAhead
<1>1. ASSUME NEW r \in Runs, ReadClock(r)
      PROVE  StampsNotAhead'
    BY <1>1 DEF ReadClock
<1>2. CASE Tick
    BY <1>2 DEF Tick
<1>3. CASE UNCHANGED <<now, stamp>>
    BY <1>3
<1> QED
    BY <1>1, <1>2, <1>3
    DEF LockNext, LockCall, AcquireLock, LockOut, ReleaseLock,
        ReleaseLockError, CrashHolder, lockVars

\* A row is inserted only beside rows of other names.
LEMMA OneRowStep ==
    LockInv /\ [LockNext]_lockVars => OneRowPerName'
<1> SUFFICES ASSUME LockInv, [LockNext]_lockVars
             PROVE  OneRowPerName'
    OBVIOUS
<1> USE DEF LockInv, OneRowPerName
<1>1. ASSUME NEW r \in Runs, AcquireLock(r)
      PROVE  OneRowPerName'
    BY <1>1 DEF AcquireLock, Taken, Unexpired, LockRow
<1>2. CASE locks' \subseteq locks
    BY <1>2
<1> QED
    BY <1>1, <1>2
    DEF LockNext, LockCall, ReadClock, LockOut, ReleaseLock, LocksWithout,
        ReleaseLockError, CrashHolder, Tick, lockVars

\* No step of another caller removes the row of a holder in its lease.
LEMMA LiveHolderStep ==
    LockInv /\ [LockNext]_lockVars => LiveHolderHasRow'
<1> SUFFICES ASSUME LockInv, [LockNext]_lockVars,
                    NEW s \in Runs,
                    lockPhase'[s] = "holding", ~Lapsed(s)'
             PROVE  LockRow(s)' \in locks'
    BY DEF LiveHolderHasRow
<1> USE DEF LockInv, LockTypeOK
<1>a. Expires(s) \in Nat /\ Skew \in Nat
    BY LockRowType, LockAssumption
<1>b. now' + Skew < Expires(s)'
    BY LockTypeStep, LockAssumption DEF Lapsed, Expires
<1> USE <1>a, <1>b DEF Lapsed
<1>1. ASSUME NEW r \in Runs, ReadClock(r)
      PROVE  LockRow(s)' \in locks'
    <2>1. r # s
        BY <1>1 DEF ReadClock
    <2>2. stamp'[s] = stamp[s] /\ lockPhase'[s] = lockPhase[s]
        BY <1>1, <2>1 DEF ReadClock
    <2> QED
        BY <1>1, <2>2 DEF ReadClock, LiveHolderHasRow, LockRow, Expires
<1>2. ASSUME NEW r \in Runs, AcquireLock(r)
      PROVE  LockRow(s)' \in locks'
    <2>1. LockRow(s)' = LockRow(s) /\ Expires(s)' = Expires(s)
        BY <1>2 DEF AcquireLock, LockRow, Expires
    <2>2. CASE r = s
        BY <1>2, <2>1, <2>2 DEF AcquireLock
    <2>3. CASE r # s
        <3>1. lockPhase[s] = "holding" /\ now + Skew < Expires(s)
            BY <1>2, <2>1, <2>3 DEF AcquireLock
        <3>2. LockRow(s) \in locks
            BY <3>1 DEF LiveHolderHasRow
        <3>3. LockRow(s).expires > stamp[r]
            BY <1>a, <3>1 DEF StampsNotAhead, LockRow
        <3> QED
            BY <1>2, <2>1, <3>2, <3>3 DEF AcquireLock, Unexpired
    <2> QED
        BY <2>2, <2>3
<1>3. ASSUME NEW r \in Runs, ReleaseLock(r)
      PROVE  LockRow(s)' \in locks'
    <2>1. r # s
        BY <1>3 DEF ReleaseLock
    <2>2. LockRow(s)' = LockRow(s) /\ Expires(s)' = Expires(s)
        BY <1>3 DEF ReleaseLock, LockRow, Expires
    <2>3. LockRow(s) \in locks
        BY <1>3, <2>1, <2>2 DEF ReleaseLock, LiveHolderHasRow
    <2> QED
        BY <1>3, <2>1, <2>2, <2>3 DEF ReleaseLock, LocksWithout, LockRow
<1>4. CASE Tick
    <2>1. now + Skew < Expires(s)
        BY <1>4, <1>a DEF Tick, Expires
    <2> QED
        BY <1>4, <2>1 DEF Tick, LiveHolderHasRow, LockRow, Expires
<1>5. CASE /\ UNCHANGED <<now, locks, stamp>>
           /\ lockPhase[s] = "holding"
    BY <1>5 DEF LiveHolderHasRow, LockRow, Expires
<1> QED
    BY <1>1, <1>2, <1>3, <1>4, <1>5
    DEF LockNext, LockCall, LockOut, ReleaseLockError, CrashHolder, lockVars

LEMMA LockInvInit == LockInit => LockInv
BY LockAssumption
   DEF LockInit, LockInv, LockTypeOK, LockPhases, StampsNotAhead,
       OneRowPerName, LiveHolderHasRow

LEMMA LockInvStep == LockInv /\ [LockNext]_lockVars => LockInv'
BY LockTypeStep, StampStep, OneRowStep, LiveHolderStep DEF LockInv

\* The lease invariant holds of every behaviour of the lock.
THEOREM LockInvariant == LockSpec => []LockInv
BY LockInvInit, LockInvStep, PTL DEF LockSpec

-----------------------------------------------------------------------------

\* The variables of the lock keep their types.
THEOREM LockTypeCorrect == LockSpec => []LockTypeOK
<1>1. LockInv => LockTypeOK
    BY DEF LockInv
<1> QED
    BY LockInvariant, <1>1, PTL

\* A holder in its lease has its row, for any callers, locks and lease.
THEOREM LiveHolderKeepsRow == LockSpec => []LiveHolderHasRow
<1>1. LockInv => LiveHolderHasRow
    BY DEF LockInv
<1> QED
    BY LockInvariant, <1>1, PTL

LEMMA LeaseTimes ==
    LockInv => now \in Nat /\ \A t \in Runs : Expires(t) \in Nat
BY LockAssumption DEF LockInv, LockTypeOK, Expires

LEMMA LeaseExcludes == LockInv => OverlapOnlyAfterExpiry
<1> SUFFICES ASSUME LockInv,
                    NEW r \in Runs, NEW s \in Runs,
                    r # s, LockNameOf[r] = LockNameOf[s],
                    lockPhase[r] = "holding", lockPhase[s] = "holding",
                    ~Lapsed(r), ~Lapsed(s)
             PROVE  FALSE
    BY LeaseTimes DEF OverlapOnlyAfterExpiry
<1>1. LockRow(r) \in locks /\ LockRow(s) \in locks
    BY DEF LockInv, LiveHolderHasRow
<1>2. LockRow(r) = LockRow(s)
    BY <1>1 DEF LockInv, OneRowPerName, LockRow
<1> QED
    BY <1>2 DEF LockRow

\* Two callers overlap only when one of them has outlived its lease.
THEOREM LockMutualExclusion == LockSpec => []OverlapOnlyAfterExpiry
BY LockInvariant, LeaseExcludes, PTL

LEMMA RowsLeaveStep ==
    LockInv /\ [LockNext]_lockVars =>
        [\A row \in locks \ locks' :
            \/ row.expires <= now + Skew
            \/ lockPhase[row.owner] = "holding" /\ lockPhase'[row.owner] = "released"
        ]_lockVars
<1> SUFFICES ASSUME LockInv, [LockNext]_lockVars,
                    NEW row \in locks, row \notin locks'
             PROVE  \/ row.expires <= now + Skew
                    \/ /\ lockPhase[row.owner] = "holding"
                       /\ lockPhase'[row.owner] = "released"
    OBVIOUS
<1> USE LockAssumption DEF LockInv, LockTypeOK
<1>1. ASSUME NEW r \in Runs, AcquireLock(r)
      PROVE  row.expires <= now + Skew
    <2>1. row.expires \in Nat
        BY DEF LockRows
    <2>2. ~(row.expires > stamp[r])
        BY <1>1 DEF AcquireLock, Unexpired
    <2> QED
        BY <2>1, <2>2 DEF StampsNotAhead
<1>2. ASSUME NEW r \in Runs, ReleaseLock(r)
      PROVE  /\ lockPhase[row.owner] = "holding"
             /\ lockPhase'[row.owner] = "released"
    BY <1>2 DEF ReleaseLock, LocksWithout
<1> QED
    BY <1>1, <1>2
    DEF LockNext, LockCall, ReadClock, LockOut, ReleaseLockError, CrashHolder,
        Tick, lockVars

\* A row leaves the table by expiry or by its owner's release only.
THEOREM OnlyOwnerFreesLiveRow == LockSpec => RowsLeaveByExpiryOrOwner
BY LockInvariant, RowsLeaveStep, PTL DEF LockSpec, RowsLeaveByExpiryOrOwner
=============================================================================
