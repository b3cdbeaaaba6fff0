---------------------------- MODULE SparkProofs ----------------------------
(* Proofs about the two engines of SparkLake: they implement Landing, so   *)
(* that what LandingProofs shows holds of them.                            *)
EXTENDS SparkLake, FiniteSetTheorems, WellFoundedInduction, TLAPS

\* The theorems about Landing and its ledger, of the store of either engine.
LP == INSTANCE LedgerProofs WITH warehouse <- Stored

(* LP and AsLanding are one specification. *)

LEMMA SameClaims ==
    \A r : /\ LP!ClaimNew(r) <=> AsLanding!ClaimNew(r)
           /\ LP!ClaimSkip(r) <=> AsLanding!ClaimSkip(r)
           /\ LP!ClaimReject(r) <=> AsLanding!ClaimReject(r)
           /\ LP!ClaimFailed(r) <=> AsLanding!ClaimFailed(r)
           /\ LP!Reclaim(r) <=> AsLanding!Reclaim(r)
BY DEF LP!ClaimNew, AsLanding!ClaimNew, LP!ClaimSkip, AsLanding!ClaimSkip,
       LP!ClaimReject, AsLanding!ClaimReject, LP!ClaimFailed,
       AsLanding!ClaimFailed, LP!Reclaim, AsLanding!Reclaim, LP!Goto,
       AsLanding!Goto, LP!SetManifest, AsLanding!SetManifest, LP!Row,
       AsLanding!Row, LP!Status, AsLanding!Status, LP!dataVars,
       AsLanding!dataVars, LP!lockVars, AsLanding!lockVars

LEMMA SameEmits ==
    \A r : /\ LP!EmitStart(r) <=> AsLanding!EmitStart(r)
           /\ LP!EmitFail(r) <=> AsLanding!EmitFail(r)
           /\ LP!EmitComplete(r) <=> AsLanding!EmitComplete(r)
BY DEF LP!EmitStart, AsLanding!EmitStart, LP!EmitFail, AsLanding!EmitFail,
       LP!EmitComplete, AsLanding!EmitComplete, LP!Emit, AsLanding!Emit,
       LP!Goto, AsLanding!Goto, LP!lockVars, AsLanding!lockVars

LEMMA SameLocks ==
    \A r : /\ LP!EnterAcquire(r) <=> AsLanding!EnterAcquire(r)
           /\ LP!EnterSection(r) <=> AsLanding!EnterSection(r)
           /\ LP!LockedOut(r) <=> AsLanding!LockedOut(r)
           /\ LP!LeaveSection(r) <=> AsLanding!LeaveSection(r)
           /\ LP!ReleaseError(r) <=> AsLanding!ReleaseError(r)
           /\ LP!Crash(r) <=> AsLanding!Crash(r)
BY DEF LP!EnterAcquire, AsLanding!EnterAcquire, LP!EnterSection,
       AsLanding!EnterSection, LP!LockedOut, AsLanding!LockedOut,
       LP!LeaveSection, AsLanding!LeaveSection, LP!ReleaseError,
       AsLanding!ReleaseError, LP!Crash, AsLanding!Crash, LP!Expires,
       AsLanding!Expires, LP!LockRow, AsLanding!LockRow, LP!Unexpired,
       AsLanding!Unexpired, LP!Taken, AsLanding!Taken, LP!LocksWithout,
       AsLanding!LocksWithout, LP!LeftRowExpires, AsLanding!LeftRowExpires,
       LP!ReadClock, AsLanding!ReadClock, LP!AcquireLock,
       AsLanding!AcquireLock, LP!LockOut, AsLanding!LockOut, LP!ReleaseLock,
       AsLanding!ReleaseLock, LP!ReleaseLockError, AsLanding!ReleaseLockError,
       LP!CrashHolder, AsLanding!CrashHolder, LP!AfterRelease,
       AsLanding!AfterRelease, LP!Goto, AsLanding!Goto, LP!dataVars,
       AsLanding!dataVars, LP!lockVars, AsLanding!lockVars, LP!ClaimPcs,
       AsLanding!ClaimPcs, LP!SectionPcs, AsLanding!SectionPcs

LEMMA SameLoads ==
    \A r : /\ LP!ReadAndValidate(r) <=> AsLanding!ReadAndValidate(r)
           /\ LP!LoadCommit(r) <=> AsLanding!LoadCommit(r)
           /\ LP!LoadRollback(r) <=> AsLanding!LoadRollback(r)
           /\ LP!RecordFailure(r) <=> AsLanding!RecordFailure(r)
BY DEF LP!ReadAndValidate, AsLanding!ReadAndValidate, LP!LoadCommit,
       AsLanding!LoadCommit, LP!LoadRollback, AsLanding!LoadRollback,
       LP!RecordFailure, AsLanding!RecordFailure, LP!Goto, AsLanding!Goto,
       LP!dataVars, AsLanding!dataVars, LP!lockVars, AsLanding!lockVars

LEMMA SameEnds ==
    \A r : /\ LP!FinishSucceeded(r) <=> AsLanding!FinishSucceeded(r)
           /\ LP!FinishFailed(r) <=> AsLanding!FinishFailed(r)
           /\ LP!ConnectError(r) <=> AsLanding!ConnectError(r)
           /\ LP!RecordError(r) <=> AsLanding!RecordError(r)
           /\ LP!FinishError(r) <=> AsLanding!FinishError(r)
           /\ LP!Interrupt(r) <=> AsLanding!Interrupt(r)
BY DEF LP!FinishSucceeded, AsLanding!FinishSucceeded, LP!FinishFailed,
       AsLanding!FinishFailed, LP!ConnectError, AsLanding!ConnectError,
       LP!RecordError, AsLanding!RecordError, LP!FinishError,
       AsLanding!FinishError, LP!Interrupt, AsLanding!Interrupt, LP!Goto,
       AsLanding!Goto, LP!SetManifest, AsLanding!SetManifest, LP!Row,
       AsLanding!Row, LP!dataVars, AsLanding!dataVars, LP!lockVars,
       AsLanding!lockVars

LEMMA SameNext ==
    /\ LP!LandingInit <=> AsLanding!LandingInit
    /\ LP!LandingNext <=> AsLanding!LandingNext
    /\ LP!vars = AsLanding!vars
<1>1. LP!LandingInit <=> AsLanding!LandingInit
    BY DEF LP!LandingInit, AsLanding!LandingInit, LP!LockInit,
           AsLanding!LockInit, LP!Row, AsLanding!Row
<1>2. LP!vars = AsLanding!vars
    BY DEF LP!vars, AsLanding!vars
<1>3. LP!Clock <=> AsLanding!Clock
    BY DEF LP!Clock, AsLanding!Clock, LP!Tick, AsLanding!Tick, LP!dataVars,
           AsLanding!dataVars
<1>4. \A r : /\ LP!Step(r) <=> AsLanding!Step(r)
             /\ LP!Fault(r) <=> AsLanding!Fault(r)
    BY SameClaims, SameEmits, SameLocks, SameLoads, SameEnds
    DEF LP!Step, AsLanding!Step, LP!Fault, AsLanding!Fault, LP!ClaimFile,
        AsLanding!ClaimFile, LP!RunPipeline, AsLanding!RunPipeline,
        LP!FinishFile, AsLanding!FinishFile
<1> QED BY <1>1, <1>2, <1>3, <1>4 DEF LP!LandingNext, AsLanding!LandingNext

-----------------------------------------------------------------------------
(* Every step is a step of Landing *)

LEMMA StoredFrame == UNCHANGED <<warehouse, runRow>> => Stored' = Stored
BY DEF Stored

LEMMA ClaimsMap ==
    ASSUME NEW r
    PROVE  /\ ClaimNew(r) => AsLanding!ClaimNew(r)
           /\ ClaimSkip(r) => AsLanding!ClaimSkip(r)
           /\ ClaimReject(r) => AsLanding!ClaimReject(r)
           /\ ClaimFailed(r) => AsLanding!ClaimFailed(r)
           /\ Reclaim(r) => AsLanding!Reclaim(r)
BY StoredFrame
   DEF ClaimNew, AsLanding!ClaimNew, ClaimSkip, AsLanding!ClaimSkip,
       ClaimReject, AsLanding!ClaimReject, ClaimFailed, AsLanding!ClaimFailed,
       Reclaim, AsLanding!Reclaim, Goto, AsLanding!Goto, SetManifest,
       AsLanding!SetManifest, Row, AsLanding!Row, Status, AsLanding!Status,
       dataVars, AsLanding!dataVars, lockVars, AsLanding!lockVars

LEMMA EmitsMap ==
    ASSUME NEW r
    PROVE  /\ EmitStart(r) => AsLanding!EmitStart(r)
           /\ EmitFail(r) => AsLanding!EmitFail(r)
           /\ EmitComplete(r) => AsLanding!EmitComplete(r)
BY StoredFrame
   DEF EmitStart, AsLanding!EmitStart, EmitFail, AsLanding!EmitFail,
       EmitComplete, AsLanding!EmitComplete, Emit, AsLanding!Emit, Goto,
       AsLanding!Goto, lockVars, AsLanding!lockVars

LEMMA LocksMap ==
    ASSUME NEW r
    PROVE  /\ EnterAcquire(r) => AsLanding!EnterAcquire(r)
           /\ EnterSection(r) => AsLanding!EnterSection(r)
           /\ LockedOut(r) => AsLanding!LockedOut(r)
           /\ LeaveSection(r) => AsLanding!LeaveSection(r)
           /\ ReleaseError(r) => AsLanding!ReleaseError(r)
           /\ Crash(r) => AsLanding!Crash(r)
BY StoredFrame
   DEF EnterAcquire, AsLanding!EnterAcquire, EnterSection,
       AsLanding!EnterSection, LockedOut, AsLanding!LockedOut, LeaveSection,
       AsLanding!LeaveSection, ReleaseError, AsLanding!ReleaseError, Crash,
       AsLanding!Crash, Expires, AsLanding!Expires, LockRow,
       AsLanding!LockRow, Unexpired, AsLanding!Unexpired, Taken,
       AsLanding!Taken, LocksWithout, AsLanding!LocksWithout, LeftRowExpires,
       AsLanding!LeftRowExpires, ReadClock, AsLanding!ReadClock, AcquireLock,
       AsLanding!AcquireLock, LockOut, AsLanding!LockOut, ReleaseLock,
       AsLanding!ReleaseLock, ReleaseLockError, AsLanding!ReleaseLockError,
       CrashHolder, AsLanding!CrashHolder, AfterRelease,
       AsLanding!AfterRelease, Goto, AsLanding!Goto, dataVars,
       AsLanding!dataVars, lockVars, AsLanding!lockVars, ClaimPcs,
       AsLanding!ClaimPcs, SectionPcs, AsLanding!SectionPcs

LEMMA EndsMap ==
    ASSUME NEW r
    PROVE  /\ FinishSucceeded(r) => AsLanding!FinishSucceeded(r)
           /\ FinishFailed(r) => AsLanding!FinishFailed(r)
           /\ ConnectError(r) => AsLanding!ConnectError(r)
           /\ RecordError(r) => AsLanding!RecordError(r)
           /\ FinishError(r) => AsLanding!FinishError(r)
           /\ Interrupt(r) => AsLanding!Interrupt(r)
           /\ ReadAndValidate(r) => AsLanding!ReadAndValidate(r)
           /\ LoadRollback(r) => AsLanding!LoadRollback(r)
BY StoredFrame
   DEF FinishSucceeded, AsLanding!FinishSucceeded, FinishFailed,
       AsLanding!FinishFailed, ConnectError, AsLanding!ConnectError,
       RecordError, AsLanding!RecordError, FinishError, AsLanding!FinishError,
       Interrupt, AsLanding!Interrupt, ReadAndValidate,
       AsLanding!ReadAndValidate, LoadRollback, AsLanding!LoadRollback, Goto,
       AsLanding!Goto, SetManifest, AsLanding!SetManifest, Row, AsLanding!Row,
       dataVars, AsLanding!dataVars, lockVars, AsLanding!lockVars

-----------------------------------------------------------------------------
(* The invariant *)

\* Spark runs write no warehouse rows, and have written both datasets when
\* their run row says succeeded.
EnginesApart ==
    \A r \in SparkRuns :
        r \notin warehouse /\ (runRow[r] = "succeeded" => written[r] = 2)

LakeTypeOK ==
    /\ lake \in [DatasetNames -> [Dates -> Runs \cup {NoRun}]]
    /\ written \in [Runs -> 0 .. 2]

SparkInv ==
    /\ LP!LandingInv
    /\ LakeTypeOK
    /\ EnginesApart

\* What the invariant says of the variables of Landing.
LEMMA InvTypes ==
    ASSUME SparkInv
    PROVE  /\ runRow \in [Runs -> {"none", "succeeded", "failed"}]
           /\ warehouse \subseteq Runs
           /\ \A r \in Runs : pc[r] \in {"loading", "recording"} => runRow[r] = "none"
<1>1. LP!LandingTypeOK /\ LP!RunStates
    BY DEF SparkInv, LP!LandingInv
<1>2. \A r \in Runs : pc[r] \in {"loading", "recording"} => runRow[r] = "none"
    BY <1>1 DEF LP!RunStates, LP!RunState, LP!FreshPcs
<1> QED BY <1>1, <1>2 DEF LP!LandingTypeOK, Stored

LEMMA RecordFailureMaps ==
    ASSUME SparkInv, NEW r \in Runs, RecordFailure(r)
    PROVE  AsLanding!RecordFailure(r)
<1>1. runRow' = [runRow EXCEPT ![r] = "failed"] /\ warehouse' = warehouse
      /\ pc[r] = "recording"
    BY DEF RecordFailure
<1>2. Stored' = Stored
    BY <1>1, InvTypes DEF Stored
<1> QED BY <1>2 DEF RecordFailure, AsLanding!RecordFailure, Goto,
                    AsLanding!Goto, lockVars, AsLanding!lockVars

\* A commit, of either engine, is Landing's commit.
LEMMA CommitMaps ==
    ASSUME SparkInv, NEW r \in Runs,
           \/ LoadCommit(r) /\ r \notin SparkRuns
           \/ AuditCommit(r) /\ r \in SparkRuns
    PROVE  AsLanding!LoadCommit(r)
<1>1. /\ runRow' = [runRow EXCEPT ![r] = "succeeded"]
      /\ \/ warehouse' = warehouse \cup {r} /\ r \notin SparkRuns
         \/ warehouse' = warehouse /\ r \in SparkRuns
    BY DEF LoadCommit, AuditCommit
<1>2. Stored' = Stored \cup {r}
    BY <1>1, InvTypes, SparkAssumption DEF Stored
<1> QED BY <1>1, <1>2
        DEF LoadCommit, AuditCommit, AsLanding!LoadCommit, Goto,
            AsLanding!Goto, lockVars, AsLanding!lockVars

LEMMA StepMaps ==
    ASSUME SparkInv, NEW r \in Runs, Step(r) \/ Fault(r),
           r \in SparkRuns => UNCHANGED warehouse
    PROVE  AsLanding!Step(r) \/ AsLanding!Fault(r)
<1>1. CASE ClaimFile(r) \/ Reclaim(r)
    BY <1>1, ClaimsMap DEF ClaimFile, AsLanding!ClaimFile, AsLanding!Step
<1>2. CASE LoadCommit(r)
    <2>1. r \notin SparkRuns
        BY <1>2 DEF LoadCommit, SparkInv, EnginesApart
    <2> QED BY <1>2, <2>1, CommitMaps DEF AsLanding!RunPipeline, AsLanding!Step
<1>3. CASE RunPipeline(r) /\ ~LoadCommit(r)
    BY <1>3, EmitsMap, LocksMap, EndsMap, RecordFailureMaps
    DEF RunPipeline, AsLanding!RunPipeline, AsLanding!Step
<1>4. CASE FinishFile(r)
    BY <1>4, EndsMap DEF FinishFile, AsLanding!FinishFile, AsLanding!Step
<1>5. CASE Fault(r)
    BY <1>5, EndsMap, LocksMap DEF Fault, AsLanding!Fault
<1> QED BY <1>1, <1>2, <1>3, <1>4, <1>5 DEF Step

LEMMA SparkStepMaps ==
    SparkInv /\ [SparkNext]_sparkVars => [AsLanding!LandingNext]_(AsLanding!vars)
<1> SUFFICES ASSUME SparkInv, [SparkNext]_sparkVars
             PROVE  [AsLanding!LandingNext]_(AsLanding!vars)
    OBVIOUS
<1>1. CASE Clock
    <2>1. AsLanding!Clock
        BY <1>1, StoredFrame DEF Clock, AsLanding!Clock, Tick, AsLanding!Tick,
                                 dataVars, AsLanding!dataVars
    <2> QED BY <2>1 DEF AsLanding!LandingNext
<1>2. ASSUME NEW r \in Runs \ SparkRuns, Step(r) \/ Fault(r)
      PROVE  [AsLanding!LandingNext]_(AsLanding!vars)
    BY <1>2, StepMaps DEF AsLanding!LandingNext
<1>3. ASSUME NEW r \in SparkRuns, LandingStep(r)
      PROVE  [AsLanding!LandingNext]_(AsLanding!vars)
    <2>1. r \in Runs
        BY SparkAssumption
    <2> QED BY <1>3, <2>1, StepMaps DEF LandingStep, AsLanding!LandingNext
<1>4. ASSUME NEW r \in SparkRuns, AuditCommit(r)
      PROVE  [AsLanding!LandingNext]_(AsLanding!vars)
    <2>1. r \in Runs
        BY SparkAssumption
    <2> QED BY <1>4, <2>1, CommitMaps
            DEF AsLanding!LandingNext, AsLanding!Step, AsLanding!RunPipeline
<1>5. CASE UNCHANGED vars
    BY <1>5, StoredFrame DEF vars, AsLanding!vars
<1> QED BY <1>1, <1>2, <1>3, <1>4, <1>5
        DEF SparkNext, SparkPipeline, WriteDataset, sparkVars

\* The same step, as the theorems about Landing name it.
LEMMA SparkStepIsLandings ==
    SparkInv /\ [SparkNext]_sparkVars => [LP!LandingNext]_(LP!vars)
BY SparkStepMaps, SameNext DEF LP!vars, AsLanding!vars

LEMMA SparkInitMaps == SparkInit => LP!LandingInit /\ AsLanding!LandingInit
<1> SUFFICES ASSUME SparkInit
             PROVE  LP!LandingInit
    BY SameNext
<1>1. Stored = {}
    BY SparkAssumption DEF SparkInit, LandingInit, Stored
<1> QED BY <1>1 DEF SparkInit, LandingInit, LP!LandingInit, LockInit,
                    LP!LockInit, Row, LP!Row

LEMMA SparkInvInit == SparkInit => SparkInv
<1> SUFFICES ASSUME SparkInit
             PROVE  SparkInv
    OBVIOUS
<1>1. warehouse = {} /\ \A r \in Runs : runRow[r] = "none"
    BY DEF SparkInit, LandingInit
<1>3. LP!LandingInv
    BY SparkInitMaps, LP!LandingInvInit, LockAssumption, LandingAssumption
<1>4. LakeTypeOK /\ EnginesApart
    BY <1>1, SparkAssumption DEF SparkInit, LakeTypeOK, EnginesApart
<1> QED BY <1>3, <1>4 DEF SparkInv

\* Only the two actions of the Spark path move the datasets, and only
\* AuditCommit records a Spark run as succeeded.
LEMMA SparkFrame ==
    ASSUME SparkInv, [SparkNext]_sparkVars
    PROVE  \/ /\ UNCHANGED lakeVars
              /\ \A r \in SparkRuns : runRow'[r] = "succeeded" => runRow[r] = "succeeded"
              /\ \A r \in SparkRuns : r \in warehouse' => r \in warehouse
           \/ \E r \in SparkRuns : WriteDataset(r)
           \/ \E r \in SparkRuns : AuditCommit(r)
<1>1. CASE Clock /\ UNCHANGED lakeVars
    BY <1>1 DEF Clock, dataVars
<1>2. CASE UNCHANGED sparkVars
    BY <1>2 DEF sparkVars, vars, lakeVars
<1>3. ASSUME NEW s \in Runs, Step(s) \/ Fault(s),
             s \in SparkRuns => UNCHANGED warehouse
      PROVE  \A r \in SparkRuns :
                 /\ runRow'[r] = "succeeded" => runRow[r] = "succeeded"
                 /\ r \in warehouse' => r \in warehouse
    <2>1. /\ runRow \in [Runs -> {"none", "succeeded", "failed"}]
          /\ \A r \in SparkRuns : r \in Runs /\ r \notin warehouse
        BY InvTypes, SparkAssumption DEF SparkInv, EnginesApart
    <2>2. CASE LoadCommit(s)
        BY <1>3, <2>1, <2>2 DEF LoadCommit
    <2>3. CASE RecordFailure(s)
        BY <2>1, <2>3 DEF RecordFailure
    <2>4. CASE ~LoadCommit(s) /\ ~RecordFailure(s)
        <3>1. UNCHANGED <<runRow, warehouse>>
            BY <1>3, <2>4
            DEF Step, Fault, ClaimFile, ClaimNew, ClaimSkip, ClaimReject,
                ClaimFailed, Reclaim, RunPipeline, EmitStart, EnterAcquire,
                EnterSection, LockedOut, ReadAndValidate, LoadRollback, EmitFail,
                LeaveSection, EmitComplete, FinishFile, FinishSucceeded,
                FinishFailed, ConnectError, RecordError, ReleaseError,
                FinishError, Interrupt, Crash, dataVars
        <3> QED BY <3>1
    <2> QED BY <2>2, <2>3, <2>4
<1> QED BY <1>1, <1>2, <1>3, SparkAssumption DEF SparkNext, SparkPipeline, LandingStep

LEMMA SparkInvStep == SparkInv /\ [SparkNext]_sparkVars => SparkInv'
<1> SUFFICES ASSUME SparkInv, [SparkNext]_sparkVars
             PROVE  SparkInv'
    OBVIOUS
<1>1. LP!LandingInv'
    <2>1. [LP!LandingNext]_(LP!vars)
        BY SparkStepIsLandings
    <2>2. LP!LandingInv
        BY DEF SparkInv
    <2> QED BY <2>1, <2>2, LP!LandingInvStep, LockAssumption, LandingAssumption
<1>2. SparkRuns \subseteq Runs /\ NoRun \notin Runs /\ DateOf \in [Runs -> Dates]
    BY SparkAssumption, LandingAssumption
<1>3. ASSUME NEW r \in SparkRuns, WriteDataset(r)
      PROVE  LakeTypeOK' /\ EnginesApart'
    <2>1. written[r] \in {0, 1}
        BY <1>2, <1>3 DEF WriteDataset, SparkInv, LakeTypeOK
    <2>2. Datasets[written[r] + 1] \in DatasetNames
        BY <2>1 DEF Datasets, DatasetNames
    <2>3. LakeTypeOK'
        BY <1>2, <1>3, <2>1, <2>2 DEF WriteDataset, SparkInv, LakeTypeOK
    <2>4. runRow[r] = "none" /\ UNCHANGED <<runRow, warehouse>>
        BY <1>2, <1>3, InvTypes DEF WriteDataset, vars
    <2>5. \A s \in SparkRuns \ {r} : written'[s] = written[s]
        BY <1>2, <1>3 DEF WriteDataset, SparkInv, LakeTypeOK
    <2> QED BY <2>3, <2>4, <2>5 DEF SparkInv, EnginesApart
<1>4. ASSUME NEW r \in SparkRuns, AuditCommit(r)
      PROVE  LakeTypeOK' /\ EnginesApart'
    <2>1. UNCHANGED <<lakeVars, warehouse>> /\ written[r] = 2
          /\ runRow' = [runRow EXCEPT ![r] = "succeeded"]
        BY <1>4 DEF AuditCommit
    <2>2. \A s \in SparkRuns \ {r} : runRow'[s] = runRow[s]
        BY <1>2, <2>1, InvTypes
    <2> QED BY <2>1, <2>2 DEF SparkInv, LakeTypeOK, EnginesApart, lakeVars
<1>5. ASSUME UNCHANGED lakeVars,
             \A r \in SparkRuns : runRow'[r] = "succeeded" => runRow[r] = "succeeded",
             \A r \in SparkRuns : r \in warehouse' => r \in warehouse
      PROVE  LakeTypeOK' /\ EnginesApart'
    BY <1>5 DEF SparkInv, LakeTypeOK, EnginesApart, lakeVars
<1>6. LakeTypeOK' /\ EnginesApart'
    <2>1. \/ /\ UNCHANGED lakeVars
             /\ \A r \in SparkRuns : runRow'[r] = "succeeded" => runRow[r] = "succeeded"
             /\ \A r \in SparkRuns : r \in warehouse' => r \in warehouse
          \/ \E r \in SparkRuns : WriteDataset(r)
          \/ \E r \in SparkRuns : AuditCommit(r)
        BY SparkFrame
    <2> QED BY <1>3, <1>4, <1>5, <2>1
<1> QED BY <1>1, <1>6 DEF SparkInv

LEMMA SparkInvariant == SparkSpec => []SparkInv
BY SparkInvInit, SparkInvStep, PTL DEF SparkSpec

-----------------------------------------------------------------------------
(* What the partitions hold *)

\* The place of a dataset in the order of the jobs.
Job(ds) == IF ds = "accepted_orders" THEN 1 ELSE 2

\* r has written rows to the dataset.
Wrote(ds, r) == written[r] >= Job(ds) /\ RowCount(ds, FileOf[r]) # 0

NothingYet == \A r \in SparkRuns : pc[r] \in LP!BeforeLoad => written[r] = 0

\* A partition that is not empty holds what a Spark run of that date wrote.
FullPartition ==
    \A ds \in DatasetNames, d \in Dates :
        LET x == lake[ds][d]
        IN  x # NoRun => x \in SparkRuns /\ DateOf[x] = d /\ Wrote(ds, x)

\* A partition that was written never becomes empty.
PartitionStays ==
    \A ds \in DatasetNames, r \in SparkRuns :
        Wrote(ds, r) => lake[ds][DateOf[r]] # NoRun

\* What a run has written is replaced under its lock only with a late lease.
ReplacedLate ==
    \A ds \in DatasetNames, r \in SparkRuns :
        pc[r] = "loading" /\ Wrote(ds, r) =>
            LET x == lake[ds][DateOf[r]]
            IN  x = r \/ Late(r) \/ (x # NoRun /\ Late(x))

LakeInv ==
    /\ NothingYet
    /\ FullPartition
    /\ PartitionStays
    /\ ReplacedLate
    /\ PartitionsExplained

\* LP's lease is this module's.
LEMMA SameLease ==
    \A q : /\ LP!Late(q) <=> Late(q)
           /\ LP!Late(q)' <=> Late(q)'
           /\ LP!Lapsed(q) <=> Lapsed(q)
BY DEF LP!Late, Late, LP!Lapsed, Lapsed, LP!Expires, Expires

\* Two Spark runs load at one time only when somebody has called late.
LEMMA LoadsOverlapLate ==
    ASSUME SparkInv, LP!LateInv, LP!LockInv,
           NEW r \in SparkRuns, NEW s \in SparkRuns, r # s,
           pc[r] = "loading", pc[s] = "loading"
    PROVE  Late(r) \/ Late(s)
<1>1. r \in Runs /\ s \in Runs /\ LockNameOf[r] = LockNameOf[s]
    BY SparkAssumption
<1>2. pc[r] \in LP!SectionPcs /\ pc[s] \in LP!SectionPcs
    BY DEF LP!SectionPcs
<1>3. LP!LandingInv
    BY DEF SparkInv
<1>4. LP!Late(r) \/ LP!Late(s)
    BY <1>1, <1>2, <1>3, LP!SectionsOverlapLate, LockAssumption, LandingAssumption
<1> QED BY <1>4, SameLease

\* A late lease has lapsed, by the clock of the caller.
LEMMA LateHasLapsed ==
    ASSUME LP!LockInv, NEW q \in Runs, Late(q)
    PROVE  Lapsed(q)
<1>1. PICK s \in Runs : stamp[s] >= Expires(q)
    BY DEF Late
<1>2. stamp[s] <= now + Skew
    BY DEF LP!LockInv, LP!StampsNotAhead
<1>3. stamp[s] \in Nat /\ Expires(q) \in Nat /\ now + Skew \in Nat
    BY LockAssumption DEF LP!LockInv, LP!LockTypeOK, Expires
<1> QED BY <1>1, <1>2, <1>3 DEF Lapsed

\* A step that writes no dataset: late stays late, and no run loads that has
\* not validated.
LEMMA LakeInvFrame ==
    ASSUME SparkInv, LP!LateInv, LakeInv, [SparkNext]_sparkVars, UNCHANGED lakeVars
    PROVE  LakeInv'
<1>1. LP!LandingInv /\ [LP!LandingNext]_(LP!vars)
    BY SparkStepIsLandings DEF SparkInv
<1>2. ASSUME NEW q \in SparkRuns
      PROVE  /\ pc'[q] \in LP!BeforeLoad => pc[q] \in LP!BeforeLoad
             /\ pc'[q] = "loading" => pc[q] \in {"validating", "loading"}
    <2>1. q \in Runs
        BY SparkAssumption
    <2> QED BY <1>1, <2>1, LP!LoadingStep, LockAssumption, LandingAssumption
<1>3. ASSUME NEW q \in SparkRuns, pc[q] \notin LP!BeforeLoad, Late(q)
      PROVE  Late(q)'
    <2>1. q \in Runs /\ pc[q] \notin LP!BeforeCall /\ LP!Late(q)
        BY <1>3, SparkAssumption, SameLease DEF LP!BeforeLoad
    <2>2. LP!Late(q)'
        BY <1>1, <2>1, LP!LateStays, LockAssumption, LandingAssumption
    <2> QED BY <2>2, SameLease
<1>4. ASSUME NEW q \in SparkRuns, NEW ds \in DatasetNames, Wrote(ds, q)
      PROVE  pc[q] \notin LP!BeforeLoad
    BY <1>4 DEF Wrote, Job, LakeInv, NothingYet
<1>5. lake' = lake /\ written' = written
    BY DEF lakeVars
<1>6. NothingYet'
    BY <1>2, <1>5 DEF LakeInv, NothingYet
<1>7. FullPartition' /\ PartitionStays'
    BY <1>5 DEF LakeInv, FullPartition, PartitionStays, Wrote
<1>8. ASSUME NEW ds \in DatasetNames, NEW d \in Dates, lake[ds][d] # NoRun
      PROVE  /\ lake[ds][d] \in SparkRuns
             /\ Late(lake[ds][d]) => Late(lake[ds][d])'
    <2>1. lake[ds][d] \in SparkRuns /\ Wrote(ds, lake[ds][d])
        BY <1>8 DEF LakeInv, FullPartition
    <2>2. PICK x \in SparkRuns : x = lake[ds][d] /\ Wrote(ds, x)
        BY <2>1
    <2>3. Late(x) => Late(x)'
        BY <1>3, <1>4, <2>2
    <2>4. x = lake'[ds][d]
        BY <1>5, <2>2
    <2> QED BY <2>2, <2>3, <2>4
<1>9. ReplacedLate'
    <2> SUFFICES ASSUME NEW ds \in DatasetNames, NEW r \in SparkRuns,
                        pc'[r] = "loading", Wrote(ds, r)'
                 PROVE  \/ lake[ds][DateOf[r]] = r
                        \/ Late(r)'
                        \/ /\ lake[ds][DateOf[r]] # NoRun
                           /\ Late(lake[ds][DateOf[r]])'
        BY <1>5 DEF ReplacedLate
    <2>1. Wrote(ds, r)
        BY <1>5 DEF Wrote
    <2>2. pc[r] \notin LP!BeforeLoad
        BY <1>4, <2>1
    <2>3. pc[r] = "loading"
        BY <1>2, <2>2 DEF LP!BeforeLoad
    <2>4. DateOf[r] \in Dates
        BY SparkAssumption
    <2> QED BY <1>3, <1>8, <2>1, <2>2, <2>3, <2>4 DEF LakeInv, ReplacedLate
<1>10. PartitionsExplained'
    <2> SUFFICES ASSUME NEW d \in Dates,
                        lake["accepted_orders"][d] # lake["quarantined_orders"][d]
                 PROVE  LET a == lake["accepted_orders"][d]
                            q == lake["quarantined_orders"][d]
                        IN  \/ a # NoRun /\ (written[a] < 2 \/ Metrics(FileOf[a]).quarantined = 0)
                            \/ q # NoRun /\ Metrics(FileOf[q]).accepted = 0
                            \/ a # NoRun /\ q # NoRun /\ (Late(a)' \/ Late(q)')
        BY <1>5 DEF PartitionsExplained
    <2>1. "accepted_orders" \in DatasetNames /\ "quarantined_orders" \in DatasetNames
        BY DEF DatasetNames
    <2> QED BY <1>8, <2>1 DEF LakeInv, PartitionsExplained
<1> QED BY <1>6, <1>7, <1>9, <1>10 DEF LakeInv

\* One Parquet job, in any state the others may be in.
LEMMA WriteStep ==
    ASSUME SparkInv, LakeInv, NEW s \in SparkRuns, WriteDataset(s)
    PROVE  /\ UNCHANGED vars /\ pc[s] = "loading"
           /\ \E ds \in DatasetNames :
                /\ written[s] + 1 = Job(ds) /\ written'[s] = Job(ds)
                /\ \A r \in SparkRuns \ {s} : written'[r] = written[r]
                /\ \A es \in DatasetNames, d \in Dates :
                     lake'[es][d] = IF /\ es = ds /\ d = DateOf[s]
                                       /\ RowCount(ds, FileOf[s]) # 0
                                    THEN s ELSE lake[es][d]
<1>1. s \in Runs /\ SparkRuns \subseteq Runs /\ DateOf[s] \in Dates
    BY SparkAssumption
<1>2. LakeTypeOK
    BY DEF SparkInv
<1>3. written[s] \in {0, 1}
    BY <1>1, <1>2 DEF WriteDataset, LakeTypeOK
<1> DEFINE ds == Datasets[written[s] + 1]
<1>4. ds \in DatasetNames /\ written[s] + 1 = Job(ds)
    BY <1>3 DEF Datasets, DatasetNames, Job
<1>5. lake' = IF RowCount(ds, FileOf[s]) = 0 THEN lake
              ELSE [lake EXCEPT ![ds][DateOf[s]] = s]
    BY DEF WriteDataset
<1>6. written' = [written EXCEPT ![s] = @ + 1]
    BY DEF WriteDataset
<1>7. written'[s] = Job(ds) /\ \A r \in SparkRuns \ {s} : written'[r] = written[r]
    BY <1>1, <1>2, <1>4, <1>6 DEF LakeTypeOK
<1> HIDE DEF ds
<1>8. \A es \in DatasetNames, d \in Dates :
          lake'[es][d] = IF es = ds /\ d = DateOf[s] /\ RowCount(ds, FileOf[s]) # 0
                         THEN s ELSE lake[es][d]
    BY <1>1, <1>2, <1>4, <1>5 DEF LakeTypeOK
<1>9. UNCHANGED vars /\ pc[s] = "loading"
    BY DEF WriteDataset
<1> QED BY <1>4, <1>7, <1>8, <1>9

LEMMA LakeInvWrite ==
    ASSUME SparkInv, LP!LateInv, LP!LockInv, LakeInv,
           NEW s \in SparkRuns, WriteDataset(s)
    PROVE  LakeInv'
<1>1. /\ UNCHANGED vars /\ pc[s] = "loading"
      /\ \E ds \in DatasetNames :
           /\ written[s] + 1 = Job(ds) /\ written'[s] = Job(ds)
           /\ \A r \in SparkRuns \ {s} : written'[r] = written[r]
           /\ \A es \in DatasetNames, d \in Dates :
                lake'[es][d] = IF /\ es = ds /\ d = DateOf[s]
                                  /\ RowCount(ds, FileOf[s]) # 0
                               THEN s ELSE lake[es][d]
    BY WriteStep
<1>2. PICK ds \in DatasetNames :
           /\ written[s] + 1 = Job(ds) /\ written'[s] = Job(ds)
           /\ \A r \in SparkRuns \ {s} : written'[r] = written[r]
           /\ \A es \in DatasetNames, d \in Dates :
                lake'[es][d] = IF /\ es = ds /\ d = DateOf[s]
                                  /\ RowCount(ds, FileOf[s]) # 0
                               THEN s ELSE lake[es][d]
    BY <1>1
<1>3. /\ pc' = pc
      /\ \A q : Late(q)' <=> Late(q)
    BY <1>1 DEF vars, Late, Expires
<1>4. /\ s # NoRun
      /\ \A r \in SparkRuns : DateOf[r] \in Dates
      /\ \A r \in SparkRuns : written[r] \in Nat
    <2>1. s # NoRun /\ \A r \in SparkRuns : r \in Runs /\ DateOf[r] \in Dates
        BY SparkAssumption, LandingAssumption
    <2>2. ASSUME NEW r \in SparkRuns
          PROVE  written[r] \in 0 .. 2
        BY <2>1 DEF SparkInv, LakeTypeOK
    <2> QED BY <2>1, <2>2
<1>5. \A es \in DatasetNames : Job(es) \in {1, 2} /\ (es # ds => Job(es) # Job(ds))
    BY DEF Job, DatasetNames
\* Only this job adds to what has been written.
<1>6. ASSUME NEW es \in DatasetNames, NEW r \in SparkRuns
      PROVE  /\ Wrote(es, r) => Wrote(es, r)'
             /\ Wrote(es, r)' => Wrote(es, r) \/ (es = ds /\ r = s)
    <2>1. CASE r # s
        BY <1>2, <2>1 DEF Wrote
    <2>2. CASE r = s
        BY <1>2, <1>4, <1>5, <2>2 DEF Wrote
    <2> QED BY <2>1, <2>2
<1>7. Wrote(ds, s)' <=> RowCount(ds, FileOf[s]) # 0
    BY <1>2, <1>5 DEF Wrote
<1>8. NothingYet'
    <2>1. pc[s] \notin LP!BeforeLoad
        BY <1>1 DEF LP!BeforeLoad, LP!BeforeCall
    <2> QED BY <1>2, <1>3, <2>1 DEF LakeInv, NothingYet
<1>9. FullPartition'
    BY <1>2, <1>6, <1>7 DEF LakeInv, FullPartition
<1>10. PartitionStays'
    BY <1>2, <1>4, <1>6, <1>7 DEF LakeInv, PartitionStays
<1>11. ReplacedLate'
    <2> SUFFICES ASSUME NEW es \in DatasetNames, NEW r \in SparkRuns,
                        pc[r] = "loading", Wrote(es, r)'
                 PROVE  LET x == lake'[es][DateOf[r]]
                        IN  x = r \/ Late(r) \/ (x # NoRun /\ Late(x))
        BY <1>3 DEF ReplacedLate
    <2>1. CASE lake'[es][DateOf[r]] = s
        <3>1. r = s \/ Late(r) \/ Late(s)
            BY <1>1, LoadsOverlapLate
        <3> QED BY <1>4, <2>1, <3>1
    <2>2. CASE lake'[es][DateOf[r]] # s
        <3>1. lake'[es][DateOf[r]] = lake[es][DateOf[r]]
            BY <1>2, <1>4, <2>2
        <3>2. Wrote(es, r)
            BY <1>2, <1>4, <1>6, <1>7, <2>2
        <3> QED BY <3>1, <3>2 DEF LakeInv, ReplacedLate
    <2> QED BY <2>1, <2>2
<1>12. PartitionsExplained'
    <2> SUFFICES ASSUME NEW d \in Dates,
                        lake'["accepted_orders"][d] # lake'["quarantined_orders"][d]
                 PROVE  LET a == lake'["accepted_orders"][d]
                            q == lake'["quarantined_orders"][d]
                        IN  \/ a # NoRun /\ (written'[a] < 2 \/ Metrics(FileOf[a]).quarantined = 0)
                            \/ q # NoRun /\ Metrics(FileOf[q]).accepted = 0
                            \/ a # NoRun /\ q # NoRun /\ (Late(a) \/ Late(q))
        BY <1>3 DEF PartitionsExplained
    <2> DEFINE a == lake["accepted_orders"][d]
    <2> DEFINE q == lake["quarantined_orders"][d]
    <2>1. "accepted_orders" \in DatasetNames /\ "quarantined_orders" \in DatasetNames
        BY DEF DatasetNames
    <2>2. lake'["accepted_orders"][d] = a \/ (ds = "accepted_orders" /\ lake'["accepted_orders"][d] = s)
        BY <1>2, <2>1
    <2>3. lake'["quarantined_orders"][d] = q \/ (ds = "quarantined_orders" /\ lake'["quarantined_orders"][d] = s)
        BY <1>2, <2>1
    <2>4. CASE lake'["accepted_orders"][d] = s
        <3>1. ds = "accepted_orders" \/ a = s
            BY <2>2, <2>4
        <3>2. CASE ds = "accepted_orders"
            BY <1>2, <1>4, <2>4, <3>2 DEF Job
        <3>3. CASE ds = "quarantined_orders"
            \* The second job of the run whose accepted rows are there.
            <4>1. DateOf[s] = d
                BY <1>4, <2>1, <2>4, <3>1, <3>3 DEF LakeInv, FullPartition
            <4>2. lake'["quarantined_orders"][d] # s
                BY <2>4
            <4>3. RowCount("quarantined_orders", FileOf[s]) = 0
                BY <1>2, <2>1, <3>3, <4>1, <4>2
            <4> QED BY <1>4, <2>4, <4>3 DEF RowCount
        <3> QED BY <3>2, <3>3 DEF DatasetNames
    <2>5. CASE lake'["quarantined_orders"][d] = s /\ lake'["accepted_orders"][d] # s
        <3>1. lake'["accepted_orders"][d] = a
            BY <2>2, <2>5
        <3>2. /\ "accepted_orders" \in DatasetNames
              /\ written'[s] >= 2 /\ DateOf[s] = d
            <4>1. CASE ds = "quarantined_orders" /\ q # s
                BY <1>2, <2>1, <2>5, <4>1 DEF Job
            <4>2. CASE q = s
                <5>1. Wrote("quarantined_orders", s) /\ DateOf[s] = d
                    BY <1>4, <2>1, <4>2 DEF LakeInv, FullPartition
                <5>2. written[s] >= 2
                    BY <5>1 DEF Wrote, Job
                <5>3. FALSE
                    BY <1>2, <1>4, <1>5, <5>2
                <5> QED BY <5>3
            <4> QED BY <2>1, <2>3, <2>5, <4>1, <4>2
        <3>3. CASE RowCount("accepted_orders", FileOf[s]) = 0
            BY <1>4, <2>5, <3>3 DEF RowCount
        <3>4. CASE RowCount("accepted_orders", FileOf[s]) # 0
            <4>1. Wrote("accepted_orders", s)
                BY <1>2, <1>4, <1>5, <3>2, <3>4 DEF Wrote, Job
            <4>2. a # NoRun
                BY <3>2, <4>1 DEF LakeInv, PartitionStays
            <4>3. Late(s) \/ Late(a)
                BY <1>1, <2>5, <3>1, <3>2, <4>1 DEF LakeInv, ReplacedLate
            <4> QED BY <1>4, <2>5, <3>1, <4>2, <4>3
        <3> QED BY <3>3, <3>4
    <2>6. CASE lake'["quarantined_orders"][d] # s /\ lake'["accepted_orders"][d] # s
        <3>1. lake'["accepted_orders"][d] = a /\ lake'["quarantined_orders"][d] = q
            BY <2>2, <2>3, <2>6
        <3>2. a # NoRun => a \in SparkRuns /\ written'[a] = written[a]
            BY <1>2, <2>1, <2>6, <3>1 DEF LakeInv, FullPartition
        <3> QED BY <3>1, <3>2 DEF LakeInv, PartitionsExplained
    <2> QED BY <2>4, <2>5, <2>6
<1> QED BY <1>8, <1>9, <1>10, <1>11, <1>12 DEF LakeInv

LEMMA LakeInvInit == SparkInit => LakeInv
<1> SUFFICES ASSUME SparkInit
             PROVE  LakeInv
    OBVIOUS
<1>1. \A ds \in DatasetNames, d \in Dates : lake[ds][d] = NoRun
    BY DEF SparkInit
<1>2. \A r \in SparkRuns : written[r] = 0
    BY SparkAssumption DEF SparkInit
<1>3. \A ds \in DatasetNames, r \in SparkRuns : ~Wrote(ds, r)
    BY <1>2 DEF Wrote, Job
<1>4. PartitionsExplained
    BY <1>1 DEF PartitionsExplained, DatasetNames
<1> QED BY <1>1, <1>2, <1>3, <1>4
        DEF LakeInv, NothingYet, FullPartition, PartitionStays, ReplacedLate

LEMMA LakeInvStep ==
    SparkInv /\ LP!LateInv /\ LP!LockInv /\ LakeInv /\ [SparkNext]_sparkVars => LakeInv'
<1> SUFFICES ASSUME SparkInv, LP!LateInv, LP!LockInv, LakeInv, [SparkNext]_sparkVars
             PROVE  LakeInv'
    OBVIOUS
<1>1. CASE UNCHANGED lakeVars
    BY <1>1, LakeInvFrame
<1>2. ASSUME NEW s \in SparkRuns, WriteDataset(s)
      PROVE  LakeInv'
    BY <1>2, LakeInvWrite
<1>3. ASSUME NEW s \in SparkRuns, AuditCommit(s)
      PROVE  UNCHANGED lakeVars
    BY <1>3 DEF AuditCommit
<1> QED BY <1>1, <1>2, <1>3, SparkFrame

\* The store of either engine is under the lease of Landing.
LEMMA SparkLeases == SparkSpec => []LP!LateInv /\ []LP!LockInv
<1>1. SparkSpec => LP!LandingSpec
    BY SparkInitMaps, SparkStepIsLandings, SparkInvariant, PTL
    DEF SparkSpec, LP!LandingSpec
<1>2. LP!LandingSpec => []LP!LateInv
    BY LP!LateInvariant, LockAssumption, LandingAssumption
<1>3. LP!LandingSpec => LP!LockSpec
    BY LP!LandingUsesLock, LockAssumption, LandingAssumption
<1>4. LP!LockSpec => []LP!LockInv
    BY LP!LockInvariant, LockAssumption, LandingAssumption
<1> QED BY <1>1, <1>2, <1>3, <1>4, PTL

LEMMA LakeInvariant == SparkSpec => []LakeInv
BY LakeInvInit, LakeInvStep, SparkInvariant, SparkLeases, PTL DEF SparkSpec

-----------------------------------------------------------------------------
(* The theorems *)

\* The variables of the two engines keep their types.
THEOREM SparkTypeCorrect == SparkSpec => []SparkTypeOK
<1>1. SparkInv => SparkTypeOK
    <2> SUFFICES ASSUME SparkInv PROVE SparkTypeOK
        OBVIOUS
    <2>1. LP!LandingTypeOK
        BY DEF SparkInv, LP!LandingInv
    <2>2. LandingTypeOK
        BY <2>1, InvTypes
        DEF LP!LandingTypeOK, LandingTypeOK, LP!LockTypeOK, LockTypeOK,
            LP!LockRows, LockRows, LP!LockPhases, LockPhases, LP!Pcs, Pcs,
            LP!ClaimPcs, ClaimPcs, LP!SectionPcs, SectionPcs, LP!EndPcs, EndPcs,
            LP!ManifestRows, ManifestRows
    <2> QED BY <2>2 DEF SparkTypeOK, SparkInv, LakeTypeOK
<1> QED BY <1>1, SparkInvariant, PTL

\* The warehouse pipeline and the Spark path on one manifest implement the
\* landing zone, on both databases and under every fault.
THEOREM SparkImplementsLanding == SparkSpec => ImplementsLanding
BY SparkInitMaps, SparkStepMaps, SparkInvariant, PTL
   DEF SparkSpec, ImplementsLanding, AsLanding!LandingSpec

\* A succeeded manifest row names a run that has loaded that content into its
\* own engine's store, whichever engine it is, under every fault.
THEOREM SucceededRowsAreStored == SparkSpec => []SucceededRowIsStored
<1>1. SparkInv => SucceededRowIsStored
    <2> SUFFICES ASSUME SparkInv, NEW f \in Files, manifest[f].status = "succeeded"
                 PROVE  \E r \in Runs :
                            /\ manifest[f].run = r /\ FileOf[r] = f
                            /\ runRow[r] = "succeeded"
                            /\ IF r \in SparkRuns THEN written[r] = 2 ELSE r \in warehouse
        BY DEF SucceededRowIsStored
    <2>1. PICK r \in Stored : /\ FileOf[r] = f /\ manifest[f].run = r
                              /\ runRow[r] = "succeeded"
        BY DEF SparkInv, LP!LandingInv, LP!SucceededRowIsTrue
    <2>2. r \in Runs
        BY <2>1, InvTypes, SparkAssumption DEF Stored
    <2> QED BY <2>1, <2>2 DEF SparkInv, EnginesApart, Stored
<1> QED BY <1>1, SparkInvariant, PTL

\* On SQLite, content that either engine has settled is left alone by both.
THEOREM SettledLeftAlone ==
    ASSUME Dialect = "sqlite"
    PROVE  SparkSpec => SettledContentIsLeftAlone
<1>1. LP!LandingSpec => []LP!SqliteInv
    BY LP!SqliteInvariant, LockAssumption, LandingAssumption
<1>2. SparkSpec => LP!LandingSpec
    BY SparkInitMaps, SparkStepIsLandings, SparkInvariant, PTL
    DEF SparkSpec, LP!LandingSpec
<1>3. LP!SqliteInv /\ SparkInv /\ [SparkNext]_sparkVars =>
          [\A f \in Files : manifest[f].status = "succeeded" =>
              /\ \A r \in warehouse' \ warehouse : FileOf[r] # f
              /\ \A r \in SparkRuns : written'[r] # written[r] => FileOf[r] # f]_sparkVars
    <2> SUFFICES ASSUME LP!SqliteInv, SparkInv, [SparkNext]_sparkVars,
                        NEW f \in Files, manifest[f].status = "succeeded"
                 PROVE  /\ \A r \in warehouse' \ warehouse : FileOf[r] # f
                        /\ \A r \in SparkRuns : written'[r] # written[r] => FileOf[r] # f
        OBVIOUS
    <2>1. \A r \in Runs : pc[r] = "loading" => FileOf[r] # f
        BY DEF LP!SqliteInv, LP!ClaimBinds, LP!BoundPcs, LP!ClaimPcs,
               LP!SectionPcs, LP!Status
    <2>2. \A r \in warehouse' \ warehouse : r \in Runs /\ pc[r] = "loading"
        <3>1. CASE Clock \/ UNCHANGED sparkVars
            BY <3>1 DEF Clock, dataVars, sparkVars, vars
        <3>2. ASSUME NEW s \in Runs, Step(s) \/ Fault(s)
              PROVE  \A r \in warehouse' \ warehouse : r = s /\ pc[s] = "loading"
            BY <3>2
            DEF Step, Fault, ClaimFile, ClaimNew, ClaimSkip, ClaimReject,
                ClaimFailed, Reclaim, RunPipeline, EmitStart, EnterAcquire,
                EnterSection, LockedOut, ReadAndValidate, LoadCommit,
                LoadRollback, RecordFailure, EmitFail, LeaveSection,
                EmitComplete, FinishFile, FinishSucceeded, FinishFailed,
                ConnectError, RecordError, ReleaseError, FinishError, Interrupt,
                Crash, dataVars
        <3>3. ASSUME NEW s \in SparkRuns, WriteDataset(s) \/ AuditCommit(s)
              PROVE  UNCHANGED warehouse
            BY <3>3 DEF WriteDataset, AuditCommit, vars
        <3> QED BY <3>1, <3>2, <3>3, SparkAssumption
                DEF SparkNext, SparkPipeline, LandingStep
    <2>3. \A r \in SparkRuns : written'[r] # written[r] => pc[r] = "loading"
        <3>1. CASE UNCHANGED lakeVars
            BY <3>1 DEF lakeVars
        <3>2. ASSUME NEW s \in SparkRuns, WriteDataset(s)
              PROVE  \A r \in SparkRuns : written'[r] # written[r] => pc[r] = "loading"
            BY <3>2, SparkAssumption DEF WriteDataset, SparkInv, LakeTypeOK
        <3>3. ASSUME NEW s \in SparkRuns, AuditCommit(s)
              PROVE  UNCHANGED lakeVars
            BY <3>3 DEF AuditCommit
        <3> QED BY <3>1, <3>2, <3>3, SparkFrame
    <2> QED BY <2>1, <2>2, <2>3, SparkAssumption
<1> QED BY <1>1, <1>2, <1>3, SparkInvariant, PTL
        DEF SparkSpec, SettledContentIsLeftAlone

\* Two partitions of a date that come from different runs are explained by the
\* rows those runs had, by a run between its jobs, or by a late lease.
THEOREM PartitionsAreExplained == SparkSpec => []PartitionsExplained
<1>1. LakeInv => PartitionsExplained
    BY DEF LakeInv
<1> QED BY <1>1, LakeInvariant, PTL

\* A Spark run is recorded as succeeded with its rows in both partitions,
\* unless it or the run whose rows are there has outlived its lease.
THEOREM AuditedRunsAreInTheLake == SparkSpec => AuditMatchesLake
<1>1. SparkInv /\ LP!LockInv /\ LakeInv /\ [SparkNext]_sparkVars =>
          [\A r \in SparkRuns :
              runRow[r] # "succeeded" /\ runRow'[r] = "succeeded" =>
                  \/ Lapsed(r)
                  \/ \A ds \in DatasetNames : Holds(ds, r) \/ LateIn(ds, r)]_sparkVars
    <2> SUFFICES ASSUME SparkInv, LP!LockInv, LakeInv, [SparkNext]_sparkVars,
                        NEW r \in SparkRuns,
                        runRow[r] # "succeeded", runRow'[r] = "succeeded",
                        ~Lapsed(r), NEW ds \in DatasetNames
                 PROVE  Holds(ds, r) \/ LateIn(ds, r)
        OBVIOUS
    <2>1. r \in Runs /\ DateOf[r] \in Dates
        BY SparkAssumption
    <2>2. AuditCommit(r)
        <3>1. ASSUME NEW s \in SparkRuns, WriteDataset(s)
              PROVE  UNCHANGED runRow
            BY <3>1 DEF WriteDataset, vars
        <3>2. ASSUME NEW s \in SparkRuns, AuditCommit(s), s # r
              PROVE  runRow'[r] = runRow[r]
            BY <2>1, <3>2, InvTypes DEF AuditCommit
        <3> QED BY <3>1, <3>2, SparkFrame
    <2>3. CASE RowCount(ds, FileOf[r]) = 0
        BY <2>3 DEF Holds
    <2>4. CASE RowCount(ds, FileOf[r]) # 0
        <3>1. pc[r] = "loading" /\ Wrote(ds, r)
            BY <2>2, <2>4 DEF AuditCommit, Wrote, Job
        <3>2. \/ lake[ds][DateOf[r]] = r
              \/ Late(r)
              \/ lake[ds][DateOf[r]] # NoRun /\ Late(lake[ds][DateOf[r]])
            BY <3>1 DEF LakeInv, ReplacedLate
        <3>3. lake[ds][DateOf[r]] # NoRun => lake[ds][DateOf[r]] \in Runs
            BY <2>1, SparkAssumption DEF LakeInv, FullPartition
        <3> QED BY <2>1, <3>2, <3>3, LateHasLapsed DEF Holds, LateIn
    <2> QED BY <2>3, <2>4
<1> QED BY <1>1, SparkInvariant, SparkLeases, LakeInvariant, PTL
        DEF SparkSpec, AuditMatchesLake

-----------------------------------------------------------------------------
(* The ledger of both engines *)

\* On SQLite, without database errors and lost strict events, a content is
\* recorded as loaded by one run of one engine at most.
THEOREM OneEngineLoadsAFile ==
    ASSUME LP!NoLateFaults
    PROVE  SparkSpec => [](\A r, s \in Stored : FileOf[r] = FileOf[s] => r = s)
<1>1. SparkSpec => LP!LandingSpec
    BY SparkInitMaps, SparkStepIsLandings, SparkInvariant, PTL
    DEF SparkSpec, LP!LandingSpec
<1>2. LP!LandingSpec => []LP!LoadedAtMostOnce
    BY LP!LoadedOnce, LockAssumption, LandingAssumption
<1>3. LP!LoadedAtMostOnce /\ SparkInv => \A r, s \in Stored : FileOf[r] = FileOf[s] => r = s
    <2> SUFFICES ASSUME LP!LoadedAtMostOnce, SparkInv,
                        NEW r \in Stored, NEW s \in Stored, FileOf[r] = FileOf[s]
                 PROVE  r = s
        OBVIOUS
    <2>1. r \in Runs
        BY InvTypes, SparkAssumption DEF Stored
    <2>2. FileOf[r] \in Files
        BY <2>1, LandingAssumption
    <2> QED BY <2>2 DEF LP!LoadedAtMostOnce, LP!LoadedBy
<1> QED BY <1>1, <1>2, <1>3, SparkInvariant, PTL

\* Under the same assumption both engines together implement FileLedger: it
\* is one ledger, whichever of them claims, loads or gives back.
THEOREM EnginesImplementLedger ==
    ASSUME LP!NoLateFaults
    PROVE  SparkSpec => LP!ImplementsLedger
<1>1. SparkSpec => LP!LandingSpec
    BY SparkInitMaps, SparkStepIsLandings, SparkInvariant, PTL
    DEF SparkSpec, LP!LandingSpec
<1>2. LP!LandingSpec => LP!ImplementsLedger
    BY LP!LandingImplementsLedger, LockAssumption, LandingAssumption
<1> QED BY <1>1, <1>2

-----------------------------------------------------------------------------
(* transform_orders, for every file *)

LEMMA LinesOfFile ==
    ASSUME NEW f \in Files
    PROVE  /\ Len(Lines[f]) \in Nat
           /\ DOMAIN Lines[f] = 1 .. Len(Lines[f])
           /\ IsFiniteSet(DOMAIN Lines[f])
           /\ Cardinality(DOMAIN Lines[f]) = Len(Lines[f])
           /\ \A i \in DOMAIN Lines[f] : Lines[f][i] \in LineType
<1>1. Lines[f] \in Seq(LineType)
    BY SparkAssumption
<1>2. /\ Len(Lines[f]) \in Nat
      /\ DOMAIN Lines[f] = 1 .. Len(Lines[f])
      /\ \A i \in DOMAIN Lines[f] : Lines[f][i] \in LineType
    BY <1>1
<1>3. /\ IsFiniteSet(1 .. Len(Lines[f]))
      /\ Cardinality(1 .. Len(Lines[f])) = Len(Lines[f])
    BY <1>2, FS_Interval
<1> QED BY <1>2, <1>3

\* Two rows of an order that are both first in the window are one row.
LEMMA FirstRowIsUnique ==
    ASSUME NEW f \in Files, NEW p \in Accepted(f), NEW q \in Accepted(f),
           p.order = q.order
    PROVE  p = q
<1>1. PICK i \in Valid(f) : p = Lines[f][i] /\ \A j \in Valid(f) :
          Lines[f][j].order = p.order => ~RankedAbove(Lines[f][j], p)
    BY DEF Accepted
<1>2. PICK j \in Valid(f) : q = Lines[f][j] /\ \A k \in Valid(f) :
          Lines[f][k].order = q.order => ~RankedAbove(Lines[f][k], q)
    BY DEF Accepted
<1>3. p \in LineType /\ q \in LineType /\ p.valid = TRUE /\ q.valid = TRUE
    BY <1>1, <1>2, LinesOfFile DEF Valid, LineType
<1>4. ~RankedAbove(p, q) /\ ~RankedAbove(q, p)
    BY <1>1, <1>2
<1>5. /\ p.ver \in Nat /\ q.ver \in Nat
      /\ p.digest \in Nat /\ q.digest \in Nat
    BY <1>3 DEF LineType
<1>6. p.ver = q.ver /\ p.digest = q.digest
    BY <1>4, <1>5 DEF RankedAbove
<1> QED BY <1>3, <1>6 DEF LineType

\* A family of subsets of a finite set has a member that contains no other.
LEMMA SmallestMember ==
    ASSUME NEW T, IsFiniteSet(T), NEW A \in SUBSET SUBSET T, A # {}
    PROVE  \E U \in A : \A V \in A : V \subseteq U => V = U
<1> DEFINE R == StrictSubsetOrdering(T)
           S == FiniteSubsetsOf(T)
<1>1. IsWellFoundedOn(R, S)
    BY FS_StrictSubsetOrderingWellFounded
<1>2. A \subseteq S
    BY FS_Subset DEF FiniteSubsetsOf
<1>3. ASSUME NEW RR, NEW SS, IsWellFoundedOn(RR, SS), NEW B \in SUBSET SS, B # {}
      PROVE  \E x \in B : \A y \in B : ~(<<y, x>> \in RR)
    BY <1>3, WFMin
<1>4. PICK U \in A : \A V \in A : <<V, U>> \notin R
    <2> HIDE DEF R, S
    <2> QED BY <1>1, <1>2, <1>3
<1> QED BY <1>2, <1>4 DEF StrictSubsetOrdering

\* Of the valid lines of an order, one has no other ranked above it.
LEMMA FirstRowExists ==
    ASSUME NEW f \in Files, NEW i \in Valid(f)
    PROVE  \E p \in Accepted(f) :
               p.order = Lines[f][i].order /\ ~RankedAbove(Lines[f][i], p)
<1> DEFINE C == {j \in Valid(f) : Lines[f][j].order = Lines[f][i].order}
           Above(j) == {k \in C : RankedAbove(Lines[f][k], Lines[f][j])}
           A == {Above(j) : j \in C}
<1>1. IsFiniteSet(C) /\ A \in SUBSET SUBSET C /\ A # {}
    <2>1. C \in SUBSET DOMAIN Lines[f]
        BY DEF Valid
    <2>2. i \in C
        OBVIOUS
    <2>3. IsFiniteSet(DOMAIN Lines[f])
        BY LinesOfFile
    <2>4. IsFiniteSet(C)
        <3> HIDE DEF C
        <3> QED BY <2>1, <2>3, FS_Subset
    <2> QED BY <2>2, <2>4
<1>2. PICK U \in A : \A V \in A : V \subseteq U => V = U
    <2> HIDE DEF C, A
    <2> QED BY <1>1, SmallestMember
<1>3. PICK j \in C : U = Above(j)
    OBVIOUS
<1>4. \A k \in C : /\ Lines[f][k].ver \in Nat /\ Lines[f][k].digest \in Nat
    BY LinesOfFile DEF Valid, LineType
<1>5. ASSUME NEW k \in Above(j)
      PROVE  FALSE
    <2>1. k \in C /\ RankedAbove(Lines[f][k], Lines[f][j])
        OBVIOUS
    <2>2. Above(k) \in A
        BY <2>1
    <2>3. \A l \in C : RankedAbove(Lines[f][l], Lines[f][k]) =>
                           RankedAbove(Lines[f][l], Lines[f][j])
        <3> HIDE DEF C
        <3> QED BY <1>3, <1>4, <2>1 DEF RankedAbove
    <2>4. Above(k) \subseteq Above(j)
        BY <2>3
    <2>5. Above(k) = Above(j)
        <3> HIDE DEF Above, A
        <3> QED BY <1>2, <1>3, <2>2, <2>4
    <2>6. k \notin Above(k)
        <3>1. ~RankedAbove(Lines[f][k], Lines[f][k])
            <4> HIDE DEF C
            <4> QED BY <1>4, <2>1 DEF RankedAbove
        <3> QED BY <3>1
    <2> QED BY <2>5, <2>6
<1>6. \A k \in Valid(f) : Lines[f][k].order = Lines[f][j].order
                              => ~RankedAbove(Lines[f][k], Lines[f][j])
    BY <1>5
<1> QED BY <1>6 DEF Accepted

\* At most one accepted row for each valid line, and no line is lost.
LEMMA CountsAddUp ==
    ASSUME NEW f \in Files
    PROVE  /\ Metrics(f).deduplicated \in Nat
           /\ Metrics(f).input = Metrics(f).accepted + Metrics(f).quarantined
                                     + Metrics(f).deduplicated
<1>1. /\ IsFiniteSet(DOMAIN Lines[f])
      /\ Cardinality(DOMAIN Lines[f]) = Len(Lines[f])
      /\ Valid(f) \in SUBSET DOMAIN Lines[f]
    BY LinesOfFile DEF Valid
<1>2. IsFiniteSet(Valid(f)) /\ Cardinality(Valid(f)) \in Nat
    BY <1>1, FS_Subset, FS_CardinalityType
<1>3. /\ Cardinality(Quarantined(f)) = Len(Lines[f]) - Cardinality(Valid(f))
    <2>1. Cardinality(Quarantined(f)) =
              Cardinality(DOMAIN Lines[f]) - Cardinality(DOMAIN Lines[f] \cap Valid(f))
        BY <1>1, FS_Difference DEF Quarantined
    <2>2. DOMAIN Lines[f] \cap Valid(f) = Valid(f)
        BY <1>1
    <2> QED BY <1>1, <2>1, <2>2
<1> DEFINE I == {i \in Valid(f) : \A j \in Valid(f) :
                     Lines[f][j].order = Lines[f][i].order
                         => ~RankedAbove(Lines[f][j], Lines[f][i])}
           g == [i \in I |-> Lines[f][i]]
<1>4. I \in SUBSET Valid(f) /\ Accepted(f) = {Lines[f][i] : i \in I}
    BY DEF Accepted
<1>5. g \in Surjection(I, Accepted(f))
    <2> HIDE DEF I
    <2> QED BY <1>4 DEF Surjection
<1>6. /\ IsFiniteSet(I) /\ Cardinality(I) <= Cardinality(Valid(f))
      /\ Cardinality(I) \in Nat
    <2> HIDE DEF I
    <2> QED BY <1>2, <1>4, FS_Subset, FS_CardinalityType
<1>7. /\ Cardinality(Accepted(f)) <= Cardinality(I)
      /\ Cardinality(Accepted(f)) \in Nat
    <2>1. IsFiniteSet(Accepted(f)) /\ Cardinality(Accepted(f)) <= Cardinality(I)
        <3> HIDE DEF I, g
        <3> QED BY <1>5, <1>6, FS_Surjection
    <2> QED BY <2>1, FS_CardinalityType
<1>8. /\ Metrics(f).input = Len(Lines[f])
      /\ Metrics(f).accepted = Cardinality(Accepted(f))
      /\ Metrics(f).quarantined = Cardinality(Quarantined(f))
      /\ Metrics(f).deduplicated = Cardinality(Valid(f)) - Cardinality(Accepted(f))
    BY DEF Metrics
<1>9. Len(Lines[f]) \in Nat
    BY LinesOfFile
<1> HIDE DEF I, g
<1> QED BY <1>2, <1>3, <1>6, <1>7, <1>8, <1>9

\* Of every file, whatever its lines: each order with a valid line has one
\* accepted row, which none of its lines outranks, the uniqueness check of
\* spark_quality_results never refuses it, and the counts of the run row add up
\* to the lines.
THEOREM TransformKeepsOneRowPerOrder ==
    \A f \in Files :
        /\ QualityHolds(f)
        /\ \A i \in Valid(f) : \E p \in Accepted(f) :
               p.order = Lines[f][i].order /\ ~RankedAbove(Lines[f][i], p)
        /\ Metrics(f).deduplicated \in Nat
        /\ Metrics(f).input = Metrics(f).accepted + Metrics(f).quarantined
                                  + Metrics(f).deduplicated
BY FirstRowIsUnique, FirstRowExists, CountsAddUp DEF QualityHolds

=============================================================================
