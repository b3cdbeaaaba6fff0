---------------------------- MODULE LandingProofs ----------------------------
(* Proofs about the landing zone of Landing.                               *)
EXTENDS Landing, PipelineLockProofs

(* The lock inside the landing zone *)

\* Every step of an invocation is a step of the lock or leaves it alone.
LEMMA LockStepOfLanding ==
    [LandingNext]_vars => [LockNext]_lockVars
<1> SUFFICES ASSUME [LandingNext]_vars
             PROVE  [LockNext]_lockVars
    OBVIOUS
<1>1. CASE Clock
    BY <1>1 DEF Clock, LockNext
<1>2. ASSUME NEW r \in Runs, Step(r)
      PROVE  [LockNext]_lockVars
    <2>1. CASE ClaimFile(r) \/ Reclaim(r)
        BY <2>1 DEF ClaimFile, ClaimNew, ClaimSkip, ClaimReject, ClaimFailed,
                    Reclaim
    <2>2. CASE RunPipeline(r)
        BY <2>2 DEF RunPipeline, EmitStart, EnterAcquire, EnterSection,
                    LockedOut, ReadAndValidate, LoadCommit, LoadRollback,
                    RecordFailure, EmitFail, LeaveSection, EmitComplete,
                    LockNext, LockCall
    <2>3. CASE FinishFile(r)
        BY <2>3 DEF FinishFile, FinishSucceeded, FinishFailed
    <2> QED
        BY <1>2, <2>1, <2>2, <2>3 DEF Step
<1>3. ASSUME NEW r \in Runs, Fault(r)
      PROVE  [LockNext]_lockVars
    BY <1>3 DEF Fault, ConnectError, RecordError, ReleaseError, FinishError,
                Interrupt, Crash, LockNext
<1>4. CASE UNCHANGED vars
    BY <1>4 DEF vars, lockVars
<1> QED
    BY <1>1, <1>2, <1>3, <1>4 DEF LandingNext

\* The landing zone uses the lock as PipelineLock specifies it.
THEOREM LandingUsesLock == LandingSpec => LockSpec
<1>1. LandingInit => LockInit
    BY DEF LandingInit
<1> QED
    BY <1>1, LockStepOfLanding, PTL DEF LandingSpec, LockSpec

\* So two pipeline runs are in their protected sections at one time only when
\* one has outlived its lease, whatever fails around them.
THEOREM LandingMutualExclusion == LandingSpec => []OverlapOnlyAfterExpiry
BY LandingUsesLock, LockMutualExclusion, PTL

-----------------------------------------------------------------------------
(* Types *)

LEMMA LandingTypeInit == LandingInit => LandingTypeOK
<1> SUFFICES ASSUME LandingInit
             PROVE  LandingTypeOK
    OBVIOUS
<1>1. LockTypeOK
    BY LockInvInit DEF LandingInit, LockInv
<1> QED
    BY <1>1 DEF LandingInit, LandingTypeOK, Pcs, ManifestRows, Row

LEMMA RowType ==
    ASSUME NEW status \in {"absent", "processing", "succeeded", "failed"},
           NEW run \in Runs \cup {NoRun}
    PROVE  Row(status, run) \in ManifestRows
BY DEF Row, ManifestRows

LEMMA SetManifestType ==
    ASSUME LandingTypeOK, NEW r \in Runs, NEW row \in ManifestRows,
           SetManifest(r, row)
    PROVE  manifest' \in [Files -> ManifestRows]
BY LandingAssumption DEF LandingTypeOK, SetManifest

LEMMA ClaimTypeStep ==
    ASSUME LandingTypeOK, LockTypeOK', NEW r \in Runs,
           ClaimFile(r) \/ Reclaim(r)
    PROVE  LandingTypeOK'
<1> USE DEF LandingTypeOK, Goto, Pcs, ClaimPcs, EndPcs, dataVars
<1>1. CASE ClaimNew(r) \/ Reclaim(r)
    <2>1. manifest' \in [Files -> ManifestRows]
        BY <1>1, RowType, SetManifestType DEF ClaimNew, Reclaim
    <2> QED
        BY <1>1, <2>1 DEF ClaimNew, Reclaim
<1>2. CASE ClaimSkip(r) \/ ClaimReject(r)
    BY <1>2 DEF ClaimSkip, ClaimReject
<1>3. CASE ClaimFailed(r)
    <2>1. manifest' \in [Files -> ManifestRows]
        BY <1>3, RowType, SetManifestType DEF ClaimFailed
    <2> QED
        BY <1>3, <2>1 DEF ClaimFailed
<1> QED
    BY <1>1, <1>2, <1>3 DEF ClaimFile

LEMMA EmitTypeStep ==
    ASSUME LandingTypeOK, NEW r \in Runs,
           NEW event \in {"START", "COMPLETE", "FAIL"},
           NEW next \in Pcs, NEW raised \in Pcs,
           Emit(r, event, next, raised)
    PROVE  /\ events' \in [Runs -> SUBSET {"START", "COMPLETE", "FAIL"}]
           /\ pc' \in [Runs -> Pcs]
BY DEF LandingTypeOK, Emit, Goto

LEMMA RunTypeStep ==
    ASSUME LandingTypeOK, LockTypeOK', NEW r \in Runs, RunPipeline(r)
    PROVE  LandingTypeOK'
<1> USE DEF LandingTypeOK, Goto, Pcs, ClaimPcs, SectionPcs, EndPcs, dataVars
<1>1. CASE EmitStart(r)
    BY <1>1, EmitTypeStep DEF EmitStart
<1>2. CASE EmitFail(r)
    BY <1>2, EmitTypeStep DEF EmitFail
<1>3. CASE EmitComplete(r)
    BY <1>3, EmitTypeStep DEF EmitComplete
<1>4. CASE EnterAcquire(r) \/ EnterSection(r) \/ LockedOut(r)
    BY <1>4 DEF EnterAcquire, EnterSection, LockedOut
<1>5. CASE ReadAndValidate(r) \/ LoadRollback(r)
    BY <1>5 DEF ReadAndValidate, LoadRollback
<1>6. CASE LoadCommit(r) \/ RecordFailure(r)
    BY <1>6 DEF LoadCommit, RecordFailure
<1>7. CASE LeaveSection(r)
    BY <1>7 DEF LeaveSection, AfterRelease
<1> QED
    BY <1>1, <1>2, <1>3, <1>4, <1>5, <1>6, <1>7 DEF RunPipeline

LEMMA FinishTypeStep ==
    ASSUME LandingTypeOK, LockTypeOK', NEW r \in Runs, FinishFile(r)
    PROVE  LandingTypeOK'
<1>1. manifest' \in [Files -> ManifestRows]
    BY RowType, SetManifestType
    DEF FinishFile, FinishSucceeded, FinishFailed
<1> QED
    BY <1>1 DEF LandingTypeOK, FinishFile, FinishSucceeded, FinishFailed, Goto,
                Pcs, EndPcs

LEMMA FaultTypeStep ==
    ASSUME LandingTypeOK, LockTypeOK', NEW r \in Runs, Fault(r)
    PROVE  LandingTypeOK'
<1> USE DEF LandingTypeOK, Goto, Pcs, ClaimPcs, SectionPcs, EndPcs, dataVars
<1>1. CASE ConnectError(r) \/ RecordError(r)
    BY <1>1 DEF ConnectError, RecordError
<1>2. CASE ReleaseError(r) \/ FinishError(r)
    BY <1>2 DEF ReleaseError, FinishError
<1>3. CASE Interrupt(r) \/ Crash(r)
    BY <1>3 DEF Interrupt, Crash
<1> QED
    BY <1>1, <1>2, <1>3 DEF Fault

LEMMA LandingTypeStep ==
    LandingTypeOK /\ [LandingNext]_vars => LandingTypeOK'
<1> SUFFICES ASSUME LandingTypeOK, [LandingNext]_vars
             PROVE  LandingTypeOK'
    OBVIOUS
<1>1. LockTypeOK'
    BY LockStepOfLanding, LockTypeStep DEF LandingTypeOK
<1>2. CASE Clock
    BY <1>1, <1>2 DEF Clock, LandingTypeOK, dataVars
<1>3. CASE UNCHANGED vars
    BY <1>1, <1>3 DEF vars, LandingTypeOK
<1> QED
    BY <1>1, <1>2, <1>3, ClaimTypeStep, RunTypeStep, FinishTypeStep,
       FaultTypeStep
    DEF LandingNext, Step

\* The variables of the landing zone keep their types.
THEOREM LandingTypeCorrect == LandingSpec => []LandingTypeOK
BY LandingTypeInit, LandingTypeStep, PTL DEF LandingSpec
-----------------------------------------------------------------------------
(* What holds of one invocation, in every dialect *)

\* Before the load commits and before the failure is recorded.
FreshPcs == {"idle", "reclaiming", "claimed", "starting", "locking",
             "validating", "loading", "recording", "skipped", "rejected"}

\* The control state of an invocation, its run row, its warehouse rows and
\* its events go together.
RunState(r) ==
    /\ pc[r] \in SectionPcs => lockPhase[r] = "holding"
    /\ r \in warehouse <=> runRow[r] = "succeeded"
    /\ "COMPLETE" \in events[r] => r \in warehouse
    /\ "FAIL" \in events[r] => runRow[r] = "failed"
    /\ pc[r] \in FreshPcs => runRow[r] = "none"
    /\ pc[r] = "announcing" => runRow[r] = "failed"
    /\ pc[r] \in {"unwinding", "interrupted"} => r \notin warehouse
    /\ pc[r] \in {"loaded", "committed", "finishing", "done"} => r \in warehouse

RunStates == \A r \in Runs : RunState(r)

\* The part of the invariant that needs no assumption on the database.
LandingInv ==
    /\ LandingTypeOK
    /\ RunStates
    /\ SucceededRowIsTrue

\* An invocation's step leaves the state of every other invocation alone.
LEMMA StepFrame ==
    ASSUME LandingTypeOK, NEW r \in Runs, Step(r) \/ Fault(r),
           NEW s \in Runs, s # r
    PROVE  /\ pc'[s] = pc[s]
           /\ lockPhase'[s] = lockPhase[s]
           /\ runRow'[s] = runRow[s]
           /\ events'[s] = events[s]
           /\ s \in warehouse' <=> s \in warehouse
<1> USE DEF LandingTypeOK, LockTypeOK, Goto, dataVars, lockVars
<1>1. CASE ClaimFile(r) \/ Reclaim(r)
    BY <1>1 DEF ClaimFile, ClaimNew, ClaimSkip, ClaimReject, ClaimFailed,
                Reclaim
<1>2. CASE EmitStart(r) \/ EmitFail(r) \/ EmitComplete(r)
    BY <1>2 DEF EmitStart, EmitFail, EmitComplete, Emit
<1>3. CASE EnterAcquire(r) \/ EnterSection(r) \/ LockedOut(r)
    BY <1>3 DEF EnterAcquire, EnterSection, LockedOut, ReadClock, AcquireLock,
                LockOut
<1>4. CASE ReadAndValidate(r) \/ LoadCommit(r) \/ LoadRollback(r) \/ RecordFailure(r)
    BY <1>4 DEF ReadAndValidate, LoadCommit, LoadRollback, RecordFailure
<1>5. CASE LeaveSection(r)
    BY <1>5 DEF LeaveSection, ReleaseLock
<1>6. CASE FinishFile(r)
    BY <1>6 DEF FinishFile, FinishSucceeded, FinishFailed
<1>7. CASE ConnectError(r) \/ RecordError(r) \/ ReleaseError(r)
    BY <1>7 DEF ConnectError, RecordError, ReleaseError, ReleaseLockError
<1>8. CASE FinishError(r) \/ Interrupt(r) \/ Crash(r)
    BY <1>8 DEF FinishError, Interrupt, Crash, CrashHolder
<1> QED
    BY <1>1, <1>2, <1>3, <1>4, <1>5, <1>6, <1>7, <1>8
    DEF Step, Fault, RunPipeline

\* Its own state stays consistent.
LEMMA RunStateOwnStep ==
    ASSUME LandingTypeOK, NEW r \in Runs, RunState(r), Step(r) \/ Fault(r)
    PROVE  RunState(r)'
<1> USE DEF LandingTypeOK, LockTypeOK, RunState, Goto, dataVars, lockVars,
            FreshPcs, SectionPcs
<1>1. CASE ClaimFile(r) \/ Reclaim(r)
    BY <1>1 DEF ClaimFile, ClaimNew, ClaimSkip, ClaimReject, ClaimFailed,
                Reclaim
<1>2. CASE EmitStart(r)
    BY <1>2 DEF EmitStart, Emit
<1>3. CASE EmitFail(r)
    BY <1>3 DEF EmitFail, Emit
<1>4. CASE EmitComplete(r)
    BY <1>4 DEF EmitComplete, Emit
<1>5. CASE EnterAcquire(r) \/ EnterSection(r) \/ LockedOut(r)
    BY <1>5 DEF EnterAcquire, EnterSection, LockedOut, ReadClock, AcquireLock,
                LockOut
<1>6. CASE ReadAndValidate(r) \/ LoadRollback(r)
    BY <1>6 DEF ReadAndValidate, LoadRollback
<1>7. CASE LoadCommit(r) \/ RecordFailure(r)
    BY <1>7 DEF LoadCommit, RecordFailure
<1>8. CASE LeaveSection(r)
    BY <1>8 DEF LeaveSection, ReleaseLock, AfterRelease
<1>9. CASE FinishFile(r)
    BY <1>9 DEF FinishFile, FinishSucceeded, FinishFailed
<1>10. CASE ConnectError(r) \/ RecordError(r) \/ ReleaseError(r)
    BY <1>10 DEF ConnectError, RecordError, ReleaseError, ReleaseLockError
<1>11. CASE FinishError(r) \/ Interrupt(r)
    BY <1>11 DEF FinishError, Interrupt
<1>12. CASE Crash(r)
    BY <1>12 DEF Crash, CrashHolder
<1> QED
    BY <1>1, <1>2, <1>3, <1>4, <1>5, <1>6, <1>7, <1>8, <1>9, <1>10, <1>11,
       <1>12
    DEF Step, Fault, RunPipeline

LEMMA RunStatesStep ==
    LandingTypeOK /\ RunStates /\ [LandingNext]_vars => RunStates'
<1> SUFFICES ASSUME LandingTypeOK, RunStates, [LandingNext]_vars,
                    NEW s \in Runs
             PROVE  RunState(s)'
    BY DEF RunStates
<1>1. RunState(s)
    BY DEF RunStates
<1>2. CASE Clock \/ UNCHANGED vars
    BY <1>1, <1>2 DEF Clock, Tick, vars, dataVars, RunState
<1>3. ASSUME NEW r \in Runs, Step(r) \/ Fault(r)
      PROVE  RunState(s)'
    <2>1. CASE r = s
        BY <1>1, <1>3, <2>1, RunStateOwnStep
    <2>2. CASE r # s
        BY <1>1, <1>3, <2>2, StepFrame DEF RunState
    <2> QED
        BY <2>1, <2>2
<1> QED
    BY <1>2, <1>3 DEF LandingNext

\* The manifest row of a file changes only in the claim and finish steps.
LEMMA ManifestFrame ==
    ASSUME LandingTypeOK, NEW r \in Runs, Step(r) \/ Fault(r)
    PROVE  \/ UNCHANGED manifest
           \/ SetManifest(r, Row("processing", NoRun))
           \/ pc[r] = "failing" /\ SetManifest(r, Row("failed", NoRun))
           \/ pc[r] = "finishing" /\ SetManifest(r, Row("succeeded", r))
<1> USE DEF dataVars
<1>1. CASE ClaimFile(r) \/ Reclaim(r)
    BY <1>1 DEF ClaimFile, ClaimNew, ClaimSkip, ClaimReject, ClaimFailed,
                Reclaim
<1>2. CASE RunPipeline(r)
    BY <1>2 DEF RunPipeline, EmitStart, EnterAcquire, EnterSection,
                LockedOut, ReadAndValidate, LoadCommit, LoadRollback,
                RecordFailure, EmitFail, LeaveSection, EmitComplete
<1>3. CASE FinishFile(r)
    BY <1>3 DEF FinishFile, FinishSucceeded, FinishFailed
<1>4. CASE Fault(r)
    BY <1>4 DEF Fault, ConnectError, RecordError, ReleaseError, FinishError,
                Interrupt, Crash
<1> QED
    BY <1>1, <1>2, <1>3, <1>4 DEF Step

\* Warehouse rows and a succeeded run row, once committed, stay.
LEMMA LoadedStays ==
    ASSUME LandingTypeOK, RunStates, [LandingNext]_vars, NEW r \in warehouse
    PROVE  r \in warehouse' /\ runRow'[r] = "succeeded"
<1>1. r \in Runs /\ RunState(r)
    BY DEF LandingTypeOK, RunStates
<1>2. RunState(r)'
    BY <1>1, RunStatesStep DEF RunStates
<1>3. r \in warehouse'
    <2>1. CASE Clock \/ UNCHANGED vars
        BY <2>1 DEF Clock, vars, dataVars
    <2>2. ASSUME NEW s \in Runs, Step(s) \/ Fault(s)
          PROVE  warehouse \subseteq warehouse'
        BY <2>2
        DEF Step, Fault, ClaimFile, ClaimNew, ClaimSkip, ClaimReject,
            ClaimFailed, Reclaim, RunPipeline, EmitStart, EnterAcquire,
            EnterSection, LockedOut, ReadAndValidate, LoadCommit,
            LoadRollback, RecordFailure, EmitFail, LeaveSection,
            EmitComplete, FinishFile, FinishSucceeded, FinishFailed,
            ConnectError, RecordError, ReleaseError, FinishError, Interrupt,
            Crash, dataVars
    <2> QED
        BY <2>1, <2>2 DEF LandingNext
<1> QED
    BY <1>2, <1>3 DEF RunState

LEMMA SucceededRowStep ==
    LandingInv /\ [LandingNext]_vars => SucceededRowIsTrue'
<1> SUFFICES ASSUME LandingInv, [LandingNext]_vars,
                    NEW f \in Files, manifest'[f].status = "succeeded"
             PROVE  \E r \in warehouse' :
                        /\ FileOf[r] = f
                        /\ manifest'[f].run = r
                        /\ runRow'[r] = "succeeded"
    BY DEF SucceededRowIsTrue
<1> USE DEF LandingInv, LandingTypeOK
<1>1. CASE manifest'[f] = manifest[f]
    <2>1. PICK r \in warehouse : FileOf[r] = f /\ manifest[f].run = r
        BY <1>1 DEF SucceededRowIsTrue
    <2> QED
        BY <1>1, <2>1, LoadedStays
<1>2. ASSUME NEW r \in Runs, Step(r) \/ Fault(r), manifest'[f] # manifest[f]
      PROVE  \E s \in warehouse' :
                 /\ FileOf[s] = f
                 /\ manifest'[f].run = s
                 /\ runRow'[s] = "succeeded"
    <2>1. /\ FileOf[r] = f
          /\ pc[r] = "finishing"
          /\ manifest'[f] = Row("succeeded", r)
        BY <1>2, ManifestFrame, LandingAssumption DEF SetManifest, Row
    <2>2. r \in warehouse
        BY <2>1 DEF RunStates, RunState
    <2> QED
        BY <2>1, <2>2, LoadedStays DEF Row
<1>3. CASE Clock \/ UNCHANGED vars
    BY <1>1, <1>3 DEF Clock, vars, dataVars
<1> QED
    BY <1>1, <1>2, <1>3 DEF LandingNext

LEMMA LandingInvInit == LandingInit => LandingInv
<1> SUFFICES ASSUME LandingInit
             PROVE  LandingInv
    OBVIOUS
<1>1. RunStates
    BY DEF LandingInit, RunStates, RunState, FreshPcs, SectionPcs
<1>2. SucceededRowIsTrue
    BY DEF LandingInit, SucceededRowIsTrue, Row
<1> QED
    BY <1>1, <1>2, LandingTypeInit DEF LandingInv

LEMMA LandingInvStep == LandingInv /\ [LandingNext]_vars => LandingInv'
BY LandingTypeStep, RunStatesStep, SucceededRowStep DEF LandingInv

\* The invariant that needs no assumption on the database.
THEOREM LandingInvariant == LandingSpec => []LandingInv
BY LandingInvInit, LandingInvStep, PTL DEF LandingSpec

\* A succeeded manifest row always names a run that committed that file, on
\* SQLite and PostgreSQL, whatever fails.
THEOREM SucceededRowTold == LandingSpec => []SucceededRowIsTrue
<1>1. LandingInv => SucceededRowIsTrue
    BY DEF LandingInv
<1> QED
    BY LandingInvariant, <1>1, PTL

\* COMPLETE is only ever delivered for a committed load, FAIL only for a
\* recorded failure that left nothing behind.
THEOREM LineageTellsTheTruth == LandingSpec => []TerminalEventIsTrue
<1>1. LandingInv => TerminalEventIsTrue
    BY DEF LandingInv, RunStates, RunState, TerminalEventIsTrue
<1> QED
    BY LandingInvariant, <1>1, PTL

-----------------------------------------------------------------------------
(* What SQLite adds: a claim has one owner *)

\* The invocations whose claim the manifest row still shows: those at work
\* and those that died or failed to settle it.
BoundPcs == ClaimPcs \cup {"crashed", "stranded"}

ClaimBinds ==
    \A r \in Runs :
        pc[r] \in BoundPcs =>
            /\ Status(r) = "processing"
            /\ \A s \in Runs :
                   pc[s] \in BoundPcs /\ FileOf[s] = FileOf[r] => s = r

DoneSettles ==
    \A r \in Runs : pc[r] = "done" => manifest[FileOf[r]] = Row("succeeded", r)

NobodyReclaims == \A r \in Runs : pc[r] # "reclaiming"

SqliteInv ==
    /\ LandingInv
    /\ ClaimBinds
    /\ DoneSettles
    /\ NobodyReclaims

\* With no lost strict event and no database error, nothing fails after the
\* load has committed.
NoLateFailure ==
    \A r \in Runs : pc[r] \in {"failing", "raised"} => r \notin warehouse
\* What a step does to the claim of its invocation, on SQLite.
LEMMA ClaimMoves ==
    ASSUME LandingTypeOK, NobodyReclaims, Dialect = "sqlite",
           NEW r \in Runs, Step(r) \/ Fault(r)
    PROVE  \/ /\ pc[r] = "idle" /\ Status(r) \in {"absent", "failed"}
              /\ pc'[r] = "claimed" /\ SetManifest(r, Row("processing", NoRun))
           \/ /\ pc[r] = "idle" /\ pc'[r] \in {"skipped", "rejected"}
              /\ UNCHANGED manifest
           \/ /\ pc[r] \in ClaimPcs /\ pc'[r] \in BoundPcs
              /\ UNCHANGED manifest
           \/ /\ pc[r] = "finishing" /\ pc'[r] = "done"
              /\ SetManifest(r, Row("succeeded", r))
           \/ /\ pc[r] = "failing" /\ pc'[r] = "raised"
              /\ SetManifest(r, Row("failed", NoRun))
<1> USE DEF LandingTypeOK, Goto, dataVars, BoundPcs, ClaimPcs, SectionPcs
<1>1. CASE ClaimFile(r) \/ Reclaim(r)
    BY <1>1 DEF ClaimFile, ClaimNew, ClaimSkip, ClaimReject, ClaimFailed,
                Reclaim, NobodyReclaims
<1>2. CASE EmitStart(r) \/ EmitFail(r) \/ EmitComplete(r)
    BY <1>2 DEF EmitStart, EmitFail, EmitComplete, Emit
<1>3. CASE EnterAcquire(r) \/ EnterSection(r) \/ LockedOut(r)
    BY <1>3 DEF EnterAcquire, EnterSection, LockedOut
<1>4. CASE ReadAndValidate(r) \/ LoadCommit(r) \/ LoadRollback(r) \/ RecordFailure(r)
    BY <1>4 DEF ReadAndValidate, LoadCommit, LoadRollback, RecordFailure
<1>5. CASE LeaveSection(r)
    BY <1>5 DEF LeaveSection, AfterRelease
<1>6. CASE FinishFile(r)
    BY <1>6 DEF FinishFile, FinishSucceeded, FinishFailed
<1>7. CASE ConnectError(r) \/ RecordError(r) \/ ReleaseError(r)
    BY <1>7 DEF ConnectError, RecordError, ReleaseError
<1>8. CASE FinishError(r) \/ Interrupt(r)
    BY <1>8 DEF FinishError, Interrupt
<1>9. CASE Crash(r)
    BY <1>9 DEF Crash, NobodyReclaims
<1> QED
    BY <1>1, <1>2, <1>3, <1>4, <1>5, <1>6, <1>7, <1>8, <1>9
    DEF Step, Fault, RunPipeline

\* A claim is taken only while nobody is bound to the file, and given up only
\* by its owner.
LEMMA ClaimBindsStep ==
    ASSUME SqliteInv, Dialect = "sqlite", NEW r \in Runs, Step(r) \/ Fault(r)
    PROVE  ClaimBinds'
<1> USE LandingAssumption
    DEF SqliteInv, LandingInv, LandingTypeOK, Status
<1>1. \A s \in Runs : s # r => pc'[s] = pc[s]
    BY StepFrame
<1>2. CASE /\ pc[r] = "idle" /\ Status(r) \in {"absent", "failed"}
           /\ pc'[r] = "claimed" /\ SetManifest(r, Row("processing", NoRun))
    <2>1. \A s \in Runs :
              s # r /\ pc'[s] \in BoundPcs => FileOf[s] # FileOf[r]
        BY <1>1, <1>2 DEF ClaimBinds
    <2> QED
        BY <1>1, <1>2, <2>1 DEF ClaimBinds, SetManifest, Row
<1>3. CASE /\ pc[r] = "idle" /\ pc'[r] \in {"skipped", "rejected"}
           /\ UNCHANGED manifest
    BY <1>1, <1>3 DEF ClaimBinds, BoundPcs, ClaimPcs, SectionPcs
<1>4. CASE /\ pc[r] \in ClaimPcs /\ pc'[r] \in BoundPcs
           /\ UNCHANGED manifest
    BY <1>1, <1>4 DEF ClaimBinds, BoundPcs
<1>5. CASE /\ pc[r] \in {"finishing", "failing"}
           /\ pc'[r] \in {"done", "raised"}
           /\ \/ SetManifest(r, Row("succeeded", r))
              \/ SetManifest(r, Row("failed", NoRun))
    <2>1. pc[r] \in BoundPcs /\ pc'[r] \notin BoundPcs
        BY <1>5 DEF BoundPcs, ClaimPcs, SectionPcs
    <2>2. \A s \in Runs :
              pc'[s] \in BoundPcs =>
                  /\ FileOf[s] # FileOf[r]
                  /\ manifest'[FileOf[s]] = manifest[FileOf[s]]
        BY <1>1, <1>5, <2>1 DEF ClaimBinds, SetManifest
    <2> QED
        BY <1>1, <2>1, <2>2 DEF ClaimBinds
<1> QED
    BY <1>2, <1>3, <1>4, <1>5, ClaimMoves

\* A settled file is never claimed again.
LEMMA DoneSettlesStep ==
    ASSUME SqliteInv, Dialect = "sqlite", NEW r \in Runs, Step(r) \/ Fault(r)
    PROVE  DoneSettles'
<1> SUFFICES ASSUME NEW s \in Runs, pc'[s] = "done"
             PROVE  manifest'[FileOf[s]] = Row("succeeded", s)
    BY DEF DoneSettles, Row
<1> USE LandingAssumption
    DEF SqliteInv, LandingInv, LandingTypeOK, Status
<1>1. CASE s = r
    BY <1>1, ClaimMoves
    DEF SetManifest, BoundPcs, ClaimPcs, SectionPcs
<1>2. CASE s # r
    <2>1. pc[s] = "done" /\ manifest[FileOf[s]] = Row("succeeded", s)
        BY <1>2, StepFrame DEF DoneSettles
    <2>2. FileOf[r] = FileOf[s] => UNCHANGED manifest
        <3>1. FileOf[r] = FileOf[s] => Status(r) = "succeeded"
            BY <2>1 DEF Row
        <3>2. FileOf[r] = FileOf[s] => pc[r] \notin BoundPcs
            BY <3>1 DEF ClaimBinds
        <3> QED
            BY <3>1, <3>2, ClaimMoves DEF BoundPcs, ClaimPcs, SectionPcs
    <2> QED
        BY <2>1, <2>2, ManifestFrame DEF SetManifest
<1> QED
    BY <1>1, <1>2

LEMMA NobodyReclaimsStep ==
    ASSUME SqliteInv, Dialect = "sqlite", NEW r \in Runs, Step(r) \/ Fault(r)
    PROVE  NobodyReclaims'
<1> SUFFICES ASSUME NEW s \in Runs
             PROVE  pc'[s] # "reclaiming"
    BY DEF NobodyReclaims
<1>1. pc[s] # "reclaiming" /\ LandingTypeOK /\ NobodyReclaims
    BY DEF SqliteInv, LandingInv, NobodyReclaims
<1>2. CASE s = r
    BY <1>1, <1>2, ClaimMoves DEF BoundPcs, ClaimPcs, SectionPcs
<1>3. CASE s # r
    BY <1>1, <1>3, StepFrame
<1> QED
    BY <1>2, <1>3

LEMMA SqliteInvStep ==
    ASSUME Dialect = "sqlite"
    PROVE  SqliteInv /\ [LandingNext]_vars => SqliteInv'
<1> SUFFICES ASSUME SqliteInv, [LandingNext]_vars
             PROVE  SqliteInv'
    OBVIOUS
<1>1. LandingInv'
    BY LandingInvStep DEF SqliteInv
<1>2. CASE Clock \/ UNCHANGED vars
    BY <1>1, <1>2
    DEF Clock, vars, dataVars, SqliteInv, ClaimBinds, DoneSettles,
        NobodyReclaims, Status
<1>3. ASSUME NEW r \in Runs, Step(r) \/ Fault(r)
      PROVE  SqliteInv'
    BY <1>1, <1>3, ClaimBindsStep, DoneSettlesStep, NobodyReclaimsStep
    DEF SqliteInv
<1> QED
    BY <1>2, <1>3 DEF LandingNext

LEMMA SqliteInvInit == LandingInit => SqliteInv
<1> SUFFICES ASSUME LandingInit
             PROVE  SqliteInv
    OBVIOUS
<1>1. \A r \in Runs : pc[r] = "idle"
    BY DEF LandingInit
<1> QED
    BY <1>1, LandingInvInit
    DEF SqliteInv, ClaimBinds, DoneSettles, NobodyReclaims, BoundPcs,
        ClaimPcs, SectionPcs

THEOREM SqliteInvariant ==
    ASSUME Dialect = "sqlite"
    PROVE  LandingSpec => []SqliteInv
BY SqliteInvInit, SqliteInvStep, PTL DEF LandingSpec

\* On SQLite a file is worked on by one invocation at a time, under a row that
\* says so, whatever fails.
THEOREM ClaimIsExclusive ==
    ASSUME Dialect = "sqlite"
    PROVE  LandingSpec => []OneClaimant
<1>1. SqliteInv => OneClaimant
    BY DEF SqliteInv, ClaimBinds, BoundPcs, OneClaimant
<1> QED
    BY SqliteInvariant, <1>1, PTL

\* An invocation with rows in the warehouse has raised, is bound to the
\* claim, or has settled it.
LEMMA LoadedPcs ==
    ASSUME SqliteInv, NEW r \in warehouse
    PROVE  /\ r \in Runs
           /\ pc[r] \in BoundPcs \cup {"done", "raised"}
<1>1. r \in Runs /\ pc[r] \in Pcs /\ RunState(r)
    BY DEF SqliteInv, LandingInv, LandingTypeOK, RunStates
<1>2. runRow[r] = "succeeded"
    BY <1>1 DEF RunState
<1>3. pc[r] \notin FreshPcs
    BY <1>1, <1>2 DEF RunState
<1> QED
    BY <1>1, <1>3
    DEF FreshPcs, Pcs, EndPcs, BoundPcs, ClaimPcs, SectionPcs

LEMMA OneUnraisedLoad ==
    ASSUME SqliteInv, NEW r \in warehouse, NEW s \in warehouse,
           FileOf[r] = FileOf[s], pc[r] # "raised", pc[s] # "raised"
    PROVE  r = s
<1>1. r \in Runs /\ s \in Runs
    BY LoadedPcs
<1>2. /\ pc[r] \in BoundPcs \/ pc[r] = "done"
      /\ pc[s] \in BoundPcs \/ pc[s] = "done"
    BY LoadedPcs
<1>3. ASSUME NEW t \in Runs, pc[t] = "done"
      PROVE  /\ manifest[FileOf[t]].status = "succeeded"
             /\ manifest[FileOf[t]].run = t
    <2>1. manifest[FileOf[t]] = Row("succeeded", t)
        BY <1>3 DEF SqliteInv, DoneSettles
    <2> QED
        BY <2>1 DEF Row
<1>4. ASSUME NEW t \in Runs, pc[t] \in BoundPcs
      PROVE  manifest[FileOf[t]].status = "processing"
    BY <1>4 DEF SqliteInv, ClaimBinds, Status
<1>5. CASE pc[r] \in BoundPcs /\ pc[s] \in BoundPcs
    BY <1>1, <1>5 DEF SqliteInv, ClaimBinds
<1>6. CASE pc[r] = "done" \/ pc[s] = "done"
    BY <1>1, <1>2, <1>3, <1>4, <1>6
<1> QED
    BY <1>2, <1>5, <1>6

\* On SQLite a second load of a file needs a first one that raised after its
\* commit: no crash and no failing finish_file leads to it.
THEOREM SecondLoadIsReported ==
    ASSUME Dialect = "sqlite"
    PROVE  LandingSpec => []SecondLoadNeedsRaise
<1>1. SqliteInv => SecondLoadNeedsRaise
    BY OneUnraisedLoad DEF SecondLoadNeedsRaise, LoadedBy
<1> QED
    BY SqliteInvariant, <1>1, PTL
-----------------------------------------------------------------------------
(* Action properties *)

LEMMA LeaseStep ==
    LandingInv /\ LockInv /\ [LandingNext]_vars =>
        [\A r \in warehouse' \ warehouse :
            LockRow(r) \in locks \/ Lapsed(r)]_vars
<1> SUFFICES ASSUME LandingInv, LockInv, [LandingNext]_vars,
                    NEW r \in warehouse', r \notin warehouse
             PROVE  LockRow(r) \in locks \/ Lapsed(r)
    OBVIOUS
<1>1. r \in Runs /\ pc[r] = "loading"
    <2>1. ~(Clock \/ UNCHANGED vars)
        BY DEF Clock, vars, dataVars
    <2>2. PICK s \in Runs : Step(s) \/ Fault(s)
        BY <2>1 DEF LandingNext
    <2>3. LoadCommit(s)
        BY <2>2
        DEF Step, Fault, ClaimFile, ClaimNew, ClaimSkip, ClaimReject,
            ClaimFailed, Reclaim, RunPipeline, EmitStart, EnterAcquire,
            EnterSection, LockedOut, ReadAndValidate, LoadRollback,
            RecordFailure, EmitFail, LeaveSection, EmitComplete, FinishFile,
            FinishSucceeded, FinishFailed, ConnectError, RecordError,
            ReleaseError, FinishError, Interrupt, Crash, dataVars
    <2> QED
        BY <2>3 DEF LoadCommit
<1>2. lockPhase[r] = "holding"
    BY <1>1 DEF LandingInv, RunStates, RunState, SectionPcs
<1>3. now \in Nat /\ Expires(r) \in Nat
    BY <1>1, LeaseTimes
<1> QED
    BY <1>1, <1>2, <1>3 DEF LockInv, LiveHolderHasRow

\* A load commits under its lock row or after its lease, whatever fails.
THEOREM LoadsAreLeased == LandingSpec => LoadsUnderLease
BY LandingInvariant, LandingUsesLock, LockInvariant, LeaseStep, PTL
   DEF LandingSpec, LoadsUnderLease

-----------------------------------------------------------------------------
(* Whose lease is over, by the calls and not by the clocks *)

\* Before acquire_lock. An invocation calls it once.
BeforeCall == {"idle", "reclaiming", "claimed", "starting"}

\* A holder keeps its row until somebody calls acquire_lock after its lease.
LateInv ==
    /\ \A r \in Runs : pc[r] \in BeforeCall => lockPhase[r] = "idle" /\ stamp[r] = 0
    /\ \A r \in Runs : lockPhase[r] = "holding" => LockRow(r) \in locks \/ Late(r)

LEMMA StampFrame ==
    [LandingNext]_vars => UNCHANGED stamp \/ \E r \in Runs : EnterAcquire(r)
<1>1. Clock \/ UNCHANGED vars => UNCHANGED stamp
    BY DEF Clock, Tick, vars
<1>2. ASSUME NEW r \in Runs, Step(r) \/ Fault(r)
      PROVE  UNCHANGED stamp \/ EnterAcquire(r)
    BY <1>2
    DEF Step, Fault, ClaimFile, ClaimNew, ClaimSkip, ClaimReject, ClaimFailed,
        Reclaim, RunPipeline, EmitStart, EnterSection, AcquireLock, LockedOut,
        LockOut, ReadAndValidate, LoadCommit, LoadRollback, RecordFailure,
        EmitFail, LeaveSection, ReleaseLock, EmitComplete, FinishFile,
        FinishSucceeded, FinishFailed, ConnectError, RecordError, ReleaseError,
        ReleaseLockError, FinishError, Interrupt, Crash, CrashHolder, lockVars
<1> QED BY <1>1, <1>2 DEF LandingNext

\* Late is late for ever: no step takes a later call back.
LEMMA LateStays ==
    ASSUME LandingInv, LateInv, [LandingNext]_vars,
           NEW q \in Runs, pc[q] \notin BeforeCall, Late(q)
    PROVE  Late(q)'
<1> USE DEF Late, Expires
<1>1. CASE UNCHANGED stamp
    BY <1>1
<1>2. ASSUME NEW r \in Runs, EnterAcquire(r)
      PROVE  Late(q)'
    <2>1. PICK s \in Runs : stamp[s] >= stamp[q] + TTL
        OBVIOUS
    <2>2. stamp \in [Runs -> Nat] /\ TTL \in Nat
        BY LockAssumption DEF LandingInv, LandingTypeOK, LockTypeOK
    <2>3. PICK t \in Nat : stamp' = [stamp EXCEPT ![r] = t]
        <3>1. PICK t \in 0 .. now + Skew : stamp' = [stamp EXCEPT ![r] = t]
            BY <1>2 DEF EnterAcquire, ReadClock
        <3>2. now \in Nat /\ Skew \in Nat
            BY LockAssumption DEF LandingInv, LandingTypeOK, LockTypeOK
        <3>3. t \in Nat
            BY <3>2
        <3> QED BY <3>1, <3>3
    <2>4. pc[r] = "starting" /\ q # r
        BY <1>2 DEF EnterAcquire, BeforeCall
    <2>5. stamp'[q] = stamp[q]
        BY <2>2, <2>3, <2>4
    <2>6. stamp'[s] >= stamp[s]
        <3>1. stamp[r] = 0
            BY <2>4 DEF LateInv, BeforeCall
        <3> QED BY <2>2, <2>3, <3>1
    <2>7. stamp'[s] \in Nat
        BY <2>2, <2>3
    <2>8. stamp'[s] >= stamp'[q] + TTL
        BY <2>1, <2>2, <2>5, <2>6, <2>7
    <2> QED BY <2>8
<1> QED BY <1>1, <1>2, StampFrame

\* Its own step takes an invocation from its call to the lock and beyond.
LEMMA BeforeCallStep ==
    ASSUME LandingInv, LateInv, [LandingNext]_vars,
           NEW q \in Runs, pc'[q] \in BeforeCall
    PROVE  lockPhase'[q] = "idle" /\ stamp'[q] = 0 /\ pc[q] \in BeforeCall
<1>1. LandingTypeOK
    BY DEF LandingInv
<1>2. CASE Clock \/ UNCHANGED vars
    BY <1>2 DEF Clock, Tick, vars, LateInv
<1>3. ASSUME NEW r \in Runs, Step(r) \/ Fault(r), r # q
      PROVE  pc'[q] = pc[q] /\ lockPhase'[q] = lockPhase[q] /\ stamp'[q] = stamp[q]
    <2>1. pc'[q] = pc[q] /\ lockPhase'[q] = lockPhase[q]
        BY <1>1, <1>3, StepFrame
    <2>2. stamp'[q] = stamp[q]
        <3>1. CASE UNCHANGED stamp
            BY <3>1
        <3>2. ASSUME NEW s \in Runs, EnterAcquire(s), s # q
              PROVE  stamp'[q] = stamp[q]
            BY <1>1, <3>2 DEF EnterAcquire, ReadClock, LandingTypeOK, LockTypeOK
        <3>3. ~EnterAcquire(q)
            BY <2>1, <1>1 DEF EnterAcquire, Goto, LandingTypeOK
        <3> QED BY <3>1, <3>2, <3>3, StampFrame
    <2> QED BY <2>1, <2>2
<1>4. ASSUME Step(q) \/ Fault(q)
      PROVE  /\ UNCHANGED <<lockPhase, stamp>>
             /\ pc[q] \in BeforeCall
    BY <1>1, <1>4
    DEF Step, Fault, ClaimFile, ClaimNew, ClaimSkip, ClaimReject, ClaimFailed,
        Reclaim, RunPipeline, EmitStart, Emit, EnterAcquire, EnterSection,
        LockedOut, ReadAndValidate, LoadCommit, LoadRollback, RecordFailure,
        EmitFail, LeaveSection, AfterRelease, EmitComplete, FinishFile,
        FinishSucceeded, FinishFailed, ConnectError, RecordError, ReleaseError,
        FinishError, Interrupt, Crash, lockVars, Goto, LandingTypeOK, BeforeCall
<1> QED BY <1>2, <1>3, <1>4 DEF LandingNext, LateInv

\* A holder's row goes only by a caller that is late for it.
LEMMA HolderRowStep ==
    ASSUME LandingInv, LateInv, LockInv, [LandingNext]_vars,
           NEW q \in Runs, lockPhase'[q] = "holding"
    PROVE  LockRow(q)' \in locks' \/ Late(q)'
<1>1. [LockNext]_lockVars
    BY LockStepOfLanding
<1>2. LockTypeOK /\ TTL \in Nat
    BY LockAssumption DEF LockInv
<1>3. ASSUME lockPhase[q] = "holding", stamp'[q] = stamp[q],
             LockRow(q) \in locks => LockRow(q) \in locks' \/ Late(q)
      PROVE  LockRow(q)' \in locks' \/ Late(q)'
    <2>1. pc[q] \notin BeforeCall
        BY <1>3 DEF LateInv
    <2>2. LockRow(q)' = LockRow(q)
        BY <1>3 DEF LockRow, Expires
    <2>3. LockRow(q) \in locks \/ Late(q)
        BY <1>3 DEF LateInv
    <2> QED BY <1>3, <2>1, <2>2, <2>3, LateStays
<1>4. ASSUME NEW r \in Runs, ReadClock(r)
      PROVE  LockRow(q)' \in locks' \/ Late(q)'
    <2>1. q # r
        BY <1>2, <1>4 DEF ReadClock, LockTypeOK
    <2> QED BY <1>2, <1>3, <1>4, <2>1 DEF ReadClock, LockTypeOK
<1>5. ASSUME NEW r \in Runs, AcquireLock(r)
      PROVE  LockRow(q)' \in locks' \/ Late(q)'
    <2>1. CASE q = r
        BY <1>5, <2>1 DEF AcquireLock, LockRow, Expires
    <2>2. CASE q # r
        <3>1. lockPhase[q] = "holding" /\ stamp' = stamp
            BY <1>2, <1>5, <2>2 DEF AcquireLock, LockTypeOK
        <3>2. ASSUME LockRow(q) \in locks, LockRow(q) \notin locks'
              PROVE  Late(q)
            <4>1. ~(LockRow(q).expires > stamp[r])
                BY <1>5, <3>2 DEF AcquireLock, Unexpired
            <4>2. Expires(q) \in Nat /\ stamp[r] \in Nat
                BY <1>2, LockAssumption DEF LockTypeOK, Expires
            <4>3. stamp[r] >= Expires(q)
                BY <4>1, <4>2 DEF LockRow
            <4> QED BY <4>3 DEF Late
        <3> QED BY <1>3, <3>1, <3>2
    <2> QED BY <2>1, <2>2
<1>6. ASSUME NEW r \in Runs, ReleaseLock(r)
      PROVE  LockRow(q)' \in locks' \/ Late(q)'
    <2>1. q # r
        BY <1>2, <1>6 DEF ReleaseLock, LockTypeOK
    <2>2. lockPhase[q] = "holding" /\ stamp' = stamp
        BY <1>2, <1>6, <2>1 DEF ReleaseLock, LockTypeOK
    <2>3. LockRow(q) \in locks => LockRow(q) \in locks'
        BY <1>6, <2>1 DEF ReleaseLock, LocksWithout, LockRow
    <2> QED BY <1>3, <2>2, <2>3
<1>7. ASSUME UNCHANGED <<locks, stamp>>, lockPhase[q] = "holding"
      PROVE  LockRow(q)' \in locks' \/ Late(q)'
    BY <1>3, <1>7
<1>8. ASSUME NEW r \in Runs, LockOut(r) \/ ReleaseLockError(r) \/ CrashHolder(r)
      PROVE  UNCHANGED <<locks, stamp>> /\ lockPhase[q] = "holding"
    BY <1>2, <1>8 DEF LockOut, ReleaseLockError, CrashHolder, LockTypeOK
<1>9. Tick \/ UNCHANGED lockVars => UNCHANGED <<locks, stamp>> /\ lockPhase[q] = "holding"
    BY DEF Tick, lockVars
<1> QED BY <1>1, <1>4, <1>5, <1>6, <1>7, <1>8, <1>9 DEF LockNext, LockCall

LEMMA LateInvInit == LandingInit => LateInv
BY DEF LandingInit, LockInit, LateInv

LEMMA LateInvStep ==
    LandingInv /\ LateInv /\ LockInv /\ [LandingNext]_vars => LateInv'
<1> SUFFICES ASSUME LandingInv, LateInv, LockInv, [LandingNext]_vars, NEW q \in Runs
             PROVE  /\ pc'[q] \in BeforeCall => lockPhase'[q] = "idle" /\ stamp'[q] = 0
                    /\ lockPhase'[q] = "holding" => LockRow(q)' \in locks' \/ Late(q)'
    BY DEF LateInv
<1> QED BY BeforeCallStep, HolderRowStep

\* Of two invocations in the section of one lock, somebody has called
\* acquire_lock after the lease of one: slow clocks alone never let two in.
LEMMA SectionsOverlapLate ==
    ASSUME LandingInv, LateInv, LockInv,
           NEW r \in Runs, NEW s \in Runs, r # s,
           LockNameOf[r] = LockNameOf[s],
           pc[r] \in SectionPcs, pc[s] \in SectionPcs
    PROVE  Late(r) \/ Late(s)
<1>1. lockPhase[r] = "holding" /\ lockPhase[s] = "holding"
    BY DEF LandingInv, RunStates, RunState
<1>2. LockRow(r) \notin locks \/ LockRow(s) \notin locks
    BY DEF LockInv, OneRowPerName, LockRow
<1> QED BY <1>1, <1>2 DEF LateInv

\* The invariant of the calls holds with those of the lock and the claims.
THEOREM LateInvariant == LandingSpec => []LateInv
<1>1. LandingSpec => []LockInv
    BY LandingUsesLock, LockInvariant, PTL
<1> QED
    BY <1>1, LandingInvariant, LateInvInit, LateInvStep, PTL DEF LandingSpec

\* Two invocations are inside the section of one lock only when somebody has
\* called acquire_lock after the lease of one of them.
THEOREM OverlapNeedsLateCall ==
    LandingSpec =>
        [](\A r, s \in Runs :
              /\ r # s /\ LockNameOf[r] = LockNameOf[s]
              /\ pc[r] \in SectionPcs /\ pc[s] \in SectionPcs
              => Late(r) \/ Late(s))
<1>1. LandingSpec => []LockInv
    BY LandingUsesLock, LockInvariant, PTL
<1>2. LandingInv /\ LateInv /\ LockInv =>
          \A r, s \in Runs :
              /\ r # s /\ LockNameOf[r] = LockNameOf[s]
              /\ pc[r] \in SectionPcs /\ pc[s] \in SectionPcs
              => Late(r) \/ Late(s)
    BY SectionsOverlapLate
<1> QED
    BY <1>1, <1>2, LandingInvariant, LateInvariant, PTL

\* Before the load.
BeforeLoad == BeforeCall \cup {"locking", "validating"}

\* The load begins once, after the validation.
LEMMA LoadingStep ==
    ASSUME LandingInv, [LandingNext]_vars, NEW q \in Runs
    PROVE  /\ pc'[q] \in BeforeLoad => pc[q] \in BeforeLoad
           /\ pc'[q] = "loading" => pc[q] \in {"validating", "loading"}
<1>1. LandingTypeOK
    BY DEF LandingInv
<1>2. CASE UNCHANGED pc
    BY <1>2
<1>3. ASSUME NEW r \in Runs, Step(r) \/ Fault(r), r # q
      PROVE  pc'[q] = pc[q]
    BY <1>1, <1>3, StepFrame
<1>4. ASSUME Step(q) \/ Fault(q)
      PROVE  /\ pc'[q] \in BeforeLoad => pc[q] \in BeforeLoad
             /\ pc'[q] = "loading" => pc[q] \in {"validating", "loading"}
    BY <1>1, <1>4
    DEF Step, Fault, ClaimFile, ClaimNew, ClaimSkip, ClaimReject, ClaimFailed,
        Reclaim, RunPipeline, EmitStart, Emit, EnterAcquire, EnterSection,
        LockedOut, ReadAndValidate, LoadCommit, LoadRollback, RecordFailure,
        EmitFail, LeaveSection, AfterRelease, EmitComplete, FinishFile,
        FinishSucceeded, FinishFailed, ConnectError, RecordError, ReleaseError,
        FinishError, Interrupt, Crash, Goto, LandingTypeOK, BeforeLoad, BeforeCall
<1> QED BY <1>2, <1>3, <1>4 DEF LandingNext, Clock, vars

-----------------------------------------------------------------------------
(* Settled rows *)

LEMMA FinalStep ==
    ASSUME Dialect = "sqlite"
    PROVE  SqliteInv /\ [LandingNext]_vars =>
               [\A f \in Files :
                   manifest[f].status = "succeeded" =>
                       /\ manifest'[f] = manifest[f]
                       /\ \A r \in warehouse' \ warehouse : FileOf[r] # f]_vars
<1> SUFFICES ASSUME SqliteInv, [LandingNext]_vars,
                    NEW f \in Files, manifest[f].status = "succeeded"
             PROVE  /\ manifest'[f] = manifest[f]
                    /\ \A r \in warehouse' \ warehouse : FileOf[r] # f
    OBVIOUS
<1> USE LandingAssumption DEF SqliteInv, LandingInv
<1>1. CASE Clock \/ UNCHANGED vars
    BY <1>1 DEF Clock, vars, dataVars
<1>2. ASSUME NEW s \in Runs, Step(s) \/ Fault(s)
      PROVE  /\ manifest'[f] = manifest[f]
             /\ \A r \in warehouse' \ warehouse : FileOf[r] # f
    <2>1. FileOf[s] = f => pc[s] \notin BoundPcs
        BY <1>2 DEF ClaimBinds, Status
    <2>2. FileOf[s] = f => manifest' = manifest
        BY <1>2, <2>1, ClaimMoves
        DEF BoundPcs, ClaimPcs, SectionPcs, Status
    <2>3. manifest'[f] = manifest[f]
        BY <1>2, <2>2, ManifestFrame DEF SetManifest, LandingTypeOK
    <2>4. \A r \in warehouse' \ warehouse : r = s /\ pc[s] = "loading"
        BY <1>2
        DEF Step, Fault, ClaimFile, ClaimNew, ClaimSkip, ClaimReject,
            ClaimFailed, Reclaim, RunPipeline, EmitStart, EnterAcquire,
            EnterSection, LockedOut, ReadAndValidate, LoadCommit,
            LoadRollback, RecordFailure, EmitFail, LeaveSection,
            EmitComplete, FinishFile, FinishSucceeded, FinishFailed,
            ConnectError, RecordError, ReleaseError, FinishError, Interrupt,
            Crash, dataVars
    <2> QED
        BY <2>1, <2>3, <2>4 DEF BoundPcs, ClaimPcs, SectionPcs
<1> QED
    BY <1>1, <1>2 DEF LandingNext

\* On SQLite a succeeded row is never changed and its file never loaded again.
THEOREM SucceededStaysFinal ==
    ASSUME Dialect = "sqlite"
    PROVE  LandingSpec => SucceededIsFinal
BY SqliteInvariant, FinalStep, PTL DEF LandingSpec, SucceededIsFinal
=============================================================================
