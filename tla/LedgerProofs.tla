---------------------------- MODULE LedgerProofs ----------------------------
(* The landing zone implements FileLedger.                                 *)
EXTENDS LandingProofs

\* No database error and no strict lineage event that can be lost, on SQLite:
\* nothing raises after the load has committed.
NoLateFaults ==
    /\ Dialect = "sqlite"
    /\ "db" \notin Faults
    /\ ~(StrictLineage /\ "lineage" \in Faults)

LEMMA NoLateFailureStep ==
    ASSUME NoLateFaults
    PROVE  LandingInv /\ NoLateFailure /\ [LandingNext]_vars => NoLateFailure'
<1> SUFFICES ASSUME LandingInv, NoLateFailure, [LandingNext]_vars,
                    NEW s \in Runs, pc'[s] \in {"failing", "raised"}
             PROVE  s \notin warehouse'
    BY DEF NoLateFailure
<1> USE DEF LandingInv
<1>1. CASE Clock \/ UNCHANGED vars
    BY <1>1 DEF Clock, vars, dataVars, NoLateFailure
<1>2. ASSUME NEW r \in Runs, Step(r) \/ Fault(r), r # s
      PROVE  s \notin warehouse'
    BY <1>2, StepFrame DEF NoLateFailure
<1>3. ASSUME Step(s) \/ Fault(s)
      PROVE  s \notin warehouse'
    <2> USE DEF LandingTypeOK, Goto, dataVars, RunStates, RunState, FreshPcs,
                NoLateFailure
    <2>1. CASE ClaimFile(s) \/ Reclaim(s)
        BY <2>1 DEF ClaimFile, ClaimNew, ClaimSkip, ClaimReject, ClaimFailed,
                    Reclaim
    <2>2. CASE EmitStart(s) \/ EmitFail(s)
        BY <2>2 DEF EmitStart, EmitFail, Emit
    <2>3. CASE EmitComplete(s)
        BY <2>3 DEF EmitComplete, Emit, NoLateFaults
    <2>4. CASE EnterAcquire(s) \/ EnterSection(s) \/ LockedOut(s)
        BY <2>4 DEF EnterAcquire, EnterSection, LockedOut
    <2>5. CASE ReadAndValidate(s) \/ LoadCommit(s) \/ LoadRollback(s) \/ RecordFailure(s)
        BY <2>5 DEF ReadAndValidate, LoadCommit, LoadRollback, RecordFailure
    <2>6. CASE LeaveSection(s)
        BY <2>6 DEF LeaveSection, AfterRelease
    <2>7. CASE FinishFile(s)
        BY <2>7 DEF FinishFile, FinishSucceeded, FinishFailed
    <2>8. CASE ConnectError(s) \/ RecordError(s) \/ ReleaseError(s) \/ FinishError(s)
        BY <2>8 DEF ConnectError, RecordError, ReleaseError, FinishError,
                    ReleaseLockError, NoLateFaults
    <2>9. CASE Interrupt(s) \/ Crash(s)
        BY <2>9 DEF Interrupt, Crash
    <2> QED
        BY <1>3, <2>1, <2>2, <2>3, <2>4, <2>5, <2>6, <2>7, <2>8, <2>9
        DEF Step, Fault, RunPipeline
<1> QED
    BY <1>1, <1>2, <1>3 DEF LandingNext

\* The warehouse changes only by the commit of a load.
LEMMA WarehouseMoves ==
    ASSUME NEW r \in Runs, Step(r) \/ Fault(r)
    PROVE  \/ UNCHANGED warehouse
           \/ /\ pc[r] = "loading"
              /\ warehouse' = warehouse \cup {r}
              /\ UNCHANGED manifest
BY DEF Step, Fault, ClaimFile, ClaimNew, ClaimSkip, ClaimReject, ClaimFailed,
       Reclaim, RunPipeline, EmitStart, EnterAcquire, EnterSection, LockedOut,
       ReadAndValidate, LoadCommit, LoadRollback, RecordFailure, EmitFail,
       LeaveSection, EmitComplete, FinishFile, FinishSucceeded, FinishFailed,
       ConnectError, RecordError, ReleaseError, FinishError, Interrupt, Crash,
       dataVars

\* A file that anybody has loaded is processing or succeeded.
LEMMA LoadedIsClaimed ==
    ASSUME SqliteInv, NoLateFailure, NEW f \in Files, LoadedBy(f) # {}
    PROVE  manifest[f].status \in {"processing", "succeeded"}
<1>1. PICK r \in warehouse : FileOf[r] = f
    BY DEF LoadedBy
<1>2. r \in Runs /\ pc[r] \in BoundPcs \cup {"done"}
    BY LoadedPcs DEF NoLateFailure
<1>3. CASE pc[r] \in BoundPcs
    BY <1>1, <1>2, <1>3 DEF SqliteInv, ClaimBinds, Status
<1>4. CASE pc[r] = "done"
    <2>1. manifest[f] = Row("succeeded", r)
        BY <1>1, <1>2, <1>4 DEF SqliteInv, DoneSettles
    <2> QED
        BY <2>1 DEF Row
<1> QED
    BY <1>2, <1>3, <1>4

\* While an invocation that has loaded nothing holds the claim, the file has
\* not been loaded.
LEMMA ClaimantLoadsFirst ==
    ASSUME SqliteInv, NoLateFailure,
           NEW r \in Runs, pc[r] \in ClaimPcs, r \notin warehouse
    PROVE  LoadedBy(FileOf[r]) = {}
<1> SUFFICES ASSUME NEW s \in warehouse, FileOf[s] = FileOf[r]
             PROVE  FALSE
    BY DEF LoadedBy
<1>1. s \in Runs /\ pc[s] \in BoundPcs \cup {"done"}
    BY LoadedPcs DEF NoLateFailure
<1>2. pc[r] \in BoundPcs /\ Status(r) = "processing"
    BY DEF SqliteInv, ClaimBinds, BoundPcs
<1>3. pc[s] # "done"
    <2> SUFFICES ASSUME pc[s] = "done"
                 PROVE  FALSE
        OBVIOUS
    <2>1. manifest[FileOf[s]] = Row("succeeded", s)
        BY <1>1 DEF SqliteInv, DoneSettles
    <2> QED
        BY <1>2, <2>1 DEF Row, Status
<1>4. s = r
    BY <1>1, <1>2, <1>3 DEF SqliteInv, ClaimBinds
<1> QED
    BY <1>4

\* Each file is loaded at most once, crashes and interrupts included.
THEOREM LoadedOnce ==
    ASSUME NoLateFaults
    PROVE  LandingSpec => []LoadedAtMostOnce
<1>1. Dialect = "sqlite"
    BY DEF NoLateFaults
<1>2. LandingInit => NoLateFailure
    BY DEF LandingInit, NoLateFailure
<1>3. SqliteInv => LandingInv
    BY DEF SqliteInv
<1>4. SqliteInv /\ NoLateFailure => LoadedAtMostOnce
    BY OneUnraisedLoad, LoadedPcs
    DEF NoLateFailure, LoadedAtMostOnce, LoadedBy
<1> QED
    BY <1>1, <1>2, <1>3, <1>4, SqliteInvariant, NoLateFailureStep, PTL
    DEF LandingSpec

\* A file the manifest calls failed left nothing behind.
THEOREM FailedLeftNothing ==
    ASSUME NoLateFaults
    PROVE  LandingSpec => []FailedMeansNotLoaded
<1>1. Dialect = "sqlite"
    BY DEF NoLateFaults
<1>2. LandingInit => NoLateFailure
    BY DEF LandingInit, NoLateFailure
<1>3. SqliteInv => LandingInv
    BY DEF SqliteInv
<1>4. SqliteInv /\ NoLateFailure => FailedMeansNotLoaded
    BY LoadedIsClaimed DEF FailedMeansNotLoaded
<1> QED
    BY <1>1, <1>2, <1>3, <1>4, SqliteInvariant, NoLateFailureStep, PTL
    DEF LandingSpec
-----------------------------------------------------------------------------
(* The refinement: `state' is read off the manifest, `applied' off the      *)
(* warehouse.                                                              *)

StateBar == [f \in Files |-> LedgerState(manifest[f].status)]
AppliedBar == [f \in Files |-> LoadedBy(f)]

LEMMA LedgerStates ==
    /\ LedgerState("absent") = "open"
    /\ LedgerState("failed") = "open"
    /\ LedgerState("processing") = "claimed"
    /\ LedgerState("succeeded") = "settled"
BY DEF LedgerState

\* Setting a file's manifest row sets its ledger state, and only that.
LEMMA StateBarMoves ==
    ASSUME LandingTypeOK, NEW r \in Runs,
           NEW status \in {"absent", "processing", "succeeded", "failed"},
           NEW run, SetManifest(r, Row(status, run))
    PROVE  StateBar' = [StateBar EXCEPT ![FileOf[r]] = LedgerState(status)]
<1>1. ASSUME NEW f \in Files
      PROVE  manifest'[f].status =
                 IF f = FileOf[r] THEN status ELSE manifest[f].status
    BY DEF LandingTypeOK, SetManifest, Row
<1>2. StateBar' = [f \in Files |-> LedgerState(manifest'[f].status)]
    BY DEF StateBar, LedgerState
<1> QED
    BY <1>1, <1>2 DEF StateBar

LEMMA AppliedBarStays ==
    ASSUME UNCHANGED warehouse
    PROVE  AppliedBar' = AppliedBar
BY DEF AppliedBar, LoadedBy

LEMMA StateBarStays ==
    ASSUME UNCHANGED manifest
    PROVE  StateBar' = StateBar
BY DEF StateBar, LedgerState

\* A commit applies the file of its invocation, and only that.
LEMMA AppliedBarMoves ==
    ASSUME NEW r \in Runs, LoadedBy(FileOf[r]) = {},
           warehouse' = warehouse \cup {r}
    PROVE  AppliedBar' = [AppliedBar EXCEPT ![FileOf[r]] = {r}]
<1>1. ASSUME NEW f \in Files
      PROVE  LoadedBy(f)' = IF f = FileOf[r] THEN {r} ELSE LoadedBy(f)
    BY DEF LoadedBy
<1>2. AppliedBar' = [f \in Files |-> LoadedBy(f)']
    BY DEF AppliedBar, LoadedBy
<1> QED
    BY <1>1, <1>2 DEF AppliedBar

\* Every step of the landing zone is a step of the ledger or a stutter.
LEMMA LedgerStep ==
    ASSUME NoLateFaults
    PROVE  SqliteInv /\ NoLateFailure /\ [LandingNext]_vars
               => [Ledger!LedgerNext]_<<StateBar, AppliedBar>>
<1> SUFFICES ASSUME SqliteInv, NoLateFailure, [LandingNext]_vars
             PROVE  [Ledger!LedgerNext]_<<StateBar, AppliedBar>>
    OBVIOUS
<1>1. CASE Clock \/ UNCHANGED vars
    BY <1>1, AppliedBarStays, StateBarStays DEF Clock, vars, dataVars
<1>2. ASSUME NEW r \in Runs, Step(r) \/ Fault(r)
      PROVE  [Ledger!LedgerNext]_<<StateBar, AppliedBar>>
    <2> DEFINE f == FileOf[r]
    <2>a. /\ f \in Files
          /\ LandingTypeOK
          /\ StateBar[f] = LedgerState(Status(r))
          /\ AppliedBar[f] = LoadedBy(f)
        BY LandingAssumption
        DEF StateBar, AppliedBar, Status, SqliteInv, LandingInv
    <2>b. pc[r] \in ClaimPcs => StateBar[f] = "claimed"
        BY <2>a, LedgerStates DEF SqliteInv, ClaimBinds, BoundPcs
    <2>c. pc[r] = "loading" => LoadedBy(f) = {}
        <3>1. RunState(r)
            BY DEF SqliteInv, LandingInv, RunStates
        <3>2. pc[r] = "loading" => r \notin warehouse
            BY <3>1 DEF RunState, FreshPcs
        <3> QED
            BY <3>2, ClaimantLoadsFirst DEF ClaimPcs, SectionPcs
    <2>1. CASE /\ pc[r] = "idle" /\ Status(r) \in {"absent", "failed"}
               /\ SetManifest(r, Row("processing", NoRun))
        <3>1. StateBar[f] = "open" /\ LoadedBy(f) = {}
            BY <2>1, <2>a, LedgerStates, LoadedIsClaimed DEF Status
        <3>2. AppliedBar' = AppliedBar
            BY <1>2, <2>1, WarehouseMoves, AppliedBarStays
        <3>3. StateBar' = [StateBar EXCEPT ![f] = "claimed"]
            BY <2>1, <2>a, StateBarMoves, LedgerStates
        <3>4. Ledger!Claim(f)
            BY <2>a, <3>1, <3>2, <3>3
            DEF Ledger!Claim, StateBar, AppliedBar
        <3> QED
            BY <2>a, <3>4 DEF Ledger!LedgerNext
    <2>2. CASE UNCHANGED manifest /\ UNCHANGED warehouse
        BY <2>2, AppliedBarStays, StateBarStays
    <2>3. CASE /\ pc[r] = "loading"
               /\ warehouse' = warehouse \cup {r}
               /\ UNCHANGED manifest
        <3>1. StateBar[f] = "claimed"
            BY <2>3, <2>b DEF ClaimPcs, SectionPcs
        <3>2. AppliedBar' = [AppliedBar EXCEPT ![f] = {r}]
            BY <2>3, <2>c, AppliedBarMoves
        <3>3. Ledger!Apply(f, r)
            BY <2>a, <2>c, <2>3, <3>1, <3>2, StateBarStays
            DEF Ledger!Apply, StateBar, AppliedBar
        <3> QED
            BY <2>a, <3>3 DEF Ledger!LedgerNext
    <2>4. CASE pc[r] = "finishing" /\ SetManifest(r, Row("succeeded", r))
        <3>1. r \in LoadedBy(f)
            BY <2>4
            DEF SqliteInv, LandingInv, RunStates, RunState, LoadedBy
        <3>2. AppliedBar' = AppliedBar
            BY <1>2, <2>4, WarehouseMoves, AppliedBarStays
        <3>3. StateBar' = [StateBar EXCEPT ![f] = "settled"]
            BY <2>4, <2>a, StateBarMoves, LedgerStates
        <3>4. Ledger!Settle(f)
            BY <2>a, <2>b, <2>4, <3>1, <3>2, <3>3
            DEF Ledger!Settle, StateBar, AppliedBar, ClaimPcs
        <3> QED
            BY <2>a, <3>4 DEF Ledger!LedgerNext
    <2>5. CASE pc[r] = "failing" /\ SetManifest(r, Row("failed", NoRun))
        <3>1. LoadedBy(f) = {}
            BY <2>5, ClaimantLoadsFirst DEF NoLateFailure, ClaimPcs
        <3>2. AppliedBar' = AppliedBar
            BY <1>2, <2>5, WarehouseMoves, AppliedBarStays
        <3>3. StateBar' = [StateBar EXCEPT ![f] = "open"]
            BY <2>5, <2>a, StateBarMoves, LedgerStates
        <3>4. Ledger!GiveBack(f)
            BY <2>a, <2>b, <2>5, <3>1, <3>2, <3>3
            DEF Ledger!GiveBack, StateBar, AppliedBar, ClaimPcs
        <3> QED
            BY <2>a, <3>4 DEF Ledger!LedgerNext
    <2> QED
        BY <1>2, <2>a, <2>1, <2>2, <2>3, <2>4, <2>5, ClaimMoves,
           WarehouseMoves
        DEF NoLateFaults, SqliteInv
<1> QED
    BY <1>1, <1>2 DEF LandingNext

\* The landing zone on SQLite implements the ledger.
THEOREM LandingImplementsLedger ==
    ASSUME NoLateFaults
    PROVE  LandingSpec => ImplementsLedger
<1>1. Dialect = "sqlite"
    BY DEF NoLateFaults
<1>2. LandingInit => NoLateFailure
    BY DEF LandingInit, NoLateFailure
<1>3. SqliteInv => LandingInv
    BY DEF SqliteInv
<1>4. LandingInit => Ledger!LedgerInit
    <2> SUFFICES ASSUME LandingInit
                 PROVE  Ledger!LedgerInit
        OBVIOUS
    <2>1. \A f \in Files : manifest[f].status = "absent"
        BY DEF LandingInit, Row
    <2>2. \A f \in Files : LoadedBy(f) = {}
        BY DEF LandingInit, LoadedBy
    <2> QED
        BY <2>1, <2>2, LedgerStates DEF Ledger!LedgerInit
<1>5. SqliteInv /\ NoLateFailure /\ [LandingNext]_vars
          => [Ledger!LedgerNext]_(Ledger!ledgerVars)
    BY LedgerStep DEF Ledger!ledgerVars, StateBar, AppliedBar
<1> QED
    BY <1>1, <1>2, <1>3, <1>4, <1>5, SqliteInvariant, NoLateFailureStep, PTL
    DEF LandingSpec, ImplementsLedger, Ledger!LedgerSpec
=============================================================================
