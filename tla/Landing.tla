------------------------------- MODULE Landing -------------------------------
(***************************************************************************)
(* process_source_file (data_platform/landing.py) around run_pipeline      *)
(* (data_platform/pipeline.py): concurrent invocations claim a file        *)
(* content in file_manifest, take the pipeline lock, load the warehouse in *)
(* one transaction, record the run, emit lineage events and settle the     *)
(* manifest row.                                                           *)
(*                                                                         *)
(* Each member of Runs is one invocation; a retry of the same file is      *)
(* another member. Every action is one transaction, one emitted event or   *)
(* one failure between them. The file's rows are abstracted to whether     *)
(* validation accepts the file and whether the load commits.               *)
(***************************************************************************)
EXTENDS PipelineLock

CONSTANTS
    Files,          \* file contents, told apart by checksum_sha256
    FileOf,         \* the file each invocation was given
    BadFiles,       \* files on which read_and_validate raises
    NoRun,          \* run_id NULL
    Dialect,        \* "sqlite" or "postgresql"
    StrictLineage   \* LineageEmitter.strict

ASSUME LandingAssumption ==
    /\ FileOf \in [Runs -> Files]
    /\ NoRun \notin Runs
    /\ Dialect \in {"sqlite", "postgresql"}
    /\ StrictLineage \in BOOLEAN

VARIABLES
    pc,             \* the control state of each invocation
    manifest,       \* file_manifest, by checksum
    runRow,         \* the status of each run's pipeline_runs row, or "none"
    warehouse,      \* runs whose rows are committed in the warehouse tables
    events          \* the lineage events delivered for each run

dataVars == <<manifest, runRow, warehouse, events>>
vars == <<now, locks, lockPhase, stamp, pc, manifest, runRow, warehouse, events>>

\* Inside the try block that the lock protects, and in its finally clause.
SectionPcs == {"validating", "loading", "recording", "announcing",
               "unwinding", "interrupted", "loaded"}

\* From a claimed manifest row to finish_file.
ClaimPcs == SectionPcs \cup {"claimed", "starting", "locking", "committed",
                             "finishing", "failing"}

\* Returned, raised, or dead.
EndPcs == {"skipped", "rejected", "done", "raised", "stranded", "crashed"}

Pcs == {"idle", "reclaiming"} \cup ClaimPcs \cup EndPcs

ManifestRows == [status : {"absent", "processing", "succeeded", "failed"},
                 run : Runs \cup {NoRun}]

LandingTypeOK ==
    /\ LockTypeOK
    /\ pc \in [Runs -> Pcs]
    /\ manifest \in [Files -> ManifestRows]
    /\ runRow \in [Runs -> {"none", "succeeded", "failed"}]
    /\ warehouse \subseteq Runs
    /\ events \in [Runs -> SUBSET {"START", "COMPLETE", "FAIL"}]

Row(status, run) == [status |-> status, run |-> run]

LandingInit ==
    /\ LockInit
    /\ pc = [r \in Runs |-> "idle"]
    /\ manifest = [f \in Files |-> Row("absent", NoRun)]
    /\ runRow = [r \in Runs |-> "none"]
    /\ warehouse = {}
    /\ events = [r \in Runs |-> {}]

Goto(r, label) == pc' = [pc EXCEPT ![r] = label]

SetManifest(r, row) == manifest' = [manifest EXCEPT ![FileOf[r]] = row]

-----------------------------------------------------------------------------
(* claim_file *)

Status(r) == manifest[FileOf[r]].status

\* INSERT ... ON CONFLICT DO NOTHING inserted the row.
ClaimNew(r) ==
    /\ pc[r] = "idle"
    /\ Status(r) = "absent"
    /\ SetManifest(r, Row("processing", NoRun))
    /\ Goto(r, "claimed")
    /\ UNCHANGED <<runRow, warehouse, events, lockVars>>

\* The row says succeeded: the invocation returns "skipped".
ClaimSkip(r) ==
    /\ pc[r] = "idle"
    /\ Status(r) = "succeeded"
    /\ Goto(r, "skipped")
    /\ UNCHANGED <<dataVars, lockVars>>

\* The row says processing (FileAlreadyClaimedError), or the file, the
\* connection, the migrations or the claim fails before anything is written.
ClaimReject(r) ==
    /\ pc[r] = "idle"
    /\ Status(r) = "processing" \/ "db" \in Faults
    /\ Goto(r, "rejected")
    /\ UNCHANGED <<dataVars, lockVars>>

\* Mutation: a row that still says processing is claimed as well.
ClaimUnsettled(r) ==
    /\ pc[r] = "idle"
    /\ Status(r) \in {"processing", "failed"}
    /\ SetManifest(r, Row("processing", NoRun))
    /\ Goto(r, "claimed")
    /\ UNCHANGED <<runRow, warehouse, events, lockVars>>

\* Mutation: a row that says succeeded is claimed as well.
ClaimSettled(r) ==
    /\ pc[r] = "idle"
    /\ Status(r) \in {"succeeded", "failed"}
    /\ SetManifest(r, Row("processing", NoRun))
    /\ Goto(r, "claimed")
    /\ UNCHANGED <<runRow, warehouse, events, lockVars>>

\* The row says failed. On SQLite the INSERT already holds the write lock, so
\* the UPDATE belongs to the same atomic step. PostgreSQL runs READ COMMITTED:
\* the status that was read may be out of date when the UPDATE runs.
ClaimFailed(r) ==
    /\ pc[r] = "idle"
    /\ Status(r) = "failed"
    /\ \/ /\ Dialect = "sqlite"
          /\ SetManifest(r, Row("processing", NoRun))
          /\ Goto(r, "claimed")
       \/ /\ Dialect = "postgresql"
          /\ Goto(r, "reclaiming")
          /\ UNCHANGED manifest
    /\ UNCHANGED <<runRow, warehouse, events, lockVars>>

\* The UPDATE names the checksum only, not the status that was read.
Reclaim(r) ==
    /\ pc[r] = "reclaiming"
    /\ SetManifest(r, Row("processing", NoRun))
    /\ Goto(r, "claimed")
    /\ UNCHANGED <<runRow, warehouse, events, lockVars>>

-----------------------------------------------------------------------------
(* LineageEmitter.emit_run_event *)

\* The client delivers the event; or it raises, having delivered it or not,
\* which the emitter swallows unless it is strict.
Emit(r, event, next, raised) ==
    \/ /\ events' = [events EXCEPT ![r] = @ \cup {event}]
       /\ Goto(r, next)
    \/ /\ "lineage" \in Faults
       /\ events' \in {events, [events EXCEPT ![r] = @ \cup {event}]}
       /\ Goto(r, IF StrictLineage THEN raised ELSE next)

EmitStart(r) ==
    /\ pc[r] = "claimed"
    /\ Emit(r, "START", "starting", "failing")
    /\ UNCHANGED <<manifest, runRow, warehouse, lockVars>>

EmitFail(r) ==
    /\ pc[r] = "announcing"
    /\ Emit(r, "FAIL", "unwinding", "unwinding")
    /\ UNCHANGED <<manifest, runRow, warehouse, lockVars>>

\* COMPLETE comes after the commit and after the release; a strict emitter
\* still turns its loss into an exception of run_pipeline.
EmitComplete(r) ==
    /\ pc[r] = "committed"
    /\ Emit(r, "COMPLETE", "finishing", "failing")
    /\ UNCHANGED <<manifest, runRow, warehouse, lockVars>>

-----------------------------------------------------------------------------
(* run_pipeline *)

\* Database.connect or apply_migrations raises, outside every try.
ConnectError(r) ==
    /\ "db" \in Faults
    /\ pc[r] = "starting"
    /\ Goto(r, "failing")
    /\ UNCHANGED <<dataVars, lockVars>>

EnterAcquire(r) ==
    /\ pc[r] = "starting"
    /\ ReadClock(r)
    /\ Goto(r, "locking")
    /\ UNCHANGED dataVars

EnterSection(r) ==
    /\ pc[r] = "locking"
    /\ AcquireLock(r)
    /\ Goto(r, "validating")
    /\ UNCHANGED dataVars

\* Mutation: a taken lock ends the run quietly, as if it had nothing to do.
LockedOutQuietly(r) ==
    /\ pc[r] = "locking"
    /\ LockOut(r)
    /\ Goto(r, "finishing")
    /\ UNCHANGED dataVars

\* acquire_lock is outside the try: no run row, no FAIL event.
LockedOut(r) ==
    /\ pc[r] = "locking"
    /\ LockOut(r)
    /\ Goto(r, "failing")
    /\ UNCHANGED dataVars

\* Mutation: a file that cannot be read is read again.
ReadAndValidateAgain(r) ==
    /\ pc[r] = "validating"
    /\ Goto(r, IF FileOf[r] \in BadFiles THEN "validating" ELSE "loading")
    /\ UNCHANGED <<dataVars, lockVars>>

\* read_and_validate raises (a missing column, a row it cannot digest) or
\* returns; what it returns is Warehouse's matter.
ReadAndValidate(r) ==
    /\ pc[r] = "validating"
    /\ Goto(r, IF FileOf[r] \in BadFiles THEN "recording" ELSE "loading")
    /\ UNCHANGED <<dataVars, lockVars>>

\* The main transaction commits: staging, dimension, facts, quarantine,
\* quality results and the succeeded run row together.
LoadCommit(r) ==
    /\ pc[r] = "loading"
    /\ warehouse' = warehouse \cup {r}
    /\ runRow' = [runRow EXCEPT ![r] = "succeeded"]
    /\ Goto(r, "loaded")
    /\ UNCHANGED <<manifest, events, lockVars>>

\* Mutation: the load is not one transaction; what it wrote stays.
LoadLeaks(r) ==
    /\ pc[r] = "loading"
    /\ "data" \in Faults \/ "db" \in Faults
    /\ warehouse' = warehouse \cup {r}
    /\ Goto(r, "recording")
    /\ UNCHANGED <<manifest, runRow, events, lockVars>>

\* A quality check or a statement raises: the transaction rolls back.
LoadRollback(r) ==
    /\ pc[r] = "loading"
    /\ "data" \in Faults \/ "db" \in Faults
    /\ Goto(r, "recording")
    /\ UNCHANGED <<dataVars, lockVars>>

\* store_run(status="failed") in a transaction of its own.
RecordFailure(r) ==
    /\ pc[r] = "recording"
    /\ runRow' = [runRow EXCEPT ![r] = "failed"]
    /\ Goto(r, "announcing")
    /\ UNCHANGED <<manifest, warehouse, events, lockVars>>

\* It raises in turn: neither run row nor FAIL event.
RecordError(r) ==
    /\ "db" \in Faults
    /\ pc[r] = "recording"
    /\ Goto(r, "unwinding")
    /\ UNCHANGED <<dataVars, lockVars>>

\* KeyboardInterrupt or SystemExit in the try or except block: not an
\* Exception, so only the finally clause runs.
Interrupt(r) ==
    /\ "interrupt" \in Faults
    /\ pc[r] \in {"validating", "loading", "recording", "announcing"}
    /\ Goto(r, "interrupted")
    /\ UNCHANGED <<dataVars, lockVars>>

\* Where control goes when the finally clause has run.
AfterRelease(label) ==
    CASE label = "loaded"      -> "committed"
      [] label = "unwinding"   -> "failing"
      [] label = "interrupted" -> "stranded"

LeaveSection(r) ==
    /\ pc[r] \in {"loaded", "unwinding", "interrupted"}
    /\ ReleaseLock(r)
    /\ Goto(r, AfterRelease(pc[r]))
    /\ UNCHANGED dataVars

\* release_lock raises in the finally clause: its exception replaces the
\* outcome, whatever that was, also a committed load.
ReleaseError(r) ==
    /\ pc[r] \in {"loaded", "unwinding", "interrupted"}
    /\ ReleaseLockError(r)
    /\ Goto(r, "failing")
    /\ UNCHANGED dataVars

-----------------------------------------------------------------------------
(* finish_file, at the end of process_source_file *)

FinishSucceeded(r) ==
    /\ pc[r] = "finishing"
    /\ SetManifest(r, Row("succeeded", r))
    /\ Goto(r, "done")
    /\ UNCHANGED <<runRow, warehouse, events, lockVars>>

\* Mutation: nobody settles the row of a failed run.
FinishForgotten(r) ==
    /\ pc[r] = "failing"
    /\ Goto(r, "raised")
    /\ UNCHANGED <<dataVars, lockVars>>

FinishFailed(r) ==
    /\ pc[r] = "failing"
    /\ SetManifest(r, Row("failed", NoRun))
    /\ Goto(r, "raised")
    /\ UNCHANGED <<runRow, warehouse, events, lockVars>>

\* finish_file itself raises: the row stays "processing".
FinishError(r) ==
    /\ "db" \in Faults
    /\ pc[r] \in {"finishing", "failing"}
    /\ Goto(r, "stranded")
    /\ UNCHANGED <<dataVars, lockVars>>

\* The process dies; what it committed stays, and so does its lock row.
Crash(r) ==
    /\ "crash" \in Faults
    /\ pc[r] \in ClaimPcs \cup {"reclaiming"}
    /\ \/ CrashHolder(r)
       \/ lockPhase[r] \notin {"stamped", "holding"} /\ UNCHANGED lockVars
    /\ Goto(r, "crashed")
    /\ UNCHANGED dataVars

-----------------------------------------------------------------------------

ClaimFile(r) ==
    ClaimNew(r) \/ ClaimSkip(r) \/ ClaimReject(r) \/ ClaimFailed(r)

RunPipeline(r) ==
    \/ EmitStart(r) \/ EnterAcquire(r) \/ EnterSection(r) \/ LockedOut(r)
    \/ ReadAndValidate(r) \/ LoadCommit(r) \/ LoadRollback(r)
    \/ RecordFailure(r) \/ EmitFail(r) \/ LeaveSection(r) \/ EmitComplete(r)

FinishFile(r) == FinishSucceeded(r) \/ FinishFailed(r)

\* The invocation's own next step.
Step(r) == ClaimFile(r) \/ Reclaim(r) \/ RunPipeline(r) \/ FinishFile(r)

\* What goes wrong around it.
Fault(r) ==
    \/ ConnectError(r) \/ RecordError(r) \/ ReleaseError(r) \/ FinishError(r)
    \/ Interrupt(r) \/ Crash(r)

Clock == Tick /\ UNCHANGED <<pc, dataVars>>

LandingNext == Clock \/ \E r \in Runs : Step(r) \/ Fault(r)

LandingSpec == LandingInit /\ [][LandingNext]_vars

\* A started invocation is a process that keeps running; starting one is the
\* scheduler's choice.
FairLandingSpec ==
    LandingSpec /\ \A r \in Runs : WF_vars(pc[r] # "idle" /\ Step(r))

-----------------------------------------------------------------------------
(* Safety *)

\* At most one invocation works under the claim of a file, and while it does
\* the row says "processing".
OneClaimant ==
    \A r \in Runs :
        pc[r] \in ClaimPcs =>
            /\ Status(r) = "processing"
            /\ \A s \in Runs :
                   pc[s] \in ClaimPcs /\ FileOf[s] = FileOf[r] => s = r

\* A succeeded manifest row names the run that loaded that very file, and
\* that run's pipeline_runs row agrees.
SucceededRowIsTrue ==
    \A f \in Files :
        manifest[f].status = "succeeded" =>
            \E r \in warehouse :
                /\ FileOf[r] = f
                /\ manifest[f].run = r
                /\ runRow[r] = "succeeded"

\* What lineage says of a run agrees with the tables: COMPLETE only of a run
\* whose load is committed, FAIL only of a run recorded as failed with
\* nothing of it in the warehouse.
TerminalEventIsTrue ==
    \A r \in Runs :
        /\ "COMPLETE" \in events[r] => r \in warehouse
        /\ "FAIL" \in events[r] => r \notin warehouse /\ runRow[r] = "failed"

LoadedBy(f) == {r \in warehouse : FileOf[r] = f}

\* A file content is loaded a second time only when the invocation that
\* loaded it first ended by raising, after its commit. Neither a crash nor a
\* failing finish_file leads to a second load.
SecondLoadNeedsRaise ==
    \A f \in Files : \A r, s \in LoadedBy(f) :
        r = s \/ pc[r] = "raised" \/ pc[s] = "raised"

\* Each file content is loaded at most once.
LoadedAtMostOnce == \A f \in Files : \A r, s \in LoadedBy(f) : r = s

\* A file the manifest calls failed, which will be processed again, has left
\* nothing in the warehouse.
FailedMeansNotLoaded ==
    \A f \in Files : manifest[f].status = "failed" => LoadedBy(f) = {}

\* Once succeeded, a manifest row never changes and the file is never loaded
\* again.
SucceededIsFinal ==
    [][\A f \in Files :
          manifest[f].status = "succeeded" =>
              /\ manifest'[f] = manifest[f]
              /\ \A r \in warehouse' \ warehouse : FileOf[r] # f]_vars

\* A load commits while its run still has its lock row, unless the run has
\* outlived its lease.
LoadsUnderLease ==
    [][\A r \in warehouse' \ warehouse :
          LockRow(r) \in locks \/ Lapsed(r)]_vars

(* Liveness *)

\* Every started invocation returns or raises.
InvocationEnds == \A r \in Runs : pc[r] # "idle" ~> pc[r] \in EndPcs

\* No file stays "processing".
ClaimIsSettled ==
    \A f \in Files :
        manifest[f].status = "processing" ~> manifest[f].status # "processing"

(* Stated by the documentation, not given by the code *)

\* Every run that announced START and then ended announced COMPLETE or FAIL.
StartHasTerminalEvent ==
    \A r \in Runs :
        pc[r] \in {"done", "raised"} /\ "START" \in events[r] =>
            events[r] \cap {"COMPLETE", "FAIL"} # {}

-----------------------------------------------------------------------------
(* The promise: FileLedger, read off the manifest and the warehouse. *)

LedgerState(status) ==
    CASE status \in {"absent", "failed"} -> "open"
      [] status = "processing"           -> "claimed"
      [] status = "succeeded"            -> "settled"

Ledger == INSTANCE FileLedger WITH
    state <- [f \in Files |-> LedgerState(manifest[f].status)],
    applied <- [f \in Files |-> LoadedBy(f)]

\* Without lost strict events and database errors, the landing zone on SQLite
\* implements the ledger, crashes and interrupts included.
ImplementsLedger == Ledger!LedgerSpec
=============================================================================
