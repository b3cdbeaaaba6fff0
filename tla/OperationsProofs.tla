-------------------------- MODULE OperationsProofs --------------------------
(* Proofs about the callers of Operations, on SQLite.                      *)
EXTENDS Operations, LandingProofs, FiniteSetTheorems

(* The rate *)

LEMMA LargerProduct ==
    ASSUME NEW a \in Nat, NEW x \in Nat, NEW y \in Nat, x <= y
    PROVE  2 * a * x <= 2 * a * y
OBVIOUS

LEMMA HitsFinite ==
    ASSUME NEW S, NEW rows \in Seq(S)
    PROVE  /\ IsFiniteSet(Hits(rows))
           /\ Cardinality(Hits(rows)) \in Nat
           /\ Cardinality(Hits(rows)) <= Len(rows)
           /\ Cardinality(Hits(rows)) = Len(rows) => Hits(rows) = DOMAIN rows
<1>1. Len(rows) \in Nat /\ DOMAIN rows = 1 .. Len(rows)
    OBVIOUS
<1>2. IsFiniteSet(DOMAIN rows) /\ Cardinality(DOMAIN rows) = Len(rows)
    BY <1>1, FS_Interval
<1>3. Hits(rows) \subseteq DOMAIN rows
    BY DEF Hits
<1> QED BY <1>2, <1>3, FS_Subset, FS_CardinalityType

\* Meeting the target, up to the rounding.
LEMMA RateMeetsTarget ==
    ASSUME NEW S, NEW rows \in Seq(S), rows # <<>>,
           NEW rate \in SuccessRates(rows), ~(rate < SLO)
    PROVE  2 * SLO * Len(rows) - 20000 * Cardinality(Hits(rows)) <= Len(rows)
<1> DEFINE n == Cardinality(Hits(rows))
           t == Len(rows)
           d == (10000 * n) \div t
<1>1. n \in Nat /\ t \in Nat \ {0} /\ SLO \in Nat
    BY HitsFinite, MonitoringAssumption
<1>2. rate \in {d, d + 1} /\ 2 * t * rate - 20000 * n \in (-t) .. t
    BY DEF SuccessRates, Percents
<1>3. d \in Int
    BY <1>1
<1> HIDE DEF n, t, d
<1>4. rate \in Int /\ SLO <= rate
    BY <1>1, <1>2, <1>3
<1>5. 2 * t * rate - 20000 * n <= t
    BY <1>1, <1>2, <1>4
<1>6. 2 * t * SLO <= 2 * t * rate
    <2>1. rate \in Nat
        BY <1>1, <1>4
    <2>2. \A x, y \in Nat : x <= y => 2 * t * x <= 2 * t * y
        BY <1>1, LargerProduct
    <2> QED BY <1>1, <1>4, <2>1, <2>2
<1>7. 2 * t * SLO = 2 * SLO * t
    BY <1>1
<1>8. 2 * SLO * t - 20000 * n <= t
    BY <1>1, <1>4, <1>5, <1>6, <1>7
<1> QED BY <1>8 DEF n, t

\* Without a failed run the rate is a hundred percent.
LEMMA FullRate ==
    ASSUME NEW S, NEW rows \in Seq(S), rows # <<>>, Hits(rows) = DOMAIN rows,
           NEW rate \in SuccessRates(rows)
    PROVE  ~(rate < SLO)
<1> DEFINE t == Len(rows)
<1>1. t \in Nat \ {0} /\ DOMAIN rows = 1 .. t
    OBVIOUS
<1>2. Cardinality(Hits(rows)) = t
    BY <1>1, FS_Interval
<1>3. rate \in {(10000 * t) \div t, (10000 * t) \div t + 1}
    BY <1>2 DEF SuccessRates, Percents
<1> HIDE DEF t
<1>4. (10000 * t) \div t = 10000
    BY <1>1
<1>5. SLO \in Nat /\ SLO <= 10000
    BY MonitoringAssumption
<1> QED BY <1>3, <1>4, <1>5

-----------------------------------------------------------------------------
(* One call *)

\* How calls end agrees with the manifest: a call is skipped only over a
\* settled file, and a settled file names a call that returned.
EndsTrue ==
    /\ \A r \in Runs : pc[r] = "skipped" => manifest[FileOf[r]].status = "succeeded"
    /\ \A f \in Files : manifest[f].status = "succeeded" =>
           manifest[f].run \in Runs /\ pc[manifest[f].run] = "done"

CallInv == SqliteInv /\ EndsTrue

\* NoSource, for the invocation.
Unseen(r) ==
    /\ pc[r] = "idle"
    /\ Goto(r, "rejected")
    /\ UNCHANGED <<dataVars, lockVars>>

Call(r) == Step(r) \/ Fault(r) \/ Unseen(r)

\* An invocation that has ended takes no step.
LEMMA EndedCallsRest ==
    ASSUME NEW r, Call(r)
    PROVE  pc[r] \notin EndPcs
BY DEF Call, Unseen, EndPcs, ClaimPcs, SectionPcs,
       Step, Fault, ClaimFile, ClaimNew, ClaimSkip, ClaimReject,
       ClaimFailed, Reclaim, RunPipeline, EmitStart, EnterAcquire,
       EnterSection, LockedOut, ReadAndValidate, LoadCommit, LoadRollback,
       RecordFailure, EmitFail, LeaveSection, EmitComplete, FinishFile,
       FinishSucceeded, FinishFailed, ConnectError, RecordError, ReleaseError,
       FinishError, Interrupt, Crash

LEMMA CallFrame ==
    ASSUME LandingTypeOK, NEW r \in Runs, Call(r), NEW s \in Runs, s # r
    PROVE  pc'[s] = pc[s] /\ runRow'[s] = runRow[s]
BY StepFrame DEF Call, Unseen, Goto, dataVars, LandingTypeOK

\* A run row is written once.
LEMMA RunRowMoves ==
    ASSUME LandingInv, NEW r \in Runs, Call(r)
    PROVE  \/ UNCHANGED runRow
           \/ runRow[r] = "none" /\ runRow'[r] \in {"succeeded", "failed"}
<1>1. LandingTypeOK /\ RunState(r)
    BY DEF LandingInv, RunStates
<1>2. CASE LoadCommit(r) \/ RecordFailure(r)
    BY <1>1, <1>2 DEF LoadCommit, RecordFailure, LandingTypeOK, RunState, FreshPcs
<1>3. CASE ~LoadCommit(r) /\ ~RecordFailure(r)
    BY <1>3
    DEF Call, Unseen, Step, Fault, ClaimFile, ClaimNew, ClaimSkip, ClaimReject,
        ClaimFailed, Reclaim, RunPipeline, EmitStart, EnterAcquire,
        EnterSection, LockedOut, ReadAndValidate, LoadRollback, EmitFail,
        LeaveSection, EmitComplete, FinishFile, FinishSucceeded, FinishFailed,
        ConnectError, RecordError, ReleaseError, FinishError, Interrupt, Crash,
        dataVars
<1> QED BY <1>2, <1>3

\* What is loaded and recorded stays.
LEMMA CallKeepsLoads ==
    ASSUME LandingInv, NEW r \in Runs, Call(r), NEW s \in warehouse
    PROVE  s \in warehouse' /\ runRow'[s] = "succeeded"
<1>1. LandingTypeOK /\ RunStates /\ s \in Runs
    BY DEF LandingInv, LandingTypeOK
<1>2. CASE Unseen(r)
    BY <1>1, <1>2 DEF Unseen, dataVars, RunStates, RunState
<1>3. CASE Step(r) \/ Fault(r)
    BY <1>1, <1>3, LoadedStays DEF LandingNext
<1> QED BY <1>2, <1>3 DEF Call

LEMMA UnseenKeepsSqliteInv ==
    ASSUME SqliteInv, NEW r \in Runs, Unseen(r)
    PROVE  SqliteInv'
<1> USE DEF SqliteInv, LandingInv, LandingTypeOK, Unseen, Goto, dataVars
<1>1. /\ pc' \in [Runs -> Pcs]
      /\ pc[r] = "idle" /\ pc'[r] = "rejected"
      /\ \A s \in Runs \ {r} : pc'[s] = pc[s]
    BY DEF Pcs, EndPcs
<1>2. LandingTypeOK'
    BY <1>1 DEF lockVars, LockTypeOK
<1>3. RunStates'
    BY <1>1 DEF RunStates, RunState, FreshPcs, SectionPcs, lockVars
<1>4. SucceededRowIsTrue'
    BY DEF SucceededRowIsTrue
<1>5. ClaimBinds' /\ DoneSettles' /\ NobodyReclaims'
    BY <1>1 DEF ClaimBinds, DoneSettles, NobodyReclaims, Status, BoundPcs,
                ClaimPcs, SectionPcs
<1> QED BY <1>2, <1>3, <1>4, <1>5

LEMMA CallKeepsSqliteInv ==
    ASSUME Dialect = "sqlite", SqliteInv, NEW r \in Runs, Call(r)
    PROVE  SqliteInv'
<1>1. CASE Step(r) \/ Fault(r)
    BY <1>1, SqliteInvStep DEF LandingNext
<1> QED BY <1>1, UnseenKeepsSqliteInv DEF Call

\* A settled file is left alone.
LEMMA CallKeepsSettled ==
    ASSUME Dialect = "sqlite", SqliteInv, NEW r \in Runs, Call(r),
           NEW f \in Files, manifest[f].status = "succeeded"
    PROVE  manifest'[f] = manifest[f]
<1>1. CASE Step(r) \/ Fault(r)
    <2>1. [\A g \in Files :
              manifest[g].status = "succeeded" =>
                  /\ manifest'[g] = manifest[g]
                  /\ \A s \in warehouse' \ warehouse : FileOf[s] # g]_vars
        BY <1>1, FinalStep DEF LandingNext
    <2> QED BY <2>1 DEF vars
<1>2. CASE Unseen(r)
    BY <1>2 DEF Unseen, dataVars
<1> QED BY <1>1, <1>2 DEF Call

\* Only the claim ends a call as skipped, and it leaves the manifest alone.
LEMMA SkippedByClaim ==
    ASSUME LandingTypeOK, NEW r \in Runs, Call(r), pc'[r] = "skipped"
    PROVE  manifest[FileOf[r]].status = "succeeded" /\ UNCHANGED manifest
<1>1. pc[r] # "skipped"
    BY EndedCallsRest DEF EndPcs
<1>2. ClaimSkip(r)
    BY <1>1
    DEF Call, Unseen, Goto, LandingTypeOK, Step, Fault, ClaimFile, ClaimNew,
        ClaimReject, ClaimFailed, Reclaim, RunPipeline, EmitStart, EmitFail,
        EmitComplete, Emit, EnterAcquire, EnterSection, LockedOut,
        ReadAndValidate, LoadCommit, LoadRollback, RecordFailure,
        LeaveSection, AfterRelease, FinishFile, FinishSucceeded,
        FinishFailed, ConnectError, RecordError, ReleaseError, FinishError,
        Interrupt, Crash
<1> QED BY <1>2 DEF ClaimSkip, Status, dataVars

LEMMA CallKeepsEnds ==
    ASSUME Dialect = "sqlite", CallInv, NEW r \in Runs, Call(r)
    PROVE  EndsTrue'
<1> USE DEF CallInv
<1>1. /\ LandingTypeOK /\ NobodyReclaims /\ LandingTypeOK'
      /\ pc[r] \notin EndPcs
      /\ \A s \in Runs \ {r} : pc'[s] = pc[s]
      /\ FileOf \in [Runs -> Files]
    BY EndedCallsRest, CallFrame, CallKeepsSqliteInv, LandingAssumption
    DEF SqliteInv, LandingInv
<1>2. \/ UNCHANGED manifest
      \/ SetManifest(r, Row("processing", NoRun))
      \/ pc'[r] = "raised" /\ SetManifest(r, Row("failed", NoRun))
      \/ pc'[r] = "done" /\ SetManifest(r, Row("succeeded", r))
    BY <1>1, ClaimMoves DEF Call, Unseen, dataVars
<1>3. \A f \in Files :
          \/ manifest'[f] = manifest[f]
          \/ manifest'[f].status # "succeeded"
          \/ f = FileOf[r] /\ manifest'[f] = Row("succeeded", r) /\ pc'[r] = "done"
    BY <1>1, <1>2 DEF SetManifest, LandingTypeOK, Row
<1>4. ASSUME NEW s \in Runs, pc'[s] = "skipped"
      PROVE  manifest'[FileOf[s]].status = "succeeded"
    <2>1. CASE s = r
        BY <1>1, <1>4, <2>1, SkippedByClaim
    <2>2. CASE s # r
        BY <1>1, <1>4, <2>2, CallKeepsSettled DEF EndsTrue
    <2> QED BY <2>1, <2>2
<1>5. ASSUME NEW f \in Files, manifest'[f].status = "succeeded"
      PROVE  manifest'[f].run \in Runs /\ pc'[manifest'[f].run] = "done"
    <2>1. CASE manifest'[f] = manifest[f]
        <3>1. manifest[f].run \in Runs /\ pc[manifest[f].run] = "done"
            BY <1>5, <2>1 DEF EndsTrue
        <3> QED BY <1>1, <2>1, <3>1 DEF EndPcs
    <2>2. CASE manifest'[f] # manifest[f]
        BY <1>3, <1>5, <2>2 DEF Row
    <2> QED BY <2>1, <2>2
<1> QED BY <1>4, <1>5 DEF EndsTrue

-----------------------------------------------------------------------------
(* The callers *)

\* What a call has returned is still what the manifest says.
AnswerTrue ==
    \A r \in Runs : pc[r] \in {"skipped", "done"} => answer[r] = manifest[FileOf[r]].run

\* pipeline_runs is the run rows that exist.
HistoryTrue ==
    \A r \in Runs : runRow[r] # "none" <=> \E i \in DOMAIN history : history[i] = r

\* What a batch that run_backfill does not call failed stands for.
BatchTrue(i) ==
    /\ results[i].run \in Runs
    /\ Stored("backfill", i, results[i].run)
    /\ FileRow("backfill", i).status = "succeeded"

\* results has one entry for each date that is over, in their order, and one
\* that says succeeded for each call of the backfill that loaded its file.
ResultsTrue ==
    /\ at["backfill"] <= LastDate["backfill"] =>
           /\ Len(results) = at["backfill"] - 1
           /\ ~goOn => Batches("failed") = {}
    /\ at["backfill"] > LastDate["backfill"] /\ Len(results) < LastDate["backfill"] =>
           ~goOn /\ Batches("failed") = {Len(results)}
    /\ \A i \in DOMAIN results : results[i].status # "failed" => BatchTrue(i)
    /\ \A r \in Runs : r[1] = "backfill" /\ pc[r] = "done" =>
           \/ r[2] \in DOMAIN results /\ results[r[2]].status = "succeeded"
           \/ r = Current("backfill") /\ at["backfill"] \in Dates("backfill")

\* What the gate has read is still so, and holds the run it asks about.
GateTrue ==
    /\ \A i \in DOMAIN seen : seen[i].status = runRow[seen[i].run]
    /\ seen # <<>> =>
           /\ Returned("airflow")
           /\ Len(seen) <= Len(history)
           /\ \E i \in DOMAIN seen : seen[i].run = ResultRun("airflow")

OpsInv ==
    /\ OpsTypeOK
    /\ CallInv
    /\ AnswerTrue
    /\ HistoryTrue
    /\ ResultsTrue
    /\ GateTrue

LEMMA ElementType ==
    ASSUME NEW S, NEW q \in Seq(S), NEW i \in DOMAIN q
    PROVE  q[i] \in S
OBVIOUS

LEMMA FunctionIsSeq ==
    ASSUME NEW S, NEW n \in Nat, NEW q \in [1 .. n -> S]
    PROVE  q \in Seq(S) /\ Len(q) = n
OBVIOUS

\* Every attempt is an invocation; the attempts at one date are for one file.
LEMMA AttemptsAreRuns ==
    ASSUME OpsTypeOK, NEW c \in Callers, at[c] \in Dates(c)
    PROVE  /\ Current(c) \in Runs
           /\ Current(c)[1] = c /\ Current(c)[2] = at[c]
           /\ <<c, at[c], 1>> \in Runs
           /\ FileOf[Current(c)] = FileOf[<<c, at[c], 1>>]
<1>1. attempt[c] \in 1 .. MaxAttempts /\ 1 \in 1 .. MaxAttempts
    BY OperationsAssumption DEF OpsTypeOK
<1>2. Current(c) \in Runs /\ <<c, at[c], 1>> \in Runs
    BY <1>1, OperationsAssumption DEF Current
<1>3. FileOf[Current(c)] = FileOf[<<c, at[c], 1>>]
    BY <1>2, OperationsAssumption DEF Current
<1> QED BY <1>2, <1>3 DEF Current

\* A call that has returned leaves its file settled by a run that loaded it.
LEMMA ReturnedIsStored ==
    ASSUME OpsTypeOK, CallInv, AnswerTrue, NEW c \in Callers, Returned(c)
    PROVE  /\ at[c] \in Dates(c) /\ Current(c) \in Runs
           /\ FileRow(c, at[c]).status = "succeeded"
           /\ ResultRun(c) = FileRow(c, at[c]).run
           /\ ResultRun(c) \in Runs
           /\ Stored(c, at[c], ResultRun(c))
           /\ At(c, {"done"}) => ResultRun(c) = Current(c)
<1>1. /\ at[c] \in Dates(c) /\ pc[Current(c)] \in {"done", "skipped"}
      /\ Current(c) \in Runs
      /\ FileOf[Current(c)] = FileOf[<<c, at[c], 1>>]
      /\ FileOf[Current(c)] \in Files
    BY AttemptsAreRuns, LandingAssumption DEF Returned, At
<1>2. /\ manifest[FileOf[Current(c)]].status = "succeeded"
      /\ pc[Current(c)] = "done" => manifest[FileOf[Current(c)]].run = Current(c)
    <2>1. CASE pc[Current(c)] = "done"
        <3>1. manifest[FileOf[Current(c)]] = Row("succeeded", Current(c))
            BY <1>1, <2>1 DEF CallInv, SqliteInv, DoneSettles
        <3> QED BY <3>1 DEF Row
    <2>2. CASE pc[Current(c)] = "skipped"
        BY <1>1, <2>2 DEF CallInv, EndsTrue
    <2> QED BY <1>1, <2>1, <2>2
<1>3. \E r \in warehouse :
          /\ FileOf[r] = FileOf[Current(c)]
          /\ manifest[FileOf[Current(c)]].run = r
          /\ runRow[r] = "succeeded"
    BY <1>1, <1>2 DEF CallInv, SqliteInv, LandingInv, SucceededRowIsTrue
<1>4. warehouse \subseteq Runs
    BY DEF CallInv, SqliteInv, LandingInv, LandingTypeOK
<1>5. ResultRun(c) = manifest[FileOf[Current(c)]].run
    BY <1>1 DEF AnswerTrue, ResultRun
<1> QED BY <1>1, <1>2, <1>3, <1>4, <1>5 DEF FileRow, Stored, At

LEMMA OpsInvInit == OpsInit => OpsInv
<1> SUFFICES ASSUME OpsInit
             PROVE  OpsInv
    OBVIOUS
<1>1. OpsTypeOK
    BY OperationsAssumption DEF OpsInit, OpsTypeOK, Callers, Dates, Verdicts
<1>2. CallInv
    BY SqliteInvInit DEF OpsInit, LandingInit, CallInv, EndsTrue, Row
<1>3. AnswerTrue /\ HistoryTrue /\ ResultsTrue /\ GateTrue
    BY OperationsAssumption
    DEF OpsInit, LandingInit, AnswerTrue, HistoryTrue, ResultsTrue, GateTrue,
        Batches, Callers, Dates
<1> QED BY <1>1, <1>2, <1>3 DEF OpsInv

\* What a step of the two callers is.
LEMMA OpsSteps ==
    ASSUME OpsTypeOK, LandingTypeOK, [OpsNext]_opsVars
    PROVE  \/ \E c \in Callers :
                  /\ at[c] \in Dates(c) /\ Call(Current(c))
                  /\ KeepHistory(c) /\ KeepAnswer(c) /\ UNCHANGED callerVars
           \/ Clock /\ UNCHANGED <<history, answer, callerVars>>
           \/ UNCHANGED opsVars
           \/ BackfillStep \/ DagStep
<1>1. ASSUME NEW c \in Callers, NoSource(c)
      PROVE  /\ at[c] \in Dates(c) /\ Call(Current(c))
             /\ KeepHistory(c) /\ KeepAnswer(c) /\ UNCHANGED callerVars
    <2>1. at[c] \in Dates(c) /\ Call(Current(c)) /\ KeepHistory(c)
        BY <1>1 DEF NoSource, At, Call, Unseen, KeepHistory, dataVars
    <2>2. pc'[Current(c)] = "rejected" /\ UNCHANGED <<answer, callerVars>>
        BY <1>1, <2>1, AttemptsAreRuns DEF NoSource, Goto, LandingTypeOK
    <2> QED BY <2>1, <2>2 DEF KeepAnswer
<1>2. ASSUME NEW c \in Callers, CallStep(c) \/ CallFault(c)
      PROVE  /\ at[c] \in Dates(c) /\ Call(Current(c))
             /\ KeepHistory(c) /\ KeepAnswer(c) /\ UNCHANGED callerVars
    BY <1>2 DEF CallStep, CallFault, Call
<1> QED BY <1>1, <1>2 DEF OpsNext, CallerStep

\* What a call returns is what the manifest says, then and later.
LEMMA CallKeepsAnswers ==
    ASSUME Dialect = "sqlite", OpsInv, NEW c \in Callers, at[c] \in Dates(c),
           Call(Current(c)), KeepAnswer(c)
    PROVE  /\ AnswerTrue'
           /\ answer' \in [Runs -> Runs \cup {NoRun}]
           /\ \A s \in Runs \ {Current(c)} : answer'[s] = answer[s]
<1> DEFINE r == Current(c)
<1> USE DEF OpsInv, CallInv
<1>1. /\ r \in Runs /\ FileOf \in [Runs -> Files]
      /\ manifest \in [Files -> ManifestRows]
      /\ LandingTypeOK
      /\ answer \in [Runs -> Runs \cup {NoRun}]
    BY AttemptsAreRuns, LandingAssumption
    DEF SqliteInv, LandingInv, LandingTypeOK, OpsTypeOK
<1>2. ExistingRun(c) = manifest[FileOf[r]].run /\ ExistingRun(c) \in Runs \cup {NoRun}
    BY <1>1 DEF ExistingRun, ManifestRows
<1>3. /\ pc'[r] = "skipped" => answer' = [answer EXCEPT ![r] = ExistingRun(c)]
      /\ pc'[r] = "done" => answer' = [answer EXCEPT ![r] = r]
      /\ pc'[r] \notin {"skipped", "done"} => answer' = answer
    BY DEF KeepAnswer
<1> HIDE DEF r
<1>4. /\ answer' \in [Runs -> Runs \cup {NoRun}]
      /\ \A s \in Runs \ {r} : answer'[s] = answer[s]
    BY <1>1, <1>2, <1>3
<1>5. ASSUME pc'[r] \in {"skipped", "done"}
      PROVE  answer'[r] = manifest'[FileOf[r]].run
    <2>1. CASE pc'[r] = "skipped"
        BY <1>1, <1>2, <1>3, <2>1, SkippedByClaim DEF r
    <2>2. CASE pc'[r] = "done"
        <3>1. manifest'[FileOf[r]] = Row("succeeded", r)
            BY <1>1, <2>2, CallKeepsSqliteInv DEF r, SqliteInv, DoneSettles
        <3> QED BY <1>1, <1>3, <2>2, <3>1 DEF Row
    <2> QED BY <1>5, <2>1, <2>2
<1>6. ASSUME NEW s \in Runs, s # r, pc'[s] \in {"skipped", "done"}
      PROVE  answer'[s] = manifest'[FileOf[s]].run
    <2>1. pc[s] \in {"skipped", "done"} /\ answer'[s] = answer[s]
        BY <1>1, <1>4, <1>6, CallFrame DEF r
    <2>2. manifest[FileOf[s]].status = "succeeded" /\ FileOf[s] \in Files
        <3>1. CASE pc[s] = "skipped"
            BY <1>1, <3>1 DEF EndsTrue
        <3>2. CASE pc[s] = "done"
            <4>1. manifest[FileOf[s]] = Row("succeeded", s)
                BY <3>2 DEF SqliteInv, DoneSettles
            <4> QED BY <1>1, <4>1 DEF Row
        <3> QED BY <2>1, <3>1, <3>2
    <2>3. manifest'[FileOf[s]] = manifest[FileOf[s]]
        BY <1>1, <2>2, CallKeepsSettled DEF r
    <2> QED BY <2>1, <2>3 DEF AnswerTrue
<1> QED BY <1>4, <1>5, <1>6 DEF AnswerTrue, r

\* A step of one call, seen from both callers.
LEMMA CallStepKeeps ==
    ASSUME Dialect = "sqlite", OpsInv, NEW c \in Callers, at[c] \in Dates(c),
           Call(Current(c)), KeepHistory(c), KeepAnswer(c), UNCHANGED callerVars
    PROVE  OpsInv'
<1> DEFINE r == Current(c)
<1> USE DEF OpsInv, CallInv, SqliteInv, LandingInv
<1>1. r \in Runs /\ r[1] = c /\ pc[r] \notin EndPcs
      /\ \A s \in Runs \ {r} : pc'[s] = pc[s] /\ runRow'[s] = runRow[s]
    <2>1. r \in Runs /\ r[1] = c
        BY AttemptsAreRuns
    <2>2. pc[r] \notin EndPcs
        BY EndedCallsRest
    <2>3. \A s \in Runs \ {r} : pc'[s] = pc[s] /\ runRow'[s] = runRow[s]
        BY <2>1, CallFrame
    <2> QED BY <2>1, <2>2, <2>3
<1>2. \/ UNCHANGED <<runRow, history>>
      \/ /\ runRow[r] = "none" /\ runRow'[r] \in {"succeeded", "failed"}
         /\ history' = Append(history, r)
    BY <1>1, RunRowMoves DEF KeepHistory
<1>3. CallInv'
    BY <1>1, CallKeepsSqliteInv, CallKeepsEnds
<1>4. UNCHANGED <<goOn, at, attempt, results, seen, verdict>>
      /\ \A d : Current(d)' = Current(d)
    BY DEF callerVars, Current
<1>5. OpsTypeOK'
    <2>1. history' \in Seq(Runs)
        <3>1. history \in Seq(Runs)
            BY DEF OpsTypeOK
        <3> HIDE DEF r
        <3> QED BY <1>1, <1>2, <3>1
    <2> QED BY <1>1, <1>4, <2>1, CallKeepsAnswers DEF OpsTypeOK
<1>6. history \in Seq(Runs) /\ Len(history) \in Nat /\ Len(history') \in Nat
      /\ Len(history) <= Len(history')
    BY <1>1, <1>2 DEF OpsTypeOK
<1>7. HistoryTrue'
    <2>1. CASE UNCHANGED <<runRow, history>>
        BY <2>1 DEF HistoryTrue
    <2>2. CASE /\ runRow[r] = "none" /\ runRow'[r] \in {"succeeded", "failed"}
               /\ history' = Append(history, r)
        <3>1. /\ DOMAIN history' = DOMAIN history \cup {Len(history) + 1}
              /\ \A i \in DOMAIN history : history'[i] = history[i]
              /\ history'[Len(history) + 1] = r
            BY <1>6, <2>2
        <3> QED BY <1>1, <2>2, <3>1 DEF HistoryTrue
    <2> QED BY <1>2, <2>1, <2>2
<1>8. ASSUME NEW f \in Files, manifest[f].status = "succeeded"
      PROVE  manifest'[f] = manifest[f]
    BY <1>1, <1>8, CallKeepsSettled
<1>9. ResultsTrue'
    <2>1. ASSUME NEW i \in DOMAIN results, results[i].status # "failed"
          PROVE  BatchTrue(i)'
        <3>1. BatchTrue(i)
            BY <2>1 DEF ResultsTrue
        <3>2. <<"backfill", i, 1>> \in Runs /\ FileOf[<<"backfill", i, 1>>] \in Files
            <4>1. i \in Dates("backfill")
                BY OperationsAssumption DEF OpsTypeOK, Dates, Callers
            <4>2. 1 \in 1 .. MaxAttempts
                BY OperationsAssumption
            <4> QED BY <4>1, <4>2, OperationsAssumption, LandingAssumption DEF Callers
        <3> QED BY <1>1, <1>4, <1>8, <3>1, <3>2, CallKeepsLoads
                DEF BatchTrue, Stored, FileRow
    <2>2. ASSUME NEW s \in Runs, s[1] = "backfill", pc'[s] = "done"
          PROVE  \/ s[2] \in DOMAIN results /\ results[s[2]].status = "succeeded"
                 \/ s = Current("backfill") /\ at["backfill"] \in Dates("backfill")
        BY <1>1, <2>2 DEF ResultsTrue
    <2> QED BY <1>4, <2>1, <2>2 DEF ResultsTrue, Batches, Dates
<1>10. GateTrue'
    <2>1. ASSUME NEW i \in DOMAIN seen
          PROVE  seen[i].status = runRow'[seen[i].run]
        <3>1. seen[i].run \in Runs /\ seen[i].status \in {"succeeded", "failed"}
            <4>1. seen[i] \in [run : Runs, status : {"succeeded", "failed"}]
                BY <2>1, ElementType DEF OpsTypeOK
            <4> QED BY <4>1
        <3>2. seen[i].status = runRow[seen[i].run]
            BY <2>1 DEF GateTrue
        <3> QED BY <1>1, <1>2, <3>1, <3>2
    <2>2. ASSUME seen # <<>>
          PROVE  Returned("airflow")' /\ ResultRun("airflow")' = ResultRun("airflow")
        <3>1. Returned("airflow") /\ "airflow" \in Callers
            BY <2>2 DEF GateTrue, Callers
        <3>2. c # "airflow"
            BY <1>1, <3>1 DEF Returned, At, EndPcs
        <3>3. Current("airflow") \in Runs /\ Current("airflow") # r
            BY <1>1, <3>1, <3>2, AttemptsAreRuns DEF Returned, At
        <3>4. answer'[Current("airflow")] = answer[Current("airflow")]
            BY <3>3, CallKeepsAnswers
        <3> QED BY <1>1, <1>4, <3>1, <3>3, <3>4 DEF Returned, At, Dates, ResultRun
    <2> QED BY <1>4, <1>6, <2>1, <2>2 DEF GateTrue
<1>11. AnswerTrue'
    BY CallKeepsAnswers
<1> QED BY <1>3, <1>5, <1>7, <1>9, <1>10, <1>11

\* The clock and the caller steps leave the calls themselves alone.
LEMMA CallersKeepCalls ==
    ASSUME Dialect = "sqlite", OpsInv, UNCHANGED vars \/ Clock
    PROVE  CallInv'
<1>1. SqliteInv'
    BY SqliteInvStep DEF OpsInv, CallInv, LandingNext
<1>2. EndsTrue'
    BY DEF OpsInv, CallInv, EndsTrue, vars, Clock, dataVars
<1> QED BY <1>1, <1>2 DEF CallInv

LEMMA ClockKeeps ==
    ASSUME Dialect = "sqlite", OpsInv,
           \/ Clock /\ UNCHANGED <<history, answer, callerVars>>
           \/ UNCHANGED opsVars
    PROVE  OpsInv'
<1>1. CallInv'
    BY CallersKeepCalls DEF opsVars
<1>2. UNCHANGED <<pc, dataVars, history, answer, goOn, at, attempt, results, seen, verdict>>
    BY DEF Clock, opsVars, vars, callerVars, dataVars
<1>3. \A c : Current(c)' = Current(c)
    BY <1>2 DEF Current
<1>4. OpsTypeOK' /\ AnswerTrue' /\ HistoryTrue'
    BY <1>2 DEF OpsInv, OpsTypeOK, AnswerTrue, HistoryTrue, dataVars
<1>5. ResultsTrue'
    BY <1>2, <1>3 DEF OpsInv, ResultsTrue, BatchTrue, Batches, Stored, FileRow, dataVars
<1>6. GateTrue'
    BY <1>2, <1>3 DEF OpsInv, GateTrue, Returned, At, ResultRun, dataVars
<1> QED BY <1>1, <1>4, <1>5, <1>6 DEF OpsInv

-----------------------------------------------------------------------------
(* run_backfill *)

\* A batch is collected with the date it is for.
LEMMA CollectEffect ==
    ASSUME OpsInv, at["backfill"] \in Dates("backfill"),
           NEW status \in {"succeeded", "skipped", "failed"},
           NEW run \in Runs \cup {NoRun}, Collect(status, run)
    PROVE  /\ results' \in Seq(BatchResult)
           /\ Len(results) + 1 = at["backfill"]
           /\ Len(results') = at["backfill"]
           /\ DOMAIN results' = DOMAIN results \cup {at["backfill"]}
           /\ at["backfill"] \notin DOMAIN results
           /\ \A i \in DOMAIN results : results'[i] = results[i]
           /\ results'[at["backfill"]].status = status
           /\ results'[at["backfill"]].run = run
<1> DEFINE row == [status |-> status, attempts |-> attempt["backfill"], run |-> run]
<1>1. results' = Append(results, row) /\ row.status = status /\ row.run = run
    BY DEF Collect
<1>2. row \in BatchResult
    BY DEF BatchResult, OpsInv, OpsTypeOK, Callers
<1>3. /\ results \in Seq(BatchResult)
      /\ at["backfill"] \in Nat /\ Len(results) = at["backfill"] - 1
    BY DEF OpsInv, OpsTypeOK, ResultsTrue, Dates, Callers
<1> HIDE DEF row
<1> QED BY <1>1, <1>2, <1>3

\* The batches of dates that are over stay what they are.
LEMMA OldBatchesStay ==
    ASSUME OpsInv, UNCHANGED <<manifest, runRow, warehouse>>, NEW i \in DOMAIN results,
           results'[i] = results[i], results[i].status # "failed"
    PROVE  BatchTrue(i)'
BY DEF OpsInv, ResultsTrue, BatchTrue, Stored, FileRow

\* What no step of the backfill touches.
LEMMA BackfillFrame ==
    ASSUME Dialect = "sqlite", OpsInv, UNCHANGED <<vars, goOn, history, answer, seen, verdict>>,
           at'["airflow"] = at["airflow"], attempt'["airflow"] = attempt["airflow"]
    PROVE  CallInv' /\ AnswerTrue' /\ HistoryTrue' /\ GateTrue'
<1>1. CallInv'
    BY CallersKeepCalls
<1>2. Current("airflow")' = Current("airflow")
    BY DEF Current
<1> QED BY <1>1, <1>2
    DEF OpsInv, AnswerTrue, HistoryTrue, GateTrue, Returned, At, ResultRun, vars

LEMMA BackfillReturnsKeeps ==
    ASSUME Dialect = "sqlite", OpsInv, BackfillReturns
    PROVE  OpsInv'
<1> DEFINE d == at["backfill"]
           status == IF At("backfill", {"done"}) THEN "succeeded" ELSE "skipped"
<1>1. /\ d \in Dates("backfill") /\ d \in Nat /\ Current("backfill") \in Runs
      /\ LastDate["backfill"] \in Nat
      /\ FileRow("backfill", d).status = "succeeded"
      /\ ResultRun("backfill") \in Runs
      /\ Stored("backfill", d, ResultRun("backfill"))
    BY ReturnedIsStored, OperationsAssumption
    DEF BackfillReturns, OpsInv, Callers, Dates
<1>2. /\ UNCHANGED <<vars, goOn, history, answer, seen, verdict>>
      /\ at' = [at EXCEPT !["backfill"] = @ + 1]
      /\ attempt' = [attempt EXCEPT !["backfill"] = 1]
      /\ Collect(status, ResultRun("backfill"))
      /\ status \in {"succeeded", "skipped"}
    BY DEF BackfillReturns, NextDate
<1>3. /\ at' \in [Callers -> Nat] /\ attempt' \in [Callers -> 1 .. MaxAttempts]
      /\ at'["backfill"] = d + 1
      /\ at'["airflow"] = at["airflow"] /\ attempt'["airflow"] = attempt["airflow"]
    BY <1>1, <1>2, OperationsAssumption DEF OpsInv, OpsTypeOK, Callers
<1>4. /\ results' \in Seq(BatchResult) /\ Len(results') = d
      /\ DOMAIN results' = DOMAIN results \cup {d} /\ d \notin DOMAIN results
      /\ \A i \in DOMAIN results : results'[i] = results[i]
      /\ results'[d].status = status /\ results'[d].run = ResultRun("backfill")
    BY <1>1, <1>2, CollectEffect
<1>5. OpsTypeOK'
    BY <1>1, <1>2, <1>3, <1>4 DEF OpsInv, OpsTypeOK, Dates, Callers
<1>6. ResultsTrue'
    <2>1. ASSUME NEW i \in DOMAIN results', results'[i].status # "failed"
          PROVE  BatchTrue(i)'
        <3>1. CASE i \in DOMAIN results
            BY <1>2, <1>4, <2>1, <3>1, OldBatchesStay DEF vars
        <3>2. CASE i = d
            BY <1>1, <1>2, <1>4, <3>2 DEF BatchTrue, Stored, FileRow, vars
        <3> QED BY <1>4, <3>1, <3>2
    <2>2. ASSUME NEW r \in Runs, r[1] = "backfill", pc'[r] = "done"
          PROVE  r[2] \in DOMAIN results' /\ results'[r[2]].status = "succeeded"
        <3>1. CASE r[2] \in DOMAIN results /\ results[r[2]].status = "succeeded"
            BY <1>4, <3>1
        <3>2. CASE r = Current("backfill")
            <4>1. status = "succeeded" /\ r[2] = d
                BY <1>1, <1>2, <2>2, <3>2 DEF At, Current, vars
            <4> QED BY <1>4, <4>1
        <3> QED BY <1>2, <2>2, <3>1, <3>2 DEF OpsInv, ResultsTrue, vars
    <2>3. Batches("failed")' = Batches("failed")
        BY <1>2, <1>4 DEF Batches
    <2>4. d <= LastDate["backfill"] /\ (~goOn => Batches("failed") = {})
        BY <1>1 DEF OpsInv, ResultsTrue, Dates
    <2> QED BY <1>1, <1>2, <1>3, <1>4, <2>1, <2>2, <2>3, <2>4 DEF ResultsTrue
<1> QED BY <1>2, <1>3, <1>5, <1>6, BackfillFrame DEF OpsInv

LEMMA BackfillRetriesKeeps ==
    ASSUME Dialect = "sqlite", OpsInv, BackfillRetries
    PROVE  OpsInv'
<1>1. /\ UNCHANGED <<vars, goOn, history, answer, at, results, seen, verdict>>
      /\ attempt' = [attempt EXCEPT !["backfill"] = @ + 1]
      /\ attempt["backfill"] < MaxAttempts
      /\ pc[Current("backfill")] # "done"
    BY DEF BackfillRetries, TryAgain, Raised, At
<1>2. attempt \in [Callers -> 1 .. MaxAttempts] /\ MaxAttempts \in Nat
    BY OperationsAssumption DEF OpsInv, OpsTypeOK
<1>3. attempt' \in [Callers -> 1 .. MaxAttempts]
      /\ attempt'["airflow"] = attempt["airflow"]
    BY <1>1, <1>2 DEF Callers
<1>4. OpsTypeOK'
    BY <1>1, <1>3 DEF OpsInv, OpsTypeOK
<1>5. ResultsTrue'
    BY <1>1 DEF OpsInv, ResultsTrue, BatchTrue, Batches, Stored, FileRow, vars
<1> QED BY <1>1, <1>3, <1>4, <1>5, BackfillFrame DEF OpsInv

LEMMA BackfillGivesUpKeeps ==
    ASSUME Dialect = "sqlite", OpsInv, BackfillGivesUp
    PROVE  OpsInv'
<1> DEFINE d == at["backfill"]
           last == LastDate["backfill"]
<1>1. /\ d \in Dates("backfill") /\ d \in Nat /\ last \in Nat /\ d <= last
      /\ pc[Current("backfill")] # "done"
    BY OperationsAssumption DEF BackfillGivesUp, Raised, At, Callers, Dates
<1>2. /\ UNCHANGED <<vars, goOn, history, answer, seen, verdict>>
      /\ Collect("failed", NoRun)
      /\ \/ goOn /\ NextDate("backfill")
         \/ ~goOn /\ at' = [at EXCEPT !["backfill"] = last + 1] /\ UNCHANGED attempt
    BY DEF BackfillGivesUp
<1>3. /\ at' \in [Callers -> Nat] /\ attempt' \in [Callers -> 1 .. MaxAttempts]
      /\ at'["backfill"] = IF goOn THEN d + 1 ELSE last + 1
      /\ at'["airflow"] = at["airflow"] /\ attempt'["airflow"] = attempt["airflow"]
    BY <1>1, <1>2, OperationsAssumption DEF OpsInv, OpsTypeOK, Callers, NextDate
<1>4. /\ results' \in Seq(BatchResult) /\ Len(results') = d
      /\ DOMAIN results' = DOMAIN results \cup {d} /\ d \notin DOMAIN results
      /\ \A i \in DOMAIN results : results'[i] = results[i]
      /\ results'[d].status = "failed"
    BY <1>1, <1>2, CollectEffect
<1>5. OpsTypeOK'
    BY <1>1, <1>2, <1>3, <1>4 DEF OpsInv, OpsTypeOK, Dates, Callers
<1>6. ResultsTrue'
    <2>1. ASSUME NEW i \in DOMAIN results', results'[i].status # "failed"
          PROVE  BatchTrue(i)'
        BY <1>2, <1>4, <2>1, OldBatchesStay DEF vars
    <2>2. ASSUME NEW r \in Runs, r[1] = "backfill", pc'[r] = "done"
          PROVE  r[2] \in DOMAIN results' /\ results'[r[2]].status = "succeeded"
        BY <1>1, <1>2, <1>4, <2>2 DEF OpsInv, ResultsTrue, vars
    <2>3. Batches("failed")' = Batches("failed") \cup {d}
        BY <1>4 DEF Batches
    <2>4. ~goOn => Batches("failed") = {}
        BY <1>1 DEF OpsInv, ResultsTrue
    <2> HIDE DEF d, last
    <2>5. at'["backfill"] <= last => Len(results') = at'["backfill"] - 1 /\ goOn
        BY <1>1, <1>3, <1>4
    <2>6. at'["backfill"] > last /\ Len(results') < last =>
              ~goOn /\ Batches("failed")' = {Len(results')}
        BY <1>1, <1>3, <1>4, <2>3, <2>4
    <2> QED BY <1>2, <2>1, <2>2, <2>5, <2>6 DEF ResultsTrue, last
<1> QED BY <1>2, <1>3, <1>5, <1>6, BackfillFrame DEF OpsInv

-----------------------------------------------------------------------------
(* The DAG *)

\* What no step of the DAG touches.
LEMMA DagFrame ==
    ASSUME Dialect = "sqlite", OpsInv, UNCHANGED <<vars, goOn, history, answer, results>>,
           at'["backfill"] = at["backfill"], attempt'["backfill"] = attempt["backfill"]
    PROVE  CallInv' /\ AnswerTrue' /\ HistoryTrue' /\ ResultsTrue'
<1>1. CallInv'
    BY CallersKeepCalls
<1>2. Current("backfill")' = Current("backfill")
    BY DEF Current
<1> QED BY <1>1, <1>2
    DEF OpsInv, AnswerTrue, HistoryTrue, ResultsTrue, BatchTrue, Batches, Stored,
        FileRow, vars

\* The gate holds nothing while its partition is not processed.
LEMMA UnprocessedUnseen ==
    ASSUME OpsInv, Raised("airflow") \/ At("airflow", {"crashed"})
    PROVE  seen = <<>>
BY DEF OpsInv, GateTrue, Returned, Raised, At

LEMMA TaskRetriesKeeps ==
    ASSUME Dialect = "sqlite", OpsInv, TaskRetries
    PROVE  OpsInv'
<1>1. /\ UNCHANGED <<vars, goOn, history, answer, at, results, seen, verdict>>
      /\ attempt' = [attempt EXCEPT !["airflow"] = @ + 1]
      /\ attempt["airflow"] < MaxAttempts /\ seen = <<>>
    BY UnprocessedUnseen DEF TaskRetries, TryAgain
<1>2. attempt \in [Callers -> 1 .. MaxAttempts] /\ MaxAttempts \in Nat
    BY OperationsAssumption DEF OpsInv, OpsTypeOK
<1>3. attempt' \in [Callers -> 1 .. MaxAttempts]
      /\ attempt'["backfill"] = attempt["backfill"]
    BY <1>1, <1>2 DEF Callers
<1>4. OpsTypeOK' /\ GateTrue'
    BY <1>1, <1>3 DEF OpsInv, OpsTypeOK, GateTrue, vars
<1> QED BY <1>1, <1>3, <1>4, DagFrame DEF OpsInv

\* A date is over.
LEMMA VerdictKeeps ==
    ASSUME Dialect = "sqlite", OpsInv, NEW v \in Verdicts,
           at["airflow"] \in Dates("airflow"), NextDate("airflow"),
           verdict' = [verdict EXCEPT ![at["airflow"]] = v],
           seen' = <<>>, UNCHANGED <<vars, goOn, history, answer, results>>
    PROVE  OpsInv'
<1>1. /\ LastDate["airflow"] \in Nat /\ MaxAttempts \in Nat \ {0}
      /\ at["airflow"] \in 1 .. LastDate["airflow"]
    BY OperationsAssumption DEF Dates, Callers
<1>2. /\ at' \in [Callers -> Nat] /\ at'["airflow"] \in 1 .. LastDate["airflow"] + 1
      /\ attempt' \in [Callers -> 1 .. MaxAttempts]
      /\ at'["backfill"] = at["backfill"] /\ attempt'["backfill"] = attempt["backfill"]
    BY <1>1 DEF OpsInv, OpsTypeOK, NextDate, Callers
<1>3. OpsTypeOK'
    BY <1>2 DEF OpsInv, OpsTypeOK, Callers
<1>4. GateTrue'
    BY DEF GateTrue
<1> QED BY <1>2, <1>3, <1>4, DagFrame DEF OpsInv

LEMMA TaskFailsKeeps ==
    ASSUME Dialect = "sqlite", OpsInv, TaskFails
    PROVE  OpsInv'
BY UnprocessedUnseen, VerdictKeeps DEF TaskFails, Raised, At, Verdicts

LEMMA GateReadsRunsKeeps ==
    ASSUME Dialect = "sqlite", OpsInv, GateReadsRuns
    PROVE  OpsInv'
<1>1. /\ UNCHANGED <<vars, goOn, history, answer, at, attempt, results, verdict>>
      /\ seen' = [i \in DOMAIN history |->
                     [run |-> history[i], status |-> runRow[history[i]]]]
      /\ Returned("airflow")
    BY DEF GateReadsRuns
<1>2. history \in Seq(Runs) /\ Len(history) \in Nat /\ DOMAIN history = 1 .. Len(history)
    BY DEF OpsInv, OpsTypeOK
<1>3. \A i \in DOMAIN history :
          history[i] \in Runs /\ runRow[history[i]] \in {"succeeded", "failed"}
    BY <1>2 DEF OpsInv, HistoryTrue, CallInv, SqliteInv, LandingInv, LandingTypeOK
<1>4. seen' \in Seq([run : Runs, status : {"succeeded", "failed"}])
      /\ Len(seen') = Len(history) /\ DOMAIN seen' = DOMAIN history
    <2> DEFINE rows == [i \in 1 .. Len(history) |->
                           [run |-> history[i], status |-> runRow[history[i]]]]
    <2>1. seen' = rows
        BY <1>1, <1>2
    <2>2. \A i \in 1 .. Len(history) :
              [run |-> history[i], status |-> runRow[history[i]]]
                  \in [run : Runs, status : {"succeeded", "failed"}]
        BY <1>2, <1>3
    <2>3. rows \in [1 .. Len(history) -> [run : Runs, status : {"succeeded", "failed"}]]
        BY <2>2
    <2>4. DOMAIN rows = 1 .. Len(history)
        OBVIOUS
    <2> HIDE DEF rows
    <2>5. rows \in Seq([run : Runs, status : {"succeeded", "failed"}])
          /\ Len(rows) = Len(history)
        BY <1>2, <2>3, FunctionIsSeq
    <2> QED BY <1>2, <2>1, <2>4, <2>5
<1>5. OpsTypeOK'
    BY <1>1, <1>4 DEF OpsInv, OpsTypeOK
<1>6. GateTrue'
    <2>1. \A i \in DOMAIN seen' : seen'[i].status = runRow[seen'[i].run]
        BY <1>1, <1>4
    <2>2. \E i \in DOMAIN seen' : seen'[i].run = ResultRun("airflow")
        <3>1. ResultRun("airflow") \in Runs /\ runRow[ResultRun("airflow")] = "succeeded"
            BY <1>1, ReturnedIsStored DEF OpsInv, Stored, Callers
        <3>2. PICK i \in DOMAIN history : history[i] = ResultRun("airflow")
            BY <3>1 DEF OpsInv, HistoryTrue
        <3>3. seen'[i].run = history[i]
            BY <1>1
        <3> QED BY <1>4, <3>2, <3>3
    <2>3. Returned("airflow")' /\ ResultRun("airflow")' = ResultRun("airflow")
        BY <1>1 DEF Returned, At, Current, ResultRun, vars
    <2> QED BY <1>1, <1>2, <1>4, <2>1, <2>2, <2>3 DEF GateTrue, vars
<1> QED BY <1>1, <1>5, <1>6, DagFrame DEF OpsInv

\* What Evaluate answers on what the gate has read, and why.
LEMMA EvaluateCause ==
    ASSUME OpsInv, seen # <<>>, NEW rate \in SuccessRates(seen),
           NEW v, v = Evaluate(ResultRun("airflow"), rate, seen, FailedFiles)
    PROVE  /\ v \in Verdicts /\ v \notin {"none", "unprocessed", "unsuccessful"}
           /\ v = "missing" => FellOffTheList
           /\ v = "degraded" => AnotherHasFailed(at["airflow"])
           /\ v = "passed" => ~(rate < SLO)
<1> DEFINE run == ResultRun("airflow")
           found == {i \in Recent(seen) : seen[i].run = run}
<1>1. /\ seen \in Seq([run : Runs, status : {"succeeded", "failed"}])
      /\ Returned("airflow")
      /\ \A i \in DOMAIN seen : seen[i].status = runRow[seen[i].run]
    BY DEF OpsInv, OpsTypeOK, GateTrue
<1>2. /\ Len(seen) \in Nat \ {0} /\ DOMAIN seen = 1 .. Len(seen)
      /\ RecentLimit \in Nat
    BY <1>1, MonitoringAssumption
<1>3. PICK j \in DOMAIN seen : seen[j].run = run
    BY DEF OpsInv, GateTrue
<1>4. /\ run \in Runs /\ runRow[run] = "succeeded"
      /\ manifest[FileOf[<<"airflow", at["airflow"], 1>>]].status = "succeeded"
    BY <1>1, ReturnedIsStored DEF OpsInv, Stored, FileRow, Callers
<1>5. \A i \in found : seen[i].status = "succeeded"
    BY <1>1, <1>4 DEF Recent
<1>6. found = {} => FellOffTheList
    <2>1. j \notin Recent(seen) => Len(seen) - j >= RecentLimit
        BY <1>2, <1>3 DEF Recent
    <2> QED BY <1>3, <2>1 DEF FellOffTheList
<1> DEFINE bad == PlatformStatus(rate, seen, FailedFiles) = "degraded"
<1>7. v = IF found = {} THEN "missing" ELSE IF bad THEN "degraded" ELSE "passed"
    BY <1>5 DEF Evaluate
<1>8. bad <=> Alerts(rate, seen, FailedFiles) # {}
    BY DEF PlatformStatus
<1>9. ASSUME bad
      PROVE  AnotherHasFailed(at["airflow"])
    <2>1. ASSUME NEW i \in DOMAIN seen, seen[i].status # "succeeded"
          PROVE  AnotherHasFailed(at["airflow"])
        <3>1. seen[i] \in [run : Runs, status : {"succeeded", "failed"}]
            BY <1>1, ElementType
        <3>2. seen[i].status = "failed"
            BY <2>1, <3>1
        <3>3. seen[i].run # run
            BY <1>1, <1>4, <2>1
        <3> QED BY <3>2, <3>3 DEF AnotherHasFailed
    <2>2. CASE seen[Len(seen)].status = "failed"
        BY <1>2, <2>1, <2>2
    <2>3. CASE rate < SLO
        <3>1. Hits(seen) # DOMAIN seen
            BY <1>1, <2>3, FullRate
        <3>2. PICK i \in DOMAIN seen : seen[i].status # "succeeded"
            BY <3>1 DEF Hits
        <3> QED BY <2>1, <3>2
    <2>4. CASE FailedFiles > 0
        <3>1. Cardinality({}) = 0
            BY FS_EmptySet
        <3>2. {f \in Files : manifest[f].status = "failed"} # {}
            <4>1. CASE {f \in Files : manifest[f].status = "failed"} = {}
                <5>1. FailedFiles = 0
                    BY <3>1, <4>1, Zenon DEF FailedFiles
                <5> QED BY <2>4, <5>1
            <4> QED BY <4>1
        <3>3. PICK f \in Files : manifest[f].status = "failed"
            BY <3>2
        <3> QED BY <1>4, <3>3 DEF AnotherHasFailed
    <2> QED BY <1>8, <1>9, <2>2, <2>3, <2>4 DEF Alerts
<1>10. rate < SLO => bad
    BY <1>8 DEF Alerts
<1> HIDE DEF found, bad
<1> QED BY <1>6, <1>7, <1>9, <1>10 DEF Verdicts

LEMMA GateReadsFilesKeeps ==
    ASSUME Dialect = "sqlite", OpsInv, GateReadsFiles
    PROVE  OpsInv'
<1>1. PICK rate \in SuccessRates(seen) :
          verdict' = [verdict EXCEPT ![at["airflow"]] =
                         Evaluate(ResultRun("airflow"), rate, seen, FailedFiles)]
    BY DEF GateReadsFiles
<1> DEFINE v == Evaluate(ResultRun("airflow"), rate, seen, FailedFiles)
<1>2. /\ at["airflow"] \in Dates("airflow") /\ NextDate("airflow")
      /\ verdict' = [verdict EXCEPT ![at["airflow"]] = v]
      /\ seen # <<>> /\ seen' = <<>>
      /\ UNCHANGED <<vars, goOn, history, answer, results>>
    BY <1>1 DEF GateReadsFiles, Returned, At
<1>3. v \in Verdicts
    BY <1>2, EvaluateCause
<1> HIDE DEF v
<1> QED BY <1>2, <1>3, VerdictKeeps

-----------------------------------------------------------------------------

LEMMA OpsInvStep ==
    ASSUME Dialect = "sqlite", OpsInv, [OpsNext]_opsVars
    PROVE  OpsInv'
<1>1. \A c \in Callers :
          /\ at[c] \in Dates(c) /\ Call(Current(c))
          /\ KeepHistory(c) /\ KeepAnswer(c) /\ UNCHANGED callerVars
          => OpsInv'
    BY CallStepKeeps
<1>2. BackfillStep => OpsInv'
    BY BackfillReturnsKeeps, BackfillRetriesKeeps, BackfillGivesUpKeeps DEF BackfillStep
<1>3. DagStep => OpsInv'
    BY TaskRetriesKeeps, TaskFailsKeeps, GateReadsRunsKeeps, GateReadsFilesKeeps
    DEF DagStep
<1>4. OpsTypeOK /\ LandingTypeOK
    BY DEF OpsInv, CallInv, SqliteInv, LandingInv
<1> QED BY <1>1, <1>2, <1>3, <1>4, OpsSteps, ClockKeeps

LEMMA OpsInvariant ==
    ASSUME Dialect = "sqlite"
    PROVE  OpsSpec => []OpsInv
<1>1. OpsInv /\ [OpsNext]_opsVars => OpsInv'
    BY OpsInvStep
<1> QED BY <1>1, OpsInvInit, PTL DEF OpsSpec

\* The callers keep their types.
THEOREM OpsTypeCorrect ==
    ASSUME Dialect = "sqlite"
    PROVE  OpsSpec => []OpsTypeOK
<1>1. OpsInv => OpsTypeOK
    BY DEF OpsInv
<1> QED BY <1>1, OpsInvariant, PTL

\* However many dates, attempts and callers' faults there are, a batch that
\* run_backfill does not call failed names the run that loaded its file.
THEOREM BatchesNameTheirRun ==
    ASSUME Dialect = "sqlite"
    PROVE  OpsSpec => []BatchNamesItsRun
<1>1. OpsInv => BatchNamesItsRun
    BY DEF OpsInv, ResultsTrue, BatchTrue, BatchNamesItsRun
<1> QED BY <1>1, OpsInvariant, PTL

LEMMA SummaryHolds == OpsInv => SummaryIsTrue
<1> SUFFICES ASSUME OpsInv, at["backfill"] > LastDate["backfill"]
             PROVE  /\ Summary = "succeeded" =>
                           \A d \in Dates("backfill") :
                               FileRow("backfill", d).status = "succeeded"
                    /\ Len(results) < LastDate["backfill"] =>
                           ~goOn /\ Batches("failed") = {Len(results)}
                    /\ Summary = "failed" =>
                           \A d \in Dates("backfill") :
                               FileRow("backfill", d).status = "succeeded" =>
                                   FileRow("backfill", d).run[1] # "backfill"
    BY DEF SummaryIsTrue
<1>1. /\ LastDate["backfill"] \in Nat /\ MaxAttempts \in Nat \ {0}
      /\ at["backfill"] \in Nat
      /\ Len(results) \in Nat /\ DOMAIN results = 1 .. Len(results)
      /\ Len(results) <= LastDate["backfill"]
    BY OperationsAssumption DEF OpsInv, OpsTypeOK, Callers
<1>2. Len(results) < LastDate["backfill"] => ~goOn /\ Batches("failed") = {Len(results)}
    BY DEF OpsInv, ResultsTrue
<1>3. ASSUME Summary = "succeeded", NEW d \in Dates("backfill")
      PROVE  FileRow("backfill", d).status = "succeeded"
    <2>1. Batches("failed") = {}
        BY <1>3 DEF Summary
    <2>2. Len(results) = LastDate["backfill"]
        BY <1>1, <1>2, <2>1
    <2>3. d \in DOMAIN results
        BY <1>1, <1>3, <2>2 DEF Dates
    <2> QED BY <2>1, <2>3 DEF Batches, OpsInv, ResultsTrue, BatchTrue
<1>4. ASSUME Summary = "failed", NEW d \in Dates("backfill"),
             FileRow("backfill", d).status = "succeeded",
             FileRow("backfill", d).run[1] = "backfill"
      PROVE  FALSE
    <2> DEFINE r == FileRow("backfill", d).run
    <2>1. <<"backfill", d, 1>> \in Runs /\ FileOf[<<"backfill", d, 1>>] \in Files
        BY <1>1, OperationsAssumption, LandingAssumption DEF Callers
    <2>2. r \in Runs /\ pc[r] = "done"
        BY <1>4, <2>1 DEF OpsInv, CallInv, EndsTrue, FileRow
    <2>3. ~(at["backfill"] \in Dates("backfill"))
        BY <1>1 DEF Dates
    <2>4. r[2] \in Batches("succeeded")
        BY <1>4, <2>2, <2>3 DEF OpsInv, ResultsTrue, Batches
    <2> QED BY <1>4, <2>4 DEF Summary
<1> QED BY <1>2, <1>3, <1>4

\* The summary of a range that is over says what became of its files.
THEOREM SummaryStaysTrue ==
    ASSUME Dialect = "sqlite"
    PROVE  OpsSpec => []SummaryIsTrue
BY SummaryHolds, OpsInvariant, PTL

\* A date's verdict is given by the task that could not process it, or by the
\* gate on what it has read.
LEMMA VerdictStep ==
    ASSUME Dialect = "sqlite", OpsInv, OpsNext,
           NEW d \in Dates("airflow"), verdict'[d] # verdict[d]
    PROVE  \/ verdict'[d] = "unprocessed"
           \/ /\ d = at["airflow"] /\ Returned("airflow") /\ seen # <<>>
              /\ \E rate \in SuccessRates(seen) :
                     verdict'[d] = Evaluate(ResultRun("airflow"), rate, seen, FailedFiles)
<1>1. verdict \in [Dates("airflow") -> Verdicts] /\ verdict' # verdict
    BY DEF OpsInv, OpsTypeOK
<1>2. TaskFails \/ GateReadsFiles
    BY <1>1
    DEF OpsNext, CallerStep, NoSource, CallStep, CallFault, BackfillStep,
        BackfillReturns, BackfillRetries, BackfillGivesUp, DagStep,
        TaskRetries, GateReadsRuns, callerVars
<1>3. CASE TaskFails
    BY <1>1, <1>3 DEF TaskFails
<1>4. CASE GateReadsFiles
    BY <1>1, <1>4 DEF GateReadsFiles
<1> QED BY <1>2, <1>3, <1>4

LEMMA GateStep ==
    ASSUME Dialect = "sqlite", OpsInv, OpsNext,
           NEW d \in Dates("airflow"), verdict'[d] # verdict[d]
    PROVE  /\ verdict'[d] = "passed" =>
                  /\ FileRow("airflow", d).status = "succeeded"
                  /\ Stored("airflow", d, ResultRun("airflow"))
                  /\ 2 * SLO * Len(seen) - 20000 * Cardinality(Hits(seen)) <= Len(seen)
           /\ verdict'[d] # "unsuccessful"
           /\ verdict'[d] = "missing" => FellOffTheList
           /\ verdict'[d] = "degraded" => AnotherHasFailed(d)
<1>1. CASE verdict'[d] = "unprocessed"
    BY <1>1
<1>2. CASE verdict'[d] # "unprocessed"
    <2>1. /\ d = at["airflow"] /\ Returned("airflow") /\ seen # <<>>
          /\ \E rate \in SuccessRates(seen) :
                 verdict'[d] = Evaluate(ResultRun("airflow"), rate, seen, FailedFiles)
        BY <1>2, VerdictStep
    <2>2. PICK rate \in SuccessRates(seen) :
              verdict'[d] = Evaluate(ResultRun("airflow"), rate, seen, FailedFiles)
        BY <2>1
    <2>3. /\ verdict'[d] # "unsuccessful"
          /\ verdict'[d] = "missing" => FellOffTheList
          /\ verdict'[d] = "degraded" => AnotherHasFailed(d)
          /\ verdict'[d] = "passed" => ~(rate < SLO)
        BY <2>1, <2>2, EvaluateCause
    <2>4. seen \in Seq([run : Runs, status : {"succeeded", "failed"}])
        BY DEF OpsInv, OpsTypeOK
    <2>5. verdict'[d] = "passed" =>
              2 * SLO * Len(seen) - 20000 * Cardinality(Hits(seen)) <= Len(seen)
        BY <2>1, <2>3, <2>4, RateMeetsTarget
    <2>6. FileRow("airflow", d).status = "succeeded"
          /\ Stored("airflow", d, ResultRun("airflow"))
        BY <2>1, ReturnedIsStored DEF OpsInv, Callers
    <2> QED BY <2>3, <2>5, <2>6
<1> QED BY <1>1, <1>2

\* The gate turns a loaded partition down only for the failure of another run or
\* file, or for later runs that have pushed its own off the list.
THEOREM GateFailuresHaveCause ==
    ASSUME Dialect = "sqlite"
    PROVE  OpsSpec => FailedGateHasCause
<1>1. OpsInv /\ [OpsNext]_opsVars =>
          [\A d \in Dates("airflow") : verdict'[d] # verdict[d] =>
              /\ verdict'[d] # "unsuccessful"
              /\ verdict'[d] = "missing" => FellOffTheList
              /\ verdict'[d] = "degraded" => AnotherHasFailed(d)]_opsVars
    BY GateStep
<1> QED BY <1>1, OpsInvariant, PTL DEF OpsSpec, FailedGateHasCause

\* The gate passes a date only over a loaded file and a history that meets the
\* target, whatever the recent limit and the target are.
THEOREM PassedGatesAreJustified ==
    ASSUME Dialect = "sqlite"
    PROVE  OpsSpec => PassedGateIsJustified
<1>1. OpsInv /\ [OpsNext]_opsVars =>
          [\A d \in Dates("airflow") : verdict'[d] = "passed" /\ verdict[d] # "passed" =>
              /\ FileRow("airflow", d).status = "succeeded"
              /\ Stored("airflow", d, ResultRun("airflow"))
              /\ 2 * SLO * Len(seen) - 20000 * Cardinality(Hits(seen)) <= Len(seen)
          ]_opsVars
    BY GateStep
<1> QED BY <1>1, OpsInvariant, PTL DEF OpsSpec, PassedGateIsJustified
=============================================================================
