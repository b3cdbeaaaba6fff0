-------------------------- MODULE MigrationsProofs --------------------------
(* Proofs about the starts of Migrations.                                  *)
EXTENDS Migrations, TLAPS

(* The script *)

LEMMA ScriptFacts ==
    /\ Versions = 1 .. 4
    /\ \A v \in 1 .. 4 : Len(Script[v]) \in 1 .. 5
    /\ \A v \in 1 .. 4 : \A p \in 0 .. 4 :
           p < Len(Script[v]) => p + 1 \in DOMAIN Script[v]
    /\ \A v \in 1 .. 4 : DOMAIN Script[v] = 1 .. Len(Script[v])
    /\ Len(Script[3]) = 3
<1>1. Versions = 1 .. 4
    BY DEF Versions, Script
<1>2. Len(Script[1]) = 5 /\ Len(Script[2]) = 1 /\ Len(Script[3]) = 3 /\ Len(Script[4]) = 1
    BY DEF Script
<1>3. \A v \in 1 .. 4 : v = 1 \/ v = 2 \/ v = 3 \/ v = 4
    OBVIOUS
<1>4. /\ DOMAIN Script[1] = 1 .. 5 /\ DOMAIN Script[2] = 1 .. 1
      /\ DOMAIN Script[3] = 1 .. 3 /\ DOMAIN Script[4] = 1 .. 1
    BY DEF Script
<1> QED BY <1>1, <1>2, <1>3, <1>4

LEMMA CreatedFacts ==
    /\ Created(1) = {"staging_orders", "dim_customers", "fact_orders",
                     "quarantined_orders", "pipeline_runs"}
    /\ Created(2) = {"data_quality_results"}
    /\ Created(3) = {"batch_date", "trigger_type", "pipeline_locks"}
    /\ Created(4) = {"file_manifest"}
    /\ Script[3][1] = "batch_date"
    /\ Script[3][2] = "trigger_type"
    /\ Script[3][3] = "pipeline_locks"
<1>1. /\ DOMAIN Script[1] = {1, 2, 3, 4, 5} /\ DOMAIN Script[2] = {1}
      /\ DOMAIN Script[3] = {1, 2, 3} /\ DOMAIN Script[4] = {1}
    BY DEF Script
<1>2. /\ Script[1][1] = "staging_orders"
      /\ Script[1][2] = "dim_customers"
      /\ Script[1][3] = "fact_orders"
      /\ Script[1][4] = "quarantined_orders"
      /\ Script[1][5] = "pipeline_runs"
    BY DEF Script
<1>3. /\ Script[2][1] = "data_quality_results"
      /\ Script[3][1] = "batch_date"
      /\ Script[3][2] = "trigger_type"
      /\ Script[3][3] = "pipeline_locks"
      /\ Script[4][1] = "file_manifest"
    BY DEF Script
<1> QED BY <1>1, <1>2, <1>3 DEF Created

-----------------------------------------------------------------------------
(* The invariant *)

\* The recorded versions are the first ones, and all they create is there.
RecordedTruly ==
    \A v \in recorded : 1 .. v \subseteq recorded /\ Created(v) \subseteq schema

\* A start has nothing to do before it has read the history; from then on the
\* versions it will not run are recorded.
TodoTrue ==
    \A s \in Starters :
        /\ phase[s] \in {"idle", "creating", "reading"} => position[s] = 0
        /\ phase[s] \in {"running", "done"} => Versions \ todo[s] \subseteq recorded
        /\ phase[s] = "done" => todo[s] = {}

\* What a start has executed of its version exists. Only SQLite lets others
\* see it before the version is recorded.
PlaceTrue ==
    \A s \in Starters : position[s] > 0 =>
        /\ dialect = "sqlite"
        /\ todo[s] # {}
        /\ position[s] <= Len(Script[Current(s)])
        /\ \A p \in 1 .. position[s] : Script[Current(s)][p] \in schema

\* One start at most is inside version 3, the only one with columns, and if a
\* column exists before its record somebody is, who has made all that exist.
ColumnsOwned ==
    /\ \A s, t \in Starters : Inside(s, 3) /\ Inside(t, 3) => s = t
    /\ 3 \notin recorded =>
           /\ Columns \cap schema # {} =>
                  dialect = "sqlite" /\ \E s \in Starters : Inside(s, 3)
           /\ \A s \in Starters : Inside(s, 3) =>
                  /\ phase[s] \in {"running", "dead"}
                  /\ "trigger_type" \in schema => position[s] >= 2

MigrationsInv ==
    /\ MigrationsTypeOK
    /\ RecordedTruly
    /\ TodoTrue
    /\ PlaceTrue
    /\ ColumnsOwned

LEMMA LeastExists ==
    ASSUME NEW T \in SUBSET (1 .. 4), T # {}
    PROVE  \E v \in T : \A w \in T : v <= w
<1>1. CASE 1 \in T
    BY <1>1
<1>2. CASE 1 \notin T /\ 2 \in T
    BY <1>2
<1>3. CASE 1 \notin T /\ 2 \notin T /\ 3 \in T
    BY <1>3
<1>4. CASE 1 \notin T /\ 2 \notin T /\ 3 \notin T
    <2>1. \A w \in 1 .. 4 : w = 1 \/ w = 2 \/ w = 3 \/ w = 4
        OBVIOUS
    <2>2. \A w \in T : w = 4
        BY <1>4, <2>1
    <2>3. PICK v \in T : TRUE
        OBVIOUS
    <2> QED BY <2>2, <2>3
<1> QED BY <1>1, <1>2, <1>3, <1>4

LEMMA CurrentIsLeast ==
    ASSUME MigrationsTypeOK, NEW s \in Starters, todo[s] # {}
    PROVE  /\ Current(s) \in todo[s] /\ Current(s) \in 1 .. 4
           /\ \A w \in todo[s] : Current(s) <= w
<1>1. todo[s] \in SUBSET (1 .. 4)
    BY ScriptFacts DEF MigrationsTypeOK
<1>2. \E v \in todo[s] : \A w \in todo[s] : v <= w
    BY <1>1, LeastExists
<1>3. Current(s) \in todo[s] /\ \A w \in todo[s] : Current(s) <= w
    BY <1>2 DEF Current
<1> QED BY <1>1, <1>3

\* A start whose own variables a step leaves alone stays where it is.
LEMMA PlaceFrame ==
    ASSUME NEW s, todo'[s] = todo[s], position'[s] = position[s]
    PROVE  /\ Current(s)' = Current(s)
           /\ \A v : Inside(s, v)' <=> Inside(s, v)
<1>1. Current(s)' = Current(s)
    BY DEF Current
<1> QED BY <1>1 DEF Inside

LEMMA MigrationsInvInit == MigrationsInit => MigrationsInv
<1> SUFFICES ASSUME MigrationsInit
             PROVE  MigrationsInv
    OBVIOUS
<1>1. MigrationsTypeOK
    BY DEF MigrationsInit, MigrationsTypeOK, Ended
<1>2. RecordedTruly /\ TodoTrue /\ PlaceTrue /\ ColumnsOwned
    BY DEF MigrationsInit, RecordedTruly, TodoTrue, PlaceTrue, ColumnsOwned,
           Inside
<1> QED BY <1>1, <1>2 DEF MigrationsInv

-----------------------------------------------------------------------------
(* Steps that change no version *)

\* The beginning and the end of a call, and a death in between.
LEMMA CallStepKeeps ==
    ASSUME MigrationsInv, NEW s \in Starters,
           LookForHistory(s) \/ CreateHistory(s) \/ Finish(s) \/ Die(s)
    PROVE  MigrationsInv'
<1> USE DEF MigrationsInv, Enter
<1>1. /\ UNCHANGED <<dialect, recorded, todo, position>>
      /\ schema \subseteq schema' /\ schema' \subseteq schema \cup {"schema_migrations"}
    BY DEF LookForHistory, CreateHistory, Finish, Die
<1>2. /\ \A t \in Starters \ {s} : phase'[t] = phase[t]
      /\ phase'[s] \in {"creating", "reading", "raised", "done", "dead"}
      /\ phase'[s] \in {"creating", "reading", "raised"} => position[s] = 0
      /\ phase'[s] = "done" => todo[s] = {} /\ phase[s] = "running"
    BY DEF LookForHistory, CreateHistory, Finish, Die, MigrationsTypeOK, TodoTrue
<1>3. \A t, v : /\ Current(t)' = Current(t)
                /\ Inside(t, v)' <=> Inside(t, v)
    BY <1>1, PlaceFrame
<1>4. MigrationsTypeOK'
    BY <1>1 DEF LookForHistory, CreateHistory, Finish, Die, MigrationsTypeOK, Ended, Objects
<1>5. RecordedTruly'
    BY <1>1 DEF RecordedTruly
<1>6. TodoTrue'
    BY <1>1, <1>2 DEF TodoTrue
<1>7. PlaceTrue'
    BY <1>1, <1>3 DEF PlaceTrue
<1>8. ColumnsOwned'
    <2>1. Columns \cap schema' = Columns \cap schema
        BY <1>1 DEF Columns
    <2>2. \A t \in Starters : Inside(t, 3) /\ t = s => phase'[s] = "dead"
        BY <1>2 DEF Inside, MigrationsTypeOK
    <2>3. "trigger_type" \in schema' <=> "trigger_type" \in schema
        BY <1>1
    <2> QED BY <1>1, <1>2, <1>3, <2>1, <2>2, <2>3 DEF ColumnsOwned
<1> QED BY <1>4, <1>5, <1>6, <1>7, <1>8

LEMMA ReadAppliedKeeps ==
    ASSUME MigrationsInv, NEW s \in Starters, ReadApplied(s)
    PROVE  MigrationsInv'
<1> USE DEF MigrationsInv, Enter, ReadApplied
<1>1. position[s] = 0
    BY DEF TodoTrue
<1>2. /\ \A t \in Starters \ {s} : phase'[t] = phase[t] /\ todo'[t] = todo[t]
      /\ phase'[s] = "running" /\ todo'[s] = Versions \ recorded
    BY DEF MigrationsTypeOK
<1>3. \A t \in Starters \ {s}, v \in Versions :
          Current(t)' = Current(t) /\ (Inside(t, v)' <=> Inside(t, v))
    BY <1>2, PlaceFrame
<1>4. ~Inside(s, 3) /\ ~Inside(s, 3)'
    BY <1>1 DEF Inside, MigrationsTypeOK
<1>5. MigrationsTypeOK'
    BY DEF MigrationsTypeOK
<1>6. TodoTrue'
    BY <1>1, <1>2 DEF TodoTrue
<1>7. PlaceTrue'
    BY <1>1, <1>2, <1>3, ScriptFacts DEF PlaceTrue
<1>8. ColumnsOwned'
    BY <1>2, <1>3, <1>4, ScriptFacts DEF ColumnsOwned
<1> QED BY <1>5, <1>6, <1>7, <1>8 DEF RecordedTruly

\* ALTER TABLE raises: while version 3 is not recorded, only in a start that
\* has done nothing of it.
LEMMA DuplicateColumnKeeps ==
    ASSUME MigrationsInv, NEW s \in Starters, DuplicateColumn(s)
    PROVE  MigrationsInv'
<1> USE DEF MigrationsInv, Enter, DuplicateColumn
<1>1. /\ \A t \in Starters \ {s} : phase'[t] = phase[t]
      /\ phase[s] = "running" /\ phase'[s] = "raised"
      /\ UNCHANGED <<dialect, schema, recorded, todo, position>>
    BY DEF MigrationsTypeOK, AtStatement, AtVersion
<1>2. \A t, v : /\ Current(t)' = Current(t)
                /\ Inside(t, v)' <=> Inside(t, v)
    BY <1>1, PlaceFrame
<1>3. ASSUME Inside(s, 3), 3 \notin recorded
      PROVE  FALSE
    <2>1. Current(s) = 3 /\ position[s] \in {1, 2}
        BY <1>3, ScriptFacts DEF Inside, AtStatement, MigrationsTypeOK
    <2>2. NextStatement(s) = IF position[s] = 1 THEN "trigger_type" ELSE "pipeline_locks"
        BY <2>1, CreatedFacts DEF NextStatement
    <2>3. position[s] = 1 /\ "trigger_type" \in schema
        BY <2>1, <2>2 DEF Columns
    <2> QED BY <1>3, <2>3 DEF ColumnsOwned
<1>4. MigrationsTypeOK' /\ TodoTrue'
    BY <1>1 DEF MigrationsTypeOK, Ended, TodoTrue
<1>5. RecordedTruly' /\ PlaceTrue'
    BY <1>1, <1>2 DEF RecordedTruly, PlaceTrue
<1>6. ColumnsOwned'
    BY <1>1, <1>2, <1>3 DEF ColumnsOwned
<1> QED BY <1>4, <1>5, <1>6

-----------------------------------------------------------------------------
(* Steps that run and record a version *)

\* One statement on SQLite. A column is made by the first start that comes to
\* it, and no other start gets past it then.
LEMMA RunStatementKeeps ==
    ASSUME MigrationsInv, NEW s \in Starters, RunStatement(s)
    PROVE  MigrationsInv'
<1> USE DEF MigrationsInv
<1> DEFINE p == position[s]
           here == Current(s)
<1>1. /\ dialect = "sqlite" /\ phase[s] = "running" /\ todo[s] # {}
      /\ here \in todo[s] /\ here \in 1 .. 4
      /\ p \in Nat /\ p < Len(Script[here]) /\ p + 1 \in DOMAIN Script[here]
      /\ p + 1 <= Len(Script[here]) /\ Len(Script[here]) \in 1 .. 5
    BY CurrentIsLeast, ScriptFacts DEF RunStatement, AtStatement, AtVersion, MigrationsTypeOK
<1>2. /\ UNCHANGED <<dialect, recorded, phase, todo>>
      /\ schema' = schema \cup {Script[here][p + 1]}
      /\ Script[here][p + 1] \notin Columns \cap schema
      /\ position'[s] = p + 1
      /\ \A t \in Starters \ {s} : position'[t] = position[t]
    BY DEF RunStatement, NextStatement, MigrationsTypeOK
<1>3. /\ \A t : Current(t)' = Current(t)
      /\ \A t \in Starters \ {s}, v \in Versions : Inside(t, v)' <=> Inside(t, v)
    BY <1>2, PlaceFrame DEF Current
<1>4. MigrationsTypeOK'
    <2>1. Script[here][p + 1] \in Objects
        BY <1>1, ScriptFacts DEF Objects, Created
    <2>2. position' \in [Starters -> 0 .. 5]
        BY <1>1 DEF RunStatement, MigrationsTypeOK
    <2> QED BY <1>2, <2>1, <2>2 DEF MigrationsTypeOK
<1>5. RecordedTruly'
    BY <1>2 DEF RecordedTruly
<1>6. TodoTrue'
    BY <1>1, <1>2 DEF TodoTrue
<1>7. PlaceTrue'
    <2>1. ASSUME NEW q \in 1 .. p + 1
          PROVE  Script[here][q] \in schema'
        <3>1. CASE q = p + 1
            BY <1>2, <3>1
        <3>2. CASE q # p + 1
            BY <1>1, <1>2, <3>2 DEF PlaceTrue
        <3> QED BY <3>1, <3>2
    <2> QED BY <1>1, <1>2, <1>3, <2>1 DEF PlaceTrue
<1>8. ColumnsOwned'
    <2>1. CASE here # 3
        <3>1. Script[here][p + 1] \notin Columns
            <4>1. Script[here][p + 1] \in Created(here)
                BY <1>1 DEF Created
            <4>2. Created(here) \cap Columns = {}
                BY <1>1, <2>1, CreatedFacts DEF Columns
            <4> QED BY <4>1, <4>2
        <3>2. ~Inside(s, 3) /\ ~Inside(s, 3)'
            BY <1>3, <2>1 DEF Inside
        <3> QED BY <1>2, <1>3, <3>1, <3>2, ScriptFacts DEF ColumnsOwned, Columns
    <2>2. CASE here = 3 /\ p = 0
        <3>1. Script[here][p + 1] = "batch_date"
            BY <2>2, CreatedFacts
        <3>2. \A t \in Starters : ~Inside(t, 3)
            <4>1. ASSUME NEW t \in Starters, Inside(t, 3)
                  PROVE  "batch_date" \in schema
                <5>1. position[t] \in 1 .. 5 /\ Current(t) = 3
                    BY <4>1 DEF Inside, MigrationsTypeOK
                <5> QED BY <5>1, CreatedFacts DEF PlaceTrue
            <4> QED BY <1>2, <3>1, <4>1 DEF Columns
        <3>3. 3 \notin recorded => Columns \cap schema = {}
            BY <3>2 DEF ColumnsOwned
        <3>4. Inside(s, 3)'
            BY <1>1, <1>2, <1>3, <2>2 DEF Inside
        <3>5. \A t \in Starters : Inside(t, 3)' => t = s
            BY <1>3, <3>2, ScriptFacts
        <3>6. 3 \notin recorded' => "trigger_type" \notin schema'
            BY <1>2, <3>1, <3>3 DEF Columns
        <3> QED BY <1>1, <1>2, <3>4, <3>5, <3>6 DEF ColumnsOwned
    <2>3. CASE here = 3 /\ p > 0
        <3>1. Inside(s, 3) /\ Inside(s, 3)'
            BY <1>1, <1>2, <1>3, <2>3 DEF Inside
        <3>2. \A t \in Starters : Inside(t, 3)' => t = s
            BY <1>3, <3>1, ScriptFacts DEF ColumnsOwned
        <3>3. position'[s] >= 2
            BY <1>1, <1>2, <2>3
        <3> QED BY <1>1, <1>2, <3>1, <3>2, <3>3 DEF ColumnsOwned
    <2> QED BY <1>1, <2>1, <2>2, <2>3
<1> QED BY <1>4, <1>5, <1>6, <1>7, <1>8

\* The end of a version, on either database: all it creates exists when it is
\* recorded.
LEMMA RecordingKeeps ==
    ASSUME MigrationsInv, NEW s \in Starters,
           RecordVersion(s) \/ MigrateVersion(s)
    PROVE  MigrationsInv'
<1> USE DEF MigrationsInv
<1> DEFINE here == Current(s)
<1>1. /\ phase[s] = "running" /\ todo[s] # {} /\ dialect' = dialect
      /\ here \in todo[s] /\ here \in 1 .. 4 /\ here \in Versions
      /\ \A w \in todo[s] : here <= w
    BY CurrentIsLeast, ScriptFacts DEF RecordVersion, MigrateVersion, AtVersion
<1>2. /\ schema \subseteq schema'
      /\ schema' = schema \/ schema' = schema \cup Created(here)
    BY DEF RecordVersion, MigrateVersion
<1>3. /\ here \notin recorded => Created(here) \subseteq schema'
      /\ here \in recorded => schema' = schema
    <2>1. CASE MigrateVersion(s)
        BY <2>1 DEF MigrateVersion
    <2>2. CASE RecordVersion(s)
        <3>1. position[s] = Len(Script[here]) /\ schema' = schema
            BY <2>2 DEF RecordVersion
        <3>2. position[s] \in 1 .. 5
            <4>1. Len(Script[here]) \in 1 .. 5
                BY <1>1, ScriptFacts
            <4> QED BY <3>1, <4>1
        <3>3. \A i \in DOMAIN Script[here] : Script[here][i] \in schema
            BY <1>1, <3>1, <3>2, ScriptFacts DEF PlaceTrue
        <3> QED BY <3>1, <3>3 DEF Created
    <2> QED BY <2>1, <2>2
<1>4. \A w \in 1 .. here : w # here => w \in recorded
    BY <1>1, ScriptFacts DEF TodoTrue
<1>5. Recorded(s)
    BY DEF RecordVersion, MigrateVersion
<1>6. CASE here \in recorded
    <2>1. /\ UNCHANGED <<dialect, schema, recorded, todo, position>>
          /\ phase'[s] = "raised" /\ phase' \in [Starters -> {"idle", "creating", "reading", "running"} \cup Ended]
          /\ \A t \in Starters \ {s} : phase'[t] = phase[t]
        BY <1>1, <1>3, <1>5, <1>6 DEF Recorded, Enter, MigrationsTypeOK, Ended
    <2>2. \A t, v : /\ Current(t)' = Current(t)
                    /\ Inside(t, v)' <=> Inside(t, v)
        BY <2>1, PlaceFrame
    <2>3. Inside(s, 3) => 3 \in recorded
        BY <1>6 DEF Inside
    <2>4. MigrationsTypeOK' /\ RecordedTruly' /\ TodoTrue'
        BY <2>1 DEF MigrationsTypeOK, RecordedTruly, TodoTrue
    <2>5. PlaceTrue'
        BY <2>1, <2>2 DEF PlaceTrue
    <2>6. ColumnsOwned'
        BY <2>1, <2>2, <2>3 DEF ColumnsOwned
    <2> QED BY <2>4, <2>5, <2>6
<1>7. CASE here \notin recorded
    <2>1. /\ UNCHANGED phase
          /\ recorded' = recorded \cup {here}
          /\ todo' \in [Starters -> SUBSET Versions]
          /\ todo'[s] = todo[s] \ {here} /\ position'[s] = 0
          /\ position' \in [Starters -> 0 .. 5]
          /\ \A t \in Starters \ {s} : todo'[t] = todo[t] /\ position'[t] = position[t]
        BY <1>5, <1>7 DEF Recorded, MigrationsTypeOK
    <2>2. \A t \in Starters \ {s}, v \in Versions :
              Current(t)' = Current(t) /\ (Inside(t, v)' <=> Inside(t, v))
        BY <2>1, PlaceFrame
    <2>3. MigrationsTypeOK'
        BY <1>1, <1>2, <2>1 DEF MigrationsTypeOK, Objects
    <2>4. RecordedTruly'
        BY <1>1, <1>2, <1>3, <1>4, <1>7, <2>1 DEF RecordedTruly
    <2>5. TodoTrue'
        BY <1>1, <2>1 DEF TodoTrue
    <2>6. PlaceTrue'
        BY <1>1, <1>2, <2>1, <2>2 DEF PlaceTrue
    <2>7. ColumnsOwned'
        <3>1. ~Inside(s, 3)'
            BY <2>1 DEF Inside
        <3>2. \A t \in Starters : Inside(t, 3)' => Inside(t, 3)
            BY <2>2, <3>1, ScriptFacts
        <3>3. ASSUME 3 \notin recorded'
              PROVE  /\ here # 3 /\ 3 \notin recorded /\ ~Inside(s, 3)
                     /\ Columns \cap schema' = Columns \cap schema
            <4>1. here # 3 /\ 3 \notin recorded /\ ~Inside(s, 3)
                BY <2>1, <3>3 DEF Inside
            <4>2. Created(here) \cap Columns = {}
                BY <1>1, <4>1, CreatedFacts DEF Columns
            <4> QED BY <1>2, <4>1, <4>2
        <3>4. "trigger_type" \in Columns
            BY DEF Columns
        <3> QED BY <1>1, <2>1, <2>2, <3>1, <3>2, <3>3, <3>4, ScriptFacts DEF ColumnsOwned
    <2> QED BY <2>3, <2>4, <2>5, <2>6, <2>7
<1> QED BY <1>6, <1>7

LEMMA MigrationsInvStep ==
    MigrationsInv /\ [MigrationsNext]_migrationVars => MigrationsInv'
<1> SUFFICES ASSUME MigrationsInv, [MigrationsNext]_migrationVars
             PROVE  MigrationsInv'
    OBVIOUS
<1>1. CASE UNCHANGED migrationVars
    <2>1. \A t, v : /\ Current(t)' = Current(t)
                    /\ Inside(t, v)' <=> Inside(t, v)
        BY <1>1, PlaceFrame DEF migrationVars, calls
    <2> QED
        BY <1>1, <2>1 DEF migrationVars, calls, MigrationsInv, MigrationsTypeOK,
                          RecordedTruly, TodoTrue, PlaceTrue, ColumnsOwned
<1> QED
    BY <1>1, CallStepKeeps, ReadAppliedKeeps, DuplicateColumnKeeps,
       RunStatementKeeps, RecordingKeeps
    DEF MigrationsNext, ApplyStep

LEMMA MigrationsInvariant == MigrationsSpec => []MigrationsInv
BY MigrationsInvInit, MigrationsInvStep, PTL DEF MigrationsSpec

-----------------------------------------------------------------------------
(* The theorems *)

\* The variables of the starts keep their types: no start finds a version
\* applied that does not exist, or runs past the end of a script.
THEOREM MigrationsTypeCorrect == MigrationsSpec => []MigrationsTypeOK
<1>1. MigrationsInv => MigrationsTypeOK
    BY DEF MigrationsInv
<1> QED BY <1>1, MigrationsInvariant, PTL

\* However many starts race on a database, and wherever they die, the
\* recorded history is true and a worker that has started has the complete
\* schema.
THEOREM HistoryStaysTrue == MigrationsSpec => []HistoryIsTrue
<1>1. MigrationsInv => HistoryIsTrue
    BY DEF MigrationsInv, MigrationsTypeOK, RecordedTruly, TodoTrue, HistoryIsTrue
<1> QED BY <1>1, MigrationsInvariant, PTL

\* A database on which a version can no longer be run is one on SQLite with a
\* start inside that version, or dead in it.
THEOREM TornScriptsExplained == MigrationsSpec => []OnlyTornScriptsBlock
<1>1. MigrationsInv => OnlyTornScriptsBlock
    <2> SUFFICES ASSUME MigrationsInv, NEW v \in Versions, Blocked(v)
                 PROVE  /\ dialect = "sqlite"
                        /\ \E s \in Starters :
                               Inside(s, v) /\ phase[s] \in {"running", "dead"}
        BY DEF OnlyTornScriptsBlock
    <2>1. v = 3
        <3>1. v = 1 \/ v = 2 \/ v = 3 \/ v = 4
            BY ScriptFacts
        <3> QED BY <3>1, CreatedFacts DEF Blocked, Columns
    <2> QED BY <2>1 DEF MigrationsInv, ColumnsOwned, Blocked
<1> QED BY <1>1, MigrationsInvariant, PTL
=============================================================================
