--------------------------- MODULE WarehouseProofs ---------------------------
(***************************************************************************)
(* Proofs about Warehouse: its types, and that the marts mirror staging,   *)
(* the dimension covers the facts, no check rejects a batch, every line is *)
(* accounted for and a replay changes nothing, for any files and bounds.   *)
(***************************************************************************)
EXTENDS Warehouse, FiniteSetTheorems, WellFoundedInduction, TLAPS

(* Finite sets of numbers have a least and a greatest element *)

Minimal(U, A) == \A V \in A : V \subseteq U => V = U

LEMMA MinimalSubset ==
    ASSUME NEW T, IsFiniteSet(T), NEW A, A \subseteq SUBSET T, A # {}
    PROVE  \E U \in A : Minimal(U, A)
<1> DEFINE R == StrictSubsetOrdering(T)
           S == FiniteSubsetsOf(T)
<1>1. IsWellFoundedOn(R, S)
    BY FS_StrictSubsetOrderingWellFounded
<1>2. A \subseteq S
    BY FS_Subset DEF FiniteSubsetsOf
<1>3. ASSUME NEW RR, NEW SS, IsWellFoundedOn(RR, SS),
             NEW TT, TT \subseteq SS, TT # {}
      PROVE  \E x \in TT : \A y \in TT : ~(<<y, x>> \in RR)
    BY <1>3, WFMin
<1>4. PICK U \in A : \A V \in A : <<V, U>> \notin R
    <2> HIDE DEF R, S
    <2> QED BY <1>1, <1>2, <1>3
<1> QED
    BY <1>2, <1>4 DEF StrictSubsetOrdering, Minimal

\* Of the sets {u \in T : u <= t} the least is that of the minimum.
LEMMA MinimumExists ==
    ASSUME NEW T \in SUBSET Nat, IsFiniteSet(T), T # {}
    PROVE  \E t \in T : \A u \in T : t <= u
<1> DEFINE Below(t) == {u \in T : u <= t}
           A == {Below(t) : t \in T}
<1>1. A \subseteq SUBSET T /\ A # {}
    OBVIOUS
<1>2. PICK U \in A : Minimal(U, A)
    <2> HIDE DEF A
    <2> QED BY <1>1, MinimalSubset
<1>3. PICK t \in T : U = Below(t)
    BY <1>2
<1>4. ASSUME NEW u \in T, u < t
      PROVE  FALSE
    <2>1. Below(u) \in A
        OBVIOUS
    <2>2. Below(u) \subseteq Below(t)
        <3>1. \A x \in T : x <= u => x <= t
            BY <1>4
        <3> QED BY <3>1
    <2>3. Below(u) = Below(t)
        <3> HIDE DEF Below
        <3> QED BY <1>2, <1>3, <2>1, <2>2 DEF Minimal
    <2>4. t \in Below(t) /\ t \notin Below(u)
        BY <1>4
    <2> QED
        BY <2>3, <2>4
<1> QED
    BY <1>4

LEMMA MaximumExists ==
    ASSUME NEW T \in SUBSET Nat, IsFiniteSet(T), T # {}
    PROVE  \E t \in T : \A u \in T : u <= t
<1> DEFINE Above(t) == {u \in T : t <= u}
           A == {Above(t) : t \in T}
<1>1. A \subseteq SUBSET T /\ A # {}
    OBVIOUS
<1>2. PICK U \in A : Minimal(U, A)
    <2> HIDE DEF A
    <2> QED BY <1>1, MinimalSubset
<1>3. PICK t \in T : U = Above(t)
    BY <1>2
<1>4. ASSUME NEW u \in T, t < u
      PROVE  FALSE
    <2>1. Above(u) \in A
        OBVIOUS
    <2>2. Above(u) \subseteq Above(t)
        <3>1. \A x \in T : u <= x => t <= x
            BY <1>4
        <3> QED BY <3>1
    <2>3. Above(u) = Above(t)
        <3> HIDE DEF Above
        <3> QED BY <1>2, <1>3, <2>1, <2>2 DEF Minimal
    <2>4. t \in Above(t) /\ t \notin Above(u)
        BY <1>4
    <2> QED
        BY <2>3, <2>4
<1> QED
    BY <1>4

LEMMA EarliestIsLeast ==
    ASSUME NEW T \in SUBSET Nat, IsFiniteSet(T), T # {}
    PROVE  Earliest(T) \in T /\ \A u \in T : Earliest(T) <= u
BY MinimumExists DEF Earliest

LEMMA LatestIsGreatest ==
    ASSUME NEW T \in SUBSET Nat, IsFiniteSet(T), T # {}
    PROVE  Latest(T) \in T /\ \A u \in T : u <= Latest(T)
BY MaximumExists DEF Latest

-----------------------------------------------------------------------------
(* A file as read_and_validate reads it *)

LEMMA FileIsSequence ==
    ASSUME NEW file \in Files
    PROVE  /\ file \in Seq(Rows)
           /\ Len(file) \in 0 .. MaxRows
           /\ DOMAIN file = 1 .. Len(file)
           /\ \A i \in DOMAIN file : file[i] \in Rows /\ file[i] \in RowType
           /\ IsFiniteSet(DOMAIN file) /\ Cardinality(DOMAIN file) = Len(file)
<1>1. PICK n \in 0 .. MaxRows : file \in [1 .. n -> Rows]
    BY DEF Files
<1>2. n \in Nat /\ DOMAIN file = 1 .. n
    BY <1>1, WarehouseAssumption
<1>3. file \in Seq(Rows) /\ Len(file) = n
    BY <1>1, <1>2
<1>4. IsFiniteSet(1 .. n) /\ Cardinality(1 .. n) = n
    BY <1>2, FS_Interval
<1> QED
    BY <1>1, <1>2, <1>3, <1>4, WarehouseAssumption

LEMMA NoLines == <<>> \in Files
<1>1. 0 \in 0 .. MaxRows /\ 1 .. 0 = {}
    BY WarehouseAssumption
<1>2. <<>> \in [1 .. 0 -> Rows]
    BY <1>1
<1> QED
    BY <1>1, <1>2 DEF Files

LEMMA LineSets ==
    ASSUME NEW file \in Files
    PROVE  /\ Parsed(file) \subseteq DOMAIN file
           /\ Rejected(file) \subseteq DOMAIN file
           /\ IsFiniteSet(Parsed(file)) /\ IsFiniteSet(Rejected(file))
           /\ Cardinality(Parsed(file)) \in Nat
           /\ Cardinality(Rejected(file)) \in Nat
<1>1. Parsed(file) \subseteq DOMAIN file /\ Rejected(file) \subseteq DOMAIN file
    BY DEF Parsed, Rejected, Lines
<1> QED
    BY <1>1, FileIsSequence, FS_Subset, FS_CardinalityType

LEMMA AcceptedType ==
    ASSUME NEW file \in Files
    PROVE  /\ Accepted(file) \in [Orders -> Rows \cup {None}]
           /\ \A o \in Filled(Accepted(file)) :
                  \E i \in Parsed(file) : file[i].order = o
<1>1. ASSUME NEW o \in Orders, Winners(file, o) # {}
      PROVE  LET i == CHOOSE j \in Winners(file, o) : TRUE
             IN  i \in Parsed(file) /\ file[i].order = o /\ file[i] \in Rows
    <2>1. PICK i : i = CHOOSE j \in Winners(file, o) : TRUE
        OBVIOUS
    <2>2. i \in Winners(file, o)
        BY <1>1, <2>1
    <2> QED
        BY <2>1, <2>2, FileIsSequence, LineSets DEF Winners
<1> QED
    BY <1>1 DEF Accepted, Filled

\* No two accepted rows come from one line.
LEMMA CountsType ==
    ASSUME NEW file \in Files
    PROVE  /\ CountDuplicates(file) \in Nat
           /\ Cardinality(Filled(Accepted(file))) \in Nat
           /\ Counts(file) = [input |-> Cardinality(Parsed(file)) + Cardinality(Rejected(file)),
                              accepted |-> Cardinality(Filled(Accepted(file))),
                              quarantined |-> Cardinality(Rejected(file)),
                              deduplicated |-> CountDuplicates(file)]
<1> DEFINE P == Parsed(file)
           F == Filled(Accepted(file))
           order == [i \in P |-> file[i].order]
           O == {order[i] : i \in P}
<1>1. order \in Surjection(P, O)
    BY DEF Surjection
<1>2. IsFiniteSet(P) /\ Cardinality(P) \in Nat
    BY LineSets
<1>3. IsFiniteSet(O) /\ Cardinality(O) <= Cardinality(P) /\ Cardinality(O) \in Nat
    <2> HIDE DEF P, O, order
    <2> QED BY <1>1, <1>2, FS_Surjection, FS_CardinalityType
<1>4. F \in SUBSET O
    BY AcceptedType
<1>5. Cardinality(F) \in Nat /\ Cardinality(F) <= Cardinality(O)
    <2> HIDE DEF O, F
    <2> QED BY <1>3, <1>4, FS_Subset, FS_CardinalityType
<1>6. Cardinality(Rejected(file)) \in Nat
    BY LineSets
<1>7. CountDuplicates(file) = Cardinality(P) - Cardinality(F)
    BY DEF CountDuplicates
<1>8. Cardinality(P) - Cardinality(F) \in Nat
    <2> HIDE DEF P, F, O
    <2> QED BY <1>2, <1>3, <1>5
<1>9. Cardinality(F) + Cardinality(Rejected(file)) + CountDuplicates(file)
          = Cardinality(P) + Cardinality(Rejected(file))
    <2> HIDE DEF P, F
    <2> QED BY <1>2, <1>5, <1>6, <1>7
<1> QED
    BY <1>5, <1>7, <1>8, <1>9 DEF Counts

\* Lines that can be read are either parsed or rejected.
LEMMA LinesPartition ==
    ASSUME NEW file \in Files, ~Has(file, "unreadable")
    PROVE  Counts(file).input = Len(file)
<1>1. Parsed(file) \cup Rejected(file) = DOMAIN file
    BY FileIsSequence DEF Parsed, Rejected, Lines, Has, RowType, Kinds
<1>2. Parsed(file) \cap Rejected(file) = {}
    BY DEF Parsed, Rejected, Lines
<1>3. Cardinality(Parsed(file)) + Cardinality(Rejected(file)) = Len(file)
    <2> DEFINE P == Parsed(file)
               R == Rejected(file)
               D == DOMAIN file
    <2>1. P \cup R = D /\ P \cap R = {}
        BY <1>1, <1>2
    <2>2. /\ IsFiniteSet(P) /\ IsFiniteSet(R)
          /\ Cardinality(P) \in Nat /\ Cardinality(R) \in Nat
          /\ Cardinality(D) = Len(file)
        BY LineSets, FileIsSequence
    <2> HIDE DEF P, R, D
    <2>3. Cardinality(P \cup R)
              = Cardinality(P) + Cardinality(R) - Cardinality(P \cap R)
        BY <2>2, FS_Union
    <2>4. Cardinality(P \cup R) = Cardinality(D) /\ Cardinality(P \cap R) = 0
        BY <2>1, FS_EmptySet
    <2> QED BY <2>2, <2>3, <2>4 DEF P, R
<1> QED
    BY <1>3, CountsType

-----------------------------------------------------------------------------
(* The tables after a load *)

Table == [Orders -> Rows \cup {None}]

LEMMA RowFields ==
    ASSUME NEW st \in Table, NEW o \in Filled(st)
    PROVE  /\ o \in Orders /\ st[o] \in Rows /\ st[o] # None
           /\ st[o].customer \in Customers /\ st[o].ts \in Nat /\ st[o].ver \in Nat
BY WarehouseAssumption DEF Table, Filled, RowType

LEMMA StagedGrows ==
    ASSUME staging \in Table, NEW rows \in Table
    PROVE  /\ Staged(rows) \in Table
           /\ \A o \in Filled(staging) :
                  o \in Filled(Staged(rows)) /\ staging[o].ver <= Staged(rows)[o].ver
           /\ \A o \in Filled(rows) :
                  o \in Filled(Staged(rows)) /\ rows[o].ver <= Staged(rows)[o].ver
<1>1. Staged(rows) \in Table
    BY DEF Staged, Table
<1>2. ASSUME NEW o \in Filled(staging)
      PROVE  o \in Filled(Staged(rows)) /\ staging[o].ver <= Staged(rows)[o].ver
    <2>1. staging[o].ver \in Nat /\ staging[o] # None /\ o \in Orders
        BY RowFields
    <2>2. rows[o] # None => rows[o].ver \in Nat
        BY <2>1, RowFields DEF Filled, Table
    <2> QED BY <2>1, <2>2 DEF Staged, Filled
<1>3. ASSUME NEW o \in Filled(rows)
      PROVE  o \in Filled(Staged(rows)) /\ rows[o].ver <= Staged(rows)[o].ver
    <2>1. rows[o].ver \in Nat /\ rows[o] # None /\ o \in Orders
        BY RowFields
    <2>2. staging[o] # None => staging[o].ver \in Nat
        BY <2>1, RowFields DEF Filled, Table
    <2> QED BY <2>1, <2>2 DEF Staged, Filled
<1> QED
    BY <1>1, <1>2, <1>3

LEMMA OrderTimesType ==
    ASSUME NEW st \in Table, NEW c
    PROVE  /\ OrderTimes(st, c) \subseteq Nat
           /\ IsFiniteSet(OrderTimes(st, c))
           /\ \A o \in Filled(st) :
                  st[o].customer = c => st[o].ts \in OrderTimes(st, c)
<1> DEFINE S == {p \in Filled(st) : st[p].customer = c}
           time == [o \in S |-> st[o].ts]
           T == OrderTimes(st, c)
<1>1. T \subseteq Nat
    BY RowFields DEF OrderTimes
<1>2. IsFiniteSet(S)
    <2>1. S \in SUBSET Orders
        BY DEF Filled, Table
    <2> HIDE DEF S
    <2> QED BY <2>1, FS_Subset, WarehouseAssumption
<1>3. time \in Surjection(S, T)
    BY DEF Surjection, OrderTimes
<1>4. IsFiniteSet(T)
    <2> HIDE DEF S, time, T
    <2> QED BY <1>2, <1>3, FS_Surjection
<1> QED
    BY <1>1, <1>4 DEF OrderTimes

\* The dates of a customer of staging after the upsert: they cover his orders
\* and what was recorded.
LEMMA DimensionWidens ==
    ASSUME dim \in [Customers -> Lifespan \cup {None}], NEW st \in Table,
           NEW c \in Customers, OrderTimes(st, c) # {}
    PROVE  /\ Dimension(st)[c] \in Lifespan
           /\ \A t \in OrderTimes(st, c) :
                  Dimension(st)[c].first <= t /\ t <= Dimension(st)[c].last
           /\ LET T == IF dim[c] = None THEN OrderTimes(st, c)
                       ELSE OrderTimes(st, c) \cup {dim[c].first, dim[c].last}
              IN  Dimension(st)[c].first \in T /\ Dimension(st)[c].last \in T
           /\ dim[c] # None =>
                  /\ Dimension(st)[c].first <= dim[c].first
                  /\ dim[c].last <= Dimension(st)[c].last
<1> DEFINE seen == OrderTimes(st, c)
           T == IF dim[c] = None THEN seen ELSE seen \cup {dim[c].first, dim[c].last}
<1>1. seen \subseteq Nat /\ IsFiniteSet(seen)
    BY OrderTimesType
<1>2. dim[c] # None => dim[c].first \in Nat /\ dim[c].last \in Nat
    BY DEF Lifespan
<1>3. T \in SUBSET Nat /\ T # {} /\ seen \subseteq T
    BY <1>1, <1>2
<1>4. IsFiniteSet(T)
    <2>1. IsFiniteSet(seen \cup {dim[c].first})
        BY <1>1, FS_AddElement
    <2>2. IsFiniteSet((seen \cup {dim[c].first}) \cup {dim[c].last})
        BY <2>1, FS_AddElement
    <2>3. (seen \cup {dim[c].first}) \cup {dim[c].last}
              = seen \cup {dim[c].first, dim[c].last}
        OBVIOUS
    <2> QED BY <1>1, <2>2, <2>3
<1>5. /\ Earliest(T) \in T /\ \A u \in T : Earliest(T) <= u
      /\ Latest(T) \in T /\ \A u \in T : u <= Latest(T)
    <2> HIDE DEF T
    <2> QED BY <1>3, <1>4, EarliestIsLeast, LatestIsGreatest
<1>6. Dimension(st)[c] = [first |-> Earliest(T), last |-> Latest(T)]
    BY DEF Dimension
<1>7. Dimension(st)[c].first = Earliest(T) /\ Dimension(st)[c].last = Latest(T)
    BY <1>6
<1>8. Dimension(st)[c] \in Lifespan
    <2> HIDE DEF T
    <2>1. Earliest(T) \in Nat /\ Latest(T) \in Nat
        BY <1>3, <1>5
    <2> QED BY <1>6, <2>1 DEF Lifespan
<1>9. dim[c] # None => dim[c].first \in T /\ dim[c].last \in T
    OBVIOUS
<1>10. /\ Dimension(st)[c].first \in T /\ Dimension(st)[c].last \in T
       /\ \A t \in seen :
              Dimension(st)[c].first <= t /\ t <= Dimension(st)[c].last
       /\ dim[c] # None =>
              /\ Dimension(st)[c].first <= dim[c].first
              /\ dim[c].last <= Dimension(st)[c].last
    <2> HIDE DEF T
    <2> QED BY <1>3, <1>5, <1>7, <1>9
<1> QED
    BY <1>8, <1>10

LEMMA DimensionType ==
    ASSUME dim \in [Customers -> Lifespan \cup {None}], NEW st \in Table
    PROVE  Dimension(st) \in [Customers -> Lifespan \cup {None}]
<1>1. ASSUME NEW c \in Customers
      PROVE  Dimension(st)[c] \in Lifespan \cup {None}
    <2>1. CASE OrderTimes(st, c) = {}
        <3>1. Dimension(st)[c] = dim[c]
            BY <2>1 DEF Dimension
        <3> QED BY <3>1
    <2>2. CASE OrderTimes(st, c) # {}
        BY <2>2, DimensionWidens
    <2> QED BY <2>1, <2>2
<1>2. Dimension(st) = [c \in Customers |-> Dimension(st)[c]]
    BY DEF Dimension
<1> QED
    BY <1>1, <1>2

Covers(dm, st) ==
    \A o \in Filled(st) :
        LET life == dm[st[o].customer]
        IN  life # None /\ life.first <= st[o].ts /\ st[o].ts <= life.last

\* Every customer of staging is in the dimension, with dates that cover its
\* orders.
LEMMA DimensionCovers ==
    ASSUME dim \in [Customers -> Lifespan \cup {None}], NEW st \in Table
    PROVE  Covers(Dimension(st), st)
<1> SUFFICES ASSUME NEW o \in Filled(st)
             PROVE  LET life == Dimension(st)[st[o].customer]
                    IN  life # None /\ life.first <= st[o].ts /\ st[o].ts <= life.last
    BY DEF Covers
<1>1. PICK c \in Customers : c = st[o].customer
    BY RowFields
<1>2. st[o].ts \in OrderTimes(st, c)
    BY <1>1, OrderTimesType
<1>3. Dimension(st)[c] \in Lifespan
    BY <1>2, DimensionWidens
<1>4. Dimension(st)[c].first <= st[o].ts /\ st[o].ts <= Dimension(st)[c].last
    BY <1>2, DimensionWidens
<1> QED
    BY <1>1, <1>3, <1>4, WarehouseAssumption

\* The facts follow the staging rows: what the strict version test of one
\* upsert takes, that of the other takes too.
LEMMA FactsFollow ==
    ASSUME staging \in Table, facts = staging, NEW rows \in Table, NEW dm,
           Covers(dm, Staged(rows))
    PROVE  Facts(Staged(rows), dm) = Staged(rows)
<1> DEFINE st == Staged(rows)
<1>1. st \in Table
    BY StagedGrows
<1>2. ASSUME NEW o \in Orders
      PROVE  (IF /\ st[o] # None
                 /\ dm[st[o].customer] # None
                 /\ facts[o] = None \/ st[o].ver > facts[o].ver
              THEN st[o] ELSE facts[o]) = st[o]
    <2>1. CASE st[o] = None
        <3>1. staging[o] = None
            BY <2>1, StagedGrows DEF Filled, Table
        <3> QED BY <2>1, <3>1
    <2>2. CASE st[o] # None
        <3>1. dm[st[o].customer] # None
            BY <1>1, <2>2 DEF Covers, Filled, Table
        <3>2. st[o] = staging[o] \/ staging[o] = None \/ st[o].ver > staging[o].ver
            BY DEF Staged
        <3> HIDE DEF st
        <3> QED BY <2>2, <3>1, <3>2
    <2> QED BY <2>1, <2>2
<1>3. Facts(st, dm) = [o \in Orders |-> st[o]]
    BY <1>2 DEF Facts
<1> QED
    BY <1>1, <1>3 DEF Table

\* So the reconciliation checks never reject a load.
LEMMA LoadReconciles ==
    ASSUME NEW st \in Table, NEW dm, Covers(dm, st)
    PROVE  Reconciles(st, dm, st)
BY DEF Reconciles, Covers

-----------------------------------------------------------------------------
(* The invariant *)

\* Whatever a committed file says of an order, staging says it too or has
\* something at least as new.
StagingAbsorbs ==
    \A i \in DOMAIN runs : runs[i].status = "succeeded" =>
        \A o \in Filled(Accepted(runs[i].file)) :
            /\ o \in Filled(staging)
            /\ Accepted(runs[i].file)[o].ver <= staging[o].ver

QuarantineOf(i) ==
    IF runs[i].status = "succeeded"
    THEN {<<i, j>> : j \in Rejected(runs[i].file)} ELSE {}

\* The quarantine holds the rejected lines of the committed runs, and the
\* counts of those runs are their files'.
RunsAccountForLines ==
    /\ \A q \in quarantine : q[1] \in DOMAIN runs
    /\ \A i \in DOMAIN runs : {q \in quarantine : q[1] = i} = QuarantineOf(i)
    /\ \A i \in DOMAIN runs : runs[i].status = "succeeded" =>
           /\ runs[i].input = Len(runs[i].file)
           /\ runs[i].quarantined = Cardinality(Rejected(runs[i].file))

WarehouseInv ==
    /\ WarehouseTypeOK
    /\ FactsMirrorStaging
    /\ DimensionCoversFacts
    /\ ChecksRejectNoBatch
    /\ StagingAbsorbs
    /\ RunsAccountForLines

LEMMA WarehouseInvInit == WarehouseInit => WarehouseInv
<1> SUFFICES ASSUME WarehouseInit
             PROVE  WarehouseInv
    OBVIOUS
<1>1. WarehouseTypeOK
    BY DEF WarehouseInit, WarehouseTypeOK
<1>2. FactsMirrorStaging /\ DimensionCoversFacts
    BY DEF WarehouseInit, FactsMirrorStaging, DimensionCoversFacts, Filled
<1>3. ChecksRejectNoBatch /\ StagingAbsorbs /\ RunsAccountForLines
    BY DEF WarehouseInit, ChecksRejectNoBatch, StagingAbsorbs, RunsAccountForLines
<1> QED
    BY <1>1, <1>2, <1>3 DEF WarehouseInv

CountsRow == [input : Nat, accepted : Nat, quarantined : Nat, deduplicated : Nat]

\* The row that store_run appends.
LEMMA RowAppends ==
    ASSUME runs \in Seq(RunRow), NEW row \in RunRow, runs' = Append(runs, row),
           NEW n \in Nat, n = Len(runs) + 1
    PROVE  /\ n \notin DOMAIN runs
           /\ runs' \in Seq(RunRow)
           /\ DOMAIN runs' = DOMAIN runs \cup {n}
           /\ \A i \in DOMAIN runs : runs'[i] = runs[i]
           /\ runs'[n] = row
OBVIOUS

LEMMA CountsAreNumbers ==
    /\ \A file \in Files : Counts(file) \in CountsRow
    /\ NoCounts \in CountsRow
<1>1. ASSUME NEW file \in Files
      PROVE  Counts(file) \in CountsRow
    <2>1. Cardinality(Parsed(file)) + Cardinality(Rejected(file)) \in Nat
        BY LineSets
    <2> QED BY <2>1, CountsType, LineSets DEF CountsRow
<1> QED
    BY <1>1 DEF NoCounts, CountsRow

\* The row of a load that commits.
LEMMA SucceededAppends ==
    ASSUME runs \in Seq(RunRow), NEW file \in Files,
           StoreRun(file, "succeeded", "none", Counts(file)),
           NEW n \in Nat, n = Len(runs) + 1
    PROVE  /\ n \notin DOMAIN runs
           /\ runs' \in Seq(RunRow)
           /\ DOMAIN runs' = DOMAIN runs \cup {n}
           /\ \A i \in DOMAIN runs : runs'[i] = runs[i]
           /\ runs'[n].file = file
           /\ runs'[n].status = "succeeded"
           /\ runs'[n].error = "none"
           /\ runs'[n].input = Counts(file).input
           /\ runs'[n].quarantined = Counts(file).quarantined
<1>1. PICK row \in RunRow :
          /\ runs' = Append(runs, row)
          /\ row.file = file /\ row.status = "succeeded" /\ row.error = "none"
          /\ row.input = Counts(file).input
          /\ row.quarantined = Counts(file).quarantined
    <2>1. PICK counts \in CountsRow : counts = Counts(file)
        BY CountsAreNumbers
    <2>2. StoreRun(file, "succeeded", "none", counts)
        BY <2>1
    <2>3. PICK row \in RunRow :
              /\ runs' = Append(runs, row)
              /\ row.file = file /\ row.status = "succeeded" /\ row.error = "none"
              /\ row.input = counts.input /\ row.quarantined = counts.quarantined
        BY <2>2 DEF StoreRun, RunRow, CountsRow, Errors
    <2> QED BY <2>1, <2>3
<1> QED
    BY <1>1, RowAppends

\* What a load that commits does, in one place.
LEMMA LoadFileEffect ==
    ASSUME WarehouseInv, NEW file \in Files, LoadFile(file)
    PROVE  /\ staging' = Staged(Accepted(file)) /\ facts' = staging'
           /\ dim' = Dimension(staging')
           /\ staging' \in Table
           /\ dim' \in [Customers -> Lifespan \cup {None}]
           /\ Covers(dim', staging')
           /\ ~Has(file, "unreadable")
           /\ quarantine' = quarantine \cup {<<Len(runs) + 1, i>> : i \in Rejected(file)}
           /\ Len(runs) < MaxRuns
           /\ StoreRun(file, "succeeded", "none", Counts(file))
<1>1. staging' = Staged(Accepted(file)) /\ dim' = Dimension(staging')
      /\ facts' = Facts(staging', dim')
    BY DEF LoadFile
<1>2. staging \in Table /\ Accepted(file) \in Table
    BY AcceptedType DEF WarehouseInv, WarehouseTypeOK, Table
<1>3. staging' \in Table
    BY <1>1, <1>2, StagedGrows
<1>4. dim' \in [Customers -> Lifespan \cup {None}] /\ Covers(dim', staging')
    BY <1>1, <1>3, DimensionType, DimensionCovers DEF WarehouseInv, WarehouseTypeOK
<1>5. facts' = staging'
    BY <1>1, <1>2, <1>4, FactsFollow DEF WarehouseInv, FactsMirrorStaging
<1> QED
    BY <1>1, <1>3, <1>4, <1>5 DEF LoadFile

\* A load is never refused by its own checks.
LEMMA EveryLoadReconciles ==
    ASSUME WarehouseInv, NEW file \in Files
    PROVE  LET st == Staged(Accepted(file))
               dm == Dimension(st)
           IN  Reconciles(st, dm, Facts(st, dm))
<1> DEFINE st == Staged(Accepted(file))
           dm == Dimension(st)
<1>1. staging \in Table /\ Accepted(file) \in Table
    BY AcceptedType DEF WarehouseInv, WarehouseTypeOK, Table
<1>2. st \in Table
    BY <1>1, StagedGrows
<1>3. Covers(dm, st)
    BY <1>2, DimensionCovers DEF WarehouseInv, WarehouseTypeOK
<1>4. Facts(st, dm) = st
    BY <1>1, <1>3, FactsFollow DEF WarehouseInv, FactsMirrorStaging
<1>5. Reconciles(st, dm, st)
    <2> HIDE DEF st, dm
    <2> QED BY <1>2, <1>3, LoadReconciles
<1> QED
    BY <1>4, <1>5

-----------------------------------------------------------------------------
(* A committed load keeps the invariant *)

LEMMA LoadKeepsTypes ==
    ASSUME WarehouseInv, NEW file \in Files, LoadFile(file)
    PROVE  WarehouseTypeOK'
<1>1. runs' \in Seq(RunRow)
    <2>1. runs \in Seq(RunRow) /\ Len(runs) + 1 \in Nat
        BY DEF WarehouseInv, WarehouseTypeOK
    <2> QED
        BY <2>1, LoadFileEffect, SucceededAppends
<1>2. quarantine' \subseteq (1 .. MaxRuns) \X (1 .. MaxRows)
    <2>1. Len(runs) + 1 \in 1 .. MaxRuns
        BY LoadFileEffect, WarehouseAssumption DEF WarehouseInv, WarehouseTypeOK
    <2>2. Rejected(file) \subseteq 1 .. MaxRows
        BY LineSets, FileIsSequence, WarehouseAssumption
    <2> QED
        BY <2>1, <2>2, LoadFileEffect DEF WarehouseInv, WarehouseTypeOK
<1> QED
    BY <1>1, <1>2, LoadFileEffect DEF WarehouseTypeOK, Table

LEMMA LoadKeepsMarts ==
    ASSUME WarehouseInv, NEW file \in Files, LoadFile(file)
    PROVE  FactsMirrorStaging' /\ DimensionCoversFacts'
BY LoadFileEffect DEF FactsMirrorStaging, DimensionCoversFacts, Covers, Filled

LEMMA LoadKeepsRuns ==
    ASSUME WarehouseInv, NEW file \in Files, LoadFile(file)
    PROVE  ChecksRejectNoBatch' /\ StagingAbsorbs' /\ RunsAccountForLines'
<1>0. runs \in Seq(RunRow)
    BY DEF WarehouseInv, WarehouseTypeOK
<1>n. PICK n \in Nat : n = Len(runs) + 1
    BY <1>0
<1>1. /\ n \notin DOMAIN runs
      /\ DOMAIN runs' = DOMAIN runs \cup {n}
      /\ \A i \in DOMAIN runs : runs'[i] = runs[i]
      /\ runs'[n].file = file /\ runs'[n].status = "succeeded"
      /\ runs'[n].error = "none"
      /\ runs'[n].input = Counts(file).input
      /\ runs'[n].quarantined = Counts(file).quarantined
    BY <1>0, <1>n, LoadFileEffect, SucceededAppends
<1>2. \A i \in DOMAIN runs : runs[i].file \in Files
    <2>1. \A i \in DOMAIN runs : runs[i] \in RunRow
        BY <1>0
    <2> QED BY <2>1 DEF RunRow
<1>3. ChecksRejectNoBatch'
    BY <1>1 DEF ChecksRejectNoBatch, WarehouseInv
<1>4. StagingAbsorbs'
    <2>1. staging \in Table /\ Accepted(file) \in Table
        BY AcceptedType DEF WarehouseInv, WarehouseTypeOK, Table
    <2>2. /\ \A o \in Filled(staging) :
                 o \in Filled(staging') /\ staging[o].ver <= staging'[o].ver
          /\ \A o \in Filled(Accepted(file)) :
                 o \in Filled(staging') /\ Accepted(file)[o].ver <= staging'[o].ver
        BY <2>1, StagedGrows, LoadFileEffect
    <2>3. ASSUME NEW i \in DOMAIN runs, runs[i].status = "succeeded",
                 NEW o \in Filled(Accepted(runs[i].file))
          PROVE  /\ o \in Filled(staging')
                 /\ Accepted(runs[i].file)[o].ver <= staging'[o].ver
        <3>1. /\ o \in Filled(staging)
              /\ Accepted(runs[i].file)[o].ver <= staging[o].ver
            BY <2>3 DEF WarehouseInv, StagingAbsorbs
        <3>2. Accepted(runs[i].file) \in Table
            BY <1>2, AcceptedType DEF Table
        <3>3. /\ Accepted(runs[i].file)[o].ver \in Nat
              /\ staging[o].ver \in Nat /\ staging'[o].ver \in Nat
            BY <2>1, <2>2, <3>1, <3>2, RowFields, LoadFileEffect
        <3> QED BY <2>2, <3>1, <3>3
    <2> QED BY <1>1, <2>2, <2>3 DEF StagingAbsorbs, Filled
<1>5. RunsAccountForLines'
    <2>1. \A q \in quarantine' :
              \/ q \in quarantine /\ q[1] \in DOMAIN runs
              \/ q[1] = n /\ q \in {<<n, j>> : j \in Rejected(file)}
        BY <1>n, LoadFileEffect DEF WarehouseInv, RunsAccountForLines
    <2>2. \A q \in quarantine' : q[1] \in DOMAIN runs'
        BY <1>1, <2>1
    <2>3. ASSUME NEW i \in DOMAIN runs
          PROVE  {q \in quarantine' : q[1] = i} = QuarantineOf(i)'
        <3>1. {q \in quarantine' : q[1] = i} = {q \in quarantine : q[1] = i}
            BY <1>1, <2>1, LoadFileEffect
        <3>2. QuarantineOf(i)' = QuarantineOf(i)
            BY <1>1 DEF QuarantineOf
        <3> QED BY <3>1, <3>2 DEF WarehouseInv, RunsAccountForLines
    <2>4. {q \in quarantine' : q[1] = n} = QuarantineOf(n)'
        <3>1. QuarantineOf(n)' = {<<n, j>> : j \in Rejected(file)}
            BY <1>1 DEF QuarantineOf
        <3>2. {q \in quarantine' : q[1] = n} = {<<n, j>> : j \in Rejected(file)}
            BY <1>n, <1>1, <2>1, LoadFileEffect
        <3> QED BY <3>1, <3>2
    <2>5. /\ runs'[n].input = Len(file)
          /\ runs'[n].quarantined = Cardinality(Rejected(file))
        BY <1>1, LoadFileEffect, LinesPartition, CountsType
    <2>6. \A i \in DOMAIN runs' : runs'[i].status = "succeeded" =>
              /\ runs'[i].input = Len(runs'[i].file)
              /\ runs'[i].quarantined = Cardinality(Rejected(runs'[i].file))
        BY <1>1, <2>5 DEF WarehouseInv, RunsAccountForLines
    <2> QED
        BY <1>1, <2>2, <2>3, <2>4, <2>6 DEF RunsAccountForLines
<1> QED
    BY <1>3, <1>4, <1>5

FailedRun ==
    FailHeader \/ \E file \in Files : FailReading(file) \/ FailLoading(file)

\* A run that fails leaves a row behind, and no more; it is not a check that
\* has failed it.
LEMMA FailedRunStores ==
    ASSUME WarehouseInv, FailedRun
    PROVE  /\ UNCHANGED tables
           /\ \E file \in Files, error \in Errors \ {"check"}, counts \in CountsRow :
                  StoreRun(file, "failed", error, counts)
<1>1. ASSUME NEW file \in Files, FailLoading(file)
      PROVE  UNCHANGED tables /\ StoreRun(file, "failed", "statement", Counts(file))
    BY <1>1, EveryLoadReconciles DEF FailLoading
<1>2. ASSUME NEW file \in Files, FailReading(file)
      PROVE  UNCHANGED tables /\ StoreRun(file, "failed", "line", NoCounts)
    BY <1>2 DEF FailReading
<1>3. FailHeader => UNCHANGED tables /\ StoreRun(<<>>, "failed", "columns", NoCounts)
    BY DEF FailHeader
<1>4. {"columns", "line", "statement"} \subseteq Errors \ {"check"}
    BY DEF Errors
<1> QED BY <1>1, <1>2, <1>3, <1>4, NoLines, CountsAreNumbers DEF FailedRun

LEMMA FailureKeepsInv ==
    ASSUME WarehouseInv, FailedRun
    PROVE  WarehouseInv'
<1> PICK file \in Files, error \in Errors \ {"check"}, counts \in CountsRow :
             StoreRun(file, "failed", error, counts)
    BY FailedRunStores
<1> UNCHANGED tables
    BY FailedRunStores
<1>0. runs \in Seq(RunRow)
    BY DEF WarehouseInv, WarehouseTypeOK
<1>n. PICK n \in Nat : n = Len(runs) + 1
    BY <1>0
<1>1. /\ n \notin DOMAIN runs
      /\ runs' \in Seq(RunRow)
      /\ DOMAIN runs' = DOMAIN runs \cup {n}
      /\ \A i \in DOMAIN runs : runs'[i] = runs[i]
      /\ runs'[n].file = file /\ runs'[n].status = "failed"
      /\ runs'[n].error # "check"
    <2>1. PICK row \in RunRow :
              /\ runs' = Append(runs, row) /\ row.file = file
              /\ row.status = "failed" /\ row.error # "check"
        BY DEF StoreRun, RunRow, CountsRow
    <2> QED BY <1>0, <1>n, <2>1, RowAppends
<1>2. WarehouseTypeOK' /\ FactsMirrorStaging' /\ DimensionCoversFacts'
    BY <1>1 DEF WarehouseInv, WarehouseTypeOK, FactsMirrorStaging,
                DimensionCoversFacts, Filled, tables
<1>3. ChecksRejectNoBatch'
    BY <1>1 DEF WarehouseInv, ChecksRejectNoBatch
<1>4. StagingAbsorbs'
    BY <1>1 DEF WarehouseInv, StagingAbsorbs, Filled, tables
<1>5. RunsAccountForLines'
    <2>1. quarantine' = quarantine /\ \A q \in quarantine : q[1] \in DOMAIN runs
        BY DEF WarehouseInv, RunsAccountForLines, tables
    <2>2. ASSUME NEW i \in DOMAIN runs
          PROVE  {q \in quarantine' : q[1] = i} = QuarantineOf(i)'
        <3>1. QuarantineOf(i)' = QuarantineOf(i)
            BY <1>1 DEF QuarantineOf
        <3> QED BY <2>1, <3>1 DEF WarehouseInv, RunsAccountForLines
    <2>3. {q \in quarantine' : q[1] = n} = QuarantineOf(n)'
        <3>1. QuarantineOf(n)' = {}
            BY <1>1 DEF QuarantineOf
        <3>2. {q \in quarantine' : q[1] = n} = {}
            BY <1>1, <2>1
        <3> QED BY <3>1, <3>2
    <2> QED
        BY <1>1, <2>1, <2>2, <2>3 DEF WarehouseInv, RunsAccountForLines
<1> QED
    BY <1>2, <1>3, <1>4, <1>5 DEF WarehouseInv

LEMMA WarehouseInvStep == WarehouseInv /\ [WarehouseNext]_warehouseVars => WarehouseInv'
<1> SUFFICES ASSUME WarehouseInv, [WarehouseNext]_warehouseVars
             PROVE  WarehouseInv'
    OBVIOUS
<1>1. ASSUME NEW file \in Files, LoadFile(file)
      PROVE  WarehouseInv'
    BY <1>1, LoadKeepsTypes, LoadKeepsMarts, LoadKeepsRuns DEF WarehouseInv
<1>2. FailedRun => WarehouseInv'
    BY FailureKeepsInv
<1>3. CASE UNCHANGED warehouseVars
    <2>1. \A i : QuarantineOf(i)' = QuarantineOf(i)
        BY <1>3 DEF QuarantineOf, warehouseVars
    <2> QED
        BY <1>3, <2>1 DEF WarehouseInv, warehouseVars, WarehouseTypeOK, FactsMirrorStaging,
                    DimensionCoversFacts, ChecksRejectNoBatch, StagingAbsorbs,
                    RunsAccountForLines, Filled
<1> QED
    BY <1>1, <1>2, <1>3 DEF WarehouseNext, FailedRun

LEMMA WarehouseInvariant == WarehouseSpec => []WarehouseInv
BY WarehouseInvInit, WarehouseInvStep, PTL DEF WarehouseSpec

-----------------------------------------------------------------------------
(* The theorems *)

\* The tables and the run rows keep their types: dates are numbers, counts
\* are not negative (deduplicated_rows is a difference).
THEOREM WarehouseTypeCorrect == WarehouseSpec => []WarehouseTypeOK
<1>1. WarehouseInv => WarehouseTypeOK
    BY DEF WarehouseInv
<1> QED BY <1>1, WarehouseInvariant, PTL

\* fact_orders agrees with staging_orders row by row, in whatever order and
\* however often files are loaded.
THEOREM MartsMirrorStaging == WarehouseSpec => []FactsMirrorStaging
<1>1. WarehouseInv => FactsMirrorStaging
    BY DEF WarehouseInv
<1> QED BY <1>1, WarehouseInvariant, PTL

\* The customer of a fact exists, and his recorded dates cover it.
THEOREM DimensionCoversEveryFact == WarehouseSpec => []DimensionCoversFacts
<1>1. WarehouseInv => DimensionCoversFacts
    BY DEF WarehouseInv
<1> QED BY <1>1, WarehouseInvariant, PTL

\* The reconciliation checks never reject a batch, in whatever order files are
\* loaded and whatever fails in between; runs fail on their file, its header
\* included, or on the database.
THEOREM ChecksRejectNoLoad == WarehouseSpec => []ChecksRejectNoBatch
<1>1. WarehouseInv => ChecksRejectNoBatch
    BY DEF WarehouseInv
<1> QED BY <1>1, WarehouseInvariant, PTL

LEMMA PairsCount ==
    ASSUME NEW S, IsFiniteSet(S), NEW i
    PROVE  Cardinality({<<i, j>> : j \in S}) = Cardinality(S)
<1> DEFINE T == {<<i, j>> : j \in S}
           pair == [j \in S |-> <<i, j>>]
<1>1. pair \in Bijection(S, T)
    BY DEF Bijection, Injection, IsInjective, Surjection
<1>2. ExistsBijection(S, T)
    BY <1>1 DEF ExistsBijection
<1> QED
    BY <1>2, FS_Bijection

\* input_rows is the number of lines of the file, and quarantined_orders
\* holds exactly the rejected lines of committed runs.
THEOREM EveryLineAccountedFor == WarehouseSpec => []LinesAccountedFor
<1>1. WarehouseInv => LinesAccountedFor
    <2> SUFFICES ASSUME WarehouseInv
                 PROVE  LinesAccountedFor
        OBVIOUS
    <2>1. ASSUME NEW i \in DOMAIN runs
          PROVE  Cardinality({q \in quarantine : q[1] = i}) =
                     IF runs[i].status = "succeeded" THEN runs[i].quarantined ELSE 0
        <3>1. {q \in quarantine : q[1] = i} = QuarantineOf(i)
            BY DEF WarehouseInv, RunsAccountForLines
        <3>2. CASE runs[i].status = "succeeded"
            <4>1. runs[i] \in RunRow
                BY DEF WarehouseInv, WarehouseTypeOK
            <4>2. IsFiniteSet(Rejected(runs[i].file))
                BY <4>1, LineSets DEF RunRow
            <4>3. Cardinality(QuarantineOf(i)) = Cardinality(Rejected(runs[i].file))
                BY <3>2, <4>2, PairsCount DEF QuarantineOf
            <4> QED
                BY <3>1, <3>2, <4>3 DEF WarehouseInv, RunsAccountForLines
        <3>3. CASE runs[i].status # "succeeded"
            BY <3>1, <3>3, FS_EmptySet DEF QuarantineOf
        <3> QED BY <3>2, <3>3
    <2> QED
        BY <2>1 DEF WarehouseInv, RunsAccountForLines, LinesAccountedFor
<1> QED BY <1>1, WarehouseInvariant, PTL

\* Dates that cover all orders of a customer are not moved by the upsert.
LEMMA DimensionRests ==
    ASSUME WarehouseInv
    PROVE  Dimension(staging) = dim
<1>1. staging \in Table /\ dim \in [Customers -> Lifespan \cup {None}]
    BY DEF WarehouseInv, WarehouseTypeOK, Table
<1>2. ASSUME NEW c \in Customers
      PROVE  Dimension(staging)[c] = dim[c]
    <2>1. CASE OrderTimes(staging, c) = {}
        BY <2>1 DEF Dimension
    <2>2. CASE OrderTimes(staging, c) # {}
        <3> DEFINE new == Dimension(staging)[c]
                   old == dim[c]
                   seen == OrderTimes(staging, c)
        <3>1. /\ old # None
              /\ \A t \in seen : old.first <= t /\ t <= old.last
            BY <2>2 DEF OrderTimes, WarehouseInv, FactsMirrorStaging,
                        DimensionCoversFacts
        <3>2. /\ new \in Lifespan /\ new.first <= old.first /\ old.last <= new.last
              /\ new.first \in seen \cup {old.first, old.last}
              /\ new.last \in seen \cup {old.first, old.last}
            BY <1>1, <2>2, <3>1, DimensionWidens
        <3>3. old \in Lifespan
            BY <1>1, <3>1
        <3>4. seen # {} /\ seen \subseteq Nat
            BY <1>1, <2>2, OrderTimesType
        <3>5. /\ new.first \in Nat /\ new.last \in Nat
              /\ old.first \in Nat /\ old.last \in Nat
            BY <3>2, <3>3 DEF Lifespan
        <3>6. old.first <= old.last
            <4>1. PICK t \in seen : t \in Nat
                BY <3>4
            <4>2. old.first <= t /\ t <= old.last
                BY <3>1
            <4> HIDE DEF seen, old
            <4> QED BY <3>5, <4>1, <4>2
        <3>7. new.first = old.first /\ new.last = old.last
            <4> HIDE DEF seen, old, new
            <4> QED BY <3>1, <3>2, <3>5, <3>6
        <3>8. new = old
            <4> HIDE DEF seen, old, new
            <4> QED BY <3>2, <3>3, <3>7 DEF Lifespan
        <3> QED BY <3>8
    <2> QED BY <2>1, <2>2
<1>3. Dimension(staging) = [c \in Customers |-> Dimension(staging)[c]]
    BY DEF Dimension
<1> QED
    BY <1>1, <1>2, <1>3

\* A file that was committed before changes neither staging nor the marts.
THEOREM ReplayIsIdempotent == WarehouseSpec => ReplayChangesNothing
<1>1. ASSUME WarehouseInv, [WarehouseNext]_warehouseVars,
             NEW i \in DOMAIN runs, runs[i].status = "succeeded",
             runs' # runs, runs'[Len(runs')].file = runs[i].file
      PROVE  UNCHANGED <<staging, dim, facts>>
    <2>0. runs \in Seq(RunRow)
        BY <1>1 DEF WarehouseInv, WarehouseTypeOK
    <2>1. ASSUME NEW file \in Files, LoadFile(file)
          PROVE  UNCHANGED <<staging, dim, facts>>
        <3>1. runs'[Len(runs')].file = file
            BY <2>0, <2>1 DEF LoadFile, StoreRun
        <3>2. staging \in Table /\ Accepted(file) \in Table
            BY <1>1, AcceptedType DEF WarehouseInv, WarehouseTypeOK, Table
        <3>3. \A o \in Filled(Accepted(file)) :
                  o \in Filled(staging) /\ Accepted(file)[o].ver <= staging[o].ver
            BY <1>1, <3>1 DEF WarehouseInv, StagingAbsorbs
        <3>4. \A o \in Filled(Accepted(file)) :
                  ~(staging[o] = None \/ Accepted(file)[o].ver > staging[o].ver)
            <4> SUFFICES ASSUME NEW o \in Filled(Accepted(file))
                         PROVE  /\ staging[o] # None
                                /\ ~(Accepted(file)[o].ver > staging[o].ver)
                OBVIOUS
            <4>1. o \in Filled(staging) /\ Accepted(file)[o].ver <= staging[o].ver
                BY <3>3
            <4>2. Accepted(file)[o].ver \in Nat /\ staging[o].ver \in Nat
                BY <3>2, <4>1, RowFields
            <4> QED BY <4>1, <4>2 DEF Filled
        <3>5. Staged(Accepted(file)) = staging
            BY <3>2, <3>4 DEF Staged, Table, Filled
        <3>6. staging' = staging /\ facts' = staging' /\ dim' = Dimension(staging')
            BY <1>1, <2>1, <3>5, LoadFileEffect
        <3> QED
            BY <1>1, <3>6, DimensionRests DEF WarehouseInv, FactsMirrorStaging
    <2>2. FailedRun => UNCHANGED <<staging, dim, facts>>
        BY <1>1, FailedRunStores DEF tables
    <2> QED
        BY <1>1, <2>1, <2>2 DEF WarehouseNext, FailedRun, warehouseVars
<1>2. WarehouseInv /\ [WarehouseNext]_warehouseVars =>
          [\A i \in DOMAIN runs :
              /\ runs[i].status = "succeeded"
              /\ runs' # runs
              /\ runs'[Len(runs')].file = runs[i].file
              => UNCHANGED <<staging, dim, facts>>]_warehouseVars
    BY <1>1
<1> QED
    BY <1>2, WarehouseInvariant, PTL DEF WarehouseSpec, ReplayChangesNothing
=============================================================================
