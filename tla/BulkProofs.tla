------------------------------ MODULE BulkProofs ------------------------------
(***************************************************************************)
(* Proofs about what Warehouse computes line by line: the loop of          *)
(* read_and_validate keeps the first line of the newest version, and       *)
(* incremental loading leaves what one load of all lines would leave, in   *)
(* whatever order the files arrive.                                        *)
(***************************************************************************)
EXTENDS WarehouseProofs, SequenceTheorems

(* Induction *)

\* A set of numbers that holds 0 and every successor is all of them.
LEMMA NatBySteps ==
    ASSUME NEW G \in SUBSET Nat, 0 \in G, \A n \in G : n + 1 \in G
    PROVE  G = Nat
<1> SUFFICES ASSUME NEW n \in Nat, n \notin G
             PROVE  FALSE
    OBVIOUS
<1> DEFINE B == {m \in 0 .. n : m \notin G}
<1>1. B \in SUBSET Nat /\ B # {}
    OBVIOUS
<1>2. IsFiniteSet(B)
    <2>1. IsFiniteSet(0 .. n) /\ B \in SUBSET (0 .. n)
        BY FS_Interval
    <2> HIDE DEF B
    <2> QED BY <2>1, FS_Subset
<1>3. PICK m \in B : \A k \in B : m <= k
    <2> HIDE DEF B
    <2> QED BY <1>1, <1>2, MinimumExists
<1>4. m - 1 \in G
    BY <1>3
<1> QED BY <1>3, <1>4

-----------------------------------------------------------------------------
(* The loop over the lines of a file *)

Empty == [o \in Orders |-> None]

\* g computes the loop over the first n lines of file, as FoldLeft does: on
\* every set of line numbers, from the greatest down.
IsLoop(g, file, n) ==
    g = [t \in SUBSET (1 .. n) |->
            IF t = {} THEN Empty
            ELSE KeepNewest(g[t \ {SX!Max(t)}], file[SX!Max(t)])]

LEMMA MaxOfSet ==
    ASSUME NEW n \in Nat, NEW t \in SUBSET (1 .. n), t # {}
    PROVE  SX!Max(t) \in t /\ \A u \in t : u <= SX!Max(t)
<1>1. IsFiniteSet(1 .. n) /\ t \in SUBSET Nat
    BY FS_Interval
<1>2. IsFiniteSet(t)
    BY <1>1, FS_Subset
<1>3. PICK m \in t : \A u \in t : u <= m
    BY <1>1, <1>2, MaximumExists
<1>4. \A u \in t : m >= u
    BY <1>1, <1>3
<1>5. /\ SX!Max(t) \in t
      /\ \A u \in t : SX!Max(t) >= u
    BY <1>3, <1>4 DEF SX!Max
<1> QED BY <1>1, <1>5

LEMMA MaxOfInterval ==
    ASSUME NEW n \in Nat
    PROVE  SX!Max(1 .. n + 1) = n + 1 /\ (1 .. n + 1) \ {n + 1} = 1 .. n
<1>1. n + 1 \in Nat /\ n + 1 \in 1 .. n + 1
    OBVIOUS
<1>2. 1 .. n + 1 \in SUBSET (1 .. n + 1) /\ 1 .. n + 1 # {}
    BY <1>1
<1>3. /\ SX!Max(1 .. n + 1) \in 1 .. n + 1
      /\ n + 1 <= SX!Max(1 .. n + 1)
    BY <1>1, <1>2, MaxOfSet
<1> QED BY <1>3

LEMMA LoopExists ==
    ASSUME NEW file, NEW n \in Nat
    PROVE  \E g : IsLoop(g, file, n)
<1> DEFINE G == {m \in Nat : \E g : IsLoop(g, file, m)}
<1>1. 0 \in G
    <2>1. IsLoop([t \in {{}} |-> Empty], file, 0)
        BY DEF IsLoop
    <2> QED BY <2>1
<1>2. ASSUME NEW m \in G
      PROVE  m + 1 \in G
    <2>1. PICK g : IsLoop(g, file, m)
        OBVIOUS
    <2> DEFINE h == [t \in SUBSET (1 .. m + 1) |->
                        IF t = {} THEN Empty
                        ELSE KeepNewest(g[t \ {SX!Max(t)}], file[SX!Max(t)])]
    <2>2. ASSUME NEW t \in SUBSET (1 .. m + 1), t # {}
          PROVE  /\ t \ {SX!Max(t)} \in SUBSET (1 .. m)
                 /\ t \ {SX!Max(t)} \in SUBSET (1 .. m + 1)
        <3> HIDE DEF h
        <3>1. m \in Nat /\ m + 1 \in Nat
            OBVIOUS
        <3>2. PICK x \in t : x = SX!Max(t) /\ \A u \in t : u <= x
            BY <2>2, <3>1, MaxOfSet
        <3>3. ASSUME NEW u \in t, u # x
              PROVE  u \in 1 .. m
            <4>1. u \in 1 .. m + 1 /\ x \in 1 .. m + 1 /\ u <= x
                BY <3>2
            <4> HIDE DEF G
            <4> QED BY <3>1, <3>3, <4>1
        <3> QED BY <3>2, <3>3
    <2>3. ASSUME NEW t \in SUBSET (1 .. m)
          PROVE  h[t] = g[t]
        <3>1. g[t] = IF t = {} THEN Empty
                     ELSE KeepNewest(g[t \ {SX!Max(t)}], file[SX!Max(t)])
            BY <2>1 DEF IsLoop
        <3>2. t \in SUBSET (1 .. m + 1)
            OBVIOUS
        <3> QED BY <3>1, <3>2
    <2>4. h = [t \in SUBSET (1 .. m + 1) |->
                    IF t = {} THEN Empty
                    ELSE KeepNewest(h[t \ {SX!Max(t)}], file[SX!Max(t)])]
        <3>1. ASSUME NEW t \in SUBSET (1 .. m + 1)
              PROVE  h[t] = IF t = {} THEN Empty
                            ELSE KeepNewest(h[t \ {SX!Max(t)}], file[SX!Max(t)])
            <4>1. t # {} => h[t \ {SX!Max(t)}] = g[t \ {SX!Max(t)}]
                BY <2>2, <2>3
            <4> QED BY <4>1
        <3> HIDE DEF h
        <3>2. h = [t \in SUBSET (1 .. m + 1) |-> h[t]]
            BY DEF h
        <3> QED BY <3>1, <3>2
    <2> HIDE DEF h
    <2>5. IsLoop(h, file, m + 1)
        BY <2>4 DEF IsLoop
    <2> QED BY <2>5
<1>3. G = Nat
    <2> HIDE DEF G
    <2> QED BY <1>1, <1>2, NatBySteps DEF G
<1> QED BY <1>3

LEMMA LoopIsLoop ==
    ASSUME NEW file \in Seq(Rows)
    PROVE  \E g : IsLoop(g, file, Len(file)) /\ AcceptedByLoop(file) = g[1 .. Len(file)]
<1> DEFINE g == CHOOSE h : IsLoop(h, file, Len(file))
<1>1. DOMAIN file = 1 .. Len(file) /\ Len(file) \in Nat
    OBVIOUS
<1>2. AcceptedByLoop(file) = g[1 .. Len(file)]
    BY <1>1 DEF AcceptedByLoop, SX!FoldLeft, SX!MapThenFoldSet, IsLoop, Empty
<1>3. IsLoop(g, file, Len(file))
    BY <1>1, LoopExists
<1> QED BY <1>2, <1>3

\* One turn of the loop.
LEMMA LoopTurns ==
    /\ AcceptedByLoop(<<>>) = Empty
    /\ \A file \in Seq(Rows), row \in Rows :
           AcceptedByLoop(Append(file, row)) = KeepNewest(AcceptedByLoop(file), row)
<1>1. AcceptedByLoop(<<>>) = Empty
    <2>1. <<>> \in Seq(Rows)
        OBVIOUS
    <2>2. 1 .. Len(<<>>) = {}
        OBVIOUS
    <2>3. PICK g : IsLoop(g, <<>>, Len(<<>>)) /\ AcceptedByLoop(<<>>) = g[1 .. Len(<<>>)]
        BY <2>1, LoopIsLoop
    <2>4. g[{}] = Empty
        BY <2>3 DEF IsLoop
    <2> QED BY <2>2, <2>3, <2>4
<1>2. ASSUME NEW file \in Seq(Rows), NEW row \in Rows
      PROVE  AcceptedByLoop(Append(file, row)) = KeepNewest(AcceptedByLoop(file), row)
    <2> DEFINE n == Len(file)
               longer == Append(file, row)
    <2>1. /\ n \in Nat /\ Len(longer) = n + 1
          /\ longer \in Seq(Rows)
          /\ longer[n + 1] = row
          /\ \A i \in 1 .. n : longer[i] = file[i]
        OBVIOUS
    <2>2. PICK g : IsLoop(g, file, n) /\ AcceptedByLoop(file) = g[1 .. n]
        BY LoopIsLoop
    <2>3. PICK h : IsLoop(h, longer, n + 1) /\ AcceptedByLoop(longer) = h[1 .. n + 1]
        BY <2>1, LoopIsLoop
    <2> HIDE DEF n, longer
    <2> DEFINE G == {m \in Nat : m <= n => h[1 .. m] = g[1 .. m]}
    <2>4. 0 \in G
        <3>1. g[{}] = Empty /\ h[{}] = Empty
            BY <2>2, <2>3 DEF IsLoop
        <3>2. 1 .. 0 = {}
            OBVIOUS
        <3> QED BY <3>1, <3>2
    <2>5. ASSUME NEW m \in G
          PROVE  m + 1 \in G
        <3> SUFFICES ASSUME m + 1 <= n
                     PROVE  h[1 .. m + 1] = g[1 .. m + 1]
            OBVIOUS
        <3>0. m \in Nat /\ n \in Nat
            BY <2>1
        <3>1. /\ 1 .. m + 1 \in SUBSET (1 .. n)
              /\ 1 .. m + 1 \in SUBSET (1 .. n + 1)
              /\ m + 1 \in 1 .. m + 1
            <4> HIDE DEF G
            <4> QED BY <3>0
        <3>2. SX!Max(1 .. m + 1) = m + 1 /\ (1 .. m + 1) \ {m + 1} = 1 .. m
            BY <3>0, MaxOfInterval
        <3>3. g[1 .. m + 1] = KeepNewest(g[1 .. m], file[m + 1])
            BY <2>2, <3>1, <3>2 DEF IsLoop
        <3>4. h[1 .. m + 1] = KeepNewest(h[1 .. m], longer[m + 1])
            BY <2>3, <3>1, <3>2 DEF IsLoop
        <3>5. h[1 .. m] = g[1 .. m] /\ longer[m + 1] = file[m + 1]
            BY <2>1
        <3> QED BY <3>3, <3>4, <3>5
    <2>6. n \in G
        <3>1. G = Nat
            <4> HIDE DEF G
            <4> QED BY <2>4, <2>5, NatBySteps DEF G
        <3> QED BY <2>1, <3>1
    <2>7. h[1 .. n + 1] = KeepNewest(h[1 .. n], longer[n + 1])
        <3>1. SX!Max(1 .. n + 1) = n + 1 /\ (1 .. n + 1) \ {n + 1} = 1 .. n
            BY <2>1, MaxOfInterval
        <3>2. 1 .. n + 1 # {}
            BY <2>1
        <3> QED BY <2>3, <3>1, <3>2 DEF IsLoop
    <2> QED BY <2>1, <2>2, <2>3, <2>6, <2>7 DEF longer
<1> QED BY <1>1, <1>2

-----------------------------------------------------------------------------
(* The loop keeps the first line of the newest version *)

Parses(row) == row.kind \in {"valid", "unstorable"}

LEMMA LineAppended ==
    ASSUME NEW file \in Seq(Rows), NEW row \in Rows
    PROVE  LET n == Len(file)
               longer == Append(file, row)
           IN  /\ n \in Nat
               /\ longer \in Seq(Rows)
               /\ longer[n + 1] = row
               /\ \A i \in Parsed(file) :
                      i \in 1 .. n /\ longer[i] = file[i] /\ file[i] \in Rows
               /\ Parsed(longer) = Parsed(file) \cup (IF Parses(row) THEN {n + 1} ELSE {})
<1> DEFINE n == Len(file)
           longer == Append(file, row)
<1>1. /\ n \in Nat /\ longer \in Seq(Rows) /\ Len(longer) = n + 1
      /\ longer[n + 1] = row
      /\ DOMAIN file = 1 .. n /\ DOMAIN longer = 1 .. n + 1
      /\ \A i \in 1 .. n : longer[i] = file[i] /\ file[i] \in Rows
    OBVIOUS
<1> HIDE DEF n, longer
<1>2. Parsed(longer) = Parsed(file) \cup (IF Parses(row) THEN {n + 1} ELSE {})
    BY <1>1 DEF Parsed, Lines, Parses
<1>3. \A i \in Parsed(file) : i \in 1 .. n
    BY <1>1 DEF Parsed, Lines
<1> QED BY <1>1, <1>2, <1>3 DEF n, longer

\* An order has no two winners, and Accepted has the row of the one it has.
LEMMA WinnerIsAccepted ==
    ASSUME NEW file, NEW o \in Orders, NEW w \in Winners(file, o),
           \A i \in Parsed(file) : i \in Nat /\ file[i].ver \in Nat
    PROVE  Winners(file, o) = {w} /\ Accepted(file)[o] = file[w]
<1>1. ASSUME NEW v \in Winners(file, o), v # w
      PROVE  FALSE
    <2>1. Beats(file, v, w) /\ Beats(file, w, v)
        BY <1>1 DEF Winners
    <2>2. /\ v \in Nat /\ w \in Nat
          /\ file[v].ver \in Nat /\ file[w].ver \in Nat
        BY <1>1 DEF Winners
    <2> QED BY <2>1, <2>2 DEF Beats
<1>2. Winners(file, o) = {w}
    BY <1>1
<1> QED BY <1>2 DEF Accepted

\* Every order with a line has a winner.
HasWinners(file) ==
    \A o \in Orders : \A i \in Parsed(file) :
        file[i].order = o => Winners(file, o) # {}

LEMMA WinnerMoves ==
    ASSUME NEW file \in Seq(Rows), NEW row \in Rows, HasWinners(file),
           NEW o \in Orders
    PROVE  LET longer == Append(file, row)
               n == Len(file) + 1
           IN  /\ ~(Parses(row) /\ row.order = o) =>
                      Winners(longer, o) = Winners(file, o)
               /\ Parses(row) /\ row.order = o =>
                      \/ Winners(file, o) = {} /\ n \in Winners(longer, o)
                      \/ \E w \in Winners(file, o) :
                             IF row.ver > file[w].ver THEN n \in Winners(longer, o)
                             ELSE w \in Winners(longer, o)
<1> DEFINE longer == Append(file, row)
           m == Len(file)
<1>1. /\ m \in Nat
      /\ longer[m + 1] = row
      /\ \A i \in Parsed(file) :
             i \in 1 .. m /\ longer[i] = file[i] /\ file[i] \in Rows
      /\ Parsed(longer) = Parsed(file) \cup (IF Parses(row) THEN {m + 1} ELSE {})
    BY LineAppended, Zenon
<1>2. row.ver \in Nat /\ \A i \in Parsed(file) : file[i].ver \in Nat
    BY <1>1, WarehouseAssumption DEF RowType
<1> HIDE DEF longer, m
<1>3. ASSUME ~(Parses(row) /\ row.order = o)
      PROVE  Winners(longer, o) = Winners(file, o)
    BY <1>1, <1>3 DEF Winners, Beats
<1>4. ASSUME Parses(row), row.order = o, Winners(file, o) = {}
      PROVE  m + 1 \in Winners(longer, o)
    <2>1. \A i \in Parsed(file) : longer[i].order # o
        BY <1>1, <1>4 DEF HasWinners
    <2> QED BY <1>1, <1>4, <2>1 DEF Winners
<1>5. ASSUME Parses(row), row.order = o, NEW w \in Winners(file, o)
      PROVE  IF row.ver > file[w].ver THEN m + 1 \in Winners(longer, o)
             ELSE w \in Winners(longer, o)
    <2>1. /\ w \in Parsed(file) /\ file[w].order = o
          /\ \A j \in Parsed(file) :
                 file[j].order = o /\ j # w => Beats(file, w, j)
        BY <1>5 DEF Winners
    <2>2. Parsed(longer) = Parsed(file) \cup {m + 1}
        BY <1>1, <1>5
    <2>3. CASE row.ver > file[w].ver
        <3>1. ASSUME NEW j \in Parsed(file), file[j].order = o
              PROVE  row.ver > file[j].ver
            <4>1. file[w].ver >= file[j].ver
                BY <1>2, <2>1, <3>1 DEF Beats
            <4> QED BY <1>2, <2>1, <2>3, <4>1
        <3>2. \A j \in Parsed(longer) :
                  longer[j].order = o /\ j # m + 1 => Beats(longer, m + 1, j)
            BY <1>1, <2>2, <3>1 DEF Beats
        <3> QED BY <1>1, <1>5, <2>2, <2>3, <3>2 DEF Winners
    <2>4. CASE ~(row.ver > file[w].ver)
        <3>1. Beats(longer, w, m + 1)
            BY <1>1, <1>2, <2>1, <2>4 DEF Beats
        <3>2. \A j \in Parsed(file) :
                  longer[j].order = o /\ j # w => Beats(longer, w, j)
            BY <1>1, <2>1 DEF Beats
        <3> QED BY <1>1, <2>1, <2>2, <2>4, <3>1, <3>2 DEF Winners
    <2> QED BY <2>3, <2>4
<1> QED BY <1>1, <1>3, <1>4, <1>5 DEF longer, m

LEMMA AcceptedTurns ==
    ASSUME NEW file \in Seq(Rows), NEW row \in Rows, HasWinners(file)
    PROVE  /\ HasWinners(Append(file, row))
           /\ Accepted(Append(file, row)) = KeepNewest(Accepted(file), row)
<1> DEFINE longer == Append(file, row)
           m == Len(file)
<1>1. /\ m \in Nat
      /\ longer \in Seq(Rows)
      /\ longer[m + 1] = row
      /\ \A i \in Parsed(file) :
             i \in 1 .. m /\ longer[i] = file[i] /\ file[i] \in Rows
      /\ Parsed(longer) = Parsed(file) \cup (IF Parses(row) THEN {m + 1} ELSE {})
    BY LineAppended, Zenon
<1>2. /\ row \in RowType
      /\ \A i \in Parsed(file) : i \in Nat /\ file[i].ver \in Nat /\ file[i] # None
      /\ \A i \in Parsed(longer) : i \in Nat /\ longer[i].ver \in Nat
    BY <1>1, WarehouseAssumption DEF RowType
<1>3. \A o \in Orders :
          /\ ~(Parses(row) /\ row.order = o) =>
                 Winners(longer, o) = Winners(file, o)
          /\ Parses(row) /\ row.order = o =>
                 \/ Winners(file, o) = {} /\ m + 1 \in Winners(longer, o)
                 \/ \E w \in Winners(file, o) :
                        IF row.ver > file[w].ver THEN m + 1 \in Winners(longer, o)
                        ELSE w \in Winners(longer, o)
    BY WinnerMoves
<1> HIDE DEF longer, m
<1>4. HasWinners(longer)
    BY <1>1, <1>3 DEF HasWinners
<1>5. ASSUME NEW o \in Orders
      PROVE  Accepted(longer)[o] =
                 IF Parses(row) /\ row.order = o
                    /\ (Accepted(file)[o] = None \/ row.ver > Accepted(file)[o].ver)
                 THEN row ELSE Accepted(file)[o]
    <2>1. CASE ~(Parses(row) /\ row.order = o)
        <3>1. CASE Winners(file, o) = {}
            BY <1>3, <2>1, <3>1 DEF Accepted
        <3>2. CASE Winners(file, o) # {}
            <4>1. PICK w : w \in Winners(file, o) /\ w \in Winners(longer, o)
                BY <1>3, <2>1, <3>2
            <4>2. Accepted(file)[o] = file[w] /\ Accepted(longer)[o] = longer[w]
                BY <1>2, <4>1, WinnerIsAccepted
            <4>3. w \in Parsed(file)
                BY <4>1 DEF Winners
            <4> QED BY <1>1, <2>1, <4>2, <4>3
        <3> QED BY <3>1, <3>2
    <2>2. CASE Parses(row) /\ row.order = o /\ Winners(file, o) = {}
        <3>1. Accepted(file)[o] = None
            BY <2>2 DEF Accepted
        <3>2. m + 1 \in Winners(longer, o)
            BY <1>3, <2>2
        <3>3. Accepted(longer)[o] = row
            BY <1>1, <1>2, <3>2, WinnerIsAccepted
        <3> QED BY <2>2, <3>1, <3>3
    <2>3. CASE Parses(row) /\ row.order = o /\ Winners(file, o) # {}
        <3>1. PICK w \in Winners(file, o) :
                  IF row.ver > file[w].ver THEN m + 1 \in Winners(longer, o)
                  ELSE w \in Winners(longer, o)
            BY <1>3, <2>3
        <3>2. Accepted(file)[o] = file[w]
            BY <1>2, WinnerIsAccepted
        <3>3. w \in Parsed(file) /\ file[w] # None /\ longer[w] = file[w]
            BY <1>1, <1>2, <3>1 DEF Winners
        <3>4. CASE row.ver > file[w].ver
            <4>1. Accepted(longer)[o] = row
                BY <1>1, <1>2, <3>1, <3>4, WinnerIsAccepted
            <4> QED BY <2>3, <3>2, <3>4, <4>1
        <3>5. CASE ~(row.ver > file[w].ver)
            <4>1. Accepted(longer)[o] = file[w]
                BY <1>2, <3>1, <3>3, <3>5, WinnerIsAccepted
            <4> QED BY <2>3, <3>2, <3>3, <3>5, <4>1
        <3> QED BY <3>4, <3>5
    <2> QED BY <2>1, <2>2, <2>3
<1>6. row.order \in Orders
    BY <1>2 DEF RowType
<1>7. Accepted(longer) = KeepNewest(Accepted(file), row)
    <2>1. /\ Accepted(longer) = [o \in Orders |-> Accepted(longer)[o]]
          /\ Accepted(file) = [o \in Orders |-> Accepted(file)[o]]
        BY DEF Accepted
    <2>2. CASE Parses(row) /\ (\/ Accepted(file)[row.order] = None
                               \/ row.ver > Accepted(file)[row.order].ver)
        <3>1. KeepNewest(Accepted(file), row) = [Accepted(file) EXCEPT ![row.order] = row]
            BY <2>2 DEF KeepNewest, Parses
        <3> QED BY <1>5, <1>6, <2>1, <2>2, <3>1
    <2>3. CASE ~(Parses(row) /\ (\/ Accepted(file)[row.order] = None
                                 \/ row.ver > Accepted(file)[row.order].ver))
        <3>1. KeepNewest(Accepted(file), row) = Accepted(file)
            BY <2>3 DEF KeepNewest, Parses
        <3> QED BY <1>5, <2>1, <2>3, <3>1
    <2> QED BY <2>2, <2>3
<1> QED BY <1>4, <1>7 DEF longer

\* Whatever the file, the loop accepts its winners.
LEMMA LoopAcceptsWinners ==
    ASSUME NEW file \in Seq(Rows)
    PROVE  HasWinners(file) /\ AcceptedByLoop(file) = Accepted(file)
<1> DEFINE G == {n \in Nat : \A f \in Seq(Rows) : Len(f) = n =>
                     HasWinners(f) /\ AcceptedByLoop(f) = Accepted(f)}
<1>1. 0 \in G
    <2> SUFFICES ASSUME NEW f \in Seq(Rows), Len(f) = 0
                 PROVE  HasWinners(f) /\ AcceptedByLoop(f) = Accepted(f)
        OBVIOUS
    <2>1. f = <<>> /\ DOMAIN f = {}
        OBVIOUS
    <2>2. Parsed(f) = {}
        BY <2>1 DEF Parsed, Lines
    <2>3. Accepted(f) = Empty
        BY <2>2 DEF Accepted, Winners, Empty
    <2> QED BY <2>1, <2>2, <2>3, LoopTurns DEF HasWinners
<1>2. ASSUME NEW n \in G
      PROVE  n + 1 \in G
    <2> SUFFICES ASSUME NEW f \in Seq(Rows), Len(f) = n + 1
                 PROVE  HasWinners(f) /\ AcceptedByLoop(f) = Accepted(f)
        OBVIOUS
    <2>0. f # <<>> /\ n \in Nat
        OBVIOUS
    <2>1. PICK p \in Seq(Rows), row \in Rows : f = Append(p, row)
        BY <2>0, SequenceEmptyOrAppend
    <2>2. Len(p) = n
        BY <2>0, <2>1
    <2>3. HasWinners(p) /\ AcceptedByLoop(p) = Accepted(p)
        BY <2>2
    <2> QED BY <2>1, <2>3, AcceptedTurns, LoopTurns
<1>3. G = Nat
    <2> HIDE DEF G
    <2> QED BY <1>1, <1>2, NatBySteps DEF G
<1> QED BY <1>3

-----------------------------------------------------------------------------
(* Loading one file after another is loading all lines at once *)

\* b's row where it is newer or a has none: load_staging of b into a.
Merge(a, b) ==
    [o \in Orders |->
        IF b[o] # None /\ (a[o] = None \/ b[o].ver > a[o].ver) THEN b[o] ELSE a[o]]

LEMMA KeepNewestType ==
    ASSUME NEW kept \in Table, NEW row \in Rows
    PROVE  KeepNewest(kept, row) \in Table
<1>1. row.order \in Orders
    BY WarehouseAssumption DEF RowType
<1> QED BY <1>1 DEF Table, KeepNewest

\* A row kept after a merge is a row merged after it was kept.
LEMMA MergeKeeps ==
    ASSUME NEW a \in Table, NEW b \in Table, NEW row \in Rows
    PROVE  Merge(a, KeepNewest(b, row)) = KeepNewest(Merge(a, b), row)
<1>1. row.order \in Orders /\ row.ver \in Nat /\ row # None
    BY WarehouseAssumption DEF RowType
<1>2. \A o \in Orders : /\ a[o] # None => a[o].ver \in Nat
                        /\ b[o] # None => b[o].ver \in Nat
    BY RowFields DEF Filled, Table
<1>3. Merge(a, b) \in Table
    BY DEF Merge, Table
<1>4. CASE ~Parses(row)
    BY <1>4 DEF KeepNewest, Parses
<1>5. CASE Parses(row)
    <2> DEFINE o == row.order
               kept == KeepNewest(b, row)
               merged == Merge(a, b)
    <2>1. \A p \in Orders \ {o} : kept[p] = b[p] /\ KeepNewest(merged, row)[p] = merged[p]
        BY <1>3 DEF KeepNewest, Table
    <2>2. /\ kept[o] = IF b[o] = None \/ row.ver > b[o].ver THEN row ELSE b[o]
          /\ KeepNewest(merged, row)[o] =
                 IF merged[o] = None \/ row.ver > merged[o].ver THEN row ELSE merged[o]
        BY <1>1, <1>3, <1>5 DEF KeepNewest, Table, Parses
    <2>3. kept \in Table /\ KeepNewest(merged, row) \in Table
        BY <1>3, KeepNewestType
    <2>4. /\ merged[o] = IF b[o] # None /\ (a[o] = None \/ b[o].ver > a[o].ver)
                         THEN b[o] ELSE a[o]
          /\ Merge(a, kept)[o] =
                 IF kept[o] # None /\ (a[o] = None \/ kept[o].ver > a[o].ver)
                 THEN kept[o] ELSE a[o]
        BY <1>1 DEF Merge
    <2>5. \A p \in Orders \ {o} : Merge(a, kept)[p] = merged[p]
        BY <2>1 DEF Merge
    <2>6. o \in Orders
        BY <1>1
    <2> HIDE DEF kept, merged
    <2>7. Merge(a, kept)[o] = KeepNewest(merged, row)[o]
        BY <1>1, <1>2, <2>2, <2>4
    <2>8. Merge(a, kept) = [p \in Orders |-> KeepNewest(merged, row)[p]]
        BY <2>1, <2>5, <2>7 DEF Merge
    <2> QED BY <2>3, <2>8 DEF Table, kept, merged
<1> QED BY <1>4, <1>5

LEMMA LoopOfConcat ==
    ASSUME NEW file \in Seq(Rows), NEW first \in Seq(Rows)
    PROVE  /\ AcceptedByLoop(file) \in Table
           /\ AcceptedByLoop(first \o file) =
                  Merge(AcceptedByLoop(first), AcceptedByLoop(file))
<1> DEFINE G == {n \in Nat : \A f \in Seq(Rows) : Len(f) = n =>
                     /\ AcceptedByLoop(f) \in Table
                     /\ AcceptedByLoop(first) \in Table =>
                            AcceptedByLoop(first \o f) =
                                Merge(AcceptedByLoop(first), AcceptedByLoop(f))}
<1>1. 0 \in G
    <2> SUFFICES ASSUME NEW f \in Seq(Rows), Len(f) = 0
                 PROVE  /\ AcceptedByLoop(f) \in Table
                        /\ AcceptedByLoop(first) \in Table =>
                               AcceptedByLoop(first \o f) =
                                   Merge(AcceptedByLoop(first), AcceptedByLoop(f))
        OBVIOUS
    <2>1. f = <<>> /\ first \o f = first
        OBVIOUS
    <2>2. AcceptedByLoop(f) = Empty
        BY <2>1, LoopTurns
    <2>3. Empty \in Table /\ \A a \in Table : Merge(a, Empty) = a
        BY DEF Empty, Table, Merge
    <2> QED BY <2>1, <2>2, <2>3
<1>2. ASSUME NEW n \in G
      PROVE  n + 1 \in G
    <2> SUFFICES ASSUME NEW f \in Seq(Rows), Len(f) = n + 1
                 PROVE  /\ AcceptedByLoop(f) \in Table
                        /\ AcceptedByLoop(first) \in Table =>
                               AcceptedByLoop(first \o f) =
                                   Merge(AcceptedByLoop(first), AcceptedByLoop(f))
        OBVIOUS
    <2>1. f # <<>> /\ n \in Nat
        OBVIOUS
    <2>2. PICK p \in Seq(Rows), row \in Rows : f = Append(p, row)
        BY <2>1, SequenceEmptyOrAppend
    <2>3. Len(p) = n
        BY <2>1, <2>2
    <2>4. /\ AcceptedByLoop(p) \in Table
          /\ AcceptedByLoop(first) \in Table =>
                 AcceptedByLoop(first \o p) =
                     Merge(AcceptedByLoop(first), AcceptedByLoop(p))
        BY <2>3
    <2>5. first \o f = Append(first \o p, row) /\ first \o p \in Seq(Rows)
        BY <2>2
    <2>6. /\ AcceptedByLoop(f) = KeepNewest(AcceptedByLoop(p), row)
          /\ AcceptedByLoop(first \o f) = KeepNewest(AcceptedByLoop(first \o p), row)
        BY <2>2, <2>5, LoopTurns
    <2> HIDE DEF G
    <2> QED BY <2>4, <2>6, KeepNewestType, MergeKeeps
<1>3. G = Nat
    <2> HIDE DEF G
    <2> QED BY <1>1, <1>2, NatBySteps DEF G
<1> QED BY <1>3

\* g flattens the first n of seqs, as FlattenSeq does.
IsFlat(g, seqs, n) ==
    g = [i \in 1 .. n |-> IF i = 1 THEN seqs[i] ELSE g[i - 1] \o seqs[i]]

LEMMA FlatExists ==
    ASSUME NEW seqs, NEW n \in Nat
    PROVE  \E g : IsFlat(g, seqs, n)
<1> DEFINE G == {m \in Nat : \E g : IsFlat(g, seqs, m)}
<1>1. 0 \in G
    <2>1. IsFlat([i \in 1 .. 0 |-> 0], seqs, 0)
        BY DEF IsFlat
    <2> QED BY <2>1
<1>2. ASSUME NEW m \in G
      PROVE  m + 1 \in G
    <2>1. PICK g : IsFlat(g, seqs, m)
        OBVIOUS
    <2>2. m \in Nat
        OBVIOUS
    <2> DEFINE h == [i \in 1 .. m + 1 |-> IF i = 1 THEN seqs[i] ELSE g[i - 1] \o seqs[i]]
    <2> HIDE DEF G
    <2>3. ASSUME NEW i \in 1 .. m
          PROVE  h[i] = g[i]
        <3>1. i \in 1 .. m + 1
            BY <2>2
        <3>2. g[i] = IF i = 1 THEN seqs[i] ELSE g[i - 1] \o seqs[i]
            BY <2>1 DEF IsFlat
        <3> QED BY <3>1, <3>2
    <2>4. \A i \in 1 .. m + 1 : h[i] = IF i = 1 THEN seqs[i] ELSE h[i - 1] \o seqs[i]
        <3>1. \A i \in 1 .. m + 1 : i # 1 => i - 1 \in 1 .. m
            BY <2>2
        <3> QED BY <2>3, <3>1
    <2>5. h = [i \in 1 .. m + 1 |-> h[i]]
        OBVIOUS
    <2> HIDE DEF h
    <2>6. IsFlat(h, seqs, m + 1)
        BY <2>4, <2>5 DEF IsFlat
    <2> QED BY <2>2, <2>6 DEF G
<1>3. G = Nat
    <2> HIDE DEF G
    <2> QED BY <1>1, <1>2, NatBySteps DEF G
<1> QED BY <1>3

LEMMA FlattenIsFlat ==
    ASSUME NEW seqs \in Seq(Seq(Rows)), Len(seqs) # 0
    PROVE  \E g : IsFlat(g, seqs, Len(seqs)) /\ SX!FlattenSeq(seqs) = g[Len(seqs)]
<1> DEFINE g == CHOOSE h : IsFlat(h, seqs, Len(seqs))
<1>1. SX!FlattenSeq(seqs) = g[Len(seqs)]
    BY DEF SX!FlattenSeq, IsFlat
<1>2. IsFlat(g, seqs, Len(seqs))
    <2>1. Len(seqs) \in Nat
        OBVIOUS
    <2> QED BY <2>1, FlatExists
<1> QED BY <1>1, <1>2

LEMMA FlattenStep ==
    ASSUME NEW seqs \in Seq(Seq(Rows)), NEW g, IsFlat(g, seqs, Len(seqs)),
           NEW n \in 1 .. Len(seqs)
    PROVE  g[n] = IF n = 1 THEN seqs[n] ELSE g[n - 1] \o seqs[n]
BY DEF IsFlat

LEMMA FlattenType ==
    ASSUME NEW seqs \in Seq(Seq(Rows))
    PROVE  SX!FlattenSeq(seqs) \in Seq(Rows)
<1>1. CASE Len(seqs) = 0
    BY <1>1 DEF SX!FlattenSeq
<1>2. CASE Len(seqs) # 0
    <2>1. PICK g : IsFlat(g, seqs, Len(seqs)) /\ SX!FlattenSeq(seqs) = g[Len(seqs)]
        BY <1>2, FlattenIsFlat
    <2> DEFINE G == {m \in Nat : m \in 1 .. Len(seqs) => g[m] \in Seq(Rows)}
    <2>2. 0 \in G
        OBVIOUS
    <2>3. ASSUME NEW m \in G
          PROVE  m + 1 \in G
        <3> SUFFICES ASSUME m + 1 \in 1 .. Len(seqs)
                     PROVE  g[m + 1] \in Seq(Rows)
            OBVIOUS
        <3>1. m \in Nat /\ (m # 0 => g[m] \in Seq(Rows)) /\ seqs[m + 1] \in Seq(Rows)
            OBVIOUS
        <3>2. g[m + 1] = IF m + 1 = 1 THEN seqs[m + 1] ELSE g[(m + 1) - 1] \o seqs[m + 1]
            BY <2>1, FlattenStep
        <3>3. (m + 1) - 1 = m
            BY <3>1
        <3> HIDE DEF G
        <3> QED BY <3>1, <3>2, <3>3
    <2>4. G = Nat
        <3> HIDE DEF G
        <3> QED BY <2>2, <2>3, NatBySteps DEF G
    <2>5. Len(seqs) \in Nat /\ Len(seqs) \in 1 .. Len(seqs)
        BY <1>2
    <2> QED BY <2>1, <2>4, <2>5
<1> QED BY <1>1, <1>2

LEMMA FlattenAppends ==
    ASSUME NEW seqs \in Seq(Seq(Rows)), NEW file \in Seq(Rows)
    PROVE  SX!FlattenSeq(Append(seqs, file)) = SX!FlattenSeq(seqs) \o file
<1> DEFINE n == Len(seqs)
           longer == Append(seqs, file)
<1>1. /\ n \in Nat /\ Len(longer) = n + 1
      /\ longer \in Seq(Seq(Rows))
      /\ longer[n + 1] = file
      /\ \A i \in 1 .. n : longer[i] = seqs[i]
      /\ n = Len(seqs)
    OBVIOUS
<1> HIDE DEF n, longer
<1>2. PICK h : IsFlat(h, longer, n + 1) /\ SX!FlattenSeq(longer) = h[n + 1]
    <2>1. Len(longer) # 0
        BY <1>1
    <2>2. \E h : IsFlat(h, longer, Len(longer)) /\ SX!FlattenSeq(longer) = h[Len(longer)]
        BY <1>1, <2>1, FlattenIsFlat
    <2>3. Len(longer) = n + 1
        BY <1>1
    <2> QED BY <2>2, <2>3
<1>3. ASSUME NEW i \in 1 .. n + 1
      PROVE  h[i] = IF i = 1 THEN longer[i] ELSE h[i - 1] \o longer[i]
    BY <1>1, <1>2, FlattenStep
<1>4. n + 1 \in 1 .. n + 1 /\ (n + 1) - 1 = n
    BY <1>1
<1>5. CASE n = 0
    <2>1. SX!FlattenSeq(longer) = file
        BY <1>1, <1>2, <1>3, <1>4, <1>5
    <2>2. SX!FlattenSeq(seqs) = <<>>
        <3>1. seqs = <<>> /\ Len(<<>>) = 0
            BY <1>1, <1>5, EmptySeq
        <3> QED BY <3>1 DEF SX!FlattenSeq
    <2> QED BY <2>1, <2>2 DEF longer
<1>6. CASE n # 0
    <2>1. PICK g : IsFlat(g, seqs, n) /\ SX!FlattenSeq(seqs) = g[n]
        BY <1>1, <1>6, FlattenIsFlat
    <2>2. ASSUME NEW i \in 1 .. n
          PROVE  g[i] = IF i = 1 THEN seqs[i] ELSE g[i - 1] \o seqs[i]
        BY <1>1, <2>1, FlattenStep
    <2> DEFINE G == {m \in Nat : m \in 1 .. n => h[m] = g[m]}
    <2>3. 0 \in G
        OBVIOUS
    <2>4. ASSUME NEW m \in G
          PROVE  m + 1 \in G
        <3> SUFFICES ASSUME m + 1 \in 1 .. n
                     PROVE  h[m + 1] = g[m + 1]
            OBVIOUS
        <3>1. m \in Nat /\ (m # 0 => h[m] = g[m])
            BY <1>1
        <3> HIDE DEF G
        <3>2. m + 1 \in 1 .. n + 1 /\ (m + 1) - 1 = m /\ (m + 1 = 1 => m = 0)
            BY <1>1, <3>1
        <3>3. /\ h[m + 1] = IF m + 1 = 1 THEN longer[m + 1] ELSE h[(m + 1) - 1] \o longer[m + 1]
              /\ g[m + 1] = IF m + 1 = 1 THEN seqs[m + 1] ELSE g[(m + 1) - 1] \o seqs[m + 1]
            BY <1>3, <2>2, <3>2
        <3>4. m = 0 => m + 1 = 1
            OBVIOUS
        <3> QED BY <1>1, <3>1, <3>2, <3>3, <3>4
    <2>5. G = Nat
        <3> HIDE DEF G
        <3> QED BY <2>3, <2>4, NatBySteps DEF G
    <2>6. h[n] = g[n]
        <3>1. n \in 1 .. n /\ n \in Nat
            BY <1>1, <1>6
        <3>2. n \in G
            <4> HIDE DEF G
            <4> QED BY <2>5, <3>1
        <3> QED BY <3>1, <3>2
    <2>7. h[n + 1] = h[n] \o longer[n + 1]
        <3>1. n + 1 # 1
            BY <1>1, <1>6
        <3> QED BY <1>3, <1>4, <3>1
    <2> QED BY <1>1, <1>2, <2>1, <2>6, <2>7 DEF longer
<1> QED BY <1>5, <1>6

-----------------------------------------------------------------------------
(* The theorems *)

LEMMA AppendAsFunction ==
    ASSUME NEW S, NEW seq \in Seq(S), NEW e \in S, NEW n \in Nat, Len(seq) = n - 1
    PROVE  Append(seq, e) = [i \in 1 .. n |-> IF i = n THEN e ELSE seq[i]]
<1>1. /\ DOMAIN Append(seq, e) = 1 .. n
      /\ \A i \in 1 .. n : Append(seq, e)[i] = IF i = n THEN e ELSE seq[i]
    OBVIOUS
<1> DEFINE f == [i \in 1 .. n |-> IF i = n THEN e ELSE seq[i]]
<1>2. f \in Seq(S) /\ Len(f) = n /\ \A i \in 1 .. n : f[i] = IF i = n THEN e ELSE seq[i]
    <2>1. \A i \in 1 .. n : f[i] \in S
        OBVIOUS
    <2> QED BY <2>1
<1>3. Append(seq, e) \in Seq(S) /\ Len(Append(seq, e)) = n
    OBVIOUS
<1> HIDE DEF f
<1>4. Append(seq, e) = f
    BY <1>1, <1>2, <1>3, SeqEqual
<1> QED BY <1>4 DEF f

LEMMA CommittedType ==
    ASSUME WarehouseInv
    PROVE  Committed \in Seq(Seq(Rows))
<1>1. runs \in Seq(RunRow)
    BY DEF WarehouseInv, WarehouseTypeOK
<1>2. \A i \in DOMAIN runs : runs[i].file \in Seq(Rows)
    <2>1. \A i \in DOMAIN runs : runs[i] \in RunRow
        BY <1>1
    <2> QED BY <2>1, FileIsSequence DEF RunRow
<1>3. <<>> \in Seq(Rows)
    OBVIOUS
<1>4. \A i \in DOMAIN runs : Committed[i] \in Seq(Rows)
    BY <1>2, <1>3 DEF Committed
<1>5. DOMAIN Committed = 1 .. Len(runs) /\ Len(runs) \in Nat
    BY <1>1 DEF Committed
<1>6. Committed = [i \in 1 .. Len(runs) |-> Committed[i]]
    BY <1>1 DEF Committed
<1>7. PICK T : T = Seq(Rows)
    OBVIOUS
<1>8. \A i \in 1 .. Len(runs) : Committed[i] \in T
    BY <1>4, <1>5, <1>7 DEF Committed
<1> QED BY <1>5, <1>6, <1>7, <1>8

\* The file a step adds to those committed.
LEMMA CommittedAppends ==
    ASSUME WarehouseInv, NEW file \in Files, NEW status \in {"succeeded", "failed"},
           NEW error \in Errors, NEW counts \in CountsRow,
           StoreRun(file, status, error, counts)
    PROVE  Committed' = Append(Committed, IF status = "succeeded" THEN file ELSE <<>>)
<1>1. runs \in Seq(RunRow)
    BY DEF WarehouseInv, WarehouseTypeOK
<1>2. PICK n \in Nat : n = Len(runs) + 1
    BY <1>1
<1>3. /\ n \notin DOMAIN runs /\ DOMAIN runs' = DOMAIN runs \cup {n}
      /\ \A i \in DOMAIN runs : runs'[i] = runs[i]
      /\ runs'[n].file = file /\ runs'[n].status = status
    <2>1. PICK row \in RunRow :
              runs' = Append(runs, row) /\ row.file = file /\ row.status = status
        BY DEF StoreRun, RunRow, CountsRow
    <2> QED BY <1>1, <1>2, <2>1
<1> DEFINE added == IF status = "succeeded" THEN file ELSE <<>>
<1>4. /\ \A i \in DOMAIN runs : Committed'[i] = Committed[i]
      /\ Committed'[n] = added
      /\ DOMAIN Committed = DOMAIN runs /\ DOMAIN Committed' = DOMAIN runs \cup {n}
    BY <1>3 DEF Committed
<1>5. Committed \in Seq(Seq(Rows)) /\ Len(Committed) = n - 1
    BY <1>1, <1>2, CommittedType DEF Committed
<1>6. DOMAIN Committed = 1 .. n - 1 /\ DOMAIN runs \cup {n} = 1 .. n
    BY <1>1, <1>2, <1>4
<1>7. Committed' = [i \in 1 .. n |-> IF i = n THEN added ELSE Committed[i]]
    <2>1. Committed' = [i \in DOMAIN Committed' |-> Committed'[i]]
        BY DEF Committed
    <2>2. \A i \in 1 .. n : i # n => i \in DOMAIN runs
        BY <1>3, <1>6
    <2> HIDE DEF added
    <2> QED BY <1>4, <1>6, <2>1, <2>2
<1> HIDE DEF added
<1>8. Append(Committed, added) = [i \in 1 .. n |-> IF i = n THEN added ELSE Committed[i]]
    <2>1. added \in Seq(Rows)
        BY FileIsSequence DEF added
    <2> QED BY <1>2, <1>5, <2>1, AppendAsFunction
<1> QED BY <1>7, <1>8 DEF added

BulkInv == WarehouseInv /\ IncrementalEqualsBulk

LEMMA BulkInvInit == WarehouseInit => BulkInv
<1> SUFFICES ASSUME WarehouseInit
             PROVE  IncrementalEqualsBulk
    BY WarehouseInvInit DEF BulkInv
<1>1. Committed = <<>>
    BY DEF WarehouseInit, Committed
<1>2. SX!FlattenSeq(<<>>) = <<>>
    BY DEF SX!FlattenSeq
<1> QED BY <1>1, <1>2, LoopTurns DEF WarehouseInit, IncrementalEqualsBulk, Empty

LEMMA BulkInvStep == BulkInv /\ [WarehouseNext]_warehouseVars => BulkInv'
<1> SUFFICES ASSUME BulkInv, [WarehouseNext]_warehouseVars
             PROVE  IncrementalEqualsBulk'
    BY WarehouseInvStep DEF BulkInv
<1> DEFINE lines == SX!FlattenSeq(Committed)
<1>1. /\ WarehouseInv /\ staging = AcceptedByLoop(lines)
      /\ Committed \in Seq(Seq(Rows)) /\ lines \in Seq(Rows)
    BY CommittedType, FlattenType DEF BulkInv, IncrementalEqualsBulk
<1>2. ASSUME NEW file \in Files, LoadFile(file)
      PROVE  IncrementalEqualsBulk'
    <2>1. file \in Seq(Rows)
        BY FileIsSequence
    <2>2. StoreRun(file, "succeeded", "none", Counts(file)) /\ staging' = Staged(Accepted(file))
        BY <1>1, <1>2, LoadFileEffect
    <2>3. Committed' = Append(Committed, file)
        BY <1>1, <2>2, CommittedAppends, CountsAreNumbers DEF Errors
    <2>4. SX!FlattenSeq(Committed') = lines \o file
        BY <1>1, <2>1, <2>3, FlattenAppends
    <2>5. staging' = Merge(staging, Accepted(file))
        BY <2>2 DEF Staged, Merge
    <2>6. Accepted(file) = AcceptedByLoop(file)
        BY <2>1, LoopAcceptsWinners
    <2>7. AcceptedByLoop(lines \o file) = Merge(AcceptedByLoop(lines), AcceptedByLoop(file))
        BY <1>1, <2>1, LoopOfConcat
    <2> QED BY <1>1, <2>4, <2>5, <2>6, <2>7 DEF IncrementalEqualsBulk
<1>3. ASSUME FailedRun
      PROVE  IncrementalEqualsBulk'
    <2>1. UNCHANGED tables
          /\ \E file \in Files, error \in Errors \ {"check"}, counts \in CountsRow :
                 StoreRun(file, "failed", error, counts)
        BY <1>1, <1>3, FailedRunStores
    <2>2. Committed' = Append(Committed, <<>>)
        BY <1>1, <2>1, CommittedAppends
    <2>3. <<>> \in Seq(Rows) /\ lines \o <<>> = lines
        BY <1>1
    <2>4. SX!FlattenSeq(Committed') = lines
        BY <1>1, <2>2, <2>3, FlattenAppends
    <2> QED BY <1>1, <2>1, <2>4 DEF IncrementalEqualsBulk, tables
<1>4. CASE UNCHANGED warehouseVars
    <2>1. Committed' = Committed
        BY <1>4 DEF Committed, warehouseVars
    <2> QED BY <1>1, <1>4, <2>1 DEF IncrementalEqualsBulk, warehouseVars
<1> QED BY <1>2, <1>3, <1>4 DEF WarehouseNext, FailedRun

\* Whatever files are loaded, in whatever order and however often, staging
\* holds what one load of all committed lines would have left.
THEOREM IncrementalIsBulk == WarehouseSpec => []IncrementalEqualsBulk
<1>1. BulkInv => IncrementalEqualsBulk
    BY DEF BulkInv
<1> QED BY <1>1, BulkInvInit, BulkInvStep, PTL DEF WarehouseSpec

\* Of every file that was ever read, the loop of read_and_validate has kept
\* of each order the first line of its newest version.
THEOREM LoopKeepsTheFirstNewest == WarehouseSpec => []LoopKeepsFirstNewest
<1>1. WarehouseInv => LoopKeepsFirstNewest
    <2> SUFFICES ASSUME WarehouseInv, NEW i \in DOMAIN runs
                 PROVE  AcceptedByLoop(runs[i].file) = Accepted(runs[i].file)
        BY DEF LoopKeepsFirstNewest
    <2>1. runs[i] \in RunRow
        BY DEF WarehouseInv, WarehouseTypeOK
    <2>2. runs[i].file \in Files
        BY <2>1 DEF RunRow
    <2>3. runs[i].file \in Seq(Rows)
        BY <2>2, FileIsSequence
    <2> QED BY <2>3, LoopAcceptsWinners
<1> QED BY <1>1, WarehouseInvariant, PTL

-----------------------------------------------------------------------------
(* The order in which files come *)

\* The lines of an order in one file, and in all that were committed: a set,
\* which does not know in what order they came.
LinesOf(file, o) ==
    {line \in Rows : line.order = o /\ \E k \in Parsed(file) : file[k] = line}

CommittedLines(o) == UNION {LinesOf(Committed[i], o) : i \in DOMAIN Committed}

\* An order is staged when a line of it was committed, and then with one of
\* its newest.
StagedIsNewest ==
    \A o \in Orders :
        /\ staging[o] # None => staging[o] \in CommittedLines(o)
        /\ \A line \in CommittedLines(o) :
               staging[o] # None /\ line.ver <= staging[o].ver

LEMMA AcceptedIsNewest ==
    ASSUME NEW file \in Files, NEW o \in Orders
    PROVE  /\ Accepted(file)[o] # None => Accepted(file)[o] \in LinesOf(file, o)
           /\ \A line \in LinesOf(file, o) :
                  Accepted(file)[o] # None /\ line.ver <= Accepted(file)[o].ver
<1>1. HasWinners(file)
    BY FileIsSequence, LoopAcceptsWinners
<1>2. \A i \in Parsed(file) : /\ i \in Nat /\ file[i] \in Rows /\ file[i] # None
                              /\ file[i].ver \in Nat
    BY FileIsSequence, LineSets, WarehouseAssumption DEF RowType
<1>3. CASE Winners(file, o) = {}
    <2>1. Accepted(file)[o] = None
        BY <1>3 DEF Accepted
    <2>2. LinesOf(file, o) = {}
        BY <1>1, <1>3 DEF LinesOf, HasWinners
    <2> QED BY <2>1, <2>2
<1>4. ASSUME NEW w \in Winners(file, o)
      PROVE  /\ Accepted(file)[o] \in LinesOf(file, o)
             /\ \A line \in LinesOf(file, o) :
                    Accepted(file)[o] # None /\ line.ver <= Accepted(file)[o].ver
    <2>1. Accepted(file)[o] = file[w]
        BY <1>2, WinnerIsAccepted
    <2>2. w \in Parsed(file) /\ file[w].order = o
        BY DEF Winners
    <2>3. ASSUME NEW i \in Parsed(file), file[i].order = o
          PROVE  file[i].ver <= file[w].ver
        <3>1. i = w \/ Beats(file, w, i)
            BY <2>3 DEF Winners
        <3> QED BY <1>2, <2>2, <3>1 DEF Beats
    <2> QED BY <1>2, <2>1, <2>2, <2>3 DEF LinesOf
<1> QED BY <1>3, <1>4

LEMMA CommittedLinesAppended ==
    ASSUME WarehouseInv, NEW file \in Seq(Rows), Committed' = Append(Committed, file),
           NEW o
    PROVE  CommittedLines(o)' = CommittedLines(o) \cup LinesOf(file, o)
<1>1. PICK c \in Seq(Seq(Rows)) : c = Committed
    BY CommittedType
<1>2. /\ Len(c) \in Nat
      /\ DOMAIN c = 1 .. Len(c)
      /\ DOMAIN Append(c, file) = 1 .. Len(c) + 1
      /\ \A i \in 1 .. Len(c) : Append(c, file)[i] = c[i]
      /\ Append(c, file)[Len(c) + 1] = file
    BY <1>1
<1>3. CommittedLines(o) = UNION {LinesOf(c[i], o) : i \in DOMAIN c}
    BY <1>1 DEF CommittedLines
<1>4. CommittedLines(o)' = UNION {LinesOf(Append(c, file)[i], o) : i \in DOMAIN Append(c, file)}
    BY <1>1 DEF CommittedLines
<1>5. 1 .. Len(c) + 1 = (1 .. Len(c)) \cup {Len(c) + 1}
    BY <1>2
<1>6. UNION {LinesOf(Append(c, file)[i], o) : i \in (1 .. Len(c)) \cup {Len(c) + 1}}
          = (UNION {LinesOf(c[i], o) : i \in 1 .. Len(c)}) \cup LinesOf(file, o)
    BY <1>2
<1> QED BY <1>2, <1>3, <1>4, <1>5, <1>6

LEMMA StagedIsNewestStep ==
    WarehouseInv /\ StagedIsNewest /\ [WarehouseNext]_warehouseVars => StagedIsNewest'
<1> SUFFICES ASSUME WarehouseInv, StagedIsNewest, [WarehouseNext]_warehouseVars
             PROVE  StagedIsNewest'
    OBVIOUS
<1>1. ASSUME NEW file \in Files, LoadFile(file)
      PROVE  StagedIsNewest'
    <2>1. file \in Seq(Rows)
        BY FileIsSequence
    <2>2. StoreRun(file, "succeeded", "none", Counts(file)) /\ staging' = Staged(Accepted(file))
        BY <1>1, LoadFileEffect
    <2>3. Committed' = Append(Committed, file)
        BY <2>2, CommittedAppends, CountsAreNumbers DEF Errors
    <2> SUFFICES ASSUME NEW o \in Orders
                 PROVE  /\ staging'[o] # None => staging'[o] \in CommittedLines(o)'
                        /\ \A line \in CommittedLines(o)' :
                               staging'[o] # None /\ line.ver <= staging'[o].ver
        BY DEF StagedIsNewest
    <2>4. CommittedLines(o)' = CommittedLines(o) \cup LinesOf(file, o)
        BY <2>1, <2>3, CommittedLinesAppended
    <2>5. staging'[o] = IF /\ Accepted(file)[o] # None
                           /\ staging[o] = None \/ Accepted(file)[o].ver > staging[o].ver
                        THEN Accepted(file)[o] ELSE staging[o]
        BY <2>2 DEF Staged
    <2>6. /\ Accepted(file)[o] # None => Accepted(file)[o] \in LinesOf(file, o)
          /\ \A line \in LinesOf(file, o) :
                 Accepted(file)[o] # None /\ line.ver <= Accepted(file)[o].ver
        BY AcceptedIsNewest
    <2>7. /\ staging[o] # None => staging[o] \in CommittedLines(o)
          /\ \A line \in CommittedLines(o) :
                 staging[o] # None /\ line.ver <= staging[o].ver
        BY DEF StagedIsNewest
    <2>8. \A line \in CommittedLines(o) \cup LinesOf(file, o) : line.ver \in Nat
        BY WarehouseAssumption DEF CommittedLines, LinesOf, RowType
    <2>9. /\ Accepted(file)[o] # None => Accepted(file)[o].ver \in Nat
          /\ staging[o] # None => staging[o].ver \in Nat
        BY <2>6, <2>7, <2>8
    <2> QED BY <2>4, <2>5, <2>6, <2>7, <2>8, <2>9
<1>2. ASSUME FailedRun
      PROVE  StagedIsNewest'
    <2>1. UNCHANGED tables
          /\ \E file \in Files, error \in Errors \ {"check"}, counts \in CountsRow :
                 StoreRun(file, "failed", error, counts)
        BY <1>2, FailedRunStores
    <2>2. <<>> \in Seq(Rows) /\ Parsed(<<>>) = {}
        BY DEF Parsed, Lines
    <2>3. Committed' = Append(Committed, <<>>)
        BY <2>1, CommittedAppends
    <2>4. \A o \in Orders : CommittedLines(o)' = CommittedLines(o) \cup LinesOf(<<>>, o)
        BY <2>2, <2>3, CommittedLinesAppended
    <2>5. \A o \in Orders : CommittedLines(o)' = CommittedLines(o)
        BY <2>2, <2>4 DEF LinesOf
    <2> QED BY <2>1, <2>5 DEF StagedIsNewest, tables
<1>3. CASE UNCHANGED warehouseVars
    <2>1. Committed' = Committed /\ staging' = staging
        BY <1>3 DEF Committed, warehouseVars
    <2>2. \A o : CommittedLines(o)' = CommittedLines(o)
        BY <2>1 DEF CommittedLines
    <2> QED BY <2>1, <2>2 DEF StagedIsNewest
<1> QED BY <1>1, <1>2, <1>3 DEF WarehouseNext, FailedRun

\* Files may come late, twice or in any order: the version staged for an order
\* is the newest of all lines of it that were ever committed, and an order
\* without such a line is not staged.
THEOREM StagingHoldsTheNewest == WarehouseSpec => []StagedIsNewest
<1>1. WarehouseInit => StagedIsNewest
    BY DEF WarehouseInit, StagedIsNewest, CommittedLines, Committed
<1> QED BY <1>1, StagedIsNewestStep, WarehouseInvariant, PTL DEF WarehouseSpec
=============================================================================
