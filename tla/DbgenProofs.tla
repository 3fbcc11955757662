---------------------------- MODULE DbgenProofs ----------------------------
(***************************************************************************)
(* Proofs about Dbgen, for tables of any size, any number of processes and *)
(* a text pool of any size: IInv, which says where every process and every *)
(* seed stands, is inductive.                                              *)
(***************************************************************************)
EXTENDS Dbgen, PartSupp, DbgenLemmas, FiniteSetTheorems

-----------------------------------------------------------------------------
(* The tables of an option, and what one row and one skip do to the seeds. *)

\* The tables of one option do not use each other's streams.
LEMMA TablesAreIndependent ==
  ASSUME NEW sel \in TableOptions, NEW t \in sel, NEW u \in sel, t # u,
         NEW s \in Reads(u)
  PROVE  /\ ~Padded(t, s)
         /\ ChunkSkip(t)[s] = 0
         /\ \A draws \in Draws(t) : draws[s] = 0
<1> USE DEF Reads, Padded, RowStopTable, Child, SeedTable, ChunkSkip, GenSeed, Draws, Streams
<1>1. CASE t = "CUST"
  BY <1>1 DEF TableOptions, SdCust, MkCust
<1>2. CASE t = "SUPP"
  BY <1>2 DEF TableOptions, SdSupp, MkSupp
<1>3. CASE t = "PART_PSUPP"
  BY <1>3 DEF TableOptions, SdPart, SdPsupp, MkPart
<1>4. CASE t = "ORDER_LINE"
  BY <1>4 DEF TableOptions, SdOrder, SdLine, MkOrder, OrderDraws
<1>5. CASE t \in {"NATION", "REGION"}
  BY <1>5 DEF TableOptions, MkCode
<1> QED BY <1>1, <1>2, <1>3, <1>4, <1>5 DEF TableOptions

LEMMA TableOrderIsAPermutation ==
  /\ Len(TableOrder) = 10
  /\ \A k \in 1..10 : TableOrder[k] \in Tables
  /\ \A j, k \in 1..10 : TableOrder[j] = TableOrder[k] => j = k
BY DEF TableOrder, Tables

LEMMA TextIsNotSkipped ==
  ASSUME NEW t \in Splittable
  PROVE  ChunkSkip(t)["TEXT"] = 0
BY DEF ChunkSkip, GenSeed, SdPart, SdPsupp, SdSupp, SdCust, SdOrder, SdLine, Streams,
       Child, Splittable, Tables, CodeTables, SUPP_PER_PART, O_LCNT_MAX

LEMMA RowLeavesOtherTables ==
  ASSUME NEW sel \in TableOptions, NEW t \in sel, NEW u \in sel, t # u,
         NEW draws \in Draws(t), NEW fill \in Nat,
         NEW seeds \in [Streams -> Nat], NEW s \in Reads(u)
  PROVE  AfterRow(t, seeds, [draws EXCEPT !["TEXT"] = @ + fill])[s] = seeds[s]
<1>1. t \in Tables /\ u \in Tables
  BY DEF TableOptions, Tables
<1>2. /\ s \in Streams /\ s # "TEXT"
      /\ draws \in [Streams -> Nat]
      /\ draws[s] = 0
      /\ ~Padded(t, s)
  BY <1>1, ReadsAreStreams, DrawsArePadded, TablesAreIndependent
<1>3. [draws EXCEPT !["TEXT"] = @ + fill][s] = 0
  BY <1>2
<1> QED BY <1>2, <1>3 DEF AfterRow, RowStop

LEMMA ChunkOffset ==
  ASSUME NEW p \in Nat \ {0}, NEW q \in Nat, NEW b \in Nat
  PROVE  (p - 1) * q * b = ((q * (p - 1) + 1) - 1) * b
<1>1. p - 1 \in Nat
  OBVIOUS
<1>2. (p - 1) * q = (q * (p - 1) + 1) - 1
  BY <1>1
<1> QED BY <1>2

\* Skipping to chunk p of a table: a seed of its own stands at the boundary of
\* the chunk's first row, those of another table and the text's do not move.
LEMMA SetStateStandsAtBoundary ==
  ASSUME NEW t \in Splittable, NEW c \in Nat \ {0}, NEW p \in 1..c,
         NEW seeds \in [Streams -> Nat], NEW s \in Reads(t), seeds[s] = 0
  PROVE  SetState(t, Rows[t], c, p, seeds)[s] = Position(ChunkStart(t, p, c), s)
<1>0. Rows[t] \in Nat
  BY RowsAssumption DEF Splittable
<1>1. /\ s \in Streams
      /\ Boundary(s) \in Nat
      /\ Rows[t] \div c \in Nat
  BY <1>0, ReadsAreStreams, BoundaryIsPositive, RowsBeforeIsNat DEF Splittable
<1>2. SetState(t, Rows[t], c, p, seeds)[s] = 0 + (p - 1) * (Rows[t] \div c) * Boundary(s) + 0
  BY <1>1, SkipMatchesBoundary DEF SetState, Splittable
<1>3. (p - 1) * (Rows[t] \div c) * Boundary(s) = (((Rows[t] \div c) * (p - 1) + 1) - 1) * Boundary(s)
  BY <1>1, ChunkOffset
<1>4. (p - 1) * (Rows[t] \div c) * Boundary(s) \in Nat
  <2>1. (p - 1) * (Rows[t] \div c) \in Nat
    BY <1>0, RowsBeforeIsNat
  <2> QED BY <2>1, <1>1, ProductIsNat
<1>5. Position(ChunkStart(t, p, c), s)
        = (((Rows[t] \div c) * (p - 1) + 1) - 1) * Boundary(s)
  BY DEF Position, ChunkStart
<1> QED BY <1>2, <1>3, <1>4, <1>5

LEMMA SetStateLeavesUnskipped ==
  ASSUME NEW t \in Splittable, NEW n \in Nat, NEW c \in Nat \ {0}, NEW p \in 1..c,
         NEW seeds \in [Streams -> Nat], NEW s \in Streams, ChunkSkip(t)[s] = 0
  PROVE  SetState(t, n, c, p, seeds)[s] = seeds[s]
<1>1. (p - 1) * (n \div c) \in Nat
  BY RowsBeforeIsNat
<1>2. (p - 1) * (n \div c) * 0 = 0
  BY <1>1
<1>3. SetState(t, n, c, p, seeds)[s] = seeds[s] + (p - 1) * (n \div c) * 0 + 0
  BY DEF SetState
<1> QED BY <1>2, <1>3

LEMMA SetStateIsASeed ==
  ASSUME NEW t \in Splittable, NEW n \in Nat, NEW c \in Nat \ {0}, NEW p \in 1..c,
         NEW seeds \in [Streams -> Nat]
  PROVE  SetState(t, n, c, p, seeds) \in [Streams -> Nat]
<1> SUFFICES ASSUME NEW s \in Streams
             PROVE  seeds[s] + (p - 1) * (n \div c) * ChunkSkip(t)[s] + 0 \in Nat
  BY DEF SetState
<1>1. (p - 1) * (n \div c) \in Nat
  BY RowsBeforeIsNat
<1>2. (p - 1) * (n \div c) * ChunkSkip(t)[s] \in Nat
  BY <1>1, ProductIsNat, ChunkSkipIsNat DEF Splittable
<1> QED BY <1>2

-----------------------------------------------------------------------------
(* Type correctness.                                                       *)

LEMMA AtTableIsATable ==
  ASSUME NEW p \in Procs, NEW t, TypeOK, AtTable(p, t)
  PROVE  /\ tnum[p] \in 1..10
         /\ tnum[p] + 1 \in 1..11
         /\ t \in Tables
<1>1. tnum[p] \in 1..11
  BY TableOrderIsAPermutation DEF TypeOK
<1> QED BY <1>1, TableOrderIsAPermutation DEF AtTable

LEMMA RowOfIsARow ==
  ASSUME NEW t \in Tables, NEW i \in Nat, NEW seeds \in [Streams -> Nat]
  PROVE  RowOf(t, i, seeds) \in Row(t)
BY ReadsAreStreams DEF RowOf, Row

LEMMA InitTypeOK == Init => TypeOK
<1> SUFFICES ASSUME Init PROVE TypeOK
  OBVIOUS
<1>1. /\ file = [t \in Tables |-> file[t]]
      /\ \A t \in Tables : file[t] \in [Procs -> Seq(Row(t))]
  BY DEF Init
<1>2. children \in Procs /\ selected \in TableOptions
  BY CommandsAssumption DEF Init, Procs
<1> QED BY <1>1, <1>2, MaxChildrenAssumption, TableOrderIsAPermutation
        DEF Init, TypeOK, Procs, NotBuilt

LEMMA StartChunkTypeOK ==
  ASSUME NEW p \in Procs, NEW t \in Tables, TypeOK, StartChunk(p, t), p <= children
  PROVE  TypeOK'
<1>1. /\ t \in Splittable /\ Rows[t] \in Nat
      /\ children \in Nat \ {0} /\ p \in 1..children
      /\ seed[p] \in [Streams -> Nat]
  <2>1. t \in Splittable /\ Rows[t] \in Nat
    BY RowsAssumption DEF StartChunk, Splittable
  <2>2. children \in Procs /\ seed[p] \in [Streams -> Nat]
    BY DEF TypeOK
  <2> QED BY <2>1, <2>2, MaxChildrenAssumption DEF Procs
<1>2. SetState(t, Rows[t], children, p, seed[p]) \in [Streams -> Nat]
  BY <1>1, SetStateIsASeed
<1>3. ChunkStart(t, p, children) \in Nat
  <2>1. p - 1 \in Nat /\ Rows[t] \div children \in Nat
    BY <1>1, RowsBeforeIsNat
  <2> QED BY <2>1, ProductIsNat DEF ChunkStart
<1>4. ChunkCount(t, p, children) \in Nat
  <2>1. Rows[t] \div children \in Nat /\ Rows[t] % children \in Nat
    BY <1>1, DivModAreNat
  <2> QED BY <2>1 DEF ChunkCount
<1> QED BY <1>2, <1>3, <1>4 DEF TypeOK, StartChunk

LEMMA GenRowTypeOK ==
  ASSUME NEW p \in Procs, NEW t \in Tables, TypeOK, GenRow(p, t)
  PROVE  TypeOK'
<1>1. seed[p] \in [Streams -> Nat] /\ row[p] \in Nat /\ left[p] \in Nat
  BY DEF TypeOK
<1>2. seed' \in [Procs -> [Streams -> Nat]]
  <2> DEFINE fill == IF pool[p] = NotBuilt THEN TextPoolDraws ELSE 0
  <2>1. PICK draws \in Draws(t) :
          seed' = [seed EXCEPT ![p] = AfterRow(t, @, [draws EXCEPT !["TEXT"] = @ + fill])]
    BY DEF GenRow
  <2>2. [draws EXCEPT !["TEXT"] = @ + fill] \in [Streams -> Nat]
    BY DrawsArePadded, TextPoolAssumption DEF Streams
  <2>3. AfterRow(t, seed[p], [draws EXCEPT !["TEXT"] = @ + fill]) \in [Streams -> Nat]
    BY <1>1, <2>2, AfterRowIsASeed
  <2> HIDE DEF fill
  <2> QED BY <2>1, <2>3 DEF TypeOK
<1>3. pool' \in [Procs -> Nat \cup {NotBuilt}]
  BY <1>1 DEF GenRow, TypeOK, Streams
<1>4. /\ file' = [u \in Tables |-> file'[u]]
      /\ \A u \in Tables : file'[u] \in [Procs -> Seq(Row(u))]
  <2>1. Append(file[t][p], RowOf(t, row[p], seed[p])) \in Seq(Row(t))
    BY <1>1, RowOfIsARow DEF TypeOK
  <2>2. file' = [file EXCEPT ![t][p] = Append(@, RowOf(t, row[p], seed[p]))]
    BY DEF GenRow
  <2> QED BY <2>1, <2>2 DEF TypeOK
<1>5. left' \in [Procs -> Nat]
  <2>1. left' = [left EXCEPT ![p] = @ - 1] /\ left[p] > 0
    BY DEF GenRow, MoreRows
  <2> QED BY <2>1 DEF TypeOK
<1>6. row' \in [Procs -> Nat]
  <2>1. row' = [row EXCEPT ![p] = @ + 1]
    BY DEF GenRow
  <2> QED BY <2>1 DEF TypeOK
<1>7. UNCHANGED <<children, selected, phase, tnum>>
  BY DEF GenRow
<1> QED BY <1>2, <1>3, <1>4, <1>5, <1>6, <1>7 DEF TypeOK, Procs

LEMMA StepTypeOK ==
  ASSUME NEW p \in Procs, TypeOK, Step(p), p <= children,
         phase[p] = "gen" => tnum[p] <= 10
  PROVE  TypeOK'
<1>1. ASSUME NEW t \in Tables, SkipTable(p, t) PROVE TypeOK'
  <2>1. tnum[p] + 1 \in 1..(Len(TableOrder) + 1)
    BY <1>1, AtTableIsATable, TableOrderIsAPermutation DEF SkipTable
  <2> QED BY <1>1, <2>1 DEF SkipTable, TypeOK, Procs
<1>2. ASSUME NEW t \in Tables, StartTable(p, t) PROVE TypeOK'
  BY <1>2, RowsAssumption DEF StartTable, TypeOK
<1>3. ASSUME NEW t \in Tables, StartChunk(p, t) PROVE TypeOK'
  BY <1>3, StartChunkTypeOK
<1>4. ASSUME NEW t \in Tables, GenRow(p, t) PROVE TypeOK'
  BY <1>4, GenRowTypeOK
<1>5. ASSUME EndTable(p) PROVE TypeOK'
  <2>1. tnum[p] + 1 \in 1..(Len(TableOrder) + 1)
    <3>1. tnum[p] \in 1..11 /\ tnum[p] <= 10
      BY <1>5, TableOrderIsAPermutation DEF EndTable, TypeOK
    <3> QED BY <3>1, TableOrderIsAPermutation
  <2> QED BY <1>5, <2>1 DEF EndTable, TypeOK, Procs
<1>6. ASSUME Exit(p) PROVE TypeOK'
  BY <1>6 DEF Exit, TypeOK
<1> QED BY <1>1, <1>2, <1>3, <1>4, <1>5, <1>6 DEF Step

-----------------------------------------------------------------------------
(* IInv is inductive.                                                      *)

\* A process that a step does not concern keeps its part of the invariant.
LEMMA Unmoved ==
  ASSUME NEW q \in Procs, ProcInv(q), selected \subseteq Tables,
         UNCHANGED <<children, selected, phase[q], tnum[q], row[q], seed[q], pool[q]>>,
         \A t \in Tables : file'[t][q] = file[t][q]
  PROVE  ProcInv(q)'
<1>1. Ahead(q)' = Ahead(q) /\ Ahead(q) \subseteq Tables
  BY TableOrderIsAPermutation DEF Ahead
<1>2. AheadUntouched(q)'
  BY <1>1 DEF ProcInv, AheadUntouched
<1>3. AtRowBoundary(q)'
  <2> SUFFICES ASSUME phase'[q] = "gen" PROVE AtRowBoundary(q)'
    BY DEF AtRowBoundary
  <2>1. phase[q] = "gen" /\ AtRowBoundary(q)
    BY DEF ProcInv
  <2> DEFINE t == TableOrder[tnum[q]]
  <2>2. t' = t /\ file'[t][q] = file[t][q]
    BY <2>1 DEF AtRowBoundary
  <2>3. FirstRow(t, q)' = FirstRow(t, q)
    BY DEF FirstRow
  <2> QED BY <2>1, <2>2, <2>3 DEF AtRowBoundary
<1>4. PoolFromStart(q)'
  BY DEF ProcInv, PoolFromStart
<1> QED BY <1>2, <1>3, <1>4 DEF ProcInv

LEMMA RowsStayCanonical ==
  ASSUME RowsCanonical, UNCHANGED <<children, file>>
  PROVE  RowsCanonical'
<1>1. \A t \in Tables, p \in Procs : FirstRow(t, p)' = FirstRow(t, p)
  BY DEF FirstRow
<1> QED BY <1>1 DEF RowsCanonical

LEMMA NextRowPosition ==
  ASSUME NEW r \in Nat, NEW s \in Streams
  PROVE  Position(r, s) + Boundary(s) = Position(r + 1, s)
<1>1. Boundary(s) \in Nat
  BY BoundaryIsPositive
<1> QED BY <1>1 DEF Position

LEMMA FirstRowPosition ==
  ASSUME NEW s \in Streams
  PROVE  Position(1, s) = 0
BY BoundaryIsPositive DEF Position

LEMMA SelectedTables ==
  ASSUME TypeOK
  PROVE  selected \in TableOptions /\ selected \subseteq Tables
<1>1. selected \in TableOptions
  BY DEF TypeOK
<1>2. \A sel \in TableOptions : sel \subseteq Tables
  BY DEF TableOptions, Tables
<1> QED BY <1>1, <1>2

LEMMA InitIInv == Init => IInv
<1> SUFFICES ASSUME Init PROVE IInv
  OBVIOUS
<1>1. RowsCanonical
  BY DEF Init, RowsCanonical
<1>2. ASSUME NEW p \in Procs PROVE ProcInv(p)
  <2>1. Ahead(p) \subseteq Tables
    BY TableOrderIsAPermutation DEF Ahead
  <2>2. AheadUntouched(p)
    BY <2>1, ReadsAreStreams DEF AheadUntouched, Init
  <2> QED BY <2>2 DEF ProcInv, AtRowBoundary, PoolFromStart, Init, Streams
<1> QED BY <1>1, <1>2 DEF IInv

LEMMA AheadShrinks ==
  ASSUME NEW p \in Procs,
         tnum'[p] \in Int, tnum[p] \in Int,
         \/ phase[p] # "gen" /\ phase'[p] = "gen" /\ tnum'[p] = tnum[p]
         \/ phase[p] # "gen" /\ phase'[p] # "gen" /\ tnum'[p] >= tnum[p]
         \/ phase[p] = "gen" /\ phase'[p] # "gen" /\ tnum'[p] = tnum[p] + 1
  PROVE  Ahead(p)' \subseteq Ahead(p)
<1> SUFFICES ASSUME NEW k \in 1..Len(TableOrder),
                    IF phase'[p] = "gen" THEN k > tnum'[p] ELSE k >= tnum'[p]
             PROVE  IF phase[p] = "gen" THEN k > tnum[p] ELSE k >= tnum[p]
  BY DEF Ahead
<1> QED BY TableOrderIsAPermutation

LEMMA SkipTableIInv ==
  ASSUME NEW p \in Procs, NEW t \in Tables, TypeOK, IInv, SkipTable(p, t)
  PROVE  IInv'
<1>1. RowsCanonical'
  BY RowsStayCanonical DEF IInv, SkipTable
<1>2. ASSUME NEW q \in Procs, q # p PROVE ProcInv(q)'
  BY <1>2, SelectedTables, Unmoved DEF IInv, SkipTable, TypeOK
<1>3. ProcInv(p)'
  <2>1. Ahead(p)' \subseteq Ahead(p)
    <3>1. tnum[p] \in Int
      BY TableOrderIsAPermutation DEF TypeOK
    <3>2. phase[p] # "gen" /\ phase'[p] # "gen" /\ tnum'[p] = tnum[p] + 1
      BY DEF SkipTable, AtTable, TypeOK
    <3> QED BY <3>1, <3>2, AheadShrinks
  <2>2. AheadUntouched(p)'
    BY <2>1 DEF IInv, ProcInv, AheadUntouched, SkipTable
  <2> QED BY <2>2 DEF IInv, ProcInv, AtRowBoundary, PoolFromStart, SkipTable, AtTable
<1> QED BY <1>1, <1>2, <1>3 DEF IInv

LEMMA EndTableIInv ==
  ASSUME NEW p \in Procs, TypeOK, IInv, EndTable(p)
  PROVE  IInv'
<1>1. RowsCanonical'
  BY RowsStayCanonical DEF IInv, EndTable
<1>2. ASSUME NEW q \in Procs, q # p PROVE ProcInv(q)'
  BY <1>2, SelectedTables, Unmoved DEF IInv, EndTable, TypeOK
<1>3. ProcInv(p)'
  <2>1. Ahead(p)' \subseteq Ahead(p)
    <3>1. tnum[p] \in Int
      BY TableOrderIsAPermutation DEF TypeOK
    <3>2. phase[p] = "gen" /\ phase'[p] # "gen" /\ tnum'[p] = tnum[p] + 1
      BY DEF EndTable, TypeOK
    <3> QED BY <3>1, <3>2, AheadShrinks
  <2>2. AheadUntouched(p)'
    BY <2>1 DEF IInv, ProcInv, AheadUntouched, EndTable
  <2> QED BY <2>2 DEF IInv, ProcInv, AtRowBoundary, PoolFromStart, EndTable, TypeOK
<1> QED BY <1>1, <1>2, <1>3 DEF IInv

LEMMA ExitIInv ==
  ASSUME NEW p \in Procs, TypeOK, IInv, Exit(p)
  PROVE  IInv'
<1>1. RowsCanonical'
  BY RowsStayCanonical DEF IInv, Exit
<1>2. ASSUME NEW q \in Procs, q # p PROVE ProcInv(q)'
  BY <1>2, SelectedTables, Unmoved DEF IInv, Exit, TypeOK
<1>3. ProcInv(p)'
  <2>1. Ahead(p)' = {}
    <3>1. tnum[p] \in Int /\ tnum[p] > 10
      BY TableOrderIsAPermutation DEF Exit, TypeOK
    <3>2. phase'[p] # "gen" /\ tnum'[p] = tnum[p]
      BY DEF Exit, TypeOK
    <3> QED BY <3>1, <3>2, TableOrderIsAPermutation DEF Ahead
  <2>2. AheadUntouched(p)'
    BY <2>1 DEF AheadUntouched
  <2> QED BY <2>2 DEF IInv, ProcInv, AtRowBoundary, PoolFromStart, Exit, TypeOK
<1> QED BY <1>1, <1>2, <1>3 DEF IInv

\* The table that a process starts was still ahead of it.
LEMMA StartingTableIsAhead ==
  ASSUME NEW p \in Procs, NEW t, TypeOK, AtTable(p, t)
  PROVE  /\ t \in Ahead(p)
         /\ \A k \in 1..10 : k > tnum[p] => TableOrder[k] \in Ahead(p) /\ TableOrder[k] # t
<1>1. tnum[p] \in 1..10 /\ t = TableOrder[tnum[p]] /\ phase[p] = "loop"
  BY AtTableIsATable DEF AtTable
<1> QED BY <1>1, TableOrderIsAPermutation DEF Ahead

LEMMA StartTableIInv ==
  ASSUME NEW p \in Procs, NEW t \in Tables, TypeOK, IInv, StartTable(p, t)
  PROVE  IInv'
<1>1. RowsCanonical'
  BY RowsStayCanonical DEF IInv, StartTable
<1>2. ASSUME NEW q \in Procs, q # p PROVE ProcInv(q)'
  BY <1>2, SelectedTables, Unmoved DEF IInv, StartTable, TypeOK
<1>3. ProcInv(p)'
  <2>1. Ahead(p)' \subseteq Ahead(p)
    <3>1. tnum[p] \in Int
      BY TableOrderIsAPermutation DEF TypeOK
    <3>2. phase[p] # "gen" /\ phase'[p] = "gen" /\ tnum'[p] = tnum[p]
      BY DEF StartTable, AtTable, TypeOK
    <3> QED BY <3>1, <3>2, AheadShrinks
  <2>2. AheadUntouched(p)'
    BY <2>1 DEF IInv, ProcInv, AheadUntouched, StartTable
  <2>3. file[t][p] = <<>> /\ t \in selected /\ \A s \in Reads(t) : seed[p][s] = 0
    BY StartingTableIsAhead DEF IInv, ProcInv, AheadUntouched, StartTable
  <2>4. AtRowBoundary(p)'
    <3>1. t = TableOrder[tnum[p]] /\ tnum[p] <= 10
      BY TableOrderIsAPermutation DEF StartTable, AtTable
    <3>2. FirstRow(t, p)' = 1
      BY DEF StartTable, FirstRow
    <3>3. \A s \in Reads(t) : Position(1, s) = 0
      BY ReadsAreStreams, FirstRowPosition
    <3>4. row'[p] = 1 /\ Len(file'[t][p]) = 0
      BY <2>3 DEF StartTable, TypeOK
    <3> QED BY <2>3, <3>1, <3>2, <3>3, <3>4, TableOrderIsAPermutation DEF AtRowBoundary, StartTable
  <2> QED BY <2>2, <2>4 DEF IInv, ProcInv, PoolFromStart, StartTable, AtTable, TypeOK
<1> QED BY <1>1, <1>2, <1>3 DEF IInv

LEMMA StartChunkIInv ==
  ASSUME NEW p \in Procs, NEW t \in Tables, TypeOK, IInv, StartChunk(p, t)
  PROVE  IInv'
<1> DEFINE start == ChunkStart(t, p, children)
           skipped == SetState(t, Rows[t], children, p, seed[p])
<1>1. RowsCanonical'
  BY RowsStayCanonical DEF IInv, StartChunk
<1>2. ASSUME NEW q \in Procs, q # p PROVE ProcInv(q)'
  BY <1>2, SelectedTables, Unmoved DEF IInv, StartChunk, TypeOK
<1>3. /\ t \in Splittable /\ t \in selected /\ Rows[t] \in Nat
      /\ children \in Nat \ {0} /\ p \in 1..children
      /\ seed[p] \in [Streams -> Nat]
      /\ t = TableOrder[tnum[p]] /\ tnum[p] \in 1..10
  <2>1. t \in Splittable /\ t \in selected /\ Rows[t] \in Nat
    BY RowsAssumption DEF StartChunk, Splittable
  <2>2. children \in Procs /\ seed[p] \in [Streams -> Nat]
    BY DEF TypeOK
  <2>3. p <= children
    BY DEF IInv, ProcInv, StartChunk, AtTable
  <2>4. t = TableOrder[tnum[p]] /\ tnum[p] \in 1..10
    BY AtTableIsATable DEF StartChunk, AtTable
  <2> QED BY <2>1, <2>2, <2>3, <2>4, MaxChildrenAssumption DEF Procs
<1>4. file[t][p] = <<>> /\ \A s \in Reads(t) : seed[p][s] = 0
  BY <1>3, StartingTableIsAhead DEF IInv, ProcInv, AheadUntouched, StartChunk
<1>5. /\ phase'[p] = "gen" /\ seed'[p] = skipped /\ row'[p] = start
      /\ UNCHANGED <<children, selected, tnum, pool, file>>
  BY DEF StartChunk, TypeOK
<1>6. AheadUntouched(p)'
  <2>1. Ahead(p)' \subseteq Ahead(p)
    BY <1>3, <1>5, AheadShrinks DEF StartChunk, AtTable
  <2>2. ASSUME NEW u \in Ahead(p)', u \in selected, NEW s \in Reads(u)
        PROVE  skipped[s] = 0
    <3>1. u # t /\ u \in Tables
      BY <1>3, <1>5, TableOrderIsAPermutation DEF Ahead
    <3>2. seed[p][s] = 0
      BY <2>1, <2>2 DEF IInv, ProcInv, AheadUntouched
    <3>3. ChunkSkip(t)[s] = 0 /\ s \in Streams
      BY <1>3, <2>2, <3>1, SelectedTables, TablesAreIndependent, ReadsAreStreams
    <3>4. SetState(t, Rows[t], children, p, seed[p])[s] = seed[p][s]
      BY <1>3, <3>3, SetStateLeavesUnskipped
    <3> QED BY <3>2, <3>4
  <2> HIDE DEF skipped
  <2> QED BY <1>5, <2>1, <2>2 DEF IInv, ProcInv, AheadUntouched
<1>7. AtRowBoundary(p)'
  <2>1. \A s \in Reads(t) : skipped[s] = Position(start, s)
    BY <1>3, <1>4, SetStateStandsAtBoundary
  <2>2. FirstRow(t, p)' = start
    BY <1>5 DEF FirstRow, StartChunk, ChunkStart
  <2>3. start \in Nat
    <3>1. p - 1 \in Nat /\ Rows[t] \div children \in Nat
      BY <1>3, RowsBeforeIsNat
    <3> QED BY <3>1, ProductIsNat DEF ChunkStart
  <2>4. Len(file'[t][p]) = 0
    BY <1>4, <1>5
  <2> HIDE DEF start, skipped
  <2> QED BY <1>3, <1>5, <2>1, <2>2, <2>3, <2>4, TableOrderIsAPermutation DEF AtRowBoundary
<1>8. PoolFromStart(p)'
  <2>1. skipped["TEXT"] = seed[p]["TEXT"]
    BY <1>3, TextIsNotSkipped, SetStateLeavesUnskipped DEF Streams
  <2> HIDE DEF skipped
  <2> QED BY <1>5, <2>1 DEF IInv, ProcInv, PoolFromStart
<1> QED BY <1>1, <1>2, <1>3, <1>5, <1>6, <1>7, <1>8 DEF IInv, ProcInv

LEMMA GenRowIInv ==
  ASSUME NEW p \in Procs, NEW t \in Tables, TypeOK, IInv, GenRow(p, t)
  PROVE  IInv'
<1> DEFINE fill == IF pool[p] = NotBuilt THEN TextPoolDraws ELSE 0
           r == RowOf(t, row[p], seed[p])
<1>1. PICK draws \in Draws(t) :
        seed' = [seed EXCEPT ![p] = AfterRow(t, @, [draws EXCEPT !["TEXT"] = @ + fill])]
  BY DEF GenRow
<1> DEFINE after == AfterRow(t, seed[p], [draws EXCEPT !["TEXT"] = @ + fill])
<1>2. /\ t = TableOrder[tnum[p]] /\ t \in selected /\ tnum[p] \in 1..10
      /\ row[p] = FirstRow(t, p) + Len(file[t][p])
      /\ \A s \in Reads(t) : seed[p][s] = Position(row[p], s)
  <2>1. tnum[p] \in 1..11
    BY TableOrderIsAPermutation DEF TypeOK
  <2> QED BY <2>1, TableOrderIsAPermutation DEF IInv, ProcInv, AtRowBoundary, GenRow
<1>3. /\ seed[p] \in [Streams -> Nat] /\ row[p] \in Nat /\ fill \in Nat
      /\ file[t][p] \in Seq(Row(t)) /\ r \in Row(t) /\ FirstRow(t, p) \in Int
  <2>1. seed[p] \in [Streams -> Nat] /\ row[p] \in Nat /\ file[t][p] \in Seq(Row(t))
    BY DEF TypeOK
  <2>2. FirstRow(t, p) = row[p] - Len(file[t][p]) \/ FirstRow(t, p) \in Int
    <3>1. CASE children = 1 \/ t \in CodeTables
      BY <3>1 DEF FirstRow
    <3>2. CASE ~(children = 1 \/ t \in CodeTables)
      <4>1. Rows[t] \in Nat /\ children \in Nat \ {0} /\ p - 1 \in Nat
        BY RowsAssumption, MaxChildrenAssumption DEF TypeOK, Procs
      <4>2. Rows[t] \div children \in Nat
        BY <4>1, DivModAreNat
      <4>3. (Rows[t] \div children) * (p - 1) \in Nat
        BY <4>1, <4>2, ProductIsNat
      <4> QED BY <3>2, <4>3 DEF FirstRow, ChunkStart
    <3> QED BY <3>1, <3>2
  <2> QED BY <2>1, <2>2, RowOfIsARow, TextPoolAssumption
<1>4. /\ seed' = [seed EXCEPT ![p] = after]
      /\ file' = [file EXCEPT ![t][p] = Append(@, r)]
      /\ row' = [row EXCEPT ![p] = @ + 1]
      /\ pool' = [pool EXCEPT ![p] = IF @ = NotBuilt THEN seed[p]["TEXT"] ELSE @]
      /\ phase[p] = "gen"
      /\ UNCHANGED <<children, selected, phase, tnum>>
  BY <1>1 DEF GenRow
<1>5. RowsCanonical'
  <2>1. r = Canonical(t, row[p])
    BY <1>2, ReadsAreStreams DEF Canonical, RowOf
  <2>2. \A u \in Tables, q \in Procs : FirstRow(u, q)' = FirstRow(u, q)
    BY <1>4 DEF FirstRow
  <2>3. ASSUME NEW u \in Tables, NEW q \in Procs, NEW k \in 1..Len(file'[u][q])
        PROVE  file'[u][q][k] = Canonical(u, FirstRow(u, q) + k - 1)
    <3> HIDE DEF r
    <3>1. CASE u = t /\ q = p
      <4>1. file'[t][p] = Append(file[t][p], r)
        BY <1>4 DEF TypeOK
      <4>2. CASE k = Len(file[t][p]) + 1
        <5>1. file'[t][p][k] = r
          BY <1>3, <4>1, <4>2
        <5>2. FirstRow(t, p) + k - 1 = row[p]
          BY <1>2, <1>3, <4>2
        <5> QED BY <2>1, <3>1, <5>1, <5>2
      <4>3. CASE k # Len(file[t][p]) + 1
        <5>1. k \in 1..Len(file[t][p]) /\ file'[t][p][k] = file[t][p][k]
          BY <1>3, <2>3, <3>1, <4>1, <4>3
        <5> QED BY <3>1, <5>1 DEF IInv, RowsCanonical
      <4> QED BY <4>2, <4>3
    <3>2. CASE ~(u = t /\ q = p)
      <4>1. file'[u][q] = file[u][q]
        BY <1>4, <3>2 DEF TypeOK
      <4> QED BY <2>3, <4>1 DEF IInv, RowsCanonical
    <3> QED BY <3>1, <3>2
  <2> QED BY <2>2, <2>3 DEF RowsCanonical
<1>6. ASSUME NEW q \in Procs, q # p PROVE ProcInv(q)'
  <2>1. /\ UNCHANGED <<children, selected, phase[q], tnum[q], row[q], seed[q], pool[q]>>
        /\ \A u \in Tables : file'[u][q] = file[u][q]
    BY <1>4, <1>6 DEF TypeOK
  <2> QED BY <2>1, SelectedTables, Unmoved DEF IInv
<1>7. AheadUntouched(p)'
  <2>1. Ahead(p)' = Ahead(p) /\ Ahead(p) \subseteq Tables \ {t}
    BY <1>2, <1>4, TableOrderIsAPermutation DEF Ahead
  <2>2. ASSUME NEW u \in Ahead(p), u \in selected, NEW s \in Reads(u)
        PROVE  after[s] = seed[p][s]
    <3>1. t # u
      BY <2>1
    <3>2. selected \in TableOptions /\ t \in selected /\ u \in selected
      BY <1>2, <2>2, SelectedTables
    <3>3. seed[p] \in [Streams -> Nat] /\ fill \in Nat
      BY <1>3
    <3> HIDE DEF fill
    <3> QED BY <2>2, <3>1, <3>2, <3>3, RowLeavesOtherTables
  <2>3. \A u \in Ahead(p) : file'[u][p] = file[u][p]
    BY <1>4, <2>1 DEF TypeOK
  <2>4. seed'[p] = after
    BY <1>4 DEF TypeOK
  <2> HIDE DEF after
  <2> QED BY <1>4, <2>1, <2>2, <2>3, <2>4 DEF IInv, ProcInv, AheadUntouched
<1>8. AtRowBoundary(p)'
  <2>1. \A s \in Reads(t) : after[s] = Position(row[p] + 1, s)
    <3> TAKE s \in Reads(t)
    <3>1. after[s] = seed[p][s] + Boundary(s)
      BY <1>3, RowMovesOneBoundary
    <3>2. Position(row[p], s) + Boundary(s) = Position(row[p] + 1, s)
      BY <1>3, ReadsAreStreams, NextRowPosition
    <3> QED BY <1>2, <3>1, <3>2
  <2>2. Len(file'[t][p]) = Len(file[t][p]) + 1
    <3>1. file'[t][p] = Append(file[t][p], r)
      BY <1>4 DEF TypeOK
    <3> QED BY <1>3, <3>1
  <2>3. FirstRow(t, p)' = FirstRow(t, p)
    BY <1>4 DEF FirstRow
  <2>4. seed'[p] = after /\ row'[p] = row[p] + 1
    BY <1>4 DEF TypeOK
  <2>5. Len(file[t][p]) \in Nat
    BY <1>3
  <2>6. row[p] + 1 = FirstRow(t, p) + (Len(file[t][p]) + 1)
    BY <1>2, <1>3, <2>5
  <2> HIDE DEF after, r
  <2>7. tnum'[p] <= Len(TableOrder) /\ t = TableOrder[tnum'[p]] /\ t \in selected'
    BY <1>2, <1>4, TableOrderIsAPermutation
  <2>8. row'[p] = FirstRow(t, p)' + Len(file'[t][p])
    BY <2>2, <2>3, <2>4, <2>6
  <2>9. \A s \in Reads(t) : seed'[p][s] = Position(row'[p], s)
    BY <2>1, <2>4
  <2> QED BY <2>7, <2>8, <2>9 DEF AtRowBoundary
<1>9. PoolFromStart(p)'
  <2>1. pool'[p] = IF pool[p] = NotBuilt THEN seed[p]["TEXT"] ELSE pool[p]
    BY <1>4 DEF TypeOK
  <2> QED BY <2>1 DEF IInv, ProcInv, PoolFromStart, NotBuilt
<1>10. phase'[p] # "exit" => p <= children'
  BY <1>4 DEF IInv, ProcInv
<1> QED BY <1>5, <1>6, <1>7, <1>8, <1>9, <1>10 DEF IInv, ProcInv

-----------------------------------------------------------------------------
(* The theorems.                                                           *)

LEMMA StepIInv ==
  ASSUME NEW p \in Procs, TypeOK, IInv, Step(p)
  PROVE  TypeOK' /\ IInv'
<1>1. p <= children
  BY DEF IInv, ProcInv, Step, SkipTable, StartTable, StartChunk, AtTable, GenRow, EndTable, Exit
<1>2. phase[p] = "gen" => tnum[p] <= 10
  BY TableOrderIsAPermutation DEF IInv, ProcInv, AtRowBoundary
<1>3. TypeOK'
  BY <1>1, <1>2, StepTypeOK
<1>4. IInv'
  BY SkipTableIInv, StartTableIInv, StartChunkIInv, GenRowIInv, EndTableIInv, ExitIInv DEF Step
<1> QED BY <1>3, <1>4

LEMMA Invariance == Spec => [](TypeOK /\ IInv)
<1>1. Init => TypeOK /\ IInv
  BY InitTypeOK, InitIInv
<1>2. TypeOK /\ IInv /\ [Next]_vars => TypeOK' /\ IInv'
  <2> SUFFICES ASSUME TypeOK, IInv, [Next]_vars PROVE TypeOK' /\ IInv'
    OBVIOUS
  <2>1. CASE \E p \in Procs : Step(p)
    BY <2>1, StepIInv
  <2>2. CASE UNCHANGED vars
    <3>1. TypeOK'
      BY <2>2 DEF TypeOK, vars
    <3>2. RowsCanonical'
      BY <2>2, RowsStayCanonical DEF IInv, vars
    <3>3. ASSUME NEW q \in Procs PROVE ProcInv(q)'
      BY <2>2, SelectedTables, Unmoved DEF IInv, vars
    <3> QED BY <3>1, <3>2, <3>3 DEF IInv
  <2> QED BY <2>1, <2>2 DEF Next, Terminated
<1> QED BY <1>1, <1>2, PTL DEF Spec

\* No process leaves the ranges of its variables, for tables of any size split
\* among any number of processes: in particular gen_tbl()'s count never passes
\* zero and main()'s table loop never runs past the last table.
THEOREM TypeCorrect == Spec => []TypeOK
BY Invariance, PTL

\* Whatever -T selects and however many processes share a table, each row that
\* any of them writes is the row of the one-process run: what gen_tbl() pads
\* with row_stop() is what set_state() skips with sd_*().
THEOREM ChunksAgree == Spec => []RowsCanonical
<1>1. IInv => RowsCanonical
  BY DEF IInv
<1> QED BY <1>1, Invariance, PTL

\* Every process fills its text pool from the start of stream 5.
THEOREM TextPoolsAgree == Spec => []TextPoolCanonical
<1>1. IInv => TextPoolCanonical
  BY DEF IInv, ProcInv, PoolFromStart, TextPoolCanonical, NotBuilt
<1> QED BY <1>1, Invariance, PTL

-----------------------------------------------------------------------------
(* ChunksAreTheTable: how many rows each process writes, and what its rows *)
(* make up together with those of the others.                              *)

\* The rows that process p writes of table t.
FullCount(t, p) == IF children = 1 \/ t \in CodeTables THEN Rows[t]
                                                       ELSE ChunkCount(t, p, children)

\* What a process has written of its table and what it has left to do are its
\* share, and it has written its share of the tables before.  A process that there
\* is not writes nothing.
CountInv(p) ==
  /\ phase[p] = "gen" =>
       LET t == TableOrder[tnum[p]]
       IN  Len(file[t][p]) + left[p] = FullCount(t, p)
  /\ \A k \in 1..10 : k < tnum[p] /\ TableOrder[k] \in selected =>
       Len(file[TableOrder[k]][p]) = FullCount(TableOrder[k], p)
  /\ p <= children /\ phase[p] = "exit" => tnum[p] > 10
  /\ p > children => \A t \in Tables : file[t][p] = <<>>

LEMMA CountStays ==
  ASSUME NEW q \in Procs, CountInv(q), TypeOK,
         UNCHANGED <<children, selected, phase[q], tnum[q], left[q]>>,
         \A t \in Tables : file'[t][q] = file[t][q],
         phase[q] = "gen" => tnum[q] \in 1..10
  PROVE  CountInv(q)'
<1>1. \A t : FullCount(t, q)' = FullCount(t, q)
  BY DEF FullCount
<1>2. \A k \in 1..10 : file'[TableOrder[k]][q] = file[TableOrder[k]][q]
  BY TableOrderIsAPermutation
<1>3. ASSUME phase[q] = "gen"
      PROVE  LET t == TableOrder[tnum[q]]
             IN  Len(file'[t][q]) + left'[q] = FullCount(t, q)'
  <2> DEFINE t == TableOrder[tnum[q]]
  <2>1. file'[t][q] = file[t][q]
    BY <1>2, <1>3
  <2>2. Len(file[t][q]) + left[q] = FullCount(t, q)
    BY <1>3 DEF CountInv
  <2> QED BY <1>1, <2>1, <2>2
<1>4. ASSUME NEW k \in 1..10, k < tnum'[q], TableOrder[k] \in selected'
      PROVE  Len(file'[TableOrder[k]][q]) = FullCount(TableOrder[k], q)'
  BY <1>1, <1>2, <1>4 DEF CountInv
<1>5. /\ q <= children' /\ phase'[q] = "exit" => tnum'[q] > 10
      /\ q > children' => \A t \in Tables : file'[t][q] = <<>>
  BY DEF CountInv
<1> QED BY <1>3, <1>4, <1>5 DEF CountInv

\* Where a process is in the order of the tables.
LEMMA PlaceOfTable ==
  ASSUME NEW p \in Procs, TypeOK, IInv
  PROVE  /\ tnum[p] \in 1..11
         /\ phase[p] = "gen" => /\ tnum[p] \in 1..10
                                /\ TableOrder[tnum[p]] \in selected
                                /\ TableOrder[tnum[p]] \in Tables
<1>1. tnum[p] \in 1..11
  BY TableOrderIsAPermutation DEF TypeOK
<1>2. ASSUME phase[p] = "gen"
      PROVE  tnum[p] \in 1..10 /\ TableOrder[tnum[p]] \in selected
  BY <1>1, <1>2, TableOrderIsAPermutation DEF IInv, ProcInv, AtRowBoundary
<1> QED BY <1>1, <1>2, TableOrderIsAPermutation

\* A process that starts a table has its whole share to do.
LEMMA StartCounts ==
  ASSUME NEW p \in Procs, NEW t \in Tables, TypeOK, IInv, CountInv(p), AtTable(p, t),
         t \in selected, phase' = [phase EXCEPT ![p] = "gen"],
         left' = [left EXCEPT ![p] = FullCount(t, p)],
         UNCHANGED <<children, selected, tnum, file>>
  PROVE  CountInv(p)'
<1>1. tnum[p] \in 1..10 /\ t = TableOrder[tnum[p]]
  BY AtTableIsATable DEF AtTable
<1>2. file[t][p] = <<>>
  BY StartingTableIsAhead DEF IInv, ProcInv, AheadUntouched
<1>3. \A u : FullCount(u, p)' = FullCount(u, p)
  BY DEF FullCount
<1>4. FullCount(t, p) \in Nat
  <2>1. Rows[t] \in Nat /\ children \in Nat \ {0}
    BY RowsAssumption, MaxChildrenAssumption DEF TypeOK, Procs
  <2>2. Rows[t] \div children \in Nat /\ Rows[t] % children \in Nat
    BY <2>1, DivModAreNat
  <2> QED BY <2>1, <2>2 DEF FullCount, ChunkCount
<1>5. left'[p] = FullCount(t, p) /\ phase'[p] = "gen" /\ Len(<<>>) = 0
  BY DEF TypeOK
<1>6. Len(file'[t][p]) + left'[p] = FullCount(t, p)'
  BY <1>2, <1>3, <1>4, <1>5
<1>7. \A k \in 1..10 : k < tnum'[p] /\ TableOrder[k] \in selected' =>
        Len(file'[TableOrder[k]][p]) = FullCount(TableOrder[k], p)'
  BY <1>3 DEF CountInv
<1> QED BY <1>1, <1>5, <1>6, <1>7 DEF CountInv

LEMMA StepCounts ==
  ASSUME NEW p \in Procs, TypeOK, IInv, CountInv(p), Step(p)
  PROVE  CountInv(p)'
<1>0. p <= children /\ p \in Nat /\ children \in Nat
  <2>1. p <= children
    BY DEF IInv, ProcInv, Step, SkipTable, StartTable, StartChunk, AtTable, GenRow, EndTable, Exit
  <2> QED BY <2>1 DEF TypeOK, Procs
<1>1. /\ tnum[p] \in 1..11
      /\ phase[p] = "gen" => /\ tnum[p] \in 1..10
                             /\ TableOrder[tnum[p]] \in selected
                             /\ TableOrder[tnum[p]] \in Tables
  BY PlaceOfTable
<1>2. ASSUME NEW t \in Tables, SkipTable(p, t) PROVE CountInv(p)'
  <2>1. /\ tnum'[p] = tnum[p] + 1 /\ phase'[p] = "loop" /\ t = TableOrder[tnum[p]]
        /\ t \notin selected /\ UNCHANGED <<children, selected, file>>
    BY <1>2 DEF SkipTable, AtTable, TypeOK
  <2>2. \A u : FullCount(u, p)' = FullCount(u, p)
    BY <2>1 DEF FullCount
  <2>3. \A k \in 1..10 : k < tnum'[p] /\ TableOrder[k] \in selected' => k < tnum[p]
    BY <1>1, <2>1
  <2> QED BY <2>1, <2>2, <2>3 DEF CountInv
<1>3. ASSUME NEW t \in Tables, StartTable(p, t) PROVE CountInv(p)'
  <2>1. left' = [left EXCEPT ![p] = FullCount(t, p)]
    BY <1>3 DEF StartTable, FullCount
  <2> QED BY <1>3, <2>1, StartCounts DEF StartTable
<1>4. ASSUME NEW t \in Tables, StartChunk(p, t) PROVE CountInv(p)'
  <2>1. children \in Nat
    BY DEF TypeOK, Procs
  <2>2. left' = [left EXCEPT ![p] = FullCount(t, p)]
    <3>1. children # 1 /\ t \notin CodeTables
      BY <1>4, <2>1 DEF StartChunk
    <3>2. FullCount(t, p) = ChunkCount(t, p, children)
      BY <3>1 DEF FullCount
    <3> QED BY <1>4, <3>2 DEF StartChunk
  <2> QED BY <1>4, <2>2, StartCounts DEF StartChunk
<1>5. ASSUME NEW t \in Tables, GenRow(p, t) PROVE CountInv(p)'
  <2> DEFINE r == RowOf(t, row[p], seed[p])
  <2>1. /\ phase[p] = "gen" /\ t = TableOrder[tnum[p]] /\ tnum[p] \in 1..10
        /\ phase'[p] = "gen" /\ tnum'[p] = tnum[p]
        /\ UNCHANGED <<children, selected>>
    BY <1>1, <1>5 DEF GenRow
  <2>2. /\ left'[p] = left[p] - 1 /\ left[p] \in Nat
        /\ file'[t][p] = Append(file[t][p], r)
        /\ \A u \in Tables \ {t} : file'[u][p] = file[u][p]
    BY <1>5 DEF GenRow, TypeOK
  <2>3. Len(file'[t][p]) = Len(file[t][p]) + 1 /\ Len(file[t][p]) \in Nat
    <3>1. file[t][p] \in Seq(Row(t)) /\ r \in Row(t)
      BY RowOfIsARow DEF TypeOK
    <3> HIDE DEF r
    <3> QED BY <2>2, <3>1
  <2> HIDE DEF r
  <2>4. \A u : FullCount(u, p)' = FullCount(u, p)
    BY <2>1 DEF FullCount
  <2>5. Len(file'[t][p]) + left'[p] = Len(file[t][p]) + left[p]
    <3> DEFINE now == Len(file'[t][p])
               before == Len(file[t][p])
               togo == left'[p]
               count == left[p]
    <3>1. now = before + 1 /\ before \in Nat /\ togo = count - 1 /\ count \in Nat
      BY <2>2, <2>3
    <3> HIDE DEF now, before, togo, count
    <3>2. now + togo = before + count
      BY <3>1
    <3> QED BY <3>2 DEF now, before, togo, count
  <2>6. Len(file'[t][p]) + left'[p] = FullCount(t, p)'
    BY <2>1, <2>4, <2>5 DEF CountInv
  <2>7. \A k \in 1..10 : k < tnum'[p] /\ TableOrder[k] \in selected' =>
          Len(file'[TableOrder[k]][p]) = FullCount(TableOrder[k], p)'
    <3> SUFFICES ASSUME NEW k \in 1..10, k < tnum[p], TableOrder[k] \in selected
                 PROVE  Len(file'[TableOrder[k]][p]) = FullCount(TableOrder[k], p)'
      BY <2>1
    <3>1. TableOrder[k] \in Tables \ {t}
      BY <2>1, TableOrderIsAPermutation
    <3> QED BY <2>2, <2>4, <3>1 DEF CountInv
  <2> QED BY <1>0, <2>1, <2>6, <2>7 DEF CountInv
<1>6. ASSUME EndTable(p) PROVE CountInv(p)'
  <2> DEFINE t == TableOrder[tnum[p]]
  <2>1. /\ phase[p] = "gen" /\ left[p] = 0 /\ phase'[p] = "loop"
        /\ tnum'[p] = tnum[p] + 1 /\ UNCHANGED <<children, selected, file>>
    BY <1>6 DEF EndTable, MoreRows, TypeOK
  <2>2. \A u : FullCount(u, p)' = FullCount(u, p)
    BY <2>1 DEF FullCount
  <2>3. Len(file[t][p]) = FullCount(t, p)
    <3>1. file[t][p] \in Seq(Row(t))
      BY <1>1, <2>1 DEF TypeOK
    <3>2. Len(file[t][p]) + 0 = FullCount(t, p)
      BY <2>1 DEF CountInv
    <3> QED BY <3>1, <3>2
  <2>4. \A k \in 1..10 : k < tnum'[p] /\ TableOrder[k] \in selected' =>
          Len(file'[TableOrder[k]][p]) = FullCount(TableOrder[k], p)'
    <3> SUFFICES ASSUME NEW k \in 1..10, k < tnum[p] + 1, TableOrder[k] \in selected
                 PROVE  Len(file[TableOrder[k]][p]) = FullCount(TableOrder[k], p)
      BY <2>1, <2>2
    <3>1. k < tnum[p] \/ k = tnum[p]
      BY <1>1
    <3> QED BY <2>3, <3>1 DEF CountInv
  <2> QED BY <2>1, <2>4 DEF CountInv
<1>7. ASSUME Exit(p) PROVE CountInv(p)'
  <2>1. /\ phase'[p] = "exit" /\ tnum[p] > 10
        /\ UNCHANGED <<children, selected, tnum, file>>
    BY <1>7, TableOrderIsAPermutation DEF Exit, TypeOK
  <2>2. \A u : FullCount(u, p)' = FullCount(u, p)
    BY <2>1 DEF FullCount
  <2> QED BY <2>1, <2>2 DEF CountInv
<1> QED BY <1>2, <1>3, <1>4, <1>5, <1>6, <1>7 DEF Step

LEMMA CountInvariance == Spec => [](\A p \in Procs : CountInv(p))
<1>1. Init => \A p \in Procs : CountInv(p)
  BY DEF Init, CountInv
<1>2. TypeOK /\ IInv /\ (\A p \in Procs : CountInv(p)) /\ [Next]_vars
        => (\A p \in Procs : CountInv(p))'
  <2> SUFFICES ASSUME TypeOK, IInv, \A p \in Procs : CountInv(p), [Next]_vars,
                      NEW q \in Procs
               PROVE  CountInv(q)'
    OBVIOUS
  <2>0. phase[q] = "gen" => tnum[q] \in 1..10
    BY PlaceOfTable
  <2>1. ASSUME NEW p \in Procs, Step(p), p # q PROVE CountInv(q)'
    <3>1. UNCHANGED <<children, selected, phase[q], tnum[q], left[q]>>
      <4>1. UNCHANGED <<children, selected>>
        BY <2>1 DEF Step, SkipTable, StartTable, StartChunk, GenRow, EndTable, Exit
      <4>2. phase'[q] = phase[q]
        BY <2>1 DEF Step, SkipTable, StartTable, StartChunk, GenRow, EndTable, Exit, TypeOK
      <4>3. tnum'[q] = tnum[q]
        BY <2>1 DEF Step, SkipTable, StartTable, StartChunk, GenRow, EndTable, Exit, TypeOK
      <4>4. left'[q] = left[q]
        BY <2>1 DEF Step, SkipTable, StartTable, StartChunk, GenRow, EndTable, Exit, TypeOK
      <4> QED BY <4>1, <4>2, <4>3, <4>4
    <3>2. ASSUME NEW t \in Tables PROVE file'[t][q] = file[t][q]
      <4>1. ASSUME NEW u \in Tables, GenRow(p, u) PROVE file'[t][q] = file[t][q]
        BY <2>1, <4>1 DEF GenRow, TypeOK
      <4>2. CASE UNCHANGED file
        BY <4>2
      <4> QED BY <2>1, <4>1, <4>2 DEF Step, SkipTable, StartTable, StartChunk, EndTable, Exit
    <3> QED BY <2>0, <3>1, <3>2, CountStays
  <2>2. ASSUME Step(q) PROVE CountInv(q)'
    BY <2>2, StepCounts
  <2>3. CASE UNCHANGED vars
    BY <2>0, <2>3, CountStays DEF vars
  <2> QED BY <2>1, <2>2, <2>3 DEF Next, Terminated
<1> QED BY <1>1, <1>2, Invariance, PTL DEF Spec

\* Two sequences, one after the other, element by element.
LEMMA ConcatIs ==
  ASSUME NEW T, NEW a \in Seq(T), NEW b \in Seq(T), NEW w \in Seq(T),
         Len(w) = Len(a) + Len(b),
         \A i \in 1..Len(a) : w[i] = a[i],
         \A i \in 1..Len(b) : w[Len(a) + i] = b[i]
  PROVE  a \o b = w
<1>1. /\ a \o b \in Seq(T) /\ Len(a \o b) = Len(w) /\ Len(a) \in Nat /\ Len(b) \in Nat
  BY ConcatProperties
<1>2. ASSUME NEW i \in 1..Len(w) PROVE (a \o b)[i] = w[i]
  <2>1. CASE i \in 1..Len(a)
    BY <2>1
  <2>2. CASE i \notin 1..Len(a)
    <3>1. i - Len(a) \in 1..Len(b) /\ i = Len(a) + (i - Len(a))
      BY <1>1, <2>2
    <3>2. w[i] = b[i - Len(a)]
      BY <3>1
    <3>3. (a \o b)[i] = b[i - Len(a)]
      BY <1>1, <2>2
    <3> QED BY <3>2, <3>3
  <2> QED BY <2>1, <2>2
<1> QED BY <1>1, <1>2, SeqEqual

LEMMA CanonicalIsARow ==
  ASSUME NEW t \in Tables, NEW i \in Nat \ {0}
  PROVE  Canonical(t, i) \in Row(t)
<1>1. ASSUME NEW s \in Streams PROVE Position(i, s) \in Nat
  <2>1. i - 1 \in Nat /\ Boundary(s) \in Nat
    BY BoundaryIsPositive
  <2> QED BY <2>1, ProductIsNat DEF Position
<1>2. [s \in Streams |-> Position(i, s)] \in [Streams -> Nat]
  BY <1>1
<1> QED BY <1>2, RowOfIsARow DEF Canonical

LEMMA EveryTableHasItsPlace == \A t \in Tables : \E k \in 1..10 : t = TableOrder[k]
BY DEF TableOrder, Tables

\* What a process that has come to its end has written of a table.
LEMMA WholeShare ==
  ASSUME TypeOK, IInv, NEW p \in Procs, CountInv(p), p <= children, phase[p] = "exit",
         NEW t \in selected
  PROVE  /\ t \in Tables /\ file[t][p] \in Seq(Row(t))
         /\ Len(file[t][p]) = FullCount(t, p)
         /\ \A k \in 1..Len(file[t][p]) : file[t][p][k] = Canonical(t, FirstRow(t, p) + k - 1)
<1>1. t \in Tables
  BY SelectedTables
<1>2. PICK k \in 1..10 : t = TableOrder[k]
  BY <1>1, EveryTableHasItsPlace
<1>3. k < tnum[p]
  BY PlaceOfTable DEF CountInv
<1>4. Len(file[t][p]) = FullCount(t, p)
  BY <1>2, <1>3 DEF CountInv
<1> QED BY <1>1, <1>4 DEF TypeOK, IInv, RowsCanonical

\* The rows of the first n chunks.
RowsUpTo(t, n) == (Rows[t] \div children) * n + (IF n = children THEN Rows[t] % children ELSE 0)
UpTo(t, n) == [i \in 1..RowsUpTo(t, n) |-> Canonical(t, i)]

\* Chunk n + 1 begins where the first n chunks end.
LEMMA ChunksFollow ==
  ASSUME TypeOK, NEW t \in Splittable, NEW n \in Nat, n + 1 <= children
  PROVE  /\ RowsUpTo(t, n) \in Nat /\ RowsUpTo(t, n + 1) \in Nat
         /\ FirstRow(t, n + 1) = RowsUpTo(t, n) + 1
         /\ RowsUpTo(t, n + 1) = RowsUpTo(t, n) + FullCount(t, n + 1)
<1> DEFINE c == children
           q == Rows[t] \div c
           r == Rows[t] % c
<1>1. Rows[t] \in Nat /\ c \in Nat \ {0} /\ q \in Nat /\ r \in Nat /\ t \notin CodeTables
  <2>1. Rows[t] \in Nat /\ c \in Nat \ {0} /\ t \notin CodeTables
    BY RowsAssumption, MaxChildrenAssumption DEF TypeOK, Procs, Splittable
  <2> QED BY <2>1, DivModAreNat
<1>2. FirstRow(t, n + 1) = q * n + 1
  <2>1. CASE c = 1
    <3>1. n = 0  BY <2>1
    <3>2. q * n = 0  BY <1>1, <3>1
    <3>3. FirstRow(t, n + 1) = 1  BY <2>1 DEF FirstRow
    <3> QED BY <3>2, <3>3
  <2>2. CASE c # 1
    <3>1. (n + 1) - 1 = n  OBVIOUS
    <3>2. FirstRow(t, n + 1) = q * ((n + 1) - 1) + 1
      BY <1>1, <2>2 DEF FirstRow, ChunkStart
    <3> QED BY <3>1, <3>2
  <2> QED BY <2>1, <2>2
<1>3. FullCount(t, n + 1) = q + (IF n + 1 = c THEN r ELSE 0)
  <2>1. CASE c = 1
    <3>1. n + 1 = c  BY <2>1
    <3>2. Rows[t] \div 1 = Rows[t] /\ Rows[t] % 1 = 0  BY <1>1
    <3>3. FullCount(t, n + 1) = Rows[t]  BY <2>1 DEF FullCount
    <3>4. q = Rows[t] /\ r = 0  BY <2>1, <3>2
    <3> HIDE DEF q, r
    <3> QED BY <1>1, <3>1, <3>3, <3>4
  <2>2. CASE c # 1
    BY <1>1, <2>2 DEF FullCount, ChunkCount
  <2> QED BY <2>1, <2>2
<1>4. RowsUpTo(t, n) = q * n /\ q * n \in Nat
  <2>1. n # c  BY <1>1
  <2>2. RowsUpTo(t, n) = q * n + 0  BY <2>1 DEF RowsUpTo
  <2>3. q * n \in Nat  BY <1>1, ProductIsNat
  <2> HIDE DEF q
  <2> QED BY <2>2, <2>3
<1>5. RowsUpTo(t, n + 1) = q * (n + 1) + (IF n + 1 = c THEN r ELSE 0)
  BY DEF RowsUpTo
<1> HIDE DEF c, q, r
<1>6. q * (n + 1) = q * n + q
  BY <1>1
<1> DEFINE x == q * n
           y == IF n + 1 = c THEN r ELSE 0
<1>7. y \in Nat  BY <1>1
<1>8. FirstRow(t, n + 1) = x + 1 /\ FullCount(t, n + 1) = q + y /\ RowsUpTo(t, n) = x /\ x \in Nat
      /\ RowsUpTo(t, n + 1) = (x + q) + y
  BY <1>2, <1>3, <1>4, <1>5, <1>6
<1> HIDE DEF x, y
<1> QED BY <1>1, <1>7, <1>8

\* The files of the first n chunks, one after the other.
LEMMA FirstChunks ==
  ASSUME TypeOK, IInv, \A p \in Procs : CountInv(p), AllExited,
         NEW t \in selected, t \notin CodeTables, NEW n \in Nat, n <= children
  PROVE  FlattenSeq([p \in 1..n |-> file[t][p]]) = UpTo(t, n)
<1> DEFINE Files(m) == [p \in 1..m |-> file[t][p]]
           X == {m \in Nat : m <= children => FlattenSeq(Files(m)) = UpTo(t, m)}
<1>1. /\ t \in Splittable /\ children \in Nat \ {0}
      /\ \A p \in 1..children : p \in Procs /\ file[t][p] \in Seq(Row(t))
  <2>1. t \in Tables  BY SelectedTables
  <2> QED BY <2>1, MaxChildrenAssumption DEF TypeOK, Procs, Splittable
<1>2. ASSUME NEW m \in Nat, m <= children
      PROVE  Files(m) \in Seq(Seq(Row(t))) /\ Len(Files(m)) = m
  <2>1. \A p \in 1..m : file[t][p] \in Seq(Row(t))
    BY <1>1, <1>2
  <2> QED BY <2>1
<1>3. 0 \in X
  <2>1. Files(0) = <<>>
    OBVIOUS
  <2>2. RowsUpTo(t, 0) = 0
    <3>1. Rows[t] \in Nat  BY <1>1, RowsAssumption DEF Splittable
    <3>2. Rows[t] \div children \in Nat  BY <1>1, <3>1, DivModAreNat
    <3> DEFINE q == Rows[t] \div children
    <3>3. RowsUpTo(t, 0) = q * 0 + 0  BY <1>1 DEF RowsUpTo
    <3> HIDE DEF q
    <3> QED BY <3>2, <3>3 DEF q
  <2>3. UpTo(t, 0) = <<>>
    BY <2>2 DEF UpTo
  <2> QED BY <2>1, <2>3, FlattenEmpty
<1>4. ASSUME NEW m \in X PROVE m + 1 \in X
  <2> SUFFICES ASSUME m + 1 <= children
               PROVE  FlattenSeq(Files(m + 1)) = UpTo(t, m + 1)
    OBVIOUS
  <2> DEFINE f == file[t][m + 1]
  <2>1. m \in Nat /\ m <= children /\ m + 1 \in Nat /\ m + 1 \in 1..children /\ f \in Seq(Row(t))
    BY <1>1
  <2>2. /\ RowsUpTo(t, m) \in Nat /\ RowsUpTo(t, m + 1) \in Nat
        /\ FirstRow(t, m + 1) = RowsUpTo(t, m) + 1
        /\ RowsUpTo(t, m + 1) = RowsUpTo(t, m) + FullCount(t, m + 1)
    BY <1>1, <2>1, ChunksFollow
  <2>3. Files(m + 1) = Append(Files(m), f)
    <3>1. /\ Files(m) \in Seq(Seq(Row(t))) /\ Files(m + 1) \in Seq(Seq(Row(t)))
          /\ Len(Files(m)) = m /\ Len(Files(m + 1)) = m + 1
      BY <1>2, <2>1
    <3>2. /\ \A i \in 1..m : Files(m + 1)[i] = Files(m)[i]
          /\ Files(m + 1)[m + 1] = f
      BY <2>1
    <3> HIDE DEF Files, f
    <3> QED BY <2>1, <3>1, <3>2, IsAppend
  <2>4. FlattenSeq(Files(m + 1)) = UpTo(t, m) \o f
    <3>1. FlattenSeq(Append(Files(m), f)) = FlattenSeq(Files(m)) \o f
      <4>1. Files(m) \in Seq(Seq(Row(t)))  BY <1>2, <2>1
      <4> HIDE DEF Files, f
      <4> QED BY <2>1, <4>1, FlattenAppend
    <3>2. FlattenSeq(Files(m)) = UpTo(t, m)
      BY <2>1
    <3> QED BY <2>3, <3>1, <3>2
  <2>5. \A k \in {m, m + 1} : /\ UpTo(t, k) \in Seq(Row(t))
                              /\ Len(UpTo(t, k)) = RowsUpTo(t, k)
                              /\ \A i \in 1..RowsUpTo(t, k) : UpTo(t, k)[i] = Canonical(t, i)
    <3> TAKE k \in {m, m + 1}
    <3>1. RowsUpTo(t, k) \in Nat  BY <2>2
    <3>2. \A i \in 1..RowsUpTo(t, k) : Canonical(t, i) \in Row(t)
      BY <1>1, <3>1, CanonicalIsARow DEF Splittable
    <3> QED BY <3>1, <3>2 DEF UpTo
  <2>6. /\ Len(f) = FullCount(t, m + 1)
        /\ \A k \in 1..Len(f) : f[k] = Canonical(t, FirstRow(t, m + 1) + k - 1)
    <3>1. m + 1 \in Procs /\ phase[m + 1] = "exit"
      BY <1>1, <2>1 DEF AllExited
    <3> QED BY <2>1, <3>1, WholeShare
  <2> HIDE DEF f
  <2>7. UpTo(t, m) \o f = UpTo(t, m + 1)
    <3>1. Len(UpTo(t, m + 1)) = Len(UpTo(t, m)) + Len(f)
      BY <2>2, <2>5, <2>6
    <3>2. \A i \in 1..Len(UpTo(t, m)) : UpTo(t, m + 1)[i] = UpTo(t, m)[i]
      <4> TAKE i \in 1..Len(UpTo(t, m))
      <4>1. i \in 1..RowsUpTo(t, m) /\ i \in 1..RowsUpTo(t, m + 1)
        <5>1. FullCount(t, m + 1) \in Nat  BY <2>1, <2>6
        <5> QED BY <2>2, <2>5, <5>1
      <4> QED BY <2>5, <4>1
    <3>3. \A i \in 1..Len(f) : UpTo(t, m + 1)[Len(UpTo(t, m)) + i] = f[i]
      <4> TAKE i \in 1..Len(f)
      <4>1. Len(f) \in Nat /\ i \in Nat /\ i >= 1 /\ i <= Len(f)  BY <2>1
      <4>2. /\ RowsUpTo(t, m) + i \in 1..RowsUpTo(t, m + 1)
            /\ RowsUpTo(t, m) + i = FirstRow(t, m + 1) + i - 1
        BY <2>2, <2>6, <4>1
      <4> QED BY <2>5, <2>6, <4>2
    <3> QED BY <2>1, <2>5, <3>1, <3>2, <3>3, ConcatIs
  <2> QED BY <2>4, <2>7
<1>5. X = Nat
  <2> HIDE DEF X
  <2>1. X \subseteq Nat  BY DEF X
  <2> QED BY <1>3, <1>4, <2>1, SetInduction
<1> QED BY <1>5

\* However many processes share the tables, and whatever -T selects: when all of
\* them have exited, the chunk files of a table are, in their order, the table,
\* with no row missing, doubled or out of place.
THEOREM ChunksMakeTheTable == Spec => []ChunksAreTheTable
<1>1. TypeOK /\ IInv /\ (\A p \in Procs : CountInv(p)) => ChunksAreTheTable
  <2> SUFFICES ASSUME TypeOK, IInv, \A p \in Procs : CountInv(p), AllExited, NEW t \in selected
               PROVE  LET whole == [i \in 1..Rows[t] |-> Canonical(t, i)]
                      IN  IF t \in CodeTables
                          THEN \A p \in 1..children : file[t][p] = whole
                          ELSE FlattenSeq([p \in 1..children |-> file[t][p]]) = whole
    BY DEF ChunksAreTheTable
  <2> DEFINE whole == [i \in 1..Rows[t] |-> Canonical(t, i)]
  <2>1. /\ children \in Nat \ {0} /\ t \in Tables /\ Rows[t] \in Nat
        /\ \A p \in 1..children : p \in Procs /\ phase[p] = "exit"
    BY SelectedTables, RowsAssumption, MaxChildrenAssumption DEF TypeOK, Procs, AllExited
  <2>2. ASSUME t \in CodeTables, NEW p \in 1..children PROVE file[t][p] = whole
    <3>1. /\ file[t][p] \in Seq(Row(t)) /\ Len(file[t][p]) = FullCount(t, p)
          /\ \A k \in 1..Len(file[t][p]) : file[t][p][k] = Canonical(t, FirstRow(t, p) + k - 1)
      BY <2>1, WholeShare
    <3>2. FullCount(t, p) = Rows[t] /\ FirstRow(t, p) = 1
      BY <2>2 DEF FullCount, FirstRow
    <3>3. \A k \in 1..Rows[t] : file[t][p][k] = Canonical(t, k)
      <4> TAKE k \in 1..Rows[t]
      <4>1. 1 + k - 1 = k  OBVIOUS
      <4> QED BY <3>1, <3>2, <4>1
    <3>4. DOMAIN file[t][p] = 1..Rows[t] /\ file[t][p] = [k \in 1..Rows[t] |-> file[t][p][k]]
      BY <3>1, <3>2
    <3> QED BY <3>3, <3>4
  <2>3. ASSUME t \notin CodeTables
        PROVE  FlattenSeq([p \in 1..children |-> file[t][p]]) = whole
    <3>1. FlattenSeq([p \in 1..children |-> file[t][p]]) = UpTo(t, children)
      BY <2>1, <2>3, FirstChunks
    <3>2. RowsUpTo(t, children) = Rows[t]
      <4>1. RowsUpTo(t, children) = (Rows[t] \div children) * children + (Rows[t] % children)
        BY DEF RowsUpTo
      <4>2. Rows[t] = children * (Rows[t] \div children) + (Rows[t] % children)
        BY <2>1, Division
      <4>3. Rows[t] \div children \in Nat /\ Rows[t] % children \in Nat
        BY <2>1, DivModAreNat
      <4> DEFINE q == Rows[t] \div children
                 r == Rows[t] % children
      <4>4. q * children = children * q
        <5> HIDE DEF q
        <5> QED BY <2>1, <4>3 DEF q
      <4> QED BY <4>1, <4>2, <4>4
    <3>3. UpTo(t, children) = whole
      BY <3>2 DEF UpTo
    <3> QED BY <3>1, <3>3
  <2> QED BY <2>2, <2>3
<1> QED BY <1>1, Invariance, CountInvariance, PTL

-----------------------------------------------------------------------------
(* Dbgen implements the safety part of DataSet.                            *)

\* Position k of the file of process p has the row that follows the k - 1 first.
LEMMA RowNumbers ==
  ASSUME TypeOK, IInv, NEW t \in Tables, NEW i \in Int, NEW p \in Procs, NEW k,
         FirstRow(t, p) \in Int
  PROVE  <<p, k>> \in Places(t, i)
           <=> k \in 1..Len(file[t][p]) /\ FirstRow(t, p) + k - 1 = i
<1>1. file[t][p] \in Seq(Row(t))
  BY DEF TypeOK
<1>2. <<p, k>> \in Places(t, i)
        <=> k \in 1..Len(file[t][p]) /\ file[t][p][k] = Canonical(t, i)
  BY <1>1 DEF Places
<1>3. ASSUME k \in 1..Len(file[t][p])
      PROVE  file[t][p][k] = Canonical(t, FirstRow(t, p) + k - 1)
  BY <1>3 DEF IInv, RowsCanonical
<1>4. \A j \in Int : Canonical(t, j).key = j
  BY DEF Canonical, RowOf
<1>5. ASSUME k \in 1..Len(file[t][p])
      PROVE  FirstRow(t, p) + k - 1 \in Int
  BY <1>1, <1>5
<1> QED BY <1>2, <1>3, <1>4, <1>5

\* The chunks of a table do not overlap, and none goes beyond its last row.
LEMMA ChunksAreApart ==
  ASSUME TypeOK, NEW t \in Splittable, NEW p \in 1..children
  PROVE  /\ FirstRow(t, p) \in Nat \ {0} /\ FullCount(t, p) \in Nat
         /\ FirstRow(t, p) + FullCount(t, p) <= Rows[t] + 1
         /\ \A q \in 1..children : p < q => FirstRow(t, p) + FullCount(t, p) <= FirstRow(t, q)
<1> DEFINE c == children
           size == Rows[t] \div c
           rest == Rows[t] % c
           Start(q) == size * (q - 1) + 1
<1>1. /\ c \in Nat \ {0} /\ Rows[t] \in Nat /\ size \in Nat /\ rest \in Nat
      /\ Rows[t] = c * size + rest
  <2>1. c \in Nat \ {0} /\ Rows[t] \in Nat
    BY RowsAssumption, MaxChildrenAssumption DEF TypeOK, Procs, Splittable
  <2>2. size \in Nat /\ rest \in Nat
    BY <2>1, DivModAreNat
  <2>3. Rows[t] = c * (Rows[t] \div c) + (Rows[t] % c)
    BY <2>1, Division
  <2> QED BY <2>1, <2>2, <2>3
<1>2. ASSUME NEW q \in 1..c
      PROVE  /\ FirstRow(t, q) = size * (q - 1) + 1
             /\ FullCount(t, q) = size + (IF q = c THEN rest ELSE 0)
             /\ (q - 1) * size \in Nat /\ size * (q - 1) = (q - 1) * size
             /\ q * size = (q - 1) * size + size
  <2>1. /\ q - 1 \in Nat /\ (q - 1) + 1 = q /\ (q - 1) + 1 <= children
    BY <1>1
  <2>2. /\ FirstRow(t, q) = RowsUpTo(t, q - 1) + 1
        /\ RowsUpTo(t, q) = RowsUpTo(t, q - 1) + FullCount(t, q)
        /\ RowsUpTo(t, q - 1) \in Nat /\ RowsUpTo(t, q) \in Nat
    <3> DEFINE n == q - 1
    <3>1. n \in Nat /\ n + 1 = q /\ n + 1 <= children
      BY <2>1
    <3> HIDE DEF n
    <3>2. /\ RowsUpTo(t, n) \in Nat /\ RowsUpTo(t, n + 1) \in Nat
          /\ FirstRow(t, n + 1) = RowsUpTo(t, n) + 1
          /\ RowsUpTo(t, n + 1) = RowsUpTo(t, n) + FullCount(t, n + 1)
      BY <3>1, ChunksFollow
    <3> QED BY <3>1, <3>2 DEF n
  <2>3. RowsUpTo(t, q - 1) = size * (q - 1) + 0
    <3>1. q - 1 # children  BY <1>1
    <3> QED BY <3>1 DEF RowsUpTo
  <2>4. RowsUpTo(t, q) = size * q + (IF q = c THEN rest ELSE 0)
    BY DEF RowsUpTo
  <2> HIDE DEF size, rest, c
  <2>5. size * (q - 1) \in Nat /\ size * q = size * (q - 1) + size
    BY <1>1, <2>1, ProductIsNat
  <2>6. size * (q - 1) = (q - 1) * size /\ q * size = size * q
    BY <1>1, <2>1
  <2> DEFINE x == size * (q - 1)
             y == IF q = c THEN rest ELSE 0
             full == FullCount(t, q)
  <2>7. y \in Nat  BY <1>1
  <2>8. x \in Nat /\ RowsUpTo(t, q - 1) = x + 0 /\ RowsUpTo(t, q) = (x + size) + y
    BY <2>3, <2>4, <2>5
  <2>9. full = size + y
    <3>1. full \in Int
      <4>1. Rows[t] \in Nat /\ children \in Nat \ {0}  BY <1>1 DEF c
      <4>2. Rows[t] \div children \in Nat /\ Rows[t] % children \in Nat  BY <4>1, DivModAreNat
      <4> QED BY <4>1, <4>2 DEF FullCount, ChunkCount
    <3> HIDE DEF x, y, full
    <3> QED BY <1>1, <2>2, <2>7, <2>8, <3>1 DEF full
  <2> QED BY <2>2, <2>3, <2>5, <2>6, <2>9
<1> HIDE DEF c, size, rest
<1>3. p \in 1..c  BY DEF c
<1>4. (p - 1) * size \in Nat /\ size * (p - 1) = (p - 1) * size /\ p * size = (p - 1) * size + size
  BY <1>2, <1>3
<1>5. FirstRow(t, p) = (p - 1) * size + 1
  BY <1>2, <1>3, <1>4
<1>6. FullCount(t, p) = size + (IF p = c THEN rest ELSE 0)
  BY <1>2, <1>3
<1>7. FirstRow(t, p) \in Nat \ {0} /\ FullCount(t, p) \in Nat
  BY <1>1, <1>4, <1>5, <1>6
<1>8. FirstRow(t, p) + FullCount(t, p) <= Rows[t] + 1
  <2> DEFINE x == (p - 1) * size
             y == p * size
             z == c * size
  <2>1. y <= z
    BY <1>1, <1>3, Monotone
  <2>2. x \in Nat /\ y = x + size /\ z \in Nat /\ Rows[t] = z + rest
    BY <1>1, <1>4, ProductIsNat
  <2>3. FirstRow(t, p) = x + 1  BY <1>5
  <2> HIDE DEF x, y, z
  <2> QED BY <1>1, <1>6, <2>1, <2>2, <2>3
<1>9. ASSUME NEW q \in 1..children, p < q
      PROVE  FirstRow(t, p) + FullCount(t, p) <= FirstRow(t, q)
  <2> DEFINE x == (p - 1) * size
             y == p * size
             z == (q - 1) * size
  <2>1. q \in 1..c /\ q - 1 \in Nat /\ p <= q - 1 /\ p # c /\ p \in Nat
    BY <1>1, <1>9 DEF c
  <2>2. y <= z
    BY <1>1, <2>1, Monotone
  <2>3. FirstRow(t, q) = z + 1 /\ z \in Nat
    BY <1>2, <2>1
  <2>4. x \in Nat /\ y = x + size /\ FirstRow(t, p) = x + 1 /\ FullCount(t, p) = size + 0
    BY <1>4, <1>5, <1>6, <2>1
  <2> HIDE DEF x, y, z
  <2> QED BY <1>1, <2>2, <2>3, <2>4
<1> QED BY <1>7, <1>8, <1>9

\* No process writes more than its share.
LEMMA WithinShare ==
  ASSUME TypeOK, IInv, NEW p \in Procs, CountInv(p), NEW t \in selected, t \notin CodeTables
  PROVE  /\ p > children => Len(file[t][p]) = 0
         /\ p <= children => Len(file[t][p]) <= FullCount(t, p)
<1>1. /\ t \in Splittable /\ t \in Tables /\ Len(<<>>) = 0
      /\ children \in Nat /\ p \in Nat
  BY SelectedTables, MaxChildrenAssumption DEF Splittable, TypeOK, Procs
<1>2. CASE p > children
  BY <1>1, <1>2, MaxChildrenAssumption DEF CountInv, Procs
<1>3. CASE p <= children
  <2>1. p \in 1..children  BY <1>1, <1>3, MaxChildrenAssumption DEF Procs
  <2>2. FullCount(t, p) \in Nat  BY <1>1, <2>1, ChunksAreApart
  <2>3. PICK k \in 1..10 : t = TableOrder[k]  BY <1>1, EveryTableHasItsPlace
  <2>4. Len(file[t][p]) \in Nat /\ left[p] \in Nat  BY <1>1 DEF TypeOK
  <2>5. tnum[p] \in 1..11  BY PlaceOfTable
  <2>6. CASE k < tnum[p]
    <3>1. Len(file[t][p]) = FullCount(t, p)  BY <2>3, <2>6 DEF CountInv
    <3> QED BY <1>1, <1>3, <2>2, <3>1
  <2>7. CASE k = tnum[p] /\ phase[p] = "gen"
    <3>1. Len(file[t][p]) + left[p] = FullCount(t, p)  BY <2>3, <2>7 DEF CountInv
    <3> QED BY <1>1, <1>3, <2>2, <2>4, <3>1
  <2>8. CASE k > tnum[p] \/ (k = tnum[p] /\ phase[p] # "gen")
    <3>1. t \in Ahead(p)  BY <2>3, <2>5, <2>8, TableOrderIsAPermutation DEF Ahead
    <3>2. file[t][p] = <<>>  BY <3>1 DEF IInv, ProcInv, AheadUntouched
    <3> QED BY <1>1, <1>3, <2>2, <3>2
  <2> QED BY <2>5, <2>6, <2>7, <2>8
<1> QED BY <1>1, <1>2, <1>3, MaxChildrenAssumption DEF Procs

LEMMA PlacesArePairs ==
  ASSUME NEW t, NEW i, NEW x
  PROVE  x \in Places(t, i)
           <=> \E p \in Procs : \E k \in DOMAIN file[t][p] :
                 x = <<p, k>> /\ file[t][p][k] = Canonical(t, i)
BY DEF Places

\* A row that is appended to a file is in one more place.
LEMMA PlacesAfterAppend ==
  ASSUME TypeOK, NEW p \in Procs, NEW t \in Tables, NEW r \in Row(t),
         file' = [file EXCEPT ![t][p] = Append(@, r)], NEW j
  PROVE  /\ Places(t, j)' = IF r = Canonical(t, j)
                            THEN Places(t, j) \cup {<<p, Len(file[t][p]) + 1>>}
                            ELSE Places(t, j)
         /\ \A u \in Tables \ {t} : Places(u, j)' = Places(u, j)
<1> DEFINE f == file[t][p]
           n == Len(f) + 1
<1>1. /\ file'[t][p] = Append(f, r) /\ f \in Seq(Row(t))
      /\ \A q \in Procs \ {p} : file'[t][q] = file[t][q]
      /\ \A u \in Tables \ {t} : \A q \in Procs : file'[u][q] = file[u][q]
  BY DEF TypeOK
<1>2. /\ DOMAIN f = 1..Len(f) /\ Len(f) \in Nat
      /\ DOMAIN file'[t][p] = (DOMAIN f) \cup {n}
      /\ n \notin DOMAIN f
      /\ \A k \in DOMAIN f : file'[t][p][k] = f[k]
      /\ file'[t][p][n] = r
  <2>1. /\ Len(Append(f, r)) = n /\ DOMAIN Append(f, r) = 1..n /\ DOMAIN f = 1..Len(f)
        /\ Len(f) \in Nat /\ Append(f, r)[n] = r
        /\ \A k \in 1..Len(f) : Append(f, r)[k] = f[k]
    <3> HIDE DEF f
    <3> QED BY <1>1
  <2> HIDE DEF f
  <2> QED BY <1>1, <2>1
<1> HIDE DEF f, n
<1>3. \A x : x \in Places(t, j)' <=>
        \E q \in Procs : \E k \in DOMAIN file'[t][q] :
          x = <<q, k>> /\ file'[t][q][k] = Canonical(t, j)
  BY DEF Places
<1>4. \A x : x \in Places(t, j) <=>
        \E q \in Procs : \E k \in DOMAIN file[t][q] :
          x = <<q, k>> /\ file[t][q][k] = Canonical(t, j)
  BY PlacesArePairs
<1>5. \A x : x \in Places(t, j)' <=> x \in Places(t, j) \/ (x = <<p, n>> /\ r = Canonical(t, j))
  <2> TAKE x
  <2>1. ASSUME x \in Places(t, j)'
        PROVE  x \in Places(t, j) \/ (x = <<p, n>> /\ r = Canonical(t, j))
    <3>0. PICK q \in Procs : \E k \in DOMAIN file'[t][q] :
            x = <<q, k>> /\ file'[t][q][k] = Canonical(t, j)
      BY <1>3, <2>1
    <3>1. PICK k \in DOMAIN file'[t][q] : x = <<q, k>> /\ file'[t][q][k] = Canonical(t, j)
      BY <3>0
    <3>2. CASE q # p
      BY <1>1, <1>4, <3>1, <3>2
    <3>3. CASE q = p /\ k = n
      BY <1>2, <3>1, <3>3
    <3>4. CASE q = p /\ k # n
      <4>1. k \in DOMAIN f /\ f[k] = Canonical(t, j)
        BY <1>2, <3>1, <3>4
      <4> QED BY <1>4, <3>1, <3>4, <4>1 DEF f
    <3> QED BY <3>2, <3>3, <3>4
  <2>2. ASSUME x \in Places(t, j)
        PROVE  x \in Places(t, j)'
    <3>0. PICK q \in Procs : \E k \in DOMAIN file[t][q] :
            x = <<q, k>> /\ file[t][q][k] = Canonical(t, j)
      BY <1>4, <2>2
    <3>1. PICK k \in DOMAIN file[t][q] : x = <<q, k>> /\ file[t][q][k] = Canonical(t, j)
      BY <3>0
    <3>2. CASE q # p
      BY <1>1, <1>3, <3>1, <3>2
    <3>3. CASE q = p
      <4>1. k \in DOMAIN f /\ f[k] = Canonical(t, j)
        BY <3>1, <3>3 DEF f
      <4>2. k \in DOMAIN file'[t][p] /\ file'[t][p][k] = Canonical(t, j)
        BY <1>2, <4>1
      <4> QED BY <1>3, <3>1, <3>3, <4>2
    <3> QED BY <3>2, <3>3
  <2>3. ASSUME x = <<p, n>>, r = Canonical(t, j)
        PROVE  x \in Places(t, j)'
    BY <1>2, <1>3, <2>3
  <2> QED BY <2>1, <2>2, <2>3
<1>6. ASSUME NEW u \in Tables \ {t} PROVE Places(u, j)' = Places(u, j)
  BY <1>1 DEF Places
<1> QED BY <1>5, <1>6 DEF f, n

\* Row f + l of a chunk of c rows beginning at f, with l written, is in a table of
\* n rows, and in no chunk behind or before it.
LEMMA InChunk ==
  ASSUME NEW f \in Nat \ {0}, NEW c \in Nat, NEW l \in Nat, l < c
  PROVE  /\ \A n \in Nat : f + c <= n + 1 => f + l \in 1..n
         /\ \A g \in Nat, k \in Nat \ {0} : f + c <= g => g + k - 1 # f + l
         /\ \A g, d, m \in Nat : \A k \in 1..m : g + d <= f /\ m <= d => g + k - 1 # f + l
OBVIOUS

\* The row that a process writes next has not been written anywhere.
LEMMA NextRowIsNew ==
  ASSUME NEW p \in Procs, NEW t \in Splittable, TypeOK, IInv, \A q \in Procs : CountInv(q),
         GenRow(p, t)
  PROVE  t \in selected /\ row[p] \in 1..Rows[t] /\ Places(t, row[p]) = {}
<1>1. /\ t = TableOrder[tnum[p]] /\ t \in selected /\ t \in Tables /\ t \notin CodeTables
      /\ row[p] = FirstRow(t, p) + Len(file[t][p])
      /\ phase[p] = "gen" /\ p \in 1..children
  <2>1. p <= children /\ children \in Nat
    BY DEF IInv, ProcInv, GenRow, TypeOK, Procs
  <2> QED BY <2>1, TableOrderIsAPermutation
          DEF IInv, ProcInv, AtRowBoundary, GenRow, Splittable, Procs
<1>2. /\ FirstRow(t, p) \in Nat \ {0} /\ FullCount(t, p) \in Nat
      /\ FirstRow(t, p) + FullCount(t, p) <= Rows[t] + 1
      /\ \A q \in 1..children : p < q => FirstRow(t, p) + FullCount(t, p) <= FirstRow(t, q)
  BY <1>1, ChunksAreApart
<1>3. Len(file[t][p]) \in Nat /\ Len(file[t][p]) < FullCount(t, p) /\ Rows[t] \in Nat
  <2>1. Len(file[t][p]) + left[p] = FullCount(t, p)
    BY <1>1 DEF CountInv
  <2>2. left[p] > 0 /\ left[p] \in Nat /\ Len(file[t][p]) \in Nat /\ Rows[t] \in Nat
    BY <1>1, RowsAssumption DEF GenRow, MoreRows, TypeOK
  <2> QED BY <1>2, <2>1, <2>2
<1> DEFINE f == FirstRow(t, p)
           c == FullCount(t, p)
           l == Len(file[t][p])
<1>a. /\ \A n \in Nat : f + c <= n + 1 => f + l \in 1..n
      /\ \A g \in Nat, k \in Nat \ {0} : f + c <= g => g + k - 1 # f + l
      /\ \A g, d, m \in Nat : \A k \in 1..m : g + d <= f /\ m <= d => g + k - 1 # f + l
  <2>1. f \in Nat \ {0} /\ c \in Nat /\ l \in Nat /\ l < c
    BY <1>2, <1>3
  <2> HIDE DEF f, c, l
  <2> QED BY <2>1, InChunk
<1>b. row[p] = f + l
  BY <1>1
<1> HIDE DEF f, c, l
<1>4. row[p] \in 1..Rows[t]
  <2>1. f + c <= Rows[t] + 1  BY <1>2 DEF f, c
  <2> QED BY <1>3, <1>a, <1>b, <2>1
<1>5. ASSUME NEW x \in Places(t, row[p]) PROVE FALSE
  <2>0. PICK q \in Procs : \E k \in DOMAIN file[t][q] : x = <<q, k>>
    BY PlacesArePairs
  <2>1. PICK k \in DOMAIN file[t][q] : x = <<q, k>>
    BY <2>0
  <2>2. k \in 1..Len(file[t][q]) /\ q \in Nat /\ children \in Nat
    <3>1. file[t][q] \in Seq(Row(t))
      BY <1>1 DEF TypeOK
    <3>2. k \in 1..Len(file[t][q])
      BY <2>1, <3>1
    <3>3. q \in Nat /\ children \in Nat
      <4>1. children \in Procs  BY DEF TypeOK
      <4> QED BY <2>0, <4>1, MaxChildrenAssumption DEF Procs
    <3> QED BY <3>2, <3>3
  <2>3. CASE q > children
    <3>1. Len(file[t][q]) = 0
      BY <1>1, <2>3, WithinShare
    <3> QED BY <2>2, <3>1
  <2>4. CASE q <= children
    <3>1. q \in 1..children
      BY <2>2, <2>4, MaxChildrenAssumption DEF Procs
    <3>2. /\ FirstRow(t, q) \in Nat \ {0} /\ FullCount(t, q) \in Nat
          /\ \A o \in 1..children : q < o => FirstRow(t, q) + FullCount(t, q) <= FirstRow(t, o)
      BY <3>1, ChunksAreApart
    <3>3. k \in 1..Len(file[t][q]) /\ FirstRow(t, q) + k - 1 = row[p]
      <4>1. row[p] \in Int  BY <1>4
      <4> QED BY <1>1, <2>1, <3>2, <4>1, RowNumbers
    <3>4. Len(file[t][q]) \in Nat /\ Len(file[t][q]) <= FullCount(t, q)
      BY <1>1, <2>2, <2>4, WithinShare
    <3>5. CASE q = p
      <4>1. f + k - 1 = f + l /\ k <= l
        BY <1>b, <3>3, <3>5 DEF f, l
      <4>2. f \in Nat /\ l \in Nat /\ k \in Nat
        BY <1>2, <1>3, <3>3 DEF f, l
      <4> QED BY <4>1, <4>2
    <3>6. CASE p < q
      <4>1. f + c <= FirstRow(t, q)
        BY <1>2, <3>1, <3>6 DEF f, c
      <4>2. FirstRow(t, q) + k - 1 # f + l
        <5>1. FirstRow(t, q) \in Nat /\ k \in Nat \ {0}
          BY <3>2, <3>3
        <5> QED BY <1>a, <4>1, <5>1
      <4> QED BY <1>b, <3>3, <4>2
    <3>7. CASE q < p
      <4>1. FirstRow(t, q) + FullCount(t, q) <= FirstRow(t, p)
        BY <1>1, <3>2, <3>7
      <4>2. FirstRow(t, q) + k - 1 # f + l
        <5>1. FirstRow(t, q) + FullCount(t, q) <= f
          BY <4>1 DEF f
        <5> QED BY <1>a, <3>2, <3>3, <3>4, <5>1
      <4> QED BY <1>b, <3>3, <4>2
    <3> QED BY <1>1, <2>2, <3>5, <3>6, <3>7
  <2> QED BY <2>2, <2>3, <2>4
<1> QED BY <1>1, <1>4, <1>5

\* A new row is a step of the promise.
LEMMA GenRowWrites ==
  ASSUME NEW p \in Procs, NEW t \in Splittable, TypeOK, IInv, \A q \in Procs : CountInv(q),
         GenRow(p, t)
  PROVE  Promise!Next
<1>0. PICK i, r : i = row[p] /\ r = RowOf(t, row[p], seed[p])
  OBVIOUS
<1>1. t \in selected /\ i \in 1..Rows[t] /\ Places(t, i) = {}
  BY <1>0, NextRowIsNew
<1>2. t \in Tables /\ t \notin CodeTables
  BY DEF Splittable
<1>3. r = Canonical(t, i) /\ r \in Row(t)
  <2>1. t = TableOrder[tnum[p]] /\ \A s \in Reads(t) : seed[p][s] = Position(i, s)
    BY <1>0 DEF IInv, ProcInv, AtRowBoundary, GenRow
  <2>2. i \in Nat /\ seed[p] \in [Streams -> Nat]
    BY <1>0 DEF TypeOK
  <2> QED BY <1>0, <1>2, <2>1, <2>2, RowOfIsARow, ReadsAreStreams DEF Canonical, RowOf
<1>4. file' = [file EXCEPT ![t][p] = Append(@, r)] /\ UNCHANGED selected
  BY <1>0 DEF GenRow
<1>5. \A j \in Int : Canonical(t, j).key = j
  BY DEF Canonical, RowOf
<1>c. ASSUME NEW j
      PROVE  Places(t, j)' = IF r = Canonical(t, j)
                             THEN Places(t, j) \cup {<<p, Len(file[t][p]) + 1>>}
                             ELSE Places(t, j)
  <2>1. file' = [file EXCEPT ![t][p] = Append(@, r)]  BY <1>4
  <2>2. t \in Tables /\ r \in Row(t)  BY <1>2, <1>3
  <2> QED BY <2>1, <2>2, PlacesAfterAppend, ZenonT(60)
<1>6. \A j \in 1..Rows[t] : j # i => Places(t, j)' = Places(t, j)
  <2> TAKE j \in 1..Rows[t]
  <2> HAVE j # i
  <2>1. r # Canonical(t, j)
    <3>1. i \in Int /\ j \in Int  BY <1>1, RowsAssumption
    <3> QED BY <1>3, <1>5, <3>1
  <2> QED BY <1>c, <2>1
<1>7. Cardinality(Places(t, i)) = 0 /\ Cardinality(Places(t, i)') = 1
  <2>1. Places(t, i)' = {<<p, Len(file[t][p]) + 1>>}
    <3> QED BY <1>1, <1>3, <1>c
  <2> QED BY <1>1, <2>1, FS_EmptySet, FS_Singleton
<1>8. \A u \in Splittable \ {t} : \A j : Places(u, j)' = Places(u, j)
  BY <1>2, <1>3, <1>4, PlacesAfterAppend DEF Splittable
<1>9. Written[t][i] = 0
  BY <1>1, <1>7 DEF Written
<1>10. Written' = [Written EXCEPT ![t][i] = 1]
  <2>1. Written' = [u \in Splittable |-> [j \in 1..Rows[u] |-> Cardinality(Places(u, j)')]]
    BY DEF Written
  <2>2. [Written EXCEPT ![t][i] = 1]
          = [u \in Splittable |-> [j \in 1..Rows[u] |->
               IF u = t /\ j = i THEN 1 ELSE Cardinality(Places(u, j))]]
    BY <1>1 DEF Written
  <2>3. ASSUME NEW u \in Splittable, NEW j \in 1..Rows[u]
        PROVE  Cardinality(Places(u, j)')
                 = IF u = t /\ j = i THEN 1 ELSE Cardinality(Places(u, j))
    BY <1>6, <1>7, <1>8
  <2>4. ASSUME NEW u \in Splittable
        PROVE  [j \in 1..Rows[u] |-> Cardinality(Places(u, j)')]
                 = [j \in 1..Rows[u] |->
                      IF u = t /\ j = i THEN 1 ELSE Cardinality(Places(u, j))]
    BY <2>3
  <2> QED BY <2>1, <2>2, <2>4
<1>11. Promise!Write(t, i)
  BY <1>4, <1>9, <1>10 DEF Promise!Write
<1> QED BY <1>1, <1>2, <1>11 DEF Promise!Next

LEMMA InitPromises == Init => Promise!Init
<1> SUFFICES ASSUME Init PROVE Promise!Init
  OBVIOUS
<1>1. selected \subseteq Tables
  BY CommandsAssumption DEF Init, TableOptions, Tables
<1>2. ASSUME NEW t \in Splittable, NEW i \in 1..Rows[t] PROVE Cardinality(Places(t, i)) = 0
  <2>1. \A p \in Procs : DOMAIN file[t][p] = {}
    BY DEF Init, Splittable
  <2>2. Places(t, i) = {}
    BY <2>1, PlacesArePairs
  <2> QED BY <2>2, FS_EmptySet
<1>3. Written = [t \in Splittable |-> [i \in 1..Rows[t] |-> 0]]
  BY <1>2 DEF Written
<1> QED BY <1>1, <1>3 DEF Promise!Init, Splittable

\* Where no file of a table that can be split changes, nothing is written.
LEMMA WrittenStays ==
  ASSUME UNCHANGED selected,
         \A t \in Splittable : \A i : Places(t, i)' = Places(t, i)
  PROVE  UNCHANGED Promise!vars
<1>1. Written' = [t \in Splittable |-> [i \in 1..Rows[t] |-> Cardinality(Places(t, i)')]]
  BY DEF Written
<1>2. Written' = Written
  BY <1>1 DEF Written
<1> QED BY <1>2 DEF Promise!vars

LEMMA StepPromises ==
  ASSUME TypeOK, IInv, \A p \in Procs : CountInv(p), [Next]_vars
  PROVE  [Promise!Next]_(Promise!vars)
<1>1. ASSUME NEW p \in Procs, NEW t \in Tables, GenRow(p, t)
      PROVE  [Promise!Next]_(Promise!vars)
  <2>1. CASE t \in Splittable
    BY <1>1, <2>1, GenRowWrites
  <2>2. CASE t \notin Splittable
    <3>0. PICK r : r = RowOf(t, row[p], seed[p])
      OBVIOUS
    <3>1. file' = [file EXCEPT ![t][p] = Append(@, r)] /\ UNCHANGED selected
      BY <1>1, <3>0 DEF GenRow
    <3>2. r \in Row(t)
      BY <3>0, RowOfIsARow DEF TypeOK
    <3>3. ASSUME NEW j, NEW u \in Tables \ {t} PROVE Places(u, j)' = Places(u, j)
      BY <3>1, <3>2, PlacesAfterAppend, ZenonT(60)
    <3> QED BY <2>2, <3>1, <3>3, WrittenStays DEF Splittable
  <2> QED BY <2>1, <2>2
<1>2. ASSUME UNCHANGED <<selected, file>>
      PROVE  [Promise!Next]_(Promise!vars)
  <2>1. ASSUME NEW t \in Splittable, NEW i PROVE Places(t, i)' = Places(t, i)
    BY <1>2 DEF Places
  <2> QED BY <1>2, <2>1, WrittenStays
<1>3. ASSUME NEW p \in Procs, Step(p)
      PROVE  [Promise!Next]_(Promise!vars)
  <2>1. CASE \E t \in Tables : GenRow(p, t)
    BY <1>1, <2>1
  <2>2. CASE \/ \E t \in Tables : SkipTable(p, t) \/ StartTable(p, t) \/ StartChunk(p, t)
             \/ EndTable(p) \/ Exit(p)
    <3>1. UNCHANGED <<selected, file>>
      BY <2>2 DEF SkipTable, StartTable, StartChunk, EndTable, Exit
    <3> QED BY <1>2, <3>1
  <2> QED BY <1>3, <2>1, <2>2 DEF Step
<1>4. CASE UNCHANGED vars
  BY <1>2, <1>4 DEF vars
<1> QED BY <1>3, <1>4 DEF Next, Terminated

\* The processes keep the promise of DataSet, in every order in which they run: each
\* of their steps writes one row that none of them has written before, or no row.
THEOREM ImplementsSafety == Spec => Promise!Safety
<1>1. Init => Promise!Init
  BY InitPromises
<1>2. TypeOK /\ IInv /\ (\A p \in Procs : CountInv(p)) /\ [Next]_vars
        => [Promise!Next]_(Promise!vars)
  BY StepPromises
<1> QED BY <1>1, <1>2, Invariance, CountInvariance, PTL DEF Spec, Promise!Safety

-----------------------------------------------------------------------------
(* The suppliers of a part.  The primary key of PARTSUPP holds at every    *)
(* scale factor from 0.023 on: below, two suppliers of a part can be the   *)
(* same one.                                                               *)

LEMMA DivMod ==
  ASSUME NEW n \in Nat, NEW d \in Nat \ {0}
  PROVE  /\ n \div d \in Nat
         /\ n % d \in 0..(d - 1)
         /\ n = d * (n \div d) + (n % d)
<1>1. n \div d \in Nat
  OBVIOUS
<1>2. n % d \in 0..(d - 1)
  OBVIOUS
<1>3. n = d * (n \div d) + (n % d)
  OBVIOUS
<1> QED BY <1>1, <1>2, <1>3

LEMMA ProductAtLeast ==
  ASSUME NEW t \in Nat \ {0}, NEW c \in Int, NEW k \in Int, k >= c
  PROVE  t * k >= t * c
<1>1. t * k - t * c = t * (k - c)
  OBVIOUS
<1>2. t * (k - c) >= 0
  OBVIOUS
<1>3. t * k \in Int /\ t * c \in Int
  OBVIOUS
<1> QED BY <1>1, <1>2, <1>3

\* Two numbers with the same remainder are a multiple of the divisor apart, so
\* they are the same number or at least the divisor apart.
LEMMA SameRemainder ==
  ASSUME NEW a \in Nat, NEW b \in Nat, NEW t \in Nat \ {0}, a % t = b % t, a < b
  PROVE  b - a >= t
<1> DEFINE x == a \div t
           y == b \div t
<1>1. /\ x \in Nat /\ y \in Nat /\ a % t \in Nat
      /\ a = t * x + (a % t) /\ b = t * y + (a % t)
  <2>1. x \in Nat /\ a % t \in 0..(t - 1) /\ a = t * x + (a % t)
    BY DivMod
  <2>2. y \in Nat /\ b = t * y + (b % t)
    BY DivMod
  <2> HIDE DEF x, y
  <2>3. a % t \in Nat
    BY <2>1
  <2> QED BY <2>1, <2>2, <2>3
<1> HIDE DEF x, y
<1>2. t * x \in Nat /\ t * y \in Nat
  BY <1>1
<1>3. y >= x + 1
  <2> SUFFICES ASSUME x >= y PROVE FALSE
    BY <1>1
  <2>1. t * x >= t * y
    BY <1>1, ProductAtLeast
  <2> QED BY <1>1, <1>2, <2>1
<1>4. t * y >= t * (x + 1)
  BY <1>1, <1>3, ProductAtLeast
<1>5. t * (x + 1) = t * x + t
  BY <1>1
<1> QED BY <1>1, <1>2, <1>4, <1>5

LEMMA RoundOfPart ==
  ASSUME NEW t \in Nat \ {0}, NEW p \in 1..(20 * t)
  PROVE  (p - 1) \div t \in 0..19
<1> DEFINE k == (p - 1) \div t
<1>1. /\ p - 1 \in Nat /\ p - 1 < t * 20
      /\ k \in Nat /\ p - 1 = t * k + ((p - 1) % t) /\ (p - 1) % t \in Nat
  <2>1. p - 1 \in Nat /\ p - 1 < t * 20
    OBVIOUS
  <2> QED BY <2>1, DivMod
<1> HIDE DEF k
<1>2. k <= 19
  <2> SUFFICES ASSUME k >= 20 PROVE FALSE
    BY <1>1
  <2>1. t * k >= t * 20
    BY <1>1, ProductAtLeast
  <2>2. t * k \in Nat
    BY <1>1
  <2> QED BY <1>1, <2>1, <2>2
<1> QED BY <1>1, <1>2 DEF k

\* From 230 suppliers on, the suppliers of a part are less than one round of the
\* suppliers apart.
LEMMA BridgeIsInjective ==
  ASSUME NEW k \in Nat, k >= 23, NEW p \in 1..(200 * k),
         NEW r \in 0..3, NEW s \in 0..3, r < s
  PROVE  PART_SUPP_BRIDGE(p, r, 10 * k) # PART_SUPP_BRIDGE(p, s, 10 * k)
<1> DEFINE t == 10 * k
           q == t \div 4
           g == (p - 1) \div t
           a == p + r * (q + g)
           b == p + s * (q + g)
<1>1. t \in Nat \ {0} /\ t >= 230 /\ p \in 1..(20 * t) /\ p \in Nat
  OBVIOUS
<1> HIDE DEF t
<1>2. q \in Nat /\ 4 * q <= t /\ t < 4 * q + 4
  BY <1>1
<1>3. g \in 0..19
  BY <1>1, RoundOfPart
<1> HIDE DEF q, g
<1>4. /\ a \in Nat /\ b \in Nat /\ a < b
      /\ b - a <= 3 * (q + g)
  <2>1. /\ r = 0 \/ r = 1 \/ r = 2 \/ r = 3
        /\ s = 0 \/ s = 1 \/ s = 2 \/ s = 3
    OBVIOUS
  <2> QED BY <1>1, <1>2, <1>3, <2>1
<1>5. b - a < t
  BY <1>1, <1>2, <1>3, <1>4
<1> HIDE DEF a, b
<1>6. a % t # b % t
  <2> SUFFICES ASSUME a % t = b % t PROVE FALSE
    OBVIOUS
  <2>1. b - a >= t
    BY <1>1, <1>4, SameRemainder
  <2>2. t \in Nat /\ b - a \in Int
    BY <1>1, <1>4
  <2> QED BY <1>5, <2>1, <2>2
<1>7. a % t \in Nat /\ b % t \in Nat
  <2>1. a \in Nat /\ b \in Nat /\ t \in Nat \ {0}
    BY <1>1, <1>4
  <2>2. a % t \in 0..(t - 1)
    BY <2>1, DivMod
  <2>3. b % t \in 0..(t - 1)
    BY <2>1, DivMod
  <2> QED BY <2>1, <2>2, <2>3
<1>8. /\ PART_SUPP_BRIDGE(p, r, t) = (a % t) + 1
      /\ PART_SUPP_BRIDGE(p, s, t) = (b % t) + 1
  BY DEF PART_SUPP_BRIDGE, SUPP_PER_PART, a, b, q, g
<1> QED BY <1>6, <1>7, <1>8 DEF t

LEMMA PartsTyped == PartsSpec => []PartsTypeOK
<1>1. PartsInit => PartsTypeOK
  BY ScalesAssumption DEF PartsInit, PartsTypeOK, Parts
<1>2. PartsTypeOK /\ [PartsNext]_partVars => PartsTypeOK'
  BY ScalesAssumption DEF PartsTypeOK, PartsNext, NextPart, MoreParts, PartsEnd, Parts, partVars
<1> QED BY <1>1, <1>2, PTL DEF PartsSpec

\* Every row of PARTSUPP names one of the suppliers, at every scale factor:
\* what PART_SUPP_BRIDGE computes is never outside 1..tot_scnt.
THEOREM ForeignKey == PartsSpec => []SuppKeysExist
<1>1. PartsTypeOK => SuppKeysExist
  <2> SUFFICES ASSUME PartsTypeOK, NEW s \in 0..3
               PROVE  PART_SUPP_BRIDGE(part, s, 10 * scale) \in 1..(10 * scale)
    BY DEF SuppKeysExist, SuppKey, Suppliers, SUPP_PER_PART
  <2> DEFINE t == 10 * scale
             a == part + s * (t \div 4 + ((part - 1) \div t))
  <2>1. t \in Nat \ {0} /\ part - 1 \in Nat /\ part \in Nat
    BY ScalesAssumption DEF PartsTypeOK, Parts
  <2> HIDE DEF t
  <2>2. t \div 4 \in Nat /\ (part - 1) \div t \in Nat
    BY <2>1, DivMod
  <2>3. a \in Nat
    BY <2>1, <2>2
  <2> HIDE DEF a
  <2>4. a % t \in 0..(t - 1)
    BY <2>1, <2>3, DivMod
  <2>5. PART_SUPP_BRIDGE(part, s, t) = (a % t) + 1
    BY DEF PART_SUPP_BRIDGE, SUPP_PER_PART, a
  <2>6. (a % t) + 1 \in 1..t
    BY <2>1, <2>4
  <2> QED BY <2>5, <2>6 DEF t
<1> QED BY <1>1, PartsTyped, PTL

\* The primary key (PS_PARTKEY, PS_SUPPKEY) that dss.ri declares holds whenever
\* the scale factor is at least 0.023.
THEOREM PrimaryKey ==
  ASSUME \A k \in Scales : k >= 23
  PROVE  PartsSpec => []SuppKeysDistinct
<1>1. PartsTypeOK => SuppKeysDistinct
  <2> SUFFICES ASSUME PartsTypeOK, NEW r \in 0..3, NEW s \in 0..3, r # s
               PROVE  SuppKey(r) # SuppKey(s)
    BY DEF SuppKeysDistinct, SUPP_PER_PART
  <2>1. scale \in Nat /\ scale >= 23 /\ part \in 1..(200 * scale)
    BY ScalesAssumption DEF PartsTypeOK, Parts
  <2>2. CASE r < s
    BY <2>1, <2>2, BridgeIsInjective DEF SuppKey, Suppliers
  <2>3. CASE s < r
    BY <2>1, <2>3, BridgeIsInjective DEF SuppKey, Suppliers
  <2> QED BY <2>2, <2>3
<1> QED BY <1>1, PartsTyped, PTL
=============================================================================
