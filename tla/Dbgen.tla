------------------------------- MODULE Dbgen -------------------------------
(***************************************************************************)
(* dbgen building a data set: driver.c's main(), partial() and gen_tbl().  *)
(*                                                                         *)
(* A behaviour is one data set, built by `children' processes, process p   *)
(* running "dbgen -C children -S p [-T ...]"; children = 1 is the ordinary *)
(* run without -C.  The processes share nothing: each has its own seeds    *)
(* and writes its own file per table (<table>.tbl.<p>), so what has to be  *)
(* right is that the files, put one after the other, are the file of the   *)
(* one-process run.                                                        *)
(***************************************************************************)
EXTENDS DbgenTables, Sequences, FiniteSets, SequencesExt

CONSTANTS Rows,           \* Rows[t] = tdefs[t].base * scale
          MaxChildren,    \* bound on -C
          Commands,       \* the values of -C and of `table' considered
          TextPoolDraws   \* draws that fill the text pool

\* What -T can select: one option's tables, or without -T all of them.
TableOptions == {{"CUST"}, {"LINE"}, {"NATION", "REGION"}, {"NATION"}, {"ORDER"},
                 {"ORDER_LINE"}, {"PART"}, {"PART_PSUPP"}, {"REGION"}, {"PSUPP"},
                 {"SUPP"},
                 {"CUST", "SUPP", "NATION", "REGION", "PART_PSUPP", "ORDER_LINE"}}

ASSUME RowsAssumption == Rows \in [Tables -> Nat]
ASSUME MaxChildrenAssumption == MaxChildren \in Nat \ {0}
ASSUME CommandsAssumption == Commands \subseteq (1..MaxChildren) \X TableOptions
ASSUME TextPoolAssumption == TextPoolDraws \in Nat

VARIABLES children,   \* -C
          selected,   \* the bits of `table', set by -T
          phase,      \* where each process is in main()
          tnum,       \* main()'s loop variable: the table the process is at
          row,        \* gen_tbl()'s i: the next row's number
          left,       \* gen_tbl()'s count: the rows still to do
          seed,       \* Seed[].value, as a position in the stream
          pool,       \* stream 5's position when dbg_text() filled its pool
          file        \* file[t][p]: the rows p wrote for table t

vars == <<children, selected, phase, tnum, row, left, seed, pool, file>>

Procs == 1..MaxChildren

\* main() visits the tables in the order of their numbers.
TableOrder == <<"PART", "PSUPP", "SUPP", "CUST", "ORDER", "LINE",
                "ORDER_LINE", "PART_PSUPP", "NATION", "REGION">>

NotBuilt == -1

\* A row: its number and the positions its content is computed from.
RowOf(t, i, seeds) == [key |-> i, at |-> [s \in Reads(t) |-> seeds[s]]]

-----------------------------------------------------------------------------
Init == /\ \E c \in Commands : children = c[1] /\ selected = c[2]
        /\ phase = [p \in Procs |-> IF p <= children THEN "loop" ELSE "exit"]
        /\ tnum = [p \in Procs |-> 1]
        /\ row = [p \in Procs |-> 1]
        /\ left = [p \in Procs |-> 0]
        /\ seed = [p \in Procs |-> [s \in Streams |-> 0]]
        /\ pool = [p \in Procs |-> NotBuilt]
        /\ file = [t \in Tables |-> [p \in Procs |-> <<>>]]

AtTable(p, t) == /\ phase[p] = "loop"
                 /\ tnum[p] <= Len(TableOrder)
                 /\ t = TableOrder[tnum[p]]

\* Mutant: the loop variable is not advanced.
SkipTableStays(p, t) ==
  /\ AtTable(p, t)
  /\ t \notin selected
  /\ UNCHANGED vars

SkipTable(p, t) ==
  /\ AtTable(p, t)
  /\ t \notin selected
  /\ tnum' = [tnum EXCEPT ![p] = @ + 1]
  /\ UNCHANGED <<children, selected, phase, row, left, seed, pool, file>>

\* main() -> gen_tbl(): the whole table, from its first row.  The mutant does so
\* also when the table is to be split.
StartTableWhole(p, t) ==
  /\ AtTable(p, t)
  /\ t \in selected
  /\ phase' = [phase EXCEPT ![p] = "gen"]
  /\ row' = [row EXCEPT ![p] = 1]
  /\ left' = [left EXCEPT ![p] = Rows[t]]
  /\ UNCHANGED <<children, selected, tnum, seed, pool, file>>

StartTable(p, t) ==
  /\ AtTable(p, t)
  /\ t \in selected
  /\ children = 1 \/ t \in CodeTables
  /\ phase' = [phase EXCEPT ![p] = "gen"]
  /\ row' = [row EXCEPT ![p] = 1]
  /\ left' = [left EXCEPT ![p] = Rows[t]]
  /\ UNCHANGED <<children, selected, tnum, seed, pool, file>>

\* The rows of chunk p: partial() gives the last chunk the remainder.
ChunkStart(t, p, c) == (Rows[t] \div c) * (p - 1) + 1
\* Mutant: the remainder is lost.
ChunkCountEven(t, p, c) == Rows[t] \div c
ChunkCount(t, p, c) == Rows[t] \div c + (IF p = c THEN Rows[t] % c ELSE 0)

\* main() -> partial() -> set_state(), gen_tbl(): the p-th part of the table.
StartChunk(p, t) ==
  /\ AtTable(p, t)
  /\ t \in selected
  /\ children > 1 /\ t \notin CodeTables
  /\ phase' = [phase EXCEPT ![p] = "gen"]
  /\ seed' = [seed EXCEPT ![p] = SetState(t, Rows[t], children, p, @)]
  /\ row' = [row EXCEPT ![p] = ChunkStart(t, p, children)]
  /\ left' = [left EXCEPT ![p] = ChunkCount(t, p, children)]
  /\ UNCHANGED <<children, selected, tnum, pool, file>>

\* The loop condition of gen_tbl(), and a mutant that is one row late.
MoreRowsLate(p) == left[p] >= 0
MoreRows(p) == left[p] > 0

\* One turn of gen_tbl()'s loop: row_start(), mk_*(), the loader, row_stop().
\* The first TEXT of a process fills the text pool from stream 5.
GenRow(p, t) ==
  /\ phase[p] = "gen"
  /\ t = TableOrder[tnum[p]]
  /\ MoreRows(p)
  /\ \E draws \in Draws(t) :
       LET fill == IF pool[p] = NotBuilt THEN TextPoolDraws ELSE 0
       IN  seed' = [seed EXCEPT ![p] = AfterRow(t, @, [draws EXCEPT !["TEXT"] = @ + fill])]
  /\ pool' = [pool EXCEPT ![p] = IF @ = NotBuilt THEN seed[p]["TEXT"] ELSE @]
  /\ file' = [file EXCEPT ![t][p] = Append(@, RowOf(t, row[p], seed[p]))]
  /\ row' = [row EXCEPT ![p] = @ + 1]
  /\ left' = [left EXCEPT ![p] = @ - 1]
  /\ UNCHANGED <<children, selected, phase, tnum>>

EndTable(p) ==
  /\ phase[p] = "gen"
  /\ ~MoreRows(p)
  /\ phase' = [phase EXCEPT ![p] = "loop"]
  /\ tnum' = [tnum EXCEPT ![p] = @ + 1]
  /\ UNCHANGED <<children, selected, row, left, seed, pool, file>>

Exit(p) ==
  /\ phase[p] = "loop"
  /\ tnum[p] > Len(TableOrder)
  /\ phase' = [phase EXCEPT ![p] = "exit"]
  /\ UNCHANGED <<children, selected, tnum, row, left, seed, pool, file>>

AllExited == \A p \in Procs : phase[p] = "exit"

Step(p) == \/ \E t \in Tables : \/ SkipTable(p, t)
                                \/ StartTable(p, t)
                                \/ StartChunk(p, t)
                                \/ GenRow(p, t)
           \/ EndTable(p)
           \/ Exit(p)

Terminated == AllExited /\ UNCHANGED vars

Next == (\E p \in Procs : Step(p)) \/ Terminated

\* Each process is a sequential program that the operating system runs on.
Fairness == \A p \in Procs : WF_vars(Step(p))

Spec == Init /\ [][Next]_vars

FairSpec == Spec /\ Fairness

-----------------------------------------------------------------------------
(* Correctness.                                                            *)

Row(t) == [key: Nat, at: [Reads(t) -> Nat]]

TypeOK == /\ children \in Procs
          /\ selected \in TableOptions
          /\ phase \in [Procs -> {"loop", "gen", "exit"}]
          /\ tnum \in [Procs -> 1..(Len(TableOrder) + 1)]
          /\ row \in [Procs -> Nat]
          /\ left \in [Procs -> Nat]
          /\ seed \in [Procs -> [Streams -> Nat]]
          /\ pool \in [Procs -> Nat \cup {NotBuilt}]
          /\ file = [t \in Tables |-> file[t]]
          /\ \A t \in Tables : file[t] \in [Procs -> Seq(Row(t))]

\* Row i as the one-process run without other tables computes it: every row
\* before it took exactly a boundary's worth of each stream.
Position(i, s)  == (i - 1) * Boundary(s)
Canonical(t, i) == RowOf(t, i, [s \in Streams |-> Position(i, s)])

FirstRow(t, p) == IF children = 1 \/ t \in CodeTables THEN 1
                                                     ELSE ChunkStart(t, p, children)

\* Every row that any process has written has the number that follows the row
\* before it and the content of that row in a one-process run: the rows'
\* padding (row_stop) and the chunks' skipping (set_state, sd_*) agree, for
\* every -T, although the two are kept in different files of the source.
RowsCanonical ==
  \A t \in Tables, p \in Procs : \A k \in 1..Len(file[t][p]) :
    file[t][p][k] = Canonical(t, FirstRow(t, p) + k - 1)

\* The inductive strengthening of RowsCanonical and TextPoolCanonical: what a
\* process has not begun is untouched, and between two rows of a table the
\* streams it reads stand at a row boundary.
Ahead(p) == {TableOrder[k] : k \in {j \in 1..Len(TableOrder) :
                                      IF phase[p] = "gen" THEN j > tnum[p]
                                                          ELSE j >= tnum[p]}}

AheadUntouched(p) ==
  \A t \in Ahead(p) : /\ file[t][p] = <<>>
                      /\ t \in selected => \A s \in Reads(t) : seed[p][s] = 0

AtRowBoundary(p) ==
  phase[p] = "gen" =>
    LET t == TableOrder[tnum[p]]
    IN  /\ tnum[p] <= Len(TableOrder)
        /\ t \in selected
        /\ row[p] = FirstRow(t, p) + Len(file[t][p])
        /\ \A s \in Reads(t) : seed[p][s] = Position(row[p], s)

PoolFromStart(p) == \/ pool[p] = 0
                    \/ pool[p] = NotBuilt /\ seed[p]["TEXT"] = 0

ProcInv(p) == /\ phase[p] # "exit" => p <= children
              /\ AheadUntouched(p)
              /\ AtRowBoundary(p)
              /\ PoolFromStart(p)

IInv == RowsCanonical /\ \A p \in Procs : ProcInv(p)

\* When all processes have exited, the chunk files of a table put one after the
\* other are the table, none of its rows missing or doubled; the code tables
\* are complete in every process.
ChunksAreTheTable ==
  AllExited =>
    \A t \in selected :
      LET whole == [i \in 1..Rows[t] |-> Canonical(t, i)]
      IN  IF t \in CodeTables
          THEN \A p \in 1..children : file[t][p] = whole
          ELSE FlattenSeq([p \in 1..children |-> file[t][p]]) = whole

\* The text pool, of which every comment is a piece, is the same in every
\* process: it is filled from the initial seed of stream 5, although
\* row_stop() advances stream 5 on the rows of childless tables.
TextPoolCanonical == \A p \in Procs : pool[p] \in {NotBuilt, 0}

\* The data set promised by DataSet: what is written, seen across all files.
Splittable == Tables \ CodeTables

\* Where row i of t has been written, and how often each row has.
Places(t, i) ==
  LET whole == Canonical(t, i)
  IN  UNION {{<<p, k>> : k \in {j \in DOMAIN file[t][p] : file[t][p][j] = whole}} : p \in Procs}

Written == [t \in Splittable |-> [i \in 1..Rows[t] |-> Cardinality(Places(t, i))]]

Promise ==
  INSTANCE DataSet WITH
    Tables  <- Splittable,
    wanted  <- selected \ CodeTables,
    written <- Written

\* Dbgen implements DataSet: a row is never written a second time, by the same
\* process or another one, and all rows are eventually written.
ImplementsDataSet == Promise!Spec

\* Every process comes to its end.
EventuallyAllExited == <>AllExited
=============================================================================
