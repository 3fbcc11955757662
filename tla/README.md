# A verification project for tpch

The repository holds the TPC-H data generator `tpch-dbgen` (C), twenty-two
benchmark queries in six engines (Python), and the scripts that prepare the
data, run the benchmark and deploy it to clusters. This directory models the
parts of it whose correctness is a matter of state and order, checks the models
with TLC and proves the most important facts with TLAPS.

## Inventory

| Part | State it keeps | Operations | What makes it correct |
|---|---|---|---|
| **dbgen**, tables and chunks (`driver.c`, `rnd.c`, `speed_seed.c`, `bm_utils.c`, `build.c`, `print.c`) | `Seed[]`, the position of 48 random-number streams; the open file of each table; the text pool | `main()`'s loop over the tables, `partial()`, `set_state()`, `gen_tbl()`, `row_start()`/`row_stop()`, `mk_*()`, `pr_*()` | The chunks that several processes make with `-C n -S p` are, put together, the file of one process. |
| **dbgen**, refresh sets (`-U`) | the streams, counters of the segment files, sparse order keys | `gen_tbl(ORDER_LINE)` for inserts, `pr_drange()` for deletes | New keys are new; deletes find their orders; the options split the sets but do not change them. |
| **dbgen**, keys (`build.c`) | none | `PART_SUPP_BRIDGE`, `mk_sparse`, customer keys | Primary and foreign keys hold. |
| **dbgen**, column values (`text.c`, `permute.c`, `bcd2.c`, `dists.dss`) | the text pool, permutations | grammar, `permute()`, decimal arithmetic | Distributions. |
| **dbgen**, test driver (`tests/*.sh`) | lock file, task number | `load_balance.sh`: workers share a list of tasks | Each task runs once, nobody waits for ever. |
| **qgen** (`qgen.c`, `varsub.c`) | parameter file, permutation of a stream | substitutes query parameters | Parameters in range, the order of the stream. |
| **Data preparation** (`scripts/prepare_data.py`) | chunk files, parquet directories, the S3 copy | `pipelined_data_generation()`: batches of dbgen processes, move, convert, synchronise, remove | Every chunk is converted once, with bounded disk space. |
| **Benchmark harness** (`queries/common_utils.py`, `*/utils.py`, `settings.py`, `run.sh`) | cached tables of a process, timings file | one process per query, warm-up and timed iterations | A timing measures what its label says. |
| **Queries** (`queries/<engine>/q*.py`) | none | 22 queries | Each engine's query gives the answer of the SQL. |
| **EMR, Spark** (`scripts/emr/emr_tpch_benchmark.py`, `submit_emr_ec2.sh`, `spark_hdfs_stage.sh`) | HDFS tables, output directory, step and cluster | stage, register, run, save, poll | A reported result is there; staged data is whole. |
| **EMR, Trino** (`scripts/emr/trino_*`, `submit_emr_trino.sh`) | per-table copies, HDFS, coordinator, Glue tables, results CSV | reshape, stage, wait for the coordinator, replace the Glue tables, run, upload, poll | A failure in the middle loses no finished query (it can, see Findings); an earlier job's tables are not timed. |
| **EC2 single node** (`scripts/ec2`) | timings file and its backups, console log, queries that outlive a session | launch, stage, run each query under a timeout, upload | A failure is recorded and stops nothing; times go with verdicts, none is lost. |
| **Local Spark** (`scripts/run_local_spark*.sh`) | files of the batches, merged file | run a batch in a JVM of its own, merge | The merged file is the one a single run would write. |
| **Managed clouds** (`aws_emr.py`, `aws_glue.py`, `pl_cloud.py`) | the provider's | submit and wait | - |
| Plots, Makefiles, manifests, reference answers | none | - | - |

How they interact: `prepare_data.py` starts a pool of `dbgen` processes, which
share only the directory they write to, and turns their files into parquet; the
Makefile then starts the harness, which starts one Python process per query;
the processes append to one timings file, which the plots read. The cluster
scripts copy the same tables to S3 or HDFS and run the same queries there. The
shell and Python scripts communicate through files and exit codes only.

What is hard: in dbgen, four places of the source (`Seed[]`, `mk_*()`,
`row_stop()`, `sd_*()`) must agree on the draws of a row, in a program that
keeps all the streams in one global array and is run in many processes; counters
that go round (sparse keys, segments, the stride of PARTSUPP); in the scripts,
interleaved processes on shared files and runs that are interrupted and started
again on what is there; in the queries, equivalences that rest on the keys of
the schema and on rare rows (no partner, ties, the same supplier twice) that the
reference answers of one scale factor may not contain.

## Modules

| Module | Models | Kind |
|---|---|---|
| `DbgenTables` | streams, boundaries, draws, padding and skipping of every table | pure |
| `Dbgen` | the processes of a data set; extends `DbgenTables` | state machine |
| `DataSet` | what a data set promises, whatever the processes | abstract specification |
| `DbgenLemmas` | sums, concatenations, division, and the tables: what the next two need | lemmas |
| `DbgenProofs` | theorems about `Dbgen` and `PartSupp` | proofs |
| `DbgenRefresh` | `dbgen -U`; extends `DbgenTables` | state machine |
| `DbgenRefreshProofs` | theorems about `DbgenRefresh` and `LoadBalance` | proofs |
| `PartSupp` | the suppliers of parts | state machine |
| `LoadBalance` | `tests/load_balance.sh` | state machine |
| `PrepareData`, `PrepareDataProofs` | `scripts/prepare_data.py`, and its theorems | state machine, proofs |
| `BenchHarness`, `BenchHarnessProofs` | `execute_all()`, `run_query_generic()`, the readers, the timings file and the plot's choice from it | state machine, proofs |
| `RowSets` | relations as sets of records: joins, groups, aggregates, sorting with a limit | pure |
| `DuckdbQueries`, `PolarsQueries`, `PandasQueries` | the 22 queries of `queries/duckdb`, `queries/polars`, `queries/pandas`, in the operators of `RowSets` | pure |
| `Queries` | the schema, the databases that can be built, and the comparison of the answers | state machine |
| `QueriesLemmas` | sums, joins, groups and renaming as the queries use them; 17 of the queries; the keys of every database | lemmas, proofs |
| `QueriesProofs` | the other five queries, and that the engines agree | proofs |
| `EmrRun`, `EmrRunProofs` | `scripts/emr`: both submit scripts and everything they run on the cluster | state machine, proofs |
| `Ec2Bench` | `scripts/ec2/run_bench.sh`, around the query processes of `BenchHarness`, which it extends; its theorems are in `BenchHarnessProofs` | state machine |
| `MC*` | the instances that TLC checks | model checking |

### DbgenTables and Dbgen

A stream's value is its position: how often `NextRand()` has been applied to its
first seed. Equal positions are equal values, and what the columns of a row are
is a function of the positions of the streams it reads when the row starts
(`Reads`, `RowOf`); so a row is its number and these positions. Streams that
behave alike are represented by one of them, as the module says.

| State | Code |
|---|---|
| `children`, `selected` | `-C`, `table` (`-T`) |
| `phase`, `tnum` | the place of process p in `main()`, and `i` of its loop |
| `row`, `left` | `i` and `count` in `gen_tbl()` |
| `seed` | `Seed[].value` |
| `pool` | stream 5 when `dbg_text()` filled its static pool |
| `file` | the rows written to `<table>.tbl.<p>` |

`StartTable` is the `gen_tbl()` branch of `main()`, `StartChunk` the `partial()`
branch with `set_state()`; `GenRow` is one turn of `gen_tbl()`'s loop with
`row_start()`, `mk_*()`, the loader and `row_stop()`. The number of draws of a
row is nondeterministic where the code's is (addresses, lineitems, return
flags). A process with an empty chunk starts and ends its table without a row.

`DataSet` says what remains when one forgets the processes: a row that is wanted
is written, once, and all are in the end. `Promise` in `Dbgen` is the refinement
mapping: a row counts as written when a file has it with the content of a
one-process run.

### DbgenRefresh

One process (`main()` says: updates are never parallelised). The state is the
loop variables of `gen_tbl()` and `pr_drange()`, their static variables, and the
files of each set. `mode` is `gen_tbl()`'s parameter `upd_num`, which carries the
set number and, in multiples of 10000, the segment. The constants keep the
proportions of the program (a set is 1/1000 of the orders, 1000 sets go once
round) with small numbers: a set is 1/3 or 1/4 of the orders, and 10000 is 10. The orders file and the lineitem file of a segment, opened together, are
one.

### PartSupp

`PART_SUPP_BRIDGE`, part after part, at scale factors given in thousandths, as
`-s` computes the table sizes. (`Parts*` are the definitions of this module where
`DbgenProofs` would have two of a name, `Workers*` those of `LoadBalance`.)

### LoadBalance

`lock()` is modelled at the granularity of the shell's file operations: the test,
the creation of the file by the redirection, the write of the pid, the reading
back; the same for the task number. A worker about to write into a lock file
that another one removes writes into a file nobody sees (`WriteRemoved`).

### PrepareData

A chunk stands for its files of all split tables; `static` for `nation.tbl` and
`region.tbl`, which every process of the pool writes in full to the same place.
Files are partial between opening and closing. `CrashAndRerun` interrupts the
script with its pool at any step and starts it again on the directories as they
are (`MaxCrashes` times). `todo` is what remains of the list that `glob` returned to
one of the two loops over files: the list is made once, and the loop goes through it
and ends. `shutil.move()` is one step, as the two directories are expected to be on
one disk, where it is a rename. `WriteParquet` converts what is there, cut short or
not, and `ConversionFails` is the exception that polars may raise instead as long as a
file that ends within a row is among those it scans; the script is then over, and a
rerun that keeps the file may fail again and again: nothing promises that a rerun
succeeds. Every table is taken to have at least as many rows as there are chunks, so
that no complete file is empty.

### BenchHarness

Two actors: `execute_all()` (`phase`, `qnum`) and the process of the query it
waits for (`child`). `calls` and `loaded` are `helper.calls` and
`helper.result` of `on_second_call()`; `left` the iterations that remain; `out`
the shape of the output, on which `execute_all()`'s parsing depends: a time, or
other text. An `Engine` record says what an engine's `utils.py` can read, whether
its readers are cached, whether calling one reads or only plans to, and whether
its `run_query()` swallows exceptions. `timings` stays from one invocation to the
next; its entries carry, besides what `log_query_timing()` writes, the invocation,
whether the timed run read its tables, and what it answered. A query can fail, be
killed at any step, or answer wrongly. An invocation chooses its engine and its
settings from `Configs`.

### Queries

A relation is a set of records with the keys of its table, so that no two rows
are equal, as in the database; a projection keeps the multiplicity by keeping the
key. Money and rates are integers in hundredths, dates numbers like 19980902, a
text the sequence of its words, as far as a query looks at it. An answer is the
sequence of its rows in the order of the query, where rows that the sort order
does not tell apart form one set (`Sorted`, `Top`), cut at the limit (`Cut` gives
small limits the roles of 10, 20 and 100). `\otimes` is the product of a FROM clause,
`Joined` the row that a join makes of two, where the left one's columns win. Each `Q<n>` follows its file
statement by statement, with the source's names for the intermediate frames.
Columns that are only carried along and the rounding of results are left out, and
q11's 10000 is the constant `Divisor`.

`Queries` is a state machine only so that TLC visits every database: a behaviour
picks a query and inserts rows that keep the primary and foreign keys of `dss.ri`
into the tables it reads, and the invariants compare the three answers in every
state. The rows to choose from are a constant (`Universe`), of which
`SchemaAssumption` says what `dss.ddl` and `dists.dss` say: a row has columns of its
table, all `NOT NULL`, the key and those that the query names among them; what is
summed is a number; a type has three words, of which only the first can be MEDIUM.
`NullAssumption` says that null is none of the numbers. TLC evaluates both on the
universe of the run. `InDataFrame` is the one difference that is by design: the sum of no rows
is null in SQL and 0 in a data frame, and q14's quotient of two such sums is nan in
polars and raises `ZeroDivisionError` in pandas, where it is one of Python's floats.
`SupplierTwice` excludes the
databases in which q21 is known to differ (see Findings). What pandas does with
frames without rows in q8, where `apply` may raise, is not modelled.

The queries of pyspark are duckdb's SQL in another dialect, those of dask (1 to
7) and modin (1 to 8) are pandas' statements with another library: reading them
showed no difference that a model of this kind would tell apart.

### EmrRun

| State | Code |
|---|---|
| `bucket` | `s3://BUCKET/DATA_PREFIX`: `<t>.parquet` (flat), `trino/<t>/` (copies); `TIMINGS_S3` of each job |
| `glue` | the external location of each table of the schema |
| `cluster` | EMR's state of the cluster, its HDFS, the coordinator, `timings.csv` |
| `job` | which submit script, `HDFS_BASE` or `DATA_PATH`, `AUTO_TERMINATE` |
| `step` | where the step is: the line of `trino_run.sh`, the table or the attempt, the driver's attempt, `timings` in memory |
| `watcher` | the loop at the end of the submit script |

`Reshape`, `Stage` and `DistCp` are the copying of `trino_run.sh` and
`spark_hdfs_stage.sh`; `Connect`, `DropTable` and `CreateTable` are
`trino_setup_catalog.py`; `RegisterView` is `register_tables()`; `QueryRuns` and
`QueryFails` are a turn of either loop over the queries; `Truncate` and `Write` are
`flush()`; `Upload` is the last line of `trino_run.sh`; `MakeDirectory` and
`SavePart` are `saveAsTextFile()`. `Kill` ends a step at any point: with
`AUTO_TERMINATE=true` that ends the cluster, otherwise the operator may submit the
step again. What is outside the repository is assumed to behave as follows: Trino
refuses to create a table that exists, or one whose HDFS directory does not, and
does not look into S3; YARN starts a failed driver once more, as no file of the
repository says otherwise; `saveAsTextFile()` refuses an existing directory;
s3-dist-cp copies each one-file table whole, in any order; a submitted cluster
runs its steps one after the other. There is one cluster at a time: the vCPU quota
that `submit_emr_trino.sh` prints has no room for two. The location of the schema
itself (`create schema if not exists`) is left out, as every table has one of its
own.

### Ec2Bench

`run_bench.sh` starts the same query processes as `execute_all()`: the module takes
`DefineQuery`, `TimedRun`, `LogTiming`, `CheckResult`, `ExitQuery` and `Kill` from
`BenchHarness`, with the settings that the script exports (`Cold`), and puts its own
loops around them. `phase`, `qnum` and `conf` are then where the script is, `eng` the
place in `ENGINES`, `console` what `log` has said of each query, together with whether
the query did fail, `backups` the files moved away, `results` what is in S3. `TimedOut`
may come at any point of a query, also when it has logged its time or has ended
and not been waited for. `LoseSession` ends the script but not its query: `timeout`
without `--foreground` puts the query into a process group of its own, which the
hang-up of the terminal does not reach. All that such an orphan can still do is to
append its time, to whatever file has the name then (`OrphanEnds`).

## Runs

| Run | Shows |
|---|---|
| `dbgen` | every value of `-T`, and none, with one and two processes, three for suppliers, lineitems and orders with lineitems: `RowsCanonical`, `ChunksAreTheTable`, `TextPoolCanonical`, that every process ends, and that `Dbgen` implements `DataSet`, liveness included |
| `refresh_sets` | sets, segments and steps in all combinations: `SetsCanonical`, `InsertsSplitEvenly`, `DeletesSplitWithinLimit`, `InsertsAreFresh`, and `DeletesHit` for the sets of the first round |
| `refresh_rollover` | `DeletesAlwaysHit` is violated: see Findings |
| `partsupp_keys` | foreign and primary key at scale factors 0.023, 0.024, 0.027 |
| `load_balance` | `NoTaskSkipped`, `LockIsOwned` and `LockIsFreed` with three workers |
| `bench_harness` | every engine with every `io_type`, warm and cold, twice in a row on one timings file: `DoneMeansComplete`, `SkippedMeansCached`, `AbortsForCause`, `PlotIsFresh` |
| `bench_harness_hot_run` | `HotRunFollows` is violated: see Findings |
| `queries` | every database over a universe of rows for each query: `PolarsAgrees`, `PandasAgrees` |
| `emr` | two jobs, Trino or Spark, on S3, HDFS or the flat files, with two kills and one resubmission each: `TimedWhereAsked`, `KeepsRowsBetweenWrites`, `DoneMeansUploaded`, `FailsForCause`, `EventuallyReported` |
| `emr_crash` | `KeepsCompletedRows` is violated in the instance of `emr`: see Findings |
| `ec2_bench` | two runs of two engines with two queries, with timeouts, kills and lost sessions at any point: `ConsoleMatchesTimes`, `KeepsTimings`, `EventuallyDone` |
| `prepare_data` | two batches of two processes, interrupted up to twice: `NothingLost`, `NothingTwice`, `StaticTablesWhole`, `OneBatchOnDisk`, `FailsOnLeftovers` |

Bounds. In `dbgen` five orders leave one row over in two chunks and two in three,
two suppliers in three chunks leave the first two chunks empty, four parts leave
none: together the cases that the arithmetic of `partial()` and `set_state()`
tells apart; that more rows, more processes and every `-T` behave the same is what
`DbgenProofs` proves. In `refresh_sets` sets of four rows and up to three segments
contain even and uneven splits, and six sets with three to a round change seq
twice. Three workers suffice for the lock: one holds it, one has passed the
test, one removes the file under it. In `prepare_data` two batches of two
processes contain every pair (same batch, other batch); two interruptions let a
rerun meet what an interrupted rerun left. In `bench_harness` two queries have a
next one and a last one, two invocations of the same or another engine leave
complete and incomplete entries for each other, and two iterations are more than
`on_second_call()` distinguishes; that any number behaves alike is proved for two
of the properties. In `queries` the universe of each query has, for every
condition, a row that meets it and one that misses it at its boundary, two rows
of a group and one of another, parents without children, and more rows than the
limit keeps; a scale factor of 2 tells q11's division by it from none, scale
factors below 1 are not represented. In `emr` three tables, with the staging's
marker in the middle of their order, leave tables before and after it when a
copy or a registration stops; two queries have one that reads one table and one
that reads two; two jobs are one that leaves things behind and one that finds
them; four attempts to connect are more than the tables, so that the counters
cannot be mistaken for each other. In `ec2_bench` an engine that reports its
failures and one that hides them follow each other, each with a first and a last
query, and a second run finds what a complete or a lost first one has left.

Fairness. dbgen's processes and the workers of `load_balance.sh` are
operating-system processes that compute without waiting for each other
(`load_balance.sh` sleeps and tests again): weak fairness of each process. An
interruption is never fair, and `prepare_data`, whose reruns may fail for ever, claims
nothing that needs fairness. In `emr` the step that EMR runs
and the loop of the submit script go on by themselves: weak fairness of the
step's actions as a whole and of `Report`. The operator need not do anything and
the coordinator need not come up: that every job is reported does not depend on
them. In `ec2_bench` the steps of a query have no fairness, as a query may hang;
only the script's own steps and the alarm of `timeout` have.

## Findings

* `refresh_rollover`: `pr_drange()` and `mk_order()` disagree about the set at
  which seq changes; from set 1000 on the delete files name orders that nobody
  inserted. `BUGS` lists this as Problem 62, closed.
* `bench_harness_hot_run`: the queries of dask and modin rebind the variables that
  hold their readers, so after the warm-up, which is on by default, the timed run
  raises `TypeError`.
* `emr_crash`: `trino_tpch_benchmark.py` rewrites its results file "after every query so
  a crash keeps completed rows" (line 59), "so a mid-run failure never loses the
  queries already completed" (lines 3-5). `write_text()` empties the file before it writes
  (line 67): a step that is killed in between leaves none of the rows, those of all
  earlier queries included. Everywhere else the rows stay (`KeepsRowsBetweenWrites`).

Also seen, without a run of its own:

* The data frame versions of q21 count the lineitems of an order where they mean its
  suppliers (`pandas/q21.py:30-32`, "Find orders with multiple suppliers";
  `polars/q21.py:32` and `:42`), so an order with two lineitems of one supplier is
  mistaken for one of two suppliers. TLC finds it with `PandasAgrees` or
  `PolarsAgrees` without `SupplierTwice`.
* `run_bench.sh` judges a query by its exit code ("a failure (OOM/timeout) is recorded"),
  and polars' `run_query()` turns every exception into a message and an exit code of
  0: such a query is logged as OK, and its time is added to the total of the completed
  queries. `ConsoleMatchesTimes` says how it shows: the query has no line in `timings.csv`.
* A query that outlives the lost session of `run_bench.sh` writes its time into the
  "fresh timings file" of the next run, which uploads it among its own. TLC finds it
  with `Ec2Bench` and "every time in `results[n]` is of run `n`".
* `run_local_spark_batched.sh:53` lets the lines of failed queries through, since
  `5,ERROR` begins with a number too, and line 55 has `bc` add them: one failed query
  leaves the merged file without a usable total, while `emr_tpch_benchmark.py` sums
  the queries that are not ERROR.
* The lock of `load_balance.sh` lets two workers in when both have seen no lock file
  and one writes its pid after the other has read its own back: both run the
  same task. TLC finds it with two workers and `ran[t] <= 1`.
* Below scale factor 0.023 PARTSUPP can violate the primary key that `dss.ri`
  declares: three steps of `PART_SUPP_BRIDGE` can go once round (scale factors
  0.001 to 0.007, 0.009, 0.012, 0.015, 0.018 and 0.021). TLC finds it with
  `Scales` a subset of `1..22`.
* q11 of the cluster scripts (`trino_queries.py:213`, `emr_tpch_benchmark.py`,
  `aws_emr.py`) compares with a fixed 0.0001, the other engines with
  0.0001 / scale factor, although the header of `emr_tpch_benchmark.py` speaks of the
  same suite.
* With `AUTO_TERMINATE=true`, the default, a killed Trino step loses all its rows
  with the cluster, whatever `flush()` has written: the upload is the last line of
  `trino_run.sh`. Both properties of the rows are about clusters that stay up.
* The staging is skipped when the directory of lineitem is there: after an
  interrupted copy every resubmitted Trino step on HDFS fails at the first
  missing table. A Spark driver that is started again after its output
  directory was made runs all queries and then fails. Both are exceptions that
  `FailsForCause` names.

## Proofs

Every theorem below is of the form `Spec => []Inv` unless it says otherwise, and holds
for all values of the constants that satisfy the named assumptions of its module. Each
module of theorems states an invariant `IInv`, which is inductive, has one lemma for
each action, and draws the theorems from it. The parts of `IInv` are named below,
because they are the reasons.

### dbgen: tables and chunks (`DbgenProofs`)

For any `Rows`, `MaxChildren`, `Commands` and `TextPoolDraws`:

* `TypeCorrect`: `TypeOK`.
* `ChunksAgree`: `RowsCanonical`. Every row that any process writes, for any table
  sizes, any number of processes, any `-T` and any interleaving, has the number and
  the content of that row in a one-process run.
* `TextPoolsAgree`: `TextPoolCanonical`.
* `ChunksMakeTheTable`: `ChunksAreTheTable`. When all have ended, the chunk files of a
  table are, in their order, its rows.
* `ImplementsSafety`: `Spec => Promise!Safety`. The initial states are those of
  `DataSet`, and every step of a process writes a row of the data set that no file has
  yet, or is a stutter; the liveness part of `DataSet` is left to TLC.

`RowsCanonical` is not inductive: a step's row depends on seeds it does not
mention. `IInv` adds, for each process, that a selected table it has not begun
still finds the streams it reads at their start (`AheadUntouched`), that between
two rows of a table its streams stand at the boundary of the next row's number
(`AtRowBoundary`), and that stream 5 is at its start until the pool is filled
(`PoolFromStart`). The argument is arithmetic on positions: a row takes a boundary
of every stream of its table (draws never exceed it, and `row_stop()` pads the
rest: lemma `RowEndsAtBoundary`), `set_state()` skips whole rows (so a chunk
starts at a boundary), and a table's step leaves the streams that later tables of
the selection read alone. The last is where the choice of tables matters:
`TableOptions` holds exactly the sets that `-T` can select.

For the last two theorems `CountInv` says how many rows each file has at each place of
its process. The chunks of a table are then consecutive intervals of its rows, and
their concatenation is the whole interval, by induction on the number of chunks. The
provers cannot use an induction rule whose parameter is an operator; `SetInduction` of
`DbgenLemmas` has a set instead, the numbers for which the statement holds, and follows
from the order of the natural numbers being well-founded. For the refinement, a row that is written has a number that its process's file had not
reached, and no other file's interval contains it.

### dbgen: refresh sets (`DbgenRefreshProofs`)

For any scale and any number of sets, steps and segments whose numbers fit the digits of
`mode` (`BoundsAssumption`), with the proportions of the program as `SizesAssumption`
and `WholeParts` say: `TypeCorrect`; `SetsAreCanonical` (`SetsCanonical`); `FreshKeys`
(`InsertsAreFresh`); `DeletesHitBase` (`DeletesHit`); `EvenSplit`
(`InsertsSplitEvenly`); `LimitedSplit` (`DeletesSplitWithinLimit`).

`IInv` follows the two loops: which row of which set is next (`LoopInv`), what `mode`
and the static `last_mode` are, whose lower digits tell the sets apart and whose
upper ones the segments (`ModeInv`), that the streams stand at the boundary of that row
(`SeedInv`), which files there are (`FilesInv`), with which rows and keys (`RowsInv`,
`KeysInv`), and how full they are (`SplitInv`, `DeleteInv`, `SegRowsInv`). The keys are
division facts: a key determines the low bits of its row, and the sum of the rest and
seq, which from set 3000 on is carried. A later set has both greater rows and a seq that
is not smaller, so that neither can make up for the other (`SetKeysApart`,
`KeysAreFresh`). Before the 1000th set the delete set n is the n-th interval of the base
keys (`FirstRoundHits`); that this fails from set 1000 on is the finding of
`refresh_rollover`.

### dbgen: suppliers (`DbgenProofs`)

`ForeignKey` (`SuppKeysExist`) for all scale factors, and `PrimaryKey`
(`SuppKeysDistinct`) for all from 0.023 on, from two facts about
division: two numbers with the same remainder are at least the divisor apart,
and from 230 suppliers on four steps of the bridge are less than one round.

### dbgen: lock file (`DbgenRefreshProofs`)

For any finite set of workers and any number of tasks: `WorkersTypeCorrect`, `EveryTaskRuns`
(`NoTaskSkipped`), `LockHasOwner` (`LockIsOwned`). The lock does not exclude anybody
(see Findings), so the argument cannot rest on it. `NumbersInv` says instead that all
numbers below the one in the file, and below any number that a worker has in its hands,
are taken: run, or in the hands of a worker that will run them. A worker that overwrites
the file with a smaller number keeps that true. `ExitInv` adds that a number behind the
end of the list leads to the exit and nothing else does. `WorkersTypeOK` bounds the number in
the file by the number of workers that exit, which is a consequence of the other parts.

### Data preparation (`PrepareDataProofs`)

For any number of batches, processes and interruptions: `TypeCorrect`,
`EveryChunkUploaded` (`NothingLost`), `EveryChunkOnce` (`NothingTwice`),
`StaticTablesKept` (`StaticTablesWhole`), `OneBatchAtATime` (`OneBatchOnDisk`),
`FailuresAreLeftovers` (`FailsOnLeftovers`). `IInv`
says at each stage where the chunks of the batch are and that they are full: behind the
pool (`PoolInv`), between the directories, those still to be moved on the list of the loop
(`MoveInv`), on the list of the files to be removed (`RemoveInv`), gone from `tpch-dbgen` (`EmptyInv`),
in the files written so far, which are the first of those that were scanned
(`ScanInv`), converted and uploaded (`ConvertedInv`, `UploadedInv`, `StaticInv`, `DoneInv`).
What interrupted runs have left is nowhere restricted in these parts: it is overwritten
or converted along. Only without interruption are the files of a batch its chunks, once
each, and the chunks on disk those of one batch (`OnceInv`, `DiskInv`).

The files of a directory are scanned in an order of which the model says only that it
has each of them once (`Scanned`).

### Benchmark harness (`BenchHarnessProofs`)

For any `NumQueries`, `MaxInvocations` and `Configs`: `TypeCorrect`,
`SkippedTimesAreCached` (`SkippedMeansCached`), `GivesUpForCause` (`AbortsForCause`),
`DoneIsComplete` (`DoneMeansComplete`), `PlotShowsThisRun` (`PlotIsFresh`). What an abort
means depends on the whole life of the process before it, so `IInv` adds that
`calls` is one more than the runs of the query and the table is there from the
right call on (`CacheInv`), that runs and remaining iterations add up
(`RunsInv`), and that the output is one time for each finished iteration when
nothing else is printed (`OutInv`); from the last one a process that ends without
a fault is always parsed.

For the lines of the file a second invariant, `TimesInv`, rests on the first: the lines
are in the order of the invocations (`FileInv`), the queries gone by are complete and
those to come have no line (`PassInv`), the process has logged each iteration that it
has begun (`LogInv`), and output that ends with a time is that of a process without
an exception, since polars prints the exception last (`ExitInv`). The lines of a
query are the set of their positions, so that its cardinality and its maximum can be
reasoned about.

### EC2 (`BenchHarnessProofs`)

For any list of different engines: `ConsoleFitsTheFile` (`ConsoleMatchesTimes`),
`TimingsAreKept`, `BenchSpec => KeepsTimings`, about every step, and
`EveryQueryHasALine`, `BenchSpec => [](phase = "done" => ConsoleIsWhole)`, the safety part
of `EventuallyDone`. `BenchInv` says at which
point of its process a query has its line (`LoggedInv`), that queries to come have none
(`AheadInv`), that the console is about queries gone by (`ConsoleInv`), and that a query
which outlives its session has no line on the console of that session (`OrphanInv`).
The last three are why a line that is written now is never about another line of the
console; they need that no engine is listed twice (`EnginesAssumption`). `LinesInv` counts
the lines of the console by the places of the two loops.

### EMR (`EmrRunProofs`)

For any tables, queries, choices of uploaded tables and numbers of
jobs, steps, attempts and kills that satisfy `EmrAssumption` and `NoneAssumption`:
`TypeCorrect`, `TimesAreWhereAsked` (`TimedWhereAsked`), `RowsAreKeptBetweenWrites`
(`KeepsRowsBetweenWrites`), `DoneIsUploaded` (`DoneMeansUploaded`) and `FailuresHaveACause`
(`FailsForCause`). None of the last four is inductive. `IInv` adds that the timings are
numbered and as many as the place of the step says (`TimingsInv`); that the tables
before the current one, and after the loop all of them, are where the job wants them,
whatever Glue kept from earlier jobs (`Registered`); what `timings.csv` holds at each
place between two rewritings and after a failure, which is nothing after one within a
rewriting (`FileInv`); that the results of a
completed step are complete and stay, because a later step can fail but not replace
them with less (`SavedInv`; a second Spark driver finds the directory there and fails);
that only a Spark job is at Spark's places (`EngineInv`) and that there is a job
wherever one is spoken of (`JobInv`). `CauseInv` adds what a step that nobody has killed can
rely on at each place: all copies behind the reshaping (`ReshapedInv`), the marker or all
tables behind the staging (`StagedInv`), no table of that name in Glue where one is
created (`DroppedInv`).

### Queries (`QueriesLemmas`, `QueriesProofs`)

For any `Universe` that satisfies the assumptions of `RowSets` and `Queries`, hence for
databases of any size and any contents: `Databases` (`DatabaseInv`: unique keys,
existing parents), `PolarsAnswers` (`PolarsAgrees`) and `PandasAnswers` (`PandasAgrees`).
All 22 queries are proved, each from the definition of its three versions. (q21 with
the exception of the Findings, `SupplierTwice`; the rest of it is proved.)

* Rows. The row of a join is cut into the rows it came from (`Part`); since no two
  tables share a column (`ColumnsAreApart`) that loses nothing. A chain of joins, in
  any order and with filters before or after it, then keeps just the rows whose
  parts are in the tables and which agree on the joined columns (`KeptByMerge`), and a
  FROM with its WHERE selects the same rows (`WholeProduct`). This is what most of
  the queries rest on: `InFrame<n>`, `Same<n>`.
* Columns that are no table's. Where an engine carries the same row with other columns
  (a renamed nation twice in q7 and q8, a year, the counts of q21), its frame shows the
  wanted rows (`Shows`): one for one, with more columns; and each added column is what
  a table says of a key (`Tells`), which is one value because keys are unique.
* Groups and sums. A sum is a fold over a set in an order that a CHOOSE fixes.
  `SumOfAny` shows, by induction on the set, that any element may be taken first, and
  so that corresponding rows have the same sum (`SumOfImage`), whatever they are called;
  then rows that correspond one to one with the same keys have the same groups
  (`GroupsOfImage`). Induction on finite sets is again a lemma about a set, not an
  operator (`SubsetInduction`).
* Keys. Several versions are right only because of the keys of the schema, and the
  proofs show which: q2 and q17 join the aggregate of a group back to a part (the key of
  PART), q4 drops duplicates of an order's key, q15 takes the maximum after joining
  the suppliers (every lineitem has its supplier), q18 groups by a customer's key under
  an order's name, q7 and q8 need one name and one region for each nation. q16's
  pattern `MEDIUM POLISHED%` is a prefix as text and as words because the second
  word of a type is never MEDIUM.

`Total` is `SumFunction` of the community modules, a fold whose definition the prover
can use (`MapThenSumSet` takes an operator). `QueriesLemmas` and `QueriesProofs` are
two modules because each is checked by itself.

### Only model-checked

Liveness (`LockIsFreed`, `EventuallyDone`, `EventuallyReported`, that every dbgen process
ends) and the liveness part of `ImplementsDataSet`: fairness and ENABLED are beyond the
prover. Every invariant and every action property of the passing runs is
stated by a theorem. The three violated properties of the Findings are false.

## Not modelled

The text of the queries in the cluster scripts and in pyspark, dask and modin
(see Queries above); two clusters on one Glue schema; the configuration of clusters;
column values and their distributions; the text grammar; the 64-bit generator
for scale factors from 30000 (its streams would need positions of their own: a chunk
skips them with the 31-bit generator, as the other branch of `sd_order()` and
`sd_line()` is commented out, and so does not continue them);
`-O s`; option parsing beyond the values it lets through; refresh sets from number
10000 on; the conversion of `prepare_data.py` without `--num-batches`; qgen; the
launching, provisioning and staging of the EC2 machine and the batched local Spark
run, which are commands in a straight line; two copies of one script at once; polars' eager, streaming, GPU and cloud variants, which the harness treats alike;
the file paths of `get_table_path()`; the order of `run.sh`; plots, Makefiles,
manifests and the managed clouds, whose state is not in this repository.

## Plan

In this order; what is above is done.

1. `OrderKeys`: customer keys and order keys as pure functions; `Permute`;
   `WideSeeds`, the 64-bit streams from scale factor 30000.
2. `QgenStreams`: query order and parameters per stream.
3. Proofs: the steps that the liveness properties rest on, as far as they are safety
   (a worker of `LoadBalance` in the lock can always go on to remove it).
