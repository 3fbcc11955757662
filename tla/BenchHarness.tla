---------------------------- MODULE BenchHarness ----------------------------
(***************************************************************************)
(* The benchmark harness: execute_all() runs the queries of one engine one *)
(* after the other, each in a Python process of its own; the process       *)
(* defines its query, runs it once to warm up, then times it and appends   *)
(* the times to a file that stays from one invocation to the next; the     *)
(* plot reads that file.                                                   *)
(*                                                                         *)
(* A query's tables are handled alike, one call each before the query and  *)
(* one in it, so one table stands for all.                                 *)
(***************************************************************************)
EXTENDS Naturals, SequencesExt

CONSTANTS
    NumQueries,        \* the q<i>.py of an engine are 1 .. NumQueries
    Configs,           \* engines and settings that invocations choose from
    MaxInvocations     \* bound: how often the harness is started

ASSUME NumQueriesAssumption == NumQueries \in Nat \ {0}
ASSUME MaxInvocationsAssumption == MaxInvocations \in Nat \ {0}

(***************************************************************************)
(* The engines' utils.py.  io: the io_types it reads.  cached: its readers *)
(* are @on_second_call.  eager: a reader reads the data, others make a     *)
(* plan that reads when the query runs.  swallows: run_query() catches     *)
(* what run_query_generic() raises and prints it.                          *)
(***************************************************************************)
Pandas  == [io |-> {"parquet", "skip", "csv", "feather"},
            cached |-> TRUE, eager |-> TRUE, swallows |-> FALSE]
Modin   == [io |-> {"parquet", "skip", "csv", "feather"},
            cached |-> TRUE, eager |-> TRUE, swallows |-> FALSE]
Dask    == [io |-> {"parquet", "csv"},
            cached |-> TRUE, eager |-> FALSE, swallows |-> FALSE]
Polars  == [io |-> {"parquet", "skip", "network", "feather", "csv"},
            cached |-> FALSE, eager |-> FALSE, swallows |-> TRUE]
DuckDB  == [io |-> {"parquet", "skip", "duckdb", "csv"},
            cached |-> FALSE, eager |-> FALSE, swallows |-> FALSE]
PySpark == [io |-> {"parquet", "network", "csv"},
            cached |-> FALSE, eager |-> FALSE, swallows |-> FALSE]

Engine == [pandas |-> Pandas, modin |-> Modin, dask |-> Dask,
           polars |-> Polars, duckdb |-> DuckDB, pyspark |-> PySpark]

\* The engines whose query() assigns the table to the variable that holds its
\* reader (nonlocal), and so can call the reader only once.
Rebinding == {"modin", "dask"}

IoTypes == {"parquet", "skip", "csv", "feather", "duckdb", "network"}

Settings == [engine : DOMAIN Engine, io_type : IoTypes, pre_run : BOOLEAN,
             iterations : Nat, log_timings : BOOLEAN, check_results : BOOLEAN,
             show_results : BOOLEAN, scale_factor : Nat \ {0}]

ASSUME ConfigsAssumption == Configs \subseteq Settings

VARIABLES
    timings,      \* timings.csv, without its header
    inv,          \* number of this invocation of execute_all()
    conf,         \* its engine and settings
    phase,        \* where execute_all() is
    qnum,         \* the query it is at
    child,        \* where the process of this query is
    calls,        \* helper.calls
    loaded,       \* helper.result is a table
    runs,         \* executions of query() that have returned
    left,         \* iterations that remain
    reading,      \* whether the last execution read the table
    answer,       \* what it returned
    out,          \* what the process printed
    fault         \* history: what ended the process early

parentVars == <<inv, conf, phase, qnum>>
cacheVars  == <<calls, loaded, runs, reading, answer>>
vars == <<timings, parentVars, child, cacheVars, left, out, fault>>

E == Engine[conf.engine]

include_io == conf.io_type # "skip"

\* A line of timings.csv, with what the run it stands for did.
Entry == [inv : 1..MaxInvocations, solution : DOMAIN Engine,
          query : 1..NumQueries, io_type : IoTypes,
          read : BOOLEAN, answer : {"right", "wrong", "unseen"}]

CountsOK ==
    /\ inv \in 0..MaxInvocations /\ qnum \in 1..NumQueries
    /\ runs \in 0..(conf.iterations + 1) /\ calls \in 0..(runs + 2)
    /\ left \in 0..conf.iterations

ValuesOK ==
    /\ conf \in Configs
    /\ timings \in Seq(Entry)
    /\ phase \in {"idle", "next", "waiting", "done", "aborted"}
    /\ child \in {"none", "define", "warm_up", "timed", "log", "check",
                  "exited", "raised", "killed"}
    /\ loaded \in BOOLEAN /\ reading \in BOOLEAN
    /\ answer \in {"none", "right", "wrong", "unseen"}
    /\ out \in Seq({"took", "text"})
    /\ fault \in {"none", "harness", "query", "answer", "killed"}

TypeOK == CountsOK /\ ValuesOK

Init ==
    /\ timings = <<>> /\ inv = 0 /\ conf \in Configs /\ phase = "idle" /\ qnum = 1
    /\ child = "none" /\ calls = 0 /\ loaded = FALSE /\ runs = 0 /\ left = 0
    /\ reading = FALSE /\ answer = "none" /\ out = <<>> /\ fault = "none"

-----------------------------------------------------------------------------
(***************************************************************************)
(* The process of a query.                                                 *)
(***************************************************************************)

\* Mutant: the reader reads on its second call, whatever the io_type.
LoadsSecond(n) == n = 2

\* on_second_call(): whether the n-th call of a reader calls the function.
Loads(n) == n = (IF include_io THEN 2 ELSE 1)

\* An exception ends the process, unless run_query() prints it.
Raise(why) ==
    /\ fault' = why
    /\ IF E.swallows
       THEN child' = "exited" /\ out' = Append(out, "text")
       ELSE child' = "raised" /\ UNCHANGED out

\* Mutant: a query that does not call its reader before it is run.
DefineQueryLate ==
    /\ child = "define"
    /\ child' = IF conf.pre_run THEN "warm_up" ELSE "timed"
    /\ calls' = 0 /\ loaded' = ~E.cached
    /\ UNCHANGED <<timings, parentVars, runs, left, reading, answer, out, fault>>

\* q() up to run_query(): the first call of the reader, or the making of the
\* scan.  Nothing catches what it raises.
DefineQuery ==
    /\ child = "define"
    /\ LET reads == ~E.cached \/ Loads(1)
       IN  IF reads /\ conf.io_type \notin E.io
           THEN /\ fault' = "harness" /\ child' = "raised"
                /\ UNCHANGED <<calls, loaded>>
           ELSE /\ calls' = 1 /\ loaded' = reads
                /\ child' = IF conf.pre_run THEN "warm_up" ELSE "timed"
                /\ UNCHANGED fault
    /\ UNCHANGED <<timings, parentVars, runs, left, reading, answer, out>>

\* Whether a call of query() cannot work, whatever the query does: its reader is
\* no function any more, cannot read this io_type, or returns no table yet.
Broken ==
    \/ conf.engine \in Rebinding /\ runs > 0
    \/ E.cached /\ Loads(calls + 1) /\ conf.io_type \notin E.io
    \/ ~loaded /\ ~(E.cached /\ Loads(calls + 1))

\* One call of query() that returns.  duckdb's returns a table only when the
\* results are checked and not shown; an answer that is not checked is unseen.
QueryReturns ==
    /\ ~Broken
    /\ calls' = calls + 1 /\ loaded' = TRUE /\ runs' = runs + 1
    /\ reading' = IF E.eager THEN Loads(calls') ELSE include_io
    /\ answer' \in IF ~conf.check_results THEN {"unseen"}
                  ELSE IF conf.engine = "duckdb" /\ conf.show_results THEN {"wrong"}
                  ELSE {"right", "wrong"}
    /\ UNCHANGED fault

\* One call of query() that raises.
QueryRaises ==
    /\ Raise(IF Broken THEN "harness" ELSE "query")
    /\ UNCHANGED cacheVars

\* What an execution prints by itself: duckdb's shows its result.
Shown == IF conf.engine = "duckdb" /\ conf.show_results THEN <<"text">> ELSE <<>>

WarmUp ==
    /\ child = "warm_up"
    /\ \/ QueryReturns /\ child' = "timed" /\ out' = out \o Shown
       \/ QueryRaises
    /\ UNCHANGED <<timings, parentVars, left>>

\* Mutant: a loop of iterations that does not count.
TimedRunAgain ==
    /\ child = "timed" /\ left > 0
    /\ \/ QueryReturns /\ child' = "log" /\ out' = out \o Shown \o <<"took">>
       \/ QueryRaises
    /\ UNCHANGED <<timings, parentVars, left>>

TimedRun ==
    /\ child = "timed" /\ left > 0
    /\ \/ QueryReturns /\ child' = "log" /\ out' = out \o Shown \o <<"took">>
       \/ QueryRaises
    /\ left' = left - 1
    /\ UNCHANGED <<timings, parentVars>>

\* log_query_timing().
LogTiming ==
    /\ child = "log"
    /\ timings' = IF ~conf.log_timings THEN timings
                  ELSE Append(timings, [inv |-> inv, solution |-> conf.engine,
                                        query |-> qnum, io_type |-> conf.io_type,
                                        read |-> reading, answer |-> answer])
    /\ child' = "check"
    /\ UNCHANGED <<parentVars, cacheVars, left, out, fault>>

CheckResult ==
    /\ child = "check"
    /\ IF conf.check_results /\ conf.scale_factor # 1 THEN Raise("harness")
       ELSE IF conf.check_results /\ answer # "right" THEN Raise("answer")
       ELSE /\ child' = "timed"
            /\ out' = IF conf.show_results THEN Append(out, "text") ELSE out
            /\ UNCHANGED fault
    /\ UNCHANGED <<timings, parentVars, cacheVars, left>>

ExitQuery ==
    /\ child = "timed" /\ left = 0
    /\ child' = "exited"
    /\ UNCHANGED <<timings, parentVars, cacheVars, left, out, fault>>

\* The process is killed: out of memory, most likely.
Kill ==
    /\ child \in {"define", "warm_up", "timed", "log", "check"}
    /\ child' = "killed" /\ fault' = "killed"
    /\ UNCHANGED <<timings, parentVars, cacheVars, left, out>>

-----------------------------------------------------------------------------
(***************************************************************************)
(* execute_all().                                                          *)
(***************************************************************************)

StartHarness ==
    /\ phase \in {"idle", "done", "aborted"} /\ inv < MaxInvocations
    /\ inv' = inv + 1
    /\ conf' \in Configs
    /\ phase' = "next" /\ qnum' = 1
    /\ child' = "none" /\ calls' = 0 /\ loaded' = FALSE /\ runs' = 0 /\ left' = 0
    /\ reading' = FALSE /\ answer' = "none" /\ out' = <<>> /\ fault' = "none"
    /\ UNCHANGED timings

\* subprocess.run(): a new process, with nothing cached.
StartQuery ==
    /\ phase = "next"
    /\ phase' = "waiting" /\ child' = "define"
    /\ calls' = 0 /\ loaded' = FALSE /\ runs' = 0 /\ left' = conf.iterations
    /\ reading' = FALSE /\ answer' = "none" /\ out' = <<>> /\ fault' = "none"
    /\ UNCHANGED <<timings, inv, conf, qnum>>

\* Mutant: output is accepted when there is a time in it.
ParsesAny(o) == Contains(o, "took")

\* The pieces of the output between " s" at line ends, up to the last
\* "took: ", are numbers, and there is one to take the median of.
Parses(o) == o # <<>> /\ Last(o) = "took"

\* check=True raises for a process that failed, float() and median() for
\* output they cannot read.  Nothing catches that.
QueryEnded ==
    /\ phase = "waiting" /\ child \in {"exited", "raised", "killed"}
    /\ IF child = "exited" /\ Parses(out)
       THEN IF qnum < NumQueries
            THEN phase' = "next" /\ qnum' = qnum + 1
            ELSE phase' = "done" /\ UNCHANGED qnum
       ELSE phase' = "aborted" /\ UNCHANGED qnum
    /\ UNCHANGED <<timings, inv, conf, child, cacheVars, left, out, fault>>

Next ==
    \/ StartHarness \/ StartQuery \/ QueryEnded
    \/ DefineQuery \/ WarmUp \/ TimedRun \/ LogTiming \/ CheckResult
    \/ ExitQuery \/ Kill

Spec == Init /\ [][Next]_vars

-----------------------------------------------------------------------------
(***************************************************************************)
(* What the plot shows: the last entry of a solution and query, of an io   *)
(* type (prep_data() in plot_bars.py).                                     *)
(***************************************************************************)
Entries(s, q, io) ==
    {i \in DOMAIN timings :
        timings[i].solution = s /\ timings[i].query = q /\ timings[i].io_type = io}

\* Mutant: group_by(...).first().
PlottedFirst(s, q, io) == timings[Min(Entries(s, q, io))]

Plotted(s, q, io) == timings[Max(Entries(s, q, io))]

\* The lines of this invocation.
ThisRun(q) == {i \in DOMAIN timings : timings[i].inv = inv /\ timings[i].query = q}

(***************************************************************************)
(* Safety.                                                                 *)
(***************************************************************************)

\* execute_all() comes to its end only when every query was timed as often as
\* asked for and, when results are checked, with the right answer each time,
\* although polars' run_query() hides every exception from the exit code.
DoneMeansComplete ==
    phase = "done" =>
        \A q \in 1..NumQueries :
            /\ conf.log_timings => Cardinality(ThisRun(q)) = conf.iterations
            /\ conf.check_results => \A i \in ThisRun(q) : timings[i].answer = "right"

\* A time logged as io_type skip has no reading of the table in it: the cached
\* readers read outside the query, in whichever run and iteration.
SkippedMeansCached ==
    \A i \in DOMAIN timings : timings[i].io_type = "skip" => ~timings[i].read

\* The settings that an engine can run with: those that do not make the harness
\* fail by itself.  show_results is not among them: execute_all() cannot parse
\* the output that run_query_generic() then ends with.
Runnable ==
    /\ conf.io_type \in E.io
    /\ conf.iterations > 0 /\ ~conf.show_results
    /\ conf.check_results => conf.scale_factor = 1
    /\ conf.engine \in Rebinding => conf.iterations = 1 /\ ~conf.pre_run

\* With these settings execute_all() gives up only because a query failed, gave
\* a wrong answer or was killed, and never for how its tables are cached or its
\* output is parsed.
AbortsForCause ==
    phase = "aborted" /\ Runnable => fault \in {"query", "answer", "killed"}

\* When execute_all() has ended, the plot shows the last iteration of this
\* invocation for each query, whatever earlier invocations, ended or aborted,
\* have left in the file.
PlotIsFresh ==
    phase = "done" /\ conf.log_timings =>
        \A q \in 1..NumQueries :
            Plotted(conf.engine, q, conf.io_type) = timings[Max(ThisRun(q))]

\* What run_query_generic() intends with its first execution: "execute the query
\* once to ensure we are getting a hot run".  A query that has returned once can be
\* run again, as far as the harness is concerned.  (At other scale factors than 1
\* the checking of results makes it fail on purpose.)
HotRunFollows ==
    runs > 0 /\ conf.scale_factor = 1 => fault # "harness"
=============================================================================
