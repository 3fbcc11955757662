------------------------------ MODULE Ec2Bench ------------------------------
(***************************************************************************)
(* scripts/ec2/run_bench.sh: the queries of several engines one after the  *)
(* other, each in a process of its own as execute_all() would start it,    *)
(* but under a timeout and without giving up when one fails.  The process  *)
(* is that of BenchHarness, whose phase, qnum and conf are here the loops  *)
(* of the script.                                                          *)
(*                                                                         *)
(* The script is run by hand in an SSH session, which may be lost.         *)
(* timeout puts the query into a process group of its own, so the query    *)
(* then runs on, and appends its time to whatever file has the name of     *)
(* timings.csv by then.                                                    *)
(***************************************************************************)
EXTENDS BenchHarness

CONSTANTS ENGINES,    \* the engines to run, in order
          None

Cold(e) == [engine |-> e, io_type |-> "parquet", pre_run |-> FALSE, iterations |-> 1,
            log_timings |-> TRUE, check_results |-> FALSE, show_results |-> FALSE,
            scale_factor |-> 400]

ASSUME EnginesAssumption ==
    /\ ENGINES \in Seq(DOMAIN Engine) /\ ENGINES # <<>>
    /\ \A i, j \in DOMAIN ENGINES : ENGINES[i] = ENGINES[j] => i = j
    /\ \A i \in DOMAIN ENGINES : Cold(ENGINES[i]) \in Configs

VARIABLES
    eng,        \* the place in ENGINES
    console,    \* what is recorded of each query of this run, and whether it failed
    backups,    \* timings-pre-<stamp>.csv
    orphans,    \* the queries that outlive their session
    results     \* TIMINGS_S3: timings.csv of each run

ec2 == <<eng, console, backups, orphans, results>>
benchVars == <<vars, ec2>>

InitBench ==
    /\ Init /\ conf = Cold(ENGINES[1])
    /\ eng = 1 /\ console = <<>> /\ backups = {} /\ orphans = {}
    /\ results = [n \in 1..MaxInvocations |-> None]

-----------------------------------------------------------------------------
NoChild ==
    /\ child' = "none" /\ calls' = 0 /\ loaded' = FALSE /\ runs' = 0 /\ left' = 0
    /\ reading' = FALSE /\ answer' = "none" /\ out' = <<>> /\ fault' = "none"

\* Mutant: the file of an earlier run is removed.
StartBenchRemoving ==
    /\ phase \in {"idle", "done", "aborted"} /\ inv < MaxInvocations
    /\ inv' = inv + 1 /\ phase' = "next"
    /\ eng' = 1 /\ conf' = Cold(ENGINES[1]) /\ qnum' = 1 /\ console' = <<>>
    /\ timings' = <<>>
    /\ NoChild
    /\ UNCHANGED <<backups, orphans, results>>

\* "Fresh timings file for this run".
StartBench ==
    /\ phase \in {"idle", "done", "aborted"} /\ inv < MaxInvocations
    /\ inv' = inv + 1 /\ phase' = "next"
    /\ eng' = 1 /\ conf' = Cold(ENGINES[1]) /\ qnum' = 1 /\ console' = <<>>
    /\ timings' = <<>>
    /\ backups' = IF timings = <<>> THEN backups ELSE backups \cup {timings}
    /\ NoChild
    /\ UNCHANGED <<orphans, results>>

\* log "... OK", TIMEOUT or FAIL.
Recorded(verdict, failed) ==
    console' = Append(console, [solution |-> conf.engine, query |-> qnum,
                                verdict |-> verdict, failed |-> failed])

\* Mutant: the next engine goes on with the last query.
NextQueryOnly ==
    IF qnum < NumQueries
    THEN phase' = "next" /\ qnum' = qnum + 1 /\ UNCHANGED <<eng, conf>>
    ELSE IF eng < Len(ENGINES)
    THEN phase' = "next" /\ eng' = eng + 1 /\ conf' = Cold(ENGINES[eng + 1]) /\ UNCHANGED qnum
    ELSE phase' = "upload" /\ UNCHANGED <<eng, conf, qnum>>

\* The next query, the next engine, or the end of both loops.
NextQuery ==
    IF qnum < NumQueries
    THEN phase' = "next" /\ qnum' = qnum + 1 /\ UNCHANGED <<eng, conf>>
    ELSE IF eng < Len(ENGINES)
    THEN phase' = "next" /\ qnum' = 1 /\ eng' = eng + 1 /\ conf' = Cold(ENGINES[eng + 1])
    ELSE phase' = "upload" /\ UNCHANGED <<eng, conf, qnum>>

\* Mutant: the verdict on a pipe into tee.
VerdictOfTee == "OK"

Verdict == IF child = "exited" THEN "OK" ELSE "FAIL"

ChildEnded ==
    /\ phase = "waiting" /\ child \in {"exited", "raised", "killed"}
    /\ Recorded(Verdict, fault # "none")
    /\ NextQuery
    /\ NoChild
    /\ UNCHANGED <<timings, inv, backups, orphans, results>>

\* QUERY_TIMEOUT is over: timeout stops the process wherever it is, or comes
\* after its end but before it is waited for.
TimedOut ==
    /\ phase = "waiting"
    /\ Recorded("TIMEOUT", TRUE)
    /\ NextQuery
    /\ NoChild
    /\ UNCHANGED <<timings, inv, backups, orphans, results>>

\* A failed upload is a message on the screen and nothing else.
Upload ==
    /\ phase = "upload"
    /\ phase' = "done"
    /\ \/ timings # <<>> /\ results' = [results EXCEPT ![inv] = timings]
       \/ UNCHANGED results
    /\ UNCHANGED <<timings, inv, conf, qnum, child, cacheVars, left, out, fault,
                   eng, console, backups, orphans>>

\* The query has yet to log its time.
Untimed == child = "log" \/ (child \in {"define", "timed"} /\ left > 0)

\* The script ends with its session, its query does not.
LoseSession ==
    /\ phase \in {"next", "waiting", "upload"}
    /\ phase' = "aborted"
    /\ orphans' = IF Untimed
                  THEN orphans \cup {[inv |-> inv, solution |-> conf.engine, query |-> qnum]}
                  ELSE orphans
    /\ NoChild
    /\ UNCHANGED <<timings, inv, conf, qnum, eng, console, backups, results>>

\* It logs its time, or is stopped by its timeout or otherwise before that.
OrphanEnds(o) ==
    /\ o \in orphans
    /\ orphans' = orphans \ {o}
    /\ \/ timings' = Append(timings, [inv |-> o.inv, solution |-> o.solution, query |-> o.query,
                                      io_type |-> "parquet", read |-> TRUE, answer |-> "unseen"])
       \/ UNCHANGED timings
    /\ UNCHANGED <<parentVars, child, cacheVars, left, out, fault,
                   eng, console, backups, results>>

\* The steps of the query that a cold, single pass has.
QueryStep ==
    /\ DefineQuery \/ TimedRun \/ LogTiming \/ CheckResult \/ ExitQuery \/ Kill
    /\ UNCHANGED ec2

NextBench ==
    \/ StartBench
    \/ StartQuery /\ UNCHANGED ec2
    \/ QueryStep
    \/ ChildEnded \/ TimedOut \/ Upload \/ LoseSession
    \/ \E o \in orphans : OrphanEnds(o)

\* A query may hang, but not the script, nor timeout's alarm.
BenchSpec ==
    /\ InitBench /\ [][NextBench]_benchVars
    /\ WF_benchVars(StartQuery /\ UNCHANGED ec2) /\ WF_benchVars(Upload)
    /\ WF_benchVars(ChildEnded) /\ WF_benchVars(TimedOut)

-----------------------------------------------------------------------------
Rows(n, e, q) ==
    {i \in DOMAIN timings :
        timings[i].inv = n /\ timings[i].solution = e /\ timings[i].query = q}

\* A query that went well has one time in the file, and one that is on the console
\* as OK without a time has failed although nobody says so; FAIL stands for a query
\* that failed.  (TIMEOUT may have a time: the alarm can come after it.)
ConsoleMatchesTimes ==
    \A i \in DOMAIN console :
        LET c == console[i]
            rows == Cardinality(Rows(inv, c.solution, c.query))
        IN  /\ c.verdict = "OK" => rows = IF c.failed THEN 0 ELSE 1
            /\ c.verdict = "FAIL" => c.failed
            /\ rows <= 1

\* "keep any prior one as a backup": no time that was logged gets lost, however
\* often the session is lost and the script started again.
KeepsTimings ==
    [][/\ backups \subseteq backups'
       /\ IsPrefix(timings, timings') \/ timings \in backups']_benchVars

\* There is a line for each query of each engine, in this order.
ConsoleIsWhole ==
    /\ Len(console) = Len(ENGINES) * NumQueries
    /\ \A i \in DOMAIN console :
           /\ console[i].solution = ENGINES[(i - 1) \div NumQueries + 1]
           /\ console[i].query = ((i - 1) % NumQueries) + 1

\* "a failure (OOM/timeout) is recorded and the run CONTINUES": however the queries
\* fail or hang, the script comes to its end with a line for each of them, unless its
\* session is lost.
EventuallyDone ==
    (phase = "next") ~> (phase = "aborted" \/ (phase = "done" /\ ConsoleIsWhole))
=============================================================================
