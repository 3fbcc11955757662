------------------------------- MODULE EmrRun -------------------------------
(***************************************************************************)
(* One benchmark run after the other on EMR clusters: submit_emr_trino.sh  *)
(* with trino_run.sh, trino_setup_catalog.py and trino_tpch_benchmark.py,  *)
(* and submit_emr_ec2.sh with spark_hdfs_stage.sh and                      *)
(* emr_tpch_benchmark.py, all in src/scripts/emr.                          *)
(*                                                                         *)
(* The bucket and the Glue catalogue outlive a cluster, its HDFS and the   *)
(* files of its primary node do not.  A step may be killed at any point;   *)
(* with AUTO_TERMINATE=true that ends the cluster, otherwise the operator  *)
(* may submit the step again on what is there.                             *)
(*                                                                         *)
(* There is one cluster at a time: two of them do not fit the quota that   *)
(* submit_emr_trino.sh prints.  A table is one file (trino_run.sh:74), so  *)
(* a copy of it is there or not.  Query texts, times and totals are left   *)
(* out: a row of the timings is ok or an error.                            *)
(***************************************************************************)
EXTENDS Integers, Sequences, FiniteSets

CONSTANTS
    TABLES,        \* the tables, in the order in which they are registered
    Marker,        \* the table whose directory says that HDFS is populated
    Reads,         \* query -> the tables it reads
    Uploads,       \* the sets of tables that may be in the bucket at first
    Attempts,      \* connect_with_retry()'s attempts
    AppAttempts,   \* how often YARN starts a Spark driver
    None,
    MaxJobs, MaxSteps, MaxKills     \* bounds of the model

Tables == {TABLES[i] : i \in DOMAIN TABLES}
NumQueries == Len(Reads)

ASSUME EmrAssumption ==
    /\ TABLES \in Seq(STRING) /\ Marker \in Tables
    /\ \A i, j \in DOMAIN TABLES : TABLES[i] = TABLES[j] => i = j
    /\ Reads \in Seq(SUBSET Tables)
    /\ Uploads \subseteq SUBSET Tables
    /\ {Attempts, AppAttempts, NumQueries, MaxSteps} \subseteq Nat \ {0}
    /\ {MaxJobs, MaxKills} \subseteq Nat

VARIABLES
    bucket,    \* flat: <t>.parquet, copies: trino/<t>/<t>.parquet,
               \* results: TIMINGS_S3 of each job
    glue,      \* table -> "s3" or "hdfs", its external_location, or None
    cluster,   \* state, hdfs: the tables in it, trino: the coordinator is up,
               \* csv: timings.csv on the primary node
    job,       \* the submission: number, engine, base (where the tables are), auto
    step,      \* pc, at: place in TABLES or attempts, driver: YARN's attempt,
               \* timings, killed: where the step was killed, number
    watcher,   \* the loop at the end of the submit script
    kills

vars == <<bucket, glue, cluster, job, step, watcher, kills>>

Ended == {"COMPLETED", "FAILED"}
Running == cluster.state = "up" /\ step.pc \notin Ended
At(pc) == Running /\ step.pc = pc

Init == /\ bucket \in [flat : Uploads, copies : {{}}, results : {[n \in 1..MaxJobs |-> None]}]
        /\ glue = [t \in Tables |-> None]
        /\ cluster = [state |-> "none", hdfs |-> {}, trino |-> FALSE, csv |-> None]
        /\ job = [number |-> 0, engine |-> None, base |-> None, auto |-> TRUE]
        /\ step = [pc |-> "FAILED", at |-> 1, driver |-> 1, timings |-> <<>>,
                   killed |-> None, number |-> 0]
        /\ watcher = "idle"
        /\ kills = 0

-----------------------------------------------------------------------------
(* How a step goes on and how it ends.                                     *)

Goto(pc) == step' = [step EXCEPT !.pc = pc, !.at = 1]

(* The next turn of a loop over the tables, or what comes after it.        *)
NextTableLate(then) ==
    IF step.at <= Len(TABLES) THEN step' = [step EXCEPT !.at = @ + 1] ELSE Goto(then)
NextTable(then) ==
    IF step.at < Len(TABLES) THEN step' = [step EXCEPT !.at = @ + 1] ELSE Goto(then)

Table == TABLES[step.at]

End(state, killed) ==
    /\ step' = [step EXCEPT !.pc = state, !.killed = killed]
    /\ cluster' = IF job.auto
                  THEN [cluster EXCEPT !.state = IF state = "COMPLETED" THEN "TERMINATED"
                                                 ELSE "TERMINATED_WITH_ERRORS"]
                  ELSE cluster

(* Spark's staging is a step of its own: after its failure the next step   *)
(* still runs, unless the failure terminates the cluster.  A driver that   *)
(* fails is started again, from the beginning.                             *)
Staging == job.engine = "spark" /\ step.pc \in {"stage", "copy"}
Benchmark(driver, killed) ==
    /\ step' = [step EXCEPT !.pc = "register", !.at = 1, !.driver = driver,
                            !.timings = <<>>, !.killed = killed]
    /\ UNCHANGED cluster
Fail(killed) ==
    CASE Staging /\ ~job.auto -> Benchmark(1, killed)
      [] job.engine = "spark" /\ ~Staging /\ step.driver < AppAttempts ->
            Benchmark(step.driver + 1, killed)
      [] OTHER -> End("FAILED", killed)

(* set -e, or an exception that main() does not catch.                     *)
Exit == Fail(step.killed)

(* A killed process, a lost node, a failing command outside the model.     *)
Kill == /\ Running
        /\ kills < MaxKills
        /\ kills' = kills + 1
        /\ Fail(step.pc)
        /\ UNCHANGED <<bucket, glue, job, watcher>>

-----------------------------------------------------------------------------
(* The operator.                                                           *)

FirstOf(engine, base) ==
    CASE engine = "trino" -> "reshape"
      [] engine = "spark" /\ base = "hdfs" -> "stage"
      [] OTHER -> "register"

Start(engine, base, number) ==
    step' = [pc |-> FirstOf(engine, base), at |-> 1, driver |-> 1, timings |-> <<>>,
             killed |-> None, number |-> number]

(* A submit script: a new cluster with its steps, and the loop that waits. *)
Submit(engine, base, auto) ==
    /\ cluster.state # "up" /\ watcher # "watching" /\ job.number < MaxJobs
    /\ job' = [number |-> job.number + 1, engine |-> engine, base |-> base, auto |-> auto]
    /\ cluster' = [state |-> "up", hdfs |-> {}, trino |-> FALSE, csv |-> None]
    /\ Start(engine, base, 1)
    /\ watcher' = "watching"
    /\ UNCHANGED <<bucket, glue, kills>>

(* The same steps again, with the same TIMINGS_S3, on a cluster that is    *)
(* still up.                                                               *)
Resubmit ==
    /\ cluster.state = "up" /\ step.pc \in Ended /\ step.number < MaxSteps
    /\ Start(job.engine, job.base, step.number + 1)
    /\ UNCHANGED <<bucket, glue, cluster, job, watcher, kills>>

TerminateCluster ==
    /\ cluster.state = "up" /\ step.pc \in Ended /\ watcher # "watching"
    /\ cluster' = [cluster EXCEPT !.state = "none"]
    /\ UNCHANGED <<bucket, glue, job, step, watcher, kills>>

(* The flat source may be deleted once the copies are made.                *)
DeleteFlat ==
    /\ bucket.copies = Tables /\ bucket.flat # {}
    /\ bucket' = [bucket EXCEPT !.flat = {}]
    /\ UNCHANGED <<glue, cluster, job, step, watcher, kills>>

Report ==
    /\ watcher = "watching"
    /\ \/ job.auto /\ cluster.state \in {"TERMINATED", "TERMINATED_WITH_ERRORS"}
       \/ ~job.auto /\ step.pc \in Ended
    /\ watcher' = IF step.pc = "COMPLETED" THEN "done" ELSE "failed"
    /\ UNCHANGED <<bucket, glue, cluster, job, step, kills>>

-----------------------------------------------------------------------------
(* Staging.                                                                *)

Reshape ==
    /\ At("reshape")
    /\ \/ /\ Table \in bucket.flat \cup bucket.copies
          /\ bucket' = [bucket EXCEPT !.copies = @ \cup {Table}]
          /\ NextTable(IF job.base = "hdfs" THEN "stage" ELSE "connect")
          /\ UNCHANGED cluster
       \/ /\ Table \notin bucket.flat \cup bucket.copies
          /\ Exit
          /\ UNCHANGED bucket
    /\ UNCHANGED <<glue, job, watcher, kills>>

Staged == IF job.engine = "trino" THEN "connect" ELSE "register"

Stage ==
    /\ At("stage")
    /\ Goto(IF Marker \in cluster.hdfs THEN Staged ELSE "copy")
    /\ UNCHANGED <<bucket, glue, cluster, job, watcher, kills>>

(* s3-dist-cp copies the tables in any order, each one whole.              *)
DistCp ==
    /\ At("copy")
    /\ \/ \E t \in bucket.copies \ cluster.hdfs :
             /\ cluster' = [cluster EXCEPT !.hdfs = @ \cup {t}]
             /\ UNCHANGED step
       \/ /\ bucket.copies \subseteq cluster.hdfs
          /\ Goto(Staged)
          /\ UNCHANGED cluster
    /\ UNCHANGED <<bucket, glue, job, watcher, kills>>

-----------------------------------------------------------------------------
(* Where the engines find the tables.                                      *)

(* The coordinator comes up at any time, or never.                         *)
CoordinatorStarts ==
    /\ Running /\ job.engine = "trino" /\ ~cluster.trino
    /\ cluster' = [cluster EXCEPT !.trino = TRUE]
    /\ UNCHANGED <<bucket, glue, job, step, watcher, kills>>

ConnectForEver ==
    /\ At("connect")
    /\ IF cluster.trino THEN Goto("drop") ELSE UNCHANGED step
    /\ UNCHANGED <<bucket, glue, cluster, job, watcher, kills>>

Connect ==
    /\ At("connect")
    /\ \/ /\ cluster.trino
          /\ Goto("drop")
          /\ UNCHANGED cluster
       \/ /\ ~cluster.trino /\ step.at < Attempts
          /\ step' = [step EXCEPT !.at = @ + 1]
          /\ UNCHANGED cluster
       \/ /\ ~cluster.trino /\ step.at = Attempts
          /\ Exit
    /\ UNCHANGED <<bucket, glue, job, watcher, kills>>

Holds(location) ==
    CASE location = "flat" -> bucket.flat
      [] location = "s3" -> bucket.copies
      [] location = "hdfs" -> cluster.hdfs
      [] OTHER -> {}

DropNothing ==
    /\ At("drop")
    /\ step' = [step EXCEPT !.pc = "create"]
    /\ UNCHANGED <<bucket, glue, cluster, job, watcher, kills>>

SkipRegistered ==
    /\ At("drop")
    /\ IF glue[Table] = None THEN step' = [step EXCEPT !.pc = "create"]
       ELSE NextTable("query")
    /\ UNCHANGED <<bucket, glue, cluster, job, watcher, kills>>

DropTable ==
    /\ At("drop")
    /\ glue' = [glue EXCEPT ![Table] = None]
    /\ step' = [step EXCEPT !.pc = "create"]
    /\ UNCHANGED <<bucket, cluster, job, watcher, kills>>

(* Trino creates no table that exists, and none whose location is not a    *)
(* directory of the file system; it does not look into S3.                 *)
CreateTable ==
    /\ At("create")
    /\ LET refused == glue[Table] # None \/ (job.base = "hdfs" /\ Table \notin Holds("hdfs"))
       IN  \/ /\ refused
              /\ Exit
              /\ UNCHANGED glue
           \/ /\ ~refused
              /\ glue' = [glue EXCEPT ![Table] = job.base]
              /\ step' = IF step.at < Len(TABLES)
                         THEN [step EXCEPT !.pc = "drop", !.at = @ + 1]
                         ELSE [step EXCEPT !.pc = "query", !.at = 1]
              /\ UNCHANGED cluster
    /\ UNCHANGED <<bucket, job, watcher, kills>>

(* register_tables(): reading a path that is not there is an exception.    *)
RegisterView ==
    /\ At("register")
    /\ \/ /\ Table \in Holds(job.base)
          /\ NextTable("query")
          /\ UNCHANGED cluster
       \/ /\ Table \notin Holds(job.base)
          /\ Exit
    /\ UNCHANGED <<bucket, glue, job, watcher, kills>>

-----------------------------------------------------------------------------
(* The queries and their timings.                                          *)

Location(t) == IF job.engine = "trino" THEN glue[t] ELSE job.base

AllButOne == Len(step.timings) >= NumQueries - 1
AllTimed == Len(step.timings) = NumQueries

(* Trino's timings are written to the file after every query, Spark's all  *)
(* together.                                                               *)
AfterQuery(timings) ==
    CASE job.engine = "trino" -> "truncate"
      [] job.engine # "trino" /\ Len(timings) < NumQueries -> "query"
      [] OTHER -> "save"

(* ok: the query ended; from: where its tables were.                       *)
Record(ok, from) ==
    LET row == [query |-> Len(step.timings) + 1, ok |-> ok, from |-> from]
        timings == Append(step.timings, row)
    IN  step' = [step EXCEPT !.timings = timings, !.pc = AfterQuery(timings)]

QueryRuns ==
    /\ At("query")
    /\ LET tables == Reads[Len(step.timings) + 1]
       IN  /\ \A t \in tables : t \in Holds(Location(t))
           /\ Record(TRUE, {Location(t) : t \in tables})
    /\ UNCHANGED <<bucket, glue, cluster, job, watcher, kills>>

(* For whatever reason.                                                    *)
QueryFails ==
    /\ At("query")
    /\ Record(FALSE, {})
    /\ UNCHANGED <<bucket, glue, cluster, job, watcher, kills>>

(* flush() opens the file, which empties it, and writes.                   *)
Truncate ==
    /\ At("truncate")
    /\ cluster' = [cluster EXCEPT !.csv = <<>>]
    /\ Goto("write")
    /\ UNCHANGED <<bucket, glue, job, watcher, kills>>

WriteOk ==
    /\ At("write")
    /\ cluster' = [cluster EXCEPT !.csv = SelectSeq(step.timings, LAMBDA r : r.ok)]
    /\ Goto(IF AllTimed THEN "upload" ELSE "query")
    /\ UNCHANGED <<bucket, glue, job, watcher, kills>>

Write ==
    /\ At("write")
    /\ cluster' = [cluster EXCEPT !.csv = step.timings]
    /\ Goto(IF AllTimed THEN "upload" ELSE "query")
    /\ UNCHANGED <<bucket, glue, job, watcher, kills>>

Upload ==
    /\ At("upload")
    /\ bucket' = [bucket EXCEPT !.results[job.number] = cluster.csv]
    /\ End("COMPLETED", step.killed)
    /\ UNCHANGED <<glue, job, watcher, kills>>

(* saveAsTextFile() refuses a directory that exists, and makes it first.   *)
MakeDirectory ==
    /\ At("save")
    /\ \/ /\ bucket.results[job.number] = None
          /\ bucket' = [bucket EXCEPT !.results[job.number] = <<>>]
          /\ Goto("part")
          /\ UNCHANGED cluster
       \/ /\ bucket.results[job.number] # None
          /\ Exit
          /\ UNCHANGED bucket
    /\ UNCHANGED <<glue, job, watcher, kills>>

SavePart ==
    /\ At("part")
    /\ bucket' = [bucket EXCEPT !.results[job.number] = step.timings]
    /\ End("COMPLETED", step.killed)
    /\ UNCHANGED <<glue, job, watcher, kills>>

-----------------------------------------------------------------------------
StepNext == \/ Reshape \/ Stage \/ DistCp \/ Connect
            \/ DropTable \/ CreateTable \/ RegisterView
            \/ QueryRuns \/ QueryFails \/ Truncate \/ Write \/ Upload
            \/ MakeDirectory \/ SavePart

Next == \/ StepNext
        \/ Kill
        \/ CoordinatorStarts
        \/ \E auto \in BOOLEAN : \/ \E base \in {"s3", "hdfs"} : Submit("trino", base, auto)
                                 \/ \E base \in {"flat", "s3", "hdfs"} : Submit("spark", base, auto)
        \/ Resubmit
        \/ TerminateCluster
        \/ DeleteFlat
        \/ Report

(* The steps of a cluster and the script's loop go on by themselves; the   *)
(* operator need not do anything, and the coordinator need not come up.    *)
Spec == Init /\ [][Next]_vars /\ WF_vars(StepNext) /\ WF_vars(Report)

-----------------------------------------------------------------------------
(* Properties.                                                             *)

Locations == {"flat", "s3", "hdfs"}
Phases == {"reshape", "stage", "copy", "connect", "drop", "create", "register",
           "query", "truncate", "write", "upload", "save", "part"}
Row == [query : Nat \ {0}, ok : BOOLEAN, from : SUBSET Locations]

ASSUME NoneAssumption == None \notin Seq(Row) /\ None \notin Phases

ClusterOK ==
    cluster \in [state : {"none", "up", "TERMINATED", "TERMINATED_WITH_ERRORS"},
                hdfs : SUBSET Tables, trino : BOOLEAN, csv : Seq(Row) \cup {None}]
StepOK ==
    /\ step \in [pc : Phases \cup Ended, at : Nat \ {0}, driver : 1..AppAttempts,
                 timings : Seq(Row), killed : Phases \cup {None}, number : 0..MaxSteps]
    /\ step.pc \in {"reshape", "drop", "create", "register"} => step.at <= Len(TABLES)
    /\ step.pc = "connect" => step.at <= Attempts

(* The loops stay within their tables and attempts.                        *)
TypeOK ==
    /\ bucket \in [flat : SUBSET Tables, copies : SUBSET Tables,
                   results : [1..MaxJobs -> Seq(Row) \cup {None}]]
    /\ glue \in [Tables -> Locations \cup {None}]
    /\ ClusterOK
    /\ job \in [number : 0..MaxJobs, engine : {"trino", "spark", None},
                base : Locations \cup {None}, auto : BOOLEAN]
    /\ StepOK
    /\ watcher \in {"idle", "watching", "done", "failed"}
    /\ kills \in 0..MaxKills

(* A time says how fast the engine reads from HDFS, or from S3.  Glue      *)
(* keeps the tables of earlier jobs, which may have been registered for    *)
(* the other one, or in part when their step was killed: no time is taken  *)
(* from tables that are not where this job wants them.                     *)
TimedWhereAsked ==
    \A i \in DOMAIN step.timings : step.timings[i].from \subseteq {job.base}

(* A step of Trino that ends early on a cluster that stays up, with times.  *)
BrokenOff == cluster.state = "up" /\ job.engine = "trino" /\ step.pc = "FAILED"
             /\ step.timings # <<>>

AllButLast(rows) == SubSeq(rows, 1, Len(rows) - 1)

(* trino_tpch_benchmark.py writes its file "incrementally so a mid-run     *)
(* failure never loses the queries already completed" (lines 3-5), it      *)
(* rewrites it "after every query so a crash keeps completed rows" (59):   *)
(* wherever the step was killed, the file has the rows of all its queries  *)
(* but perhaps that of the last one.                                       *)
KeepsCompletedRows ==
    BrokenOff /\ Len(step.timings) > 1 =>
        cluster.csv \in {step.timings, AllButLast(step.timings)}

(* What the rewriting does keep: a step that was not killed between the    *)
(* emptying of the file and the writing leaves the rows of all its         *)
(* queries, failed ones included and nothing of an earlier step, without   *)
(* the last one only if it was killed right after that query.              *)
KeepsRowsBetweenWrites ==
    BrokenOff /\ step.killed # "write" =>
        \/ cluster.csv = step.timings
        \/ /\ step.killed = "truncate"
           /\ Len(step.timings) > 1 => cluster.csv = AllButLast(step.timings)

(* When the submit script says that the timings are at TIMINGS_S3, they    *)
(* are there with a row for each query, whatever was killed, restarted     *)
(* and submitted again.                                                    *)
DoneMeansUploaded ==
    watcher = "done" =>
        LET results == bucket.results[job.number]
        IN  /\ Len(results) = NumQueries
            /\ \A q \in 1..NumQueries : results[q].query = q

(* What a killed step or an earlier job left behind (copies of some of the *)
(* tables, tables of Glue, an old or empty file) does not make a later     *)
(* step fail that is not killed itself, with four exceptions: a table is   *)
(* missing, the coordinator does not come up, HDFS has the directory that  *)
(* counts as the sign of a finished copy and lacks another, or Spark's     *)
(* output directory is there already.                                      *)
FailsForCause ==
    job.number > 0 /\ step.pc = "FAILED" /\ step.killed = None =>
        \/ Tables # bucket.flat \cup bucket.copies
        \/ job.engine = "spark" /\ Tables # Holds(IF job.base = "flat" THEN "flat" ELSE "s3")
        \/ job.engine = "trino" /\ ~cluster.trino
        \/ job.base = "hdfs" /\ Marker \in cluster.hdfs /\ Tables # cluster.hdfs
        \/ job.engine = "spark" /\ bucket.results[job.number] # None

(* The script that waits comes to an end: every step ends, with retries    *)
(* for a coordinator that never comes up and drivers that are restarted.   *)
EventuallyReported == watcher = "watching" ~> watcher # "watching"
=============================================================================
