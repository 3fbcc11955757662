---------------------------- MODULE EmrRunProofs ----------------------------
(***************************************************************************)
(* Theorems about the benchmark runs on EMR, for any tables, queries and   *)
(* numbers of jobs, steps, attempts and kills.                             *)
(***************************************************************************)
EXTENDS EmrRun, TLAPS, SequenceTheorems

\* Where a step is before its first query.
Before == {"reshape", "stage", "copy", "connect", "drop", "create", "register"}

\* The timings are numbered, and there are as many as the place of the step says.
TimingsInv ==
    /\ Len(step.timings) <= NumQueries
    /\ \A i \in 1..Len(step.timings) : step.timings[i].query = i
    /\ step.pc \in Before => step.timings = <<>>
    /\ step.pc = "query" => Len(step.timings) < NumQueries
    /\ step.pc \in {"upload", "save", "part"} => Len(step.timings) = NumQueries

EngineInv == step.pc \in {"register", "save", "part"} => job.engine # "trino"

\* The tables before the current one, and in a Trino run all of them, are where
\* the job wants them.
Registered ==
    /\ step.pc \in {"drop", "create"} => \A j \in 1..(step.at - 1) : glue[TABLES[j]] = job.base
    /\ job.engine = "trino" /\ step.pc \in {"query", "truncate", "write"} =>
           \A t \in Tables : glue[t] = job.base

\* What timings.csv holds between two rewritings, and after a failure.
FileInv ==
    /\ step.pc = "upload" => cluster.csv = step.timings
    /\ job.engine = "trino" =>
           LET rows == Len(step.timings)
               butLast == rows > 1 => cluster.csv = SubSeq(step.timings, 1, rows - 1)
           IN  /\ step.pc = "query" /\ rows > 0 => cluster.csv = step.timings
               /\ step.pc = "truncate" => rows > 0 /\ butLast
               /\ step.pc = "write" => rows > 0 /\ cluster.csv = <<>>
               /\ step.pc = "FAILED" /\ rows > 0 =>
                      \/ cluster.csv = step.timings
                      \/ step.killed = "truncate" /\ butLast
                      \/ step.killed = "write" /\ cluster.csv = <<>>

Complete(results) ==
    /\ results \in Seq(Row)
    /\ Len(results) = NumQueries
    /\ \A q \in 1..NumQueries : results[q].query = q

\* A step that has come to its end has left its results in the bucket, and they
\* stay there.
SavedInv == step.pc = "COMPLETED" \/ watcher = "done" => Complete(bucket.results[job.number])

JobInv == step.pc # "FAILED" \/ cluster.state = "up" \/ watcher # "idle" => job.number >= 1

IInv == /\ TypeOK /\ TimingsInv /\ EngineInv /\ Registered /\ FileInv /\ SavedInv /\ JobInv
        /\ TimedWhereAsked

\* Why a step fails that is not killed: what FailsForCause allows.
Cause ==
    \/ Tables # bucket.flat \cup bucket.copies
    \/ job.engine = "spark" /\ Tables # Holds(IF job.base = "flat" THEN "flat" ELSE "s3")
    \/ job.engine = "trino" /\ ~cluster.trino
    \/ job.base = "hdfs" /\ Marker \in cluster.hdfs /\ Tables # cluster.hdfs
    \/ job.engine = "spark" /\ bucket.results[job.number] # None

\* Each engine goes its own way to the queries.
PlaceInv ==
    /\ job.number > 0 => job.engine \in {"trino", "spark"} /\ job.base \in Locations
    /\ step.pc \in {"reshape", "connect", "drop", "create"} => job.engine = "trino"
    /\ step.pc \in {"register", "save"} => job.engine = "spark"

\* A Trino step has copies of the tables before the current one, and goes on with
\* copies of all of them.
ReshapedInv ==
    job.engine = "trino" =>
        /\ step.pc = "reshape" => \A j \in 1..(step.at - 1) : TABLES[j] \in bucket.copies
        /\ step.pc \in {"stage", "copy", "connect", "drop", "create"} => bucket.copies = Tables

\* Behind the staging there is the marker in HDFS or all that was to be copied.
StagedInv ==
    job.base = "hdfs" /\ step.killed = None /\ step.pc \in Phases \ {"reshape", "stage", "copy"} =>
        Marker \in cluster.hdfs \/ bucket.copies \subseteq cluster.hdfs

DroppedInv == step.pc = "create" => glue[Table] = None

CauseInv == PlaceInv /\ ReshapedInv /\ StagedInv /\ DroppedInv /\ FailsForCause

Steps == [pc : Phases \cup Ended, at : Nat \ {0}, driver : 1..AppAttempts,
          timings : Seq(Row), killed : Phases \cup {None}, number : 0..MaxSteps]

-----------------------------------------------------------------------------
\* The constants as the proofs use them.
LEMMA ConstantFacts ==
    /\ NumQueries \in Nat \ {0} /\ Attempts \in Nat \ {0} /\ AppAttempts \in Nat \ {0}
    /\ MaxJobs \in Nat /\ MaxSteps \in Nat \ {0} /\ MaxKills \in Nat
    /\ Len(TABLES) \in Nat \ {0}
    /\ \A i \in 1..Len(TABLES) : TABLES[i] \in Tables
    /\ \A t \in Tables : \E i \in 1..Len(TABLES) : t = TABLES[i]
    /\ \A i, j \in 1..Len(TABLES) : TABLES[i] = TABLES[j] => i = j
    /\ Marker \in Tables
    /\ DOMAIN Reads = 1..NumQueries
    /\ \A q \in 1..NumQueries : Reads[q] \subseteq Tables
    /\ Uploads \subseteq SUBSET Tables
<1>1. TABLES \in Seq(STRING) /\ Marker \in Tables /\ Reads \in Seq(SUBSET Tables)
  BY EmrAssumption
<1>2. /\ NumQueries \in Nat \ {0} /\ Attempts \in Nat \ {0} /\ AppAttempts \in Nat \ {0}
      /\ MaxJobs \in Nat /\ MaxSteps \in Nat \ {0} /\ MaxKills \in Nat
  BY EmrAssumption
<1>3. DOMAIN TABLES = 1..Len(TABLES) /\ Len(TABLES) \in Nat
  BY <1>1
<1>4. \A t \in Tables : \E i \in 1..Len(TABLES) : t = TABLES[i]
  BY <1>3 DEF Tables
<1>5. Len(TABLES) # 0
  BY <1>1, <1>3, <1>4
<1>6. \A i \in 1..Len(TABLES) : TABLES[i] \in Tables
  BY <1>3 DEF Tables
<1>7. \A i, j \in 1..Len(TABLES) : TABLES[i] = TABLES[j] => i = j
  BY <1>3, EmrAssumption
<1>8. DOMAIN Reads = 1..NumQueries /\ \A q \in 1..NumQueries : Reads[q] \subseteq Tables
  BY <1>1, <1>2 DEF NumQueries
<1>9. Uploads \subseteq SUBSET Tables
  BY EmrAssumption
<1>10. QED  BY <1>1, <1>2, <1>3, <1>4, <1>5, <1>6, <1>7, <1>8, <1>9

\* The invariant holds before the first job.
LEMMA InitIInv == Init => IInv
<1> SUFFICES ASSUME Init PROVE IInv  OBVIOUS
<1> USE ConstantFacts
<1>1. <<>> \in Seq(Row) /\ Len(<<>>) = 0  OBVIOUS
<1>2. bucket \in [flat : SUBSET Tables, copies : SUBSET Tables,
                  results : [1..MaxJobs -> Seq(Row) \cup {None}]]
  BY DEF Init
<1>3. ClusterOK /\ StepOK
  BY <1>1 DEF Init, ClusterOK, StepOK, Phases, Ended
<1>4. TypeOK
  BY <1>2, <1>3 DEF Init, TypeOK
<1>5. TimingsInv /\ EngineInv /\ Registered /\ FileInv /\ SavedInv /\ JobInv
  BY <1>1 DEF Init, TimingsInv, EngineInv, Registered, FileInv, SavedInv, JobInv, Before
<1>6. TimedWhereAsked
  BY <1>1 DEF Init, TimedWhereAsked
<1>7. QED  BY <1>4, <1>5, <1>6 DEF IInv

\* While a step makes its tables ready, only its place, the tables and the
\* registrations change.
LEMMA ReadyKeeps ==
    ASSUME IInv, step.pc \in Before, step'.pc \in Before \cup {"query"},
           step'.timings = step.timings, UNCHANGED <<job, watcher>>,
           bucket'.results = bucket.results, cluster'.state = cluster.state
    PROVE  (TimingsInv /\ FileInv /\ SavedInv /\ JobInv /\ TimedWhereAsked)'
<1> USE ConstantFacts DEF IInv
<1>1. step.timings = <<>> /\ Len(<<>>) = 0  BY DEF TimingsInv
<1>2. TimingsInv'  BY <1>1 DEF TimingsInv, Before
<1>3. FileInv'  BY <1>1 DEF FileInv, Before
<1>4. SavedInv' /\ JobInv'  BY DEF SavedInv, JobInv, Complete, Before
<1>5. TimedWhereAsked'  BY <1>1 DEF TimedWhereAsked
<1>6. QED  BY <1>2, <1>3, <1>4, <1>5

\* Types of a record of the step with some fields replaced.
LEMMA StepRecord ==
    ASSUME NEW P, NEW A, NEW D, NEW T, NEW K, NEW N,
           NEW s \in [pc : P, at : A, driver : D, timings : T, killed : K, number : N],
           NEW p \in P, NEW a \in A, NEW d \in D, NEW t \in T, NEW k \in K
    PROVE  [s EXCEPT !.pc = p, !.at = a, !.driver = d, !.timings = t, !.killed = k]
              \in [pc : P, at : A, driver : D, timings : T, killed : K, number : N]
OBVIOUS

\* A record of the step with another place, table and attempt.
LEMMA TurnRecord ==
    ASSUME NEW P, NEW A, NEW D, NEW T, NEW K, NEW N,
           NEW s \in [pc : P, at : A, driver : D, timings : T, killed : K, number : N],
           NEW p \in P, NEW a \in A
    PROVE  /\ [s EXCEPT !.pc = p, !.at = a]
                 \in [pc : P, at : A, driver : D, timings : T, killed : K, number : N]
           /\ [s EXCEPT !.at = a] = [s EXCEPT !.pc = s.pc, !.at = a]
OBVIOUS

\* A failing command or a kill ends the step or starts it again, and changes
\* nothing else but the state of the cluster.
LEMMA FailOutcome ==
    ASSUME TypeOK, step.pc \in Phases, NEW killed, Fail(killed)
    PROVE  \/ /\ job.engine = "spark"
              /\ cluster' = cluster
              /\ \E d \in 1..AppAttempts :
                    step' = [step EXCEPT !.pc = "register", !.at = 1, !.driver = d,
                                         !.timings = <<>>, !.killed = killed]
           \/ /\ step' = [step EXCEPT !.pc = "FAILED", !.killed = killed]
              /\ \/ cluster' = cluster
                 \/ cluster' = [cluster EXCEPT !.state = "TERMINATED_WITH_ERRORS"]
<1> USE ConstantFacts
<1>1. step.driver \in 1..AppAttempts /\ 1 \in 1..AppAttempts
  BY DEF TypeOK, StepOK
<1>2. CASE Staging /\ ~job.auto
  BY <1>1, <1>2 DEF Fail, Benchmark, Staging
<1>3. CASE job.engine = "spark" /\ ~Staging /\ step.driver < AppAttempts
  <2>1. step.driver + 1 \in 1..AppAttempts  BY <1>1, <1>3
  <2>2. Benchmark(step.driver + 1, killed)  BY <1>3 DEF Fail
  <2>3. QED  BY <1>3, <2>1, <2>2 DEF Benchmark
<1>4. CASE ~(Staging /\ ~job.auto) /\ ~(job.engine = "spark" /\ ~Staging /\ step.driver < AppAttempts)
  BY <1>4 DEF Fail, End
<1>5. QED  BY <1>2, <1>3, <1>4

\* What a step has uploaded, and the file it leaves on a cluster that is still up,
\* survive its failure.
LEMMA FailKeeps ==
    ASSUME IInv, step.pc \in Phases, NEW killed \in Phases \cup {None}, Fail(killed),
           killed = step.pc \/ step.pc \in Before \cup {"save"},
           UNCHANGED <<bucket, glue, job, watcher>>, kills' \in 0..MaxKills
    PROVE  IInv'
<1> USE ConstantFacts DEF IInv
<1>1. CASE /\ job.engine = "spark"
           /\ cluster' = cluster
           /\ \E d \in 1..AppAttempts :
                 step' = [step EXCEPT !.pc = "register", !.at = 1, !.driver = d,
                                      !.timings = <<>>, !.killed = killed]
  <2>1. PICK d \in 1..AppAttempts :
            step' = [step EXCEPT !.pc = "register", !.at = 1, !.driver = d,
                                 !.timings = <<>>, !.killed = killed]
    BY <1>1
  <2>2. /\ step'.pc = "register" /\ step'.at = 1 /\ step'.timings = <<>>
        /\ step'.killed = killed /\ Len(<<>>) = 0 /\ <<>> \in Seq(Row)
    BY <2>1 DEF TypeOK, StepOK
  <2>3. StepOK'
    <3>1. step' \in Steps
      <4>1. step \in Steps  BY DEF TypeOK, StepOK, Steps
      <4>2. "register" \in Phases  BY DEF Phases
      <4>3. 1 \in Nat \ {0} /\ "register" \in Phases \cup Ended  BY <4>2
      <4>4. QED  BY <2>1, <2>2, <4>1, <4>3, StepRecord DEF Steps
    <3>2. 1 <= Len(TABLES)  OBVIOUS
    <3>3. QED  BY <2>2, <3>1, <3>2 DEF StepOK, Steps
  <2>4. TypeOK'
    BY <1>1, <2>3 DEF TypeOK, ClusterOK
  <2>5. (TimingsInv /\ EngineInv /\ Registered /\ FileInv /\ TimedWhereAsked)'
    BY <1>1, <2>2 DEF TimingsInv, EngineInv, Registered, FileInv, TimedWhereAsked, Before
  <2>6. SavedInv' /\ JobInv'
    BY <1>1, <2>2 DEF SavedInv, JobInv, Complete, Phases
  <2>7. QED  BY <2>4, <2>5, <2>6
<1>2. CASE /\ step' = [step EXCEPT !.pc = "FAILED", !.killed = killed]
           /\ \/ cluster' = cluster
              \/ cluster' = [cluster EXCEPT !.state = "TERMINATED_WITH_ERRORS"]
  <2>1. /\ step'.pc = "FAILED" /\ step'.at = step.at /\ step'.timings = step.timings
        /\ step'.killed = killed /\ step'.driver = step.driver /\ step'.number = step.number
    BY <1>2 DEF TypeOK, StepOK
  <2>2. StepOK'
    BY <1>2, <2>1 DEF TypeOK, StepOK, Ended
  <2>3. cluster'.csv = cluster.csv /\ ClusterOK'
    <3>1. cluster \in [state : {"none", "up", "TERMINATED", "TERMINATED_WITH_ERRORS"},
                       hdfs : SUBSET Tables, trino : BOOLEAN, csv : Seq(Row) \cup {None}]
      BY DEF TypeOK, ClusterOK
    <3>2. CASE cluster' = cluster
      BY <3>1, <3>2 DEF ClusterOK
    <3>3. CASE cluster' = [cluster EXCEPT !.state = "TERMINATED_WITH_ERRORS"]
      <4>1. cluster'.csv = cluster.csv  BY <3>1, <3>3
      <4>2. ClusterOK'  BY <3>1, <3>3 DEF ClusterOK
      <4>3. QED  BY <4>1, <4>2
    <3>4. QED  BY <1>2, <3>2, <3>3
  <2>4. TypeOK'
    BY <2>2, <2>3 DEF TypeOK
  <2>5. (TimingsInv /\ EngineInv /\ Registered /\ TimedWhereAsked)'
    BY <2>1 DEF TimingsInv, EngineInv, Registered, TimedWhereAsked, Before
  <2>6. SavedInv' /\ JobInv'
    BY <2>1 DEF SavedInv, JobInv, Complete, Phases
  <2>7. FileInv'
    <3>1. CASE step.pc \in Before
      BY <2>1, <3>1 DEF FileInv, TimingsInv
    <3>2. CASE step.pc = "save"
      BY <2>1, <3>2 DEF FileInv, EngineInv
    <3>3. CASE step.pc = killed /\ step.pc \in {"query", "truncate", "write", "upload"}
      BY <2>1, <2>3, <3>3 DEF FileInv
    <3>4. CASE step.pc = "part"
      BY <2>1, <3>4 DEF FileInv, EngineInv
    <3>5. QED  BY <3>1, <3>2, <3>3, <3>4 DEF Phases, Before
  <2>8. QED  BY <2>4, <2>5, <2>6, <2>7
<1>3. QED  BY <1>1, <1>2, FailOutcome

\* A kill at any point.
LEMMA KillStep == IInv /\ Kill => IInv'
<1> SUFFICES ASSUME IInv, Kill PROVE IInv'  OBVIOUS
<1> USE ConstantFacts
<1>1. step.pc \in Phases  BY DEF Kill, Running, IInv, TypeOK, StepOK
<1>2. kills' \in 0..MaxKills  BY DEF Kill, IInv, TypeOK
<1>3. QED  BY <1>1, <1>2, FailKeeps DEF Kill

\* An error in the program itself, before the first query or when Spark saves.
LEMMA ExitKeeps ==
    ASSUME IInv, step.pc \in Before \cup {"save"}, Exit,
           UNCHANGED <<bucket, glue, job, watcher, kills>>
    PROVE  IInv'
<1>1. step.pc \in Phases  BY DEF Before, Phases
<1>2. step.killed \in Phases \cup {None} /\ kills' \in 0..MaxKills
  BY DEF IInv, TypeOK, StepOK
<1>3. QED  BY <1>1, <1>2, FailKeeps DEF Exit

\* A step that starts has no timings, and begins with staging or, in Spark on S3,
\* with the registration of its tables.
LEMMA StartOutcome ==
    ASSUME NEW engine, NEW base, NEW number \in 0..MaxSteps, Start(engine, base, number)
    PROVE  /\ StepOK'
           /\ step'.pc \in {"reshape", "stage", "register"} /\ step'.timings = <<>>
           /\ step'.pc = "register" => engine # "trino"
<1> USE ConstantFacts
<1>1. /\ FirstOf(engine, base) \in {"reshape", "stage", "register"}
      /\ FirstOf(engine, base) = "register" => engine # "trino"
  BY DEF FirstOf
<1>2. <<>> \in Seq(Row) /\ 1 \in 1..AppAttempts /\ 1 <= Len(TABLES)  OBVIOUS
<1>3. StepOK'
  BY <1>1, <1>2 DEF Start, StepOK, Phases
<1>4. QED  BY <1>1, <1>3 DEF Start

\* A new job finds the bucket and the catalogue as they are, and nobody has seen
\* its results.
LEMMA SubmitStep ==
    ASSUME IInv, NEW engine \in {"trino", "spark"}, NEW base \in Locations, NEW auto \in BOOLEAN,
           Submit(engine, base, auto)
    PROVE  IInv'
<1> USE ConstantFacts
<1>1. Start(engine, base, 1) /\ 1 \in 0..MaxSteps  BY DEF Submit
<1>2. /\ StepOK' /\ step'.timings = <<>> /\ step'.pc \in {"reshape", "stage", "register"}
      /\ step'.pc = "register" => engine # "trino"
  BY <1>1, StartOutcome
<1>3. job'.number \in 1..MaxJobs /\ job'.engine = engine /\ job'.base = base
  BY DEF Submit, IInv, TypeOK
<1>4. ClusterOK'  BY DEF Submit, ClusterOK
<1>5. TypeOK'
  BY <1>2, <1>4 DEF Submit, IInv, TypeOK
<1>6. Len(<<>>) = 0  OBVIOUS
<1>7. (TimingsInv /\ EngineInv /\ Registered /\ FileInv /\ TimedWhereAsked)'
  BY <1>2, <1>3, <1>6
     DEF TimingsInv, EngineInv, Registered, FileInv, TimedWhereAsked, Before
<1>8. SavedInv' /\ JobInv'
  BY <1>2, <1>3 DEF Submit, SavedInv, JobInv
<1>9. QED  BY <1>5, <1>7, <1>8 DEF IInv

\* A step submitted again, with the results of an earlier one in the bucket.
LEMMA ResubmitStep == IInv /\ Resubmit => IInv'
<1> SUFFICES ASSUME IInv, Resubmit PROVE IInv'  OBVIOUS
<1> USE ConstantFacts
<1>1. step.number + 1 \in 0..MaxSteps  BY DEF Resubmit, IInv, TypeOK, StepOK
<1>2. /\ StepOK' /\ step'.timings = <<>> /\ step'.pc \in {"reshape", "stage", "register"}
      /\ step'.pc = "register" => job.engine # "trino"
  BY <1>1, StartOutcome DEF Resubmit
<1>3. TypeOK'
  BY <1>2 DEF Resubmit, IInv, TypeOK, ClusterOK
<1>4. Len(<<>>) = 0  OBVIOUS
<1>5. (TimingsInv /\ EngineInv /\ Registered /\ FileInv /\ TimedWhereAsked)'
  BY <1>2, <1>4
     DEF Resubmit, TimingsInv, EngineInv, Registered, FileInv, TimedWhereAsked, Before
<1>6. SavedInv' /\ JobInv'
  BY <1>2 DEF Resubmit, IInv, SavedInv, JobInv, Complete
<1>7. QED  BY <1>3, <1>5, <1>6 DEF IInv

\* What happens beside the step leaves its timings, their file and the results.
LEMMA BesideKeeps ==
    ASSUME IInv, UNCHANGED <<step, glue, job>>, TypeOK', bucket'.results = bucket.results,
           cluster'.csv = cluster.csv, cluster'.state = "up" => cluster.state = "up",
           watcher' = "done" => watcher = "done" \/ step.pc = "COMPLETED",
           watcher' # "idle" => watcher # "idle"
    PROVE  IInv'
<1> USE DEF IInv
<1>1. (TimingsInv /\ EngineInv /\ Registered /\ FileInv /\ TimedWhereAsked)'
  BY DEF TimingsInv, EngineInv, Registered, FileInv, TimedWhereAsked
<1>2. SavedInv' /\ JobInv'
  BY DEF SavedInv, JobInv, Complete
<1>3. QED  BY <1>1, <1>2

\* The cluster ends and takes its disks along.
LEMMA TerminateClusterStep == IInv /\ TerminateCluster => IInv'
<1> SUFFICES ASSUME IInv, TerminateCluster PROVE IInv'  OBVIOUS
<1>1. TypeOK'
  BY DEF TerminateCluster, IInv, TypeOK, ClusterOK, StepOK
<1>2. cluster'.csv = cluster.csv /\ cluster'.state = "none"
  BY DEF TerminateCluster, IInv, TypeOK, ClusterOK
<1>3. QED  BY <1>1, <1>2, BesideKeeps DEF TerminateCluster

\* The flat files of the bucket are deleted.
LEMMA DeleteFlatStep == IInv /\ DeleteFlat => IInv'
<1> SUFFICES ASSUME IInv, DeleteFlat PROVE IInv'  OBVIOUS
<1>1. TypeOK'
  BY DEF DeleteFlat, IInv, TypeOK, ClusterOK, StepOK
<1>2. bucket'.results = bucket.results
  BY DEF DeleteFlat, IInv, TypeOK
<1>3. QED  BY <1>1, <1>2, BesideKeeps DEF DeleteFlat

\* Trino's coordinator comes up.
LEMMA CoordinatorStartsStep == IInv /\ CoordinatorStarts => IInv'
<1> SUFFICES ASSUME IInv, CoordinatorStarts PROVE IInv'  OBVIOUS
<1>1. TypeOK'
  BY DEF CoordinatorStarts, IInv, TypeOK, ClusterOK, StepOK
<1>2. cluster'.csv = cluster.csv /\ cluster'.state = cluster.state
  BY DEF CoordinatorStarts, IInv, TypeOK, ClusterOK
<1>3. QED  BY <1>1, <1>2, BesideKeeps DEF CoordinatorStarts

\* The submit script reports a step that has left its results.
LEMMA ReportStep == IInv /\ Report => IInv'
<1> SUFFICES ASSUME IInv, Report PROVE IInv'  OBVIOUS
<1>1. TypeOK'
  BY DEF Report, IInv, TypeOK, ClusterOK, StepOK
<1>2. QED  BY <1>1, BesideKeeps DEF Report

-----------------------------------------------------------------------------
\* Going on to another place.
LEMMA GotoOutcome ==
    ASSUME IInv, NEW pc \in Phases \cup Ended, pc # "FAILED", Goto(pc)
    PROVE  /\ StepOK'
           /\ step'.pc = pc /\ step'.at = 1 /\ step'.timings = step.timings
           /\ step'.killed = step.killed
<1> USE ConstantFacts
<1>1. step \in Steps  BY DEF IInv, TypeOK, StepOK, Steps
<1>2. 1 \in Nat \ {0} /\ 1 <= Len(TABLES) /\ 1 <= Attempts  OBVIOUS
<1>3. [step EXCEPT !.pc = pc, !.at = 1] \in Steps
  BY <1>1, <1>2, TurnRecord DEF Steps
<1>4. step' \in Steps  BY <1>3 DEF Goto
<1>5. step'.pc = pc /\ step'.at = 1 /\ step'.timings = step.timings /\ step'.killed = step.killed
  BY <1>1 DEF Goto, Steps
<1>6. QED  BY <1>2, <1>4, <1>5 DEF StepOK, Steps

\* A loop over the tables or the attempts goes on.
LEMMA NextTurn ==
    ASSUME IInv, NEW pc \in Before, NEW at \in Nat \ {0},
           pc = "connect" => at <= Attempts, pc # "connect" => at <= Len(TABLES),
           step' = [step EXCEPT !.pc = pc, !.at = at]
    PROVE  StepOK' /\ step'.pc = pc /\ step'.at = at /\ step'.timings = step.timings
<1>1. step \in Steps  BY DEF IInv, TypeOK, StepOK, Steps
<1>2. pc \in Phases \cup Ended /\ at \in Nat \ {0}  BY DEF Before, Phases
<1>3. step' \in Steps  BY <1>1, <1>2, TurnRecord DEF Steps
<1>4. step'.pc = pc /\ step'.at = at /\ step'.timings = step.timings
  BY <1>1 DEF Steps
<1>5. QED  BY <1>3, <1>4 DEF StepOK, Steps

\* The next table, or the place after the loop.
LEMMA NextTableOutcome ==
    ASSUME IInv, step.pc \in {"reshape", "register"}, NEW then \in Before \cup {"query"},
           NextTable(then)
    PROVE  /\ StepOK' /\ step'.timings = step.timings
           /\ step'.pc \in {step.pc, then}
<1> USE ConstantFacts
<1>1. step.at \in Nat \ {0} /\ step.pc \in Before
  BY DEF IInv, TypeOK, StepOK, Before
<1>2. CASE step.at < Len(TABLES)
  <2>1. step' = [step EXCEPT !.pc = step.pc, !.at = step.at + 1]
    <3>1. step \in Steps  BY DEF IInv, TypeOK, StepOK, Steps
    <3>2. step' = [step EXCEPT !.at = step.at + 1]  BY <1>2 DEF NextTable
    <3>3. step.at + 1 \in Nat \ {0}  BY <1>1
    <3>4. step.pc \in Phases \cup Ended  BY <3>1 DEF Steps
    <3>5. QED  BY <3>1, <3>2, <3>3, <3>4, TurnRecord DEF Steps
  <2>2. step.pc # "connect" /\ step.at + 1 \in Nat \ {0} /\ step.at + 1 <= Len(TABLES)
    BY <1>1, <1>2
  <2>3. StepOK' /\ step'.pc = step.pc /\ step'.timings = step.timings
    BY <1>1, <2>1, <2>2, NextTurn
  <2>4. QED  BY <2>3
<1>3. CASE ~(step.at < Len(TABLES))
  <2>1. Goto(then)  BY <1>3 DEF NextTable
  <2>2. then \in (Phases \cup Ended) \ {"FAILED"}  BY DEF Before, Phases
  <2>3. QED  BY <2>1, <2>2, GotoOutcome
<1>4. QED  BY <1>2, <1>3

\* One table of the bucket copied to a prefix of its own.
LEMMA ReshapeStep == IInv /\ Reshape => IInv'
<1> SUFFICES ASSUME IInv, Reshape PROVE IInv'  OBVIOUS
<1> USE ConstantFacts
<1>1. step.pc = "reshape" /\ step.pc \in Before  BY DEF Reshape, At, Before
<1>2. Table \in Tables
  BY <1>1 DEF Table, IInv, TypeOK, StepOK
<1>3. CASE Exit /\ UNCHANGED bucket
  BY <1>1, <1>3, ExitKeeps DEF Reshape
<1>4. CASE /\ bucket' = [bucket EXCEPT !.copies = @ \cup {Table}]
           /\ NextTable(IF job.base = "hdfs" THEN "stage" ELSE "connect")
           /\ UNCHANGED cluster
  <2>1. (IF job.base = "hdfs" THEN "stage" ELSE "connect") \in Before  BY DEF Before
  <2>2. /\ StepOK' /\ step'.timings = step.timings
        /\ step'.pc \in {"reshape", "stage", "connect"}
    BY <1>1, <1>4, <2>1, NextTableOutcome
  <2>3. bucket'.results = bucket.results
    BY <1>4 DEF IInv, TypeOK
  <2>4. bucket' \in [flat : SUBSET Tables, copies : SUBSET Tables,
                     results : [1..MaxJobs -> Seq(Row) \cup {None}]]
    BY <1>2, <1>4 DEF IInv, TypeOK
  <2>5. TypeOK'
    BY <1>4, <2>2, <2>4 DEF Reshape, IInv, TypeOK, ClusterOK
  <2>6. (EngineInv /\ Registered)'
    BY <2>2 DEF EngineInv, Registered
  <2>7. QED
    BY <1>1, <1>4, <2>2, <2>3, <2>5, <2>6, ReadyKeeps DEF Reshape, IInv, Before
<1>5. QED  BY <1>3, <1>4 DEF Reshape

\* Staging ends where the registration of the tables begins.
LEMMA StagedPlace == /\ Staged \in {"connect", "register"}
                     /\ Staged = "register" => job.engine # "trino"
BY DEF Staged

\* Staging, and the end of it.
LEMMA StagingKeeps ==
    ASSUME IInv, step.pc \in {"stage", "copy"}, StepOK', ClusterOK',
           step'.timings = step.timings, step'.pc \in {"copy", Staged},
           UNCHANGED <<bucket, glue, job, watcher, kills>>, cluster'.state = cluster.state
    PROVE  IInv'
<1>1. TypeOK'  BY DEF IInv, TypeOK
<1>2. (EngineInv /\ Registered)'  BY StagedPlace DEF EngineInv, Registered
<1>3. step.pc \in Before /\ step'.pc \in Before  BY StagedPlace DEF Before
<1>4. QED  BY <1>1, <1>2, <1>3, ReadyKeeps DEF IInv

\* The marker decides whether anything is copied.
LEMMA StageStep == IInv /\ Stage => IInv'
<1> SUFFICES ASSUME IInv, Stage PROVE IInv'  OBVIOUS
<1>1. (IF Marker \in cluster.hdfs THEN Staged ELSE "copy") \in (Phases \cup Ended) \ {"FAILED"}
  BY StagedPlace DEF Phases
<1>2. /\ StepOK' /\ step'.timings = step.timings /\ step'.pc \in {"copy", Staged}
  BY <1>1, GotoOutcome DEF Stage
<1>3. ClusterOK'  BY DEF Stage, IInv, TypeOK, ClusterOK
<1>4. QED  BY <1>2, <1>3, StagingKeeps DEF Stage, At

\* Tables staged by s3-dist-cp.
LEMMA DistCpStep == IInv /\ DistCp => IInv'
<1> SUFFICES ASSUME IInv, DistCp PROVE IInv'  OBVIOUS
<1>1. step.pc = "copy"  BY DEF DistCp, At
<1>2. CASE \E t \in bucket.copies \ cluster.hdfs :
              /\ cluster' = [cluster EXCEPT !.hdfs = @ \cup {t}]
              /\ UNCHANGED step
  <2>1. PICK t \in bucket.copies : cluster' = [cluster EXCEPT !.hdfs = @ \cup {t}]
    BY <1>2
  <2>2. t \in Tables  BY DEF IInv, TypeOK
  <2>3. ClusterOK' /\ cluster'.state = cluster.state
    BY <2>1, <2>2 DEF IInv, TypeOK, ClusterOK
  <2>4. StepOK'  BY <1>2 DEF IInv, TypeOK, StepOK
  <2>5. QED  BY <1>1, <1>2, <2>3, <2>4, StagingKeeps DEF DistCp
<1>3. CASE Goto(Staged) /\ UNCHANGED cluster
  <2>1. Staged \in (Phases \cup Ended) \ {"FAILED"}  BY StagedPlace DEF Phases, Ended
  <2>2. StepOK' /\ step'.timings = step.timings /\ step'.pc = Staged
    BY <1>3, <2>1, GotoOutcome
  <2>3. ClusterOK'  BY <1>3 DEF IInv, TypeOK, ClusterOK
  <2>4. QED  BY <1>1, <1>3, <2>2, <2>3, StagingKeeps DEF DistCp
<1>4. QED  BY <1>2, <1>3 DEF DistCp

\* Where the registration of the tables stands decides Registered and EngineInv.
LEMMA RegisteringKeeps ==
    ASSUME IInv, step.pc \in Before, StepOK', EngineInv', Registered',
           step'.timings = step.timings, step'.pc \in Before \cup {"query"},
           UNCHANGED <<bucket, cluster, job, watcher, kills>>,
           glue' \in [Tables -> Locations \cup {None}]
    PROVE  IInv'
<1>1. TypeOK'  BY DEF IInv, TypeOK, ClusterOK
<1>2. QED  BY <1>1, ReadyKeeps DEF IInv

\* The registration begins with no table, once the coordinator answers.
LEMMA ConnectStep == IInv /\ Connect => IInv'
<1> SUFFICES ASSUME IInv, Connect PROVE IInv'  OBVIOUS
<1> USE ConstantFacts
<1>1. step.pc = "connect" /\ step.pc \in Before  BY DEF Connect, At, Before
<1>2. glue' \in [Tables -> Locations \cup {None}]  BY DEF Connect, IInv, TypeOK
<1>3. CASE Exit
  BY <1>1, <1>3, ExitKeeps DEF Connect
<1>4. CASE Goto("drop") /\ UNCHANGED cluster
  <2>1. StepOK' /\ step'.pc = "drop" /\ step'.at = 1 /\ step'.timings = step.timings
    BY <1>4, GotoOutcome DEF Phases
  <2>2. (EngineInv /\ Registered)'  BY <2>1 DEF EngineInv, Registered
  <2>3. QED  BY <1>1, <1>2, <1>4, <2>1, <2>2, RegisteringKeeps DEF Connect, Before
<1>5. CASE step.at < Attempts /\ step' = [step EXCEPT !.at = @ + 1] /\ UNCHANGED cluster
  <2>1. step \in Steps  BY DEF IInv, TypeOK, StepOK, Steps
  <2>2. step.at + 1 \in Nat \ {0} /\ step.at + 1 <= Attempts  BY <1>5, <2>1 DEF Steps
  <2>3. step' = [step EXCEPT !.at = step.at + 1]  BY <1>5
  <2>4. step.pc \in Phases \cup Ended  BY <2>1 DEF Steps
  <2>5. step' = [step EXCEPT !.pc = step.pc, !.at = step.at + 1]
    BY <2>1, <2>2, <2>3, <2>4, TurnRecord DEF Steps
  <2>6. StepOK' /\ step'.pc = step.pc /\ step'.timings = step.timings
    BY <1>1, <2>2, <2>5, NextTurn
  <2>7. (EngineInv /\ Registered)'  BY <1>1, <2>6 DEF EngineInv, Registered
  <2>8. QED  BY <1>1, <1>2, <1>5, <2>6, <2>7, RegisteringKeeps DEF Connect
<1>6. QED  BY <1>3, <1>4, <1>5 DEF Connect

\* A table that is dropped is not one of those registered before it.
LEMMA DropTableStep == IInv /\ DropTable => IInv'
<1> SUFFICES ASSUME IInv, DropTable PROVE IInv'  OBVIOUS
<1> USE ConstantFacts
<1>1. step.pc = "drop" /\ step.pc \in Before /\ "create" \in Before
  BY DEF DropTable, At, Before
<1>2. step.at \in 1..Len(TABLES) /\ Table \in Tables
  BY <1>1 DEF Table, IInv, TypeOK, StepOK
<1>3. step' = [step EXCEPT !.pc = "create", !.at = step.at]
  BY DEF DropTable, IInv, TypeOK, StepOK
<1>4. StepOK' /\ step'.pc = "create" /\ step'.at = step.at /\ step'.timings = step.timings
  <2>1. step.at \in Nat \ {0} /\ step.at <= Len(TABLES)  BY <1>2
  <2>2. QED  BY <1>1, <1>3, <2>1, NextTurn
<1>5. glue' = [glue EXCEPT ![Table] = None] /\ glue \in [Tables -> Locations \cup {None}]
  BY DEF DropTable, IInv, TypeOK
<1>6. glue' \in [Tables -> Locations \cup {None}]  BY <1>2, <1>5
<1>7. \A j \in 1..(step.at - 1) : glue'[TABLES[j]] = job.base
  <2> TAKE j \in 1..(step.at - 1)
  <2>1. j \in 1..Len(TABLES) /\ TABLES[j] # Table  BY <1>2 DEF Table
  <2>2. glue[TABLES[j]] = job.base  BY <1>1 DEF IInv, Registered
  <2>3. QED  BY <1>5, <2>1, <2>2
<1>8. (EngineInv /\ Registered)'  BY <1>4, <1>7 DEF DropTable, EngineInv, Registered
<1>9. QED  BY <1>1, <1>4, <1>6, <1>8, RegisteringKeeps DEF DropTable

\* After the last table all of them are where the job wants them.
LEMMA CreateTableStep == IInv /\ CreateTable => IInv'
<1> SUFFICES ASSUME IInv, CreateTable PROVE IInv'  OBVIOUS
<1> USE ConstantFacts
<1>1. step.pc = "create" /\ step.pc \in Before /\ "drop" \in Before
  BY DEF CreateTable, At, Before
<1>2. step.at \in 1..Len(TABLES) /\ Table \in Tables
  BY <1>1 DEF Table, IInv, TypeOK, StepOK
<1>3. glue \in [Tables -> Locations \cup {None}] /\ job.base \in Locations \cup {None}
  BY DEF IInv, TypeOK
<1>4. CASE Exit /\ UNCHANGED glue
  BY <1>1, <1>4, ExitKeeps DEF CreateTable
<1>5. CASE /\ glue' = [glue EXCEPT ![Table] = job.base]
           /\ step' = IF step.at < Len(TABLES)
                      THEN [step EXCEPT !.pc = "drop", !.at = @ + 1]
                      ELSE [step EXCEPT !.pc = "query", !.at = 1]
           /\ UNCHANGED cluster
  <2>1. glue' \in [Tables -> Locations \cup {None}]  BY <1>2, <1>3, <1>5
  <2>2. \A j \in 1..step.at : glue'[TABLES[j]] = job.base
    <3> TAKE j \in 1..step.at
    <3>1. j \in 1..Len(TABLES) /\ TABLES[j] \in Tables  BY <1>2
    <3>2. CASE j = step.at  BY <1>2, <1>3, <1>5, <3>2 DEF Table
    <3>3. CASE j # step.at
      <4>1. j \in 1..(step.at - 1)  BY <1>2, <3>3
      <4>2. glue[TABLES[j]] = job.base  BY <1>1, <4>1 DEF IInv, Registered
      <4>3. QED  BY <1>2, <1>3, <1>5, <3>1, <4>2
    <3>4. QED  BY <3>2, <3>3
  <2>3. UNCHANGED <<bucket, job, watcher, kills>>  BY DEF CreateTable
  <2>4. CASE step.at < Len(TABLES)
    <3>1. step.at + 1 \in Nat \ {0} /\ step.at + 1 <= Len(TABLES)  BY <1>2, <2>4
    <3>2. step' = [step EXCEPT !.pc = "drop", !.at = step.at + 1]  BY <1>5, <2>4
    <3>3. StepOK' /\ step'.pc = "drop" /\ step'.at = step.at + 1 /\ step'.timings = step.timings
      BY <1>1, <3>1, <3>2, NextTurn
    <3>4. \A j \in 1..(step'.at - 1) : glue'[TABLES[j]] = job'.base
      BY <1>2, <2>2, <2>3, <3>3
    <3>5. (EngineInv /\ Registered)'  BY <3>3, <3>4 DEF EngineInv, Registered
    <3>6. QED  BY <1>1, <1>5, <2>1, <2>3, <3>3, <3>5, RegisteringKeeps
  <2>5. CASE ~(step.at < Len(TABLES))
    <3>1. Goto("query")  BY <1>5, <2>5 DEF Goto
    <3>2. StepOK' /\ step'.pc = "query" /\ step'.timings = step.timings
      BY <3>1, GotoOutcome DEF Phases
    <3>3. \A t \in Tables : glue'[t] = job'.base
      BY <1>2, <2>2, <2>3, <2>5
    <3>4. (EngineInv /\ Registered)'  BY <3>2, <3>3 DEF EngineInv, Registered
    <3>5. QED  BY <1>1, <1>5, <2>1, <2>3, <3>2, <3>4, RegisteringKeeps
  <2>6. QED  BY <2>4, <2>5
<1>6. QED  BY <1>4, <1>5 DEF CreateTable

\* One temporary view of Spark.
LEMMA RegisterViewStep == IInv /\ RegisterView => IInv'
<1> SUFFICES ASSUME IInv, RegisterView PROVE IInv'  OBVIOUS
<1>1. step.pc = "register" /\ step.pc \in Before  BY DEF RegisterView, At, Before
<1>2. job.engine # "trino"  BY <1>1 DEF IInv, EngineInv
<1>3. CASE Exit
  BY <1>1, <1>3, ExitKeeps DEF RegisterView
<1>4. CASE NextTable("query") /\ UNCHANGED cluster
  <2>1. StepOK' /\ step'.timings = step.timings /\ step'.pc \in {"register", "query"}
    BY <1>1, <1>4, NextTableOutcome
  <2>2. (EngineInv /\ Registered)'
    BY <1>2, <2>1 DEF RegisterView, EngineInv, Registered
  <2>3. glue' \in [Tables -> Locations \cup {None}]  BY DEF RegisterView, IInv, TypeOK
  <2>4. QED
    BY <1>1, <1>4, <2>1, <2>2, <2>3, RegisteringKeeps DEF RegisterView, Before
<1>5. QED  BY <1>3, <1>4 DEF RegisterView

-----------------------------------------------------------------------------
\* A query adds a row with its number, and the file is one row behind; a row that
\* is ok has its tables where the job wants them.
LEMMA RecordKeeps ==
    ASSUME IInv, step.pc = "query", NEW ok \in BOOLEAN, NEW from \in SUBSET Locations,
           from \subseteq {job.base}, Record(ok, from),
           UNCHANGED <<bucket, glue, cluster, job, watcher, kills>>
    PROVE  IInv'
<1> USE ConstantFacts
<1> DEFINE row == [query |-> Len(step.timings) + 1, ok |-> ok, from |-> from]
           timings == Append(step.timings, row)
<1>1. /\ step \in Steps /\ step.timings \in Seq(Row) /\ Len(step.timings) \in Nat
      /\ DOMAIN step.timings = 1..Len(step.timings)
  BY DEF IInv, TypeOK, StepOK, Steps
<1>2. row \in Row  BY <1>1 DEF Row
<1>3. /\ timings \in Seq(Row) /\ Len(timings) = Len(step.timings) + 1
      /\ \A i \in 1..Len(step.timings) : timings[i] = step.timings[i]
      /\ timings[Len(timings)] = row
  BY <1>1, <1>2, AppendProperties
<1>4. /\ AfterQuery(timings) \in {"truncate", "query", "save"}
      /\ AfterQuery(timings) = "truncate" <=> job.engine = "trino"
      /\ AfterQuery(timings) = "query" => Len(timings) < NumQueries
      /\ AfterQuery(timings) = "save" => ~(Len(timings) < NumQueries)
  <2>1. CASE job.engine = "trino"  BY <2>1 DEF AfterQuery
  <2>2. CASE job.engine # "trino" /\ Len(timings) < NumQueries  BY <2>2 DEF AfterQuery
  <2>3. CASE job.engine # "trino" /\ ~(Len(timings) < NumQueries)  BY <2>3 DEF AfterQuery
  <2>4. QED  BY <2>1, <2>2, <2>3
<1>5. step' = [step EXCEPT !.timings = timings, !.pc = AfterQuery(timings)]
  BY DEF Record
<1> HIDE DEF row, timings
<1>6. step'.timings = timings /\ step'.pc = AfterQuery(timings) /\ StepOK'
  BY <1>1, <1>3, <1>4, <1>5 DEF Steps, StepOK, Phases
<1>7. TypeOK'  BY <1>6 DEF IInv, TypeOK, ClusterOK
<1>8. Len(step.timings) < NumQueries /\ \A i \in 1..Len(step.timings) : step.timings[i].query = i
  BY DEF IInv, TimingsInv
<1>9. row.query = Len(step.timings) + 1 /\ row.from = from  BY DEF row
<1>10. \A i \in 1..Len(timings) : timings[i].query = i
  <2> TAKE i \in 1..Len(timings)
  <2>1. CASE i \in 1..Len(step.timings)  BY <1>3, <1>8, <2>1
  <2>2. CASE i = Len(timings)  BY <1>3, <1>9, <2>2
  <2>3. QED  BY <1>1, <1>3, <2>1, <2>2
<1>11. TimingsInv'
  BY <1>1, <1>3, <1>4, <1>6, <1>8, <1>10 DEF TimingsInv, Before
<1>12. (EngineInv /\ Registered)'
  BY <1>4, <1>6 DEF IInv, EngineInv, Registered
<1>13. FileInv'
  <2> SUFFICES ASSUME job.engine = "trino"
               PROVE  /\ Len(timings) > 0
                      /\ Len(timings) > 1 => cluster.csv = SubSeq(timings, 1, Len(timings) - 1)
    BY <1>4, <1>6 DEF FileInv
  <2>1. Len(step.timings) > 0 => cluster.csv = step.timings  BY DEF IInv, FileInv
  <2>2. ASSUME Len(step.timings) > 0
        PROVE  SubSeq(timings, 1, Len(step.timings)) = step.timings
    <3>1. timings = step.timings \o <<row>>  BY <1>1, <1>2, AppendIsConcat DEF timings
    <3>2. <<row>> \in Seq(Row) /\ 1 \in 1..Len(step.timings) /\ Len(step.timings) \in 1..Len(step.timings)
      BY <1>1, <1>2, <2>2
    <3>3. SubSeq(timings, 1, Len(step.timings)) = SubSeq(step.timings, 1, Len(step.timings))
      BY <1>1, <3>1, <3>2, SubSeqOfConcat1
    <3>4. QED  BY <1>1, <3>3, SubSeqFull
  <2>3. QED  BY <1>1, <1>3, <2>1, <2>2
<1>14. SavedInv' /\ JobInv'
  BY <1>4, <1>6 DEF IInv, SavedInv, JobInv, Complete
<1>15. TimedWhereAsked'
  <2> SUFFICES ASSUME NEW i \in 1..Len(timings) PROVE timings[i].from \subseteq {job.base}
    BY <1>3, <1>6 DEF TimedWhereAsked
  <2>1. CASE i \in 1..Len(step.timings)
    <3>1. step.timings[i].from \subseteq {job.base}
      BY <1>1, <2>1 DEF IInv, TimedWhereAsked
    <3>2. QED  BY <1>3, <2>1, <3>1
  <2>2. CASE i = Len(timings)
    BY <1>3, <1>9, <2>2
  <2>3. QED  BY <1>1, <1>3, <2>1, <2>2
<1>16. QED  BY <1>7, <1>11, <1>12, <1>13, <1>14, <1>15 DEF IInv

\* A query that runs has found its tables where the job wants them.
LEMMA QueryRunsStep == IInv /\ QueryRuns => IInv'
<1> SUFFICES ASSUME IInv, QueryRuns PROVE IInv'  OBVIOUS
<1> USE ConstantFacts
<1> DEFINE tables == Reads[Len(step.timings) + 1]
<1>1. step.pc = "query"  BY DEF QueryRuns, At
<1>2. Len(step.timings) \in Nat /\ Len(step.timings) < NumQueries
  BY <1>1 DEF IInv, TypeOK, StepOK, TimingsInv
<1>3. tables \subseteq Tables  BY <1>2
<1>4. \A t \in tables : Location(t) = job.base
  BY <1>1, <1>3 DEF Location, IInv, Registered
<1>5. {Location(t) : t \in tables} \subseteq {job.base}  BY <1>4
<1>6. {Location(t) : t \in tables} \subseteq Locations
  <2> SUFFICES ASSUME NEW t \in tables PROVE Location(t) \in Locations  OBVIOUS
  <2>1. t \in Holds(Location(t))  BY DEF QueryRuns
  <2>2. QED  BY <2>1 DEF Holds, Locations
<1>7. Record(TRUE, {Location(t) : t \in tables})  BY DEF QueryRuns
<1>8. UNCHANGED <<bucket, glue, cluster, job, watcher, kills>>  BY DEF QueryRuns
<1> HIDE DEF tables
<1>9. QED  BY <1>1, <1>5, <1>6, <1>7, <1>8, RecordKeeps

\* A query that fails has no time in its row.
LEMMA QueryFailsStep == IInv /\ QueryFails => IInv'
<1> SUFFICES ASSUME IInv, QueryFails PROVE IInv'  OBVIOUS
<1>1. step.pc = "query"  BY DEF QueryFails, At
<1>2. QED  BY <1>1, RecordKeeps DEF QueryFails

\* From the row in memory to the row in the file.
LEMMA TruncateStep == IInv /\ Truncate => IInv'
<1> SUFFICES ASSUME IInv, Truncate PROVE IInv'  OBVIOUS
<1>1. step.pc = "truncate" /\ Goto("write")  BY DEF Truncate, At
<1>2. StepOK' /\ step'.pc = "write" /\ step'.timings = step.timings
  BY <1>1, GotoOutcome DEF Phases
<1>3. <<>> \in Seq(Row)  OBVIOUS
<1>4. cluster'.csv = <<>> /\ cluster'.state = cluster.state /\ ClusterOK'
  BY <1>3 DEF Truncate, IInv, TypeOK, ClusterOK
<1>5. TypeOK'  BY <1>2, <1>4 DEF Truncate, IInv, TypeOK
<1>6. (TimingsInv /\ EngineInv /\ Registered /\ TimedWhereAsked)'
  BY <1>1, <1>2 DEF Truncate, IInv, TimingsInv, EngineInv, Registered, TimedWhereAsked, Before
<1>7. FileInv'  BY <1>1, <1>2, <1>4 DEF Truncate, IInv, FileInv
<1>8. SavedInv' /\ JobInv'
  BY <1>1, <1>2, <1>4 DEF Truncate, IInv, SavedInv, JobInv, Complete
<1>9. QED  BY <1>5, <1>6, <1>7, <1>8 DEF IInv

\* The upload begins when every query has its row in the file.
LEMMA WriteStep == IInv /\ Write => IInv'
<1> SUFFICES ASSUME IInv, Write PROVE IInv'  OBVIOUS
<1> USE ConstantFacts
<1>1. step.pc = "write" /\ Goto(IF AllTimed THEN "upload" ELSE "query")  BY DEF Write, At
<1>2. /\ StepOK' /\ step'.pc = (IF AllTimed THEN "upload" ELSE "query")
      /\ step'.timings = step.timings
  BY <1>1, GotoOutcome DEF Phases
<1>3. step.timings \in Seq(Row) /\ Len(step.timings) \in Nat
  BY DEF IInv, TypeOK, StepOK
<1>4. cluster'.csv = step.timings /\ cluster'.state = cluster.state /\ ClusterOK'
  BY <1>3 DEF Write, IInv, TypeOK, ClusterOK
<1>5. TypeOK'  BY <1>2, <1>4 DEF Write, IInv, TypeOK
<1>6. TimingsInv'
  BY <1>2, <1>3 DEF IInv, TimingsInv, AllTimed, Before
<1>7. (EngineInv /\ Registered /\ TimedWhereAsked)'
  BY <1>1, <1>2 DEF Write, IInv, EngineInv, Registered, TimedWhereAsked
<1>8. FileInv'  BY <1>2, <1>4 DEF Write, FileInv
<1>9. SavedInv' /\ JobInv'
  BY <1>1, <1>2, <1>4 DEF Write, IInv, SavedInv, JobInv, Complete
<1>10. QED  BY <1>5, <1>6, <1>7, <1>8, <1>9 DEF IInv

-----------------------------------------------------------------------------
\* The end of a step that has put a row for each query into the bucket.
LEMMA CompletedKeeps ==
    ASSUME IInv, step.pc \in {"upload", "part"},
           bucket' = [bucket EXCEPT !.results[job.number] = step.timings],
           End("COMPLETED", step.killed), UNCHANGED <<glue, job, watcher, kills>>
    PROVE  IInv'
<1> USE ConstantFacts
<1>1. step \in Steps  BY DEF IInv, TypeOK, StepOK, Steps
<1>2. /\ StepOK' /\ step'.pc = "COMPLETED" /\ step'.timings = step.timings
  BY <1>1 DEF End, Steps, StepOK, Ended
<1>3. ClusterOK' /\ (cluster'.state = "up" => cluster.state = "up")
  BY DEF End, IInv, TypeOK, ClusterOK
<1>4. job.number \in 1..MaxJobs
  BY DEF IInv, JobInv, TypeOK
<1>5. step.timings \in Seq(Row) /\ bucket.results \in [1..MaxJobs -> Seq(Row) \cup {None}]
  BY <1>1 DEF Steps, IInv, TypeOK
<1>6. /\ bucket' \in [flat : SUBSET Tables, copies : SUBSET Tables,
                      results : [1..MaxJobs -> Seq(Row) \cup {None}]]
      /\ bucket'.results[job.number] = step.timings
  BY <1>4, <1>5 DEF IInv, TypeOK
<1>7. TypeOK'  BY <1>2, <1>3, <1>6 DEF IInv, TypeOK
<1>8. (TimingsInv /\ EngineInv /\ Registered /\ FileInv /\ TimedWhereAsked)'
  BY <1>2 DEF IInv, TimingsInv, EngineInv, Registered, FileInv, TimedWhereAsked, Before
<1>9. Complete(step.timings)
  BY <1>5 DEF IInv, TimingsInv, Complete
<1>10. SavedInv' /\ JobInv'
  BY <1>4, <1>6, <1>9 DEF SavedInv, JobInv
<1>11. QED  BY <1>7, <1>8, <1>10 DEF IInv

\* Trino uploads the file of its times.
LEMMA UploadStep == IInv /\ Upload => IInv'
<1> SUFFICES ASSUME IInv, Upload PROVE IInv'  OBVIOUS
<1>1. step.pc = "upload"  BY DEF Upload, At
<1>2. cluster.csv = step.timings  BY <1>1 DEF IInv, FileInv
<1>3. QED  BY <1>1, <1>2, CompletedKeeps DEF Upload

\* Spark writes its results part by part.
LEMMA SavePartStep == IInv /\ SavePart => IInv'
<1> SUFFICES ASSUME IInv, SavePart PROVE IInv'  OBVIOUS
<1>1. step.pc = "part"  BY DEF SavePart, At
<1>2. QED  BY <1>1, CompletedKeeps DEF SavePart

\* A reported job has its directory, which is not made again.
LEMMA MakeDirectoryStep == IInv /\ MakeDirectory => IInv'
<1> SUFFICES ASSUME IInv, MakeDirectory PROVE IInv'  OBVIOUS
<1> USE ConstantFacts
<1>1. step.pc = "save"  BY DEF MakeDirectory, At
<1>2. CASE Exit /\ UNCHANGED bucket
  BY <1>1, <1>2, ExitKeeps DEF MakeDirectory
<1>3. CASE /\ bucket.results[job.number] = None
           /\ bucket' = [bucket EXCEPT !.results[job.number] = <<>>]
           /\ Goto("part")
           /\ UNCHANGED cluster
  <2>1. StepOK' /\ step'.pc = "part" /\ step'.timings = step.timings
    BY <1>3, GotoOutcome DEF Phases
  <2>2. job.number \in 1..MaxJobs  BY <1>1 DEF IInv, JobInv, TypeOK
  <2>3. <<>> \in Seq(Row)  OBVIOUS
  <2>4. bucket' \in [flat : SUBSET Tables, copies : SUBSET Tables,
                     results : [1..MaxJobs -> Seq(Row) \cup {None}]]
    BY <1>3, <2>2, <2>3 DEF IInv, TypeOK
  <2>5. TypeOK'  BY <1>3, <2>1, <2>4 DEF MakeDirectory, IInv, TypeOK, ClusterOK
  <2>6. (TimingsInv /\ EngineInv /\ Registered /\ TimedWhereAsked)'
    BY <1>1, <2>1
       DEF MakeDirectory, IInv, TimingsInv, EngineInv, Registered, TimedWhereAsked, Before
  <2>7. FileInv'  BY <2>1 DEF FileInv
  <2>8. watcher # "done"
    BY <1>3, NoneAssumption DEF IInv, SavedInv, Complete
  <2>9. SavedInv' /\ JobInv'
    BY <2>1, <2>2, <2>8 DEF MakeDirectory, SavedInv, JobInv
  <2>10. QED  BY <2>5, <2>6, <2>7, <2>9 DEF IInv
<1>4. QED  BY <1>2, <1>3 DEF MakeDirectory

-----------------------------------------------------------------------------
\* Nothing happens.
LEMMA StutterStep == IInv /\ UNCHANGED vars => IInv'
<1> SUFFICES ASSUME IInv, UNCHANGED vars PROVE IInv'  OBVIOUS
<1>1. TypeOK'  BY DEF vars, IInv, TypeOK, ClusterOK, StepOK
<1>2. QED  BY <1>1, BesideKeeps DEF vars

\* The invariant holds in every state of every behaviour.
LEMMA IInvInvariant == Spec => []IInv
<1>1. Init => IInv  BY InitIInv
<1>2. IInv /\ [Next]_vars => IInv'
  <2> SUFFICES ASSUME IInv, [Next]_vars PROVE IInv'  OBVIOUS
  <2>1. CASE StepNext
    BY <2>1, ReshapeStep, StageStep, DistCpStep, ConnectStep, DropTableStep, CreateTableStep,
       RegisterViewStep, QueryRunsStep, QueryFailsStep, TruncateStep, WriteStep, UploadStep,
       MakeDirectoryStep, SavePartStep DEF StepNext
  <2>2. CASE Kill \/ CoordinatorStarts \/ Resubmit \/ TerminateCluster \/ DeleteFlat \/ Report
    BY <2>2, KillStep, CoordinatorStartsStep, ResubmitStep, TerminateClusterStep,
       DeleteFlatStep, ReportStep
  <2>3. CASE \E auto \in BOOLEAN :
                \/ \E base \in {"s3", "hdfs"} : Submit("trino", base, auto)
                \/ \E base \in {"flat", "s3", "hdfs"} : Submit("spark", base, auto)
    <3>1. PICK engine \in {"trino", "spark"}, base \in Locations, auto \in BOOLEAN :
              Submit(engine, base, auto)
      BY <2>3 DEF Locations
    <3>2. QED  BY <3>1, SubmitStep
  <2>4. CASE UNCHANGED vars
    BY <2>4, StutterStep
  <2>5. QED  BY <2>1, <2>2, <2>3, <2>4 DEF Next
<1>3. QED  BY <1>1, <1>2, PTL DEF Spec

-----------------------------------------------------------------------------
\* A step that fails is started again or ends, for a cause if nobody killed it.
LEMMA FailCause ==
    ASSUME IInv, CauseInv, step.pc \in Phases, NEW killed, Fail(killed),
           UNCHANGED <<bucket, glue, job>>,
           \/ killed = step.pc
           \/ /\ killed = step.killed
              /\ step.pc \in {"reshape", "connect", "create", "register", "save"}
              /\ step.killed = None => Cause
    PROVE  CauseInv'
<1>1. CASE /\ job.engine = "spark"
           /\ cluster' = cluster
           /\ \E d \in 1..AppAttempts :
                 step' = [step EXCEPT !.pc = "register", !.at = 1, !.driver = d,
                                      !.timings = <<>>, !.killed = killed]
  <2>1. step'.pc = "register" /\ step'.killed = killed
    BY <1>1 DEF IInv, TypeOK, StepOK
  <2>2. PlaceInv' /\ ReshapedInv' /\ DroppedInv' /\ FailsForCause'
    BY <1>1, <2>1
       DEF CauseInv, PlaceInv, ReshapedInv, DroppedInv, FailsForCause
  <2>3. ASSUME killed = None
        PROVE  step.killed = None /\ step.pc \in Phases \ {"reshape", "stage", "copy"}
    BY <1>1, <2>3, NoneAssumption DEF CauseInv, PlaceInv
  <2>4. StagedInv'
    BY <1>1, <2>1, <2>3 DEF CauseInv, StagedInv
  <2>5. QED  BY <2>2, <2>4 DEF CauseInv
<1>2. CASE /\ step' = [step EXCEPT !.pc = "FAILED", !.killed = killed]
           /\ \/ cluster' = cluster
              \/ cluster' = [cluster EXCEPT !.state = "TERMINATED_WITH_ERRORS"]
  <2>1. step'.pc = "FAILED" /\ step'.killed = killed
    BY <1>2 DEF IInv, TypeOK, StepOK
  <2>2. cluster'.hdfs = cluster.hdfs /\ cluster'.trino = cluster.trino
    BY <1>2 DEF IInv, TypeOK, ClusterOK
  <2>3. PlaceInv' /\ ReshapedInv' /\ DroppedInv'
    BY <2>1 DEF CauseInv, PlaceInv, ReshapedInv, DroppedInv
  <2>4. StagedInv'
    BY <2>1 DEF StagedInv, Phases
  <2>5. killed = None => Cause
    BY NoneAssumption
  <2>6. FailsForCause'
    BY <2>1, <2>2, <2>5 DEF Cause, FailsForCause, Holds
  <2>7. QED  BY <2>3, <2>4, <2>6 DEF CauseInv
<1>3. QED  BY <1>1, <1>2, FailOutcome DEF IInv

\* A killed step has the kill for a cause.
LEMMA KillCause == IInv /\ CauseInv /\ Kill => CauseInv'
<1> SUFFICES ASSUME IInv, CauseInv, Kill PROVE CauseInv'  OBVIOUS
<1>1. step.pc \in Phases  BY DEF Kill, Running, IInv, TypeOK, StepOK
<1>2. QED  BY <1>1, FailCause DEF Kill

\* An error in the program itself.
LEMMA ExitCause ==
    ASSUME IInv, CauseInv, Exit, UNCHANGED <<bucket, glue, job>>,
           step.pc \in {"reshape", "connect", "create", "register", "save"},
           step.killed = None => Cause
    PROVE  CauseInv'
<1>1. step.pc \in Phases  BY DEF Phases
<1>2. QED  BY <1>1, FailCause DEF Exit

\* Where a step begins.
LEMMA StartCause ==
    ASSUME NEW engine \in {"trino", "spark"}, NEW base \in Locations, NEW number,
           Start(engine, base, number), job'.engine = engine, job'.base = base
    PROVE  CauseInv'
<1>1. /\ step'.pc = FirstOf(engine, base) /\ step'.at = 1
  BY DEF Start
<1>2. /\ FirstOf(engine, base) \in {"reshape", "stage", "register"}
      /\ engine = "trino" => FirstOf(engine, base) = "reshape"
      /\ engine = "spark" => FirstOf(engine, base) # "reshape"
      /\ FirstOf(engine, base) = "register" => base # "hdfs"
  BY DEF FirstOf
<1>3. PlaceInv' /\ DroppedInv' /\ FailsForCause'
  BY <1>1, <1>2 DEF PlaceInv, DroppedInv, FailsForCause
<1>4. ReshapedInv'
  BY <1>1, <1>2 DEF ReshapedInv
<1>5. StagedInv'
  BY <1>1, <1>2 DEF StagedInv
<1>6. QED  BY <1>3, <1>4, <1>5 DEF CauseInv

LEMMA ResubmitCause == IInv /\ CauseInv /\ Resubmit => CauseInv'
<1> SUFFICES ASSUME IInv, CauseInv, Resubmit PROVE CauseInv'  OBVIOUS
<1>1. job.number > 0  BY DEF Resubmit, IInv, JobInv, TypeOK
<1>2. job.engine \in {"trino", "spark"} /\ job.base \in Locations
  BY <1>1 DEF CauseInv, PlaceInv
<1>3. QED  BY <1>2, StartCause DEF Resubmit

\* What happens beside the step takes no cause away.
LEMMA BesideCause ==
    ASSUME CauseInv, UNCHANGED <<step, glue, job>>, bucket'.copies = bucket.copies,
           cluster'.hdfs = cluster.hdfs,
           step.pc = "FAILED" /\ Cause => Cause'
    PROVE  CauseInv'
<1>1. PlaceInv' /\ DroppedInv' /\ ReshapedInv' /\ StagedInv'
  BY DEF CauseInv, PlaceInv, DroppedInv, Table, ReshapedInv, StagedInv
<1>2. FailsForCause'
  BY DEF CauseInv, FailsForCause, Cause, Holds
<1>3. QED  BY <1>1, <1>2 DEF CauseInv

LEMMA TerminateClusterCause == IInv /\ CauseInv /\ TerminateCluster => CauseInv'
<1> SUFFICES ASSUME IInv, CauseInv, TerminateCluster PROVE CauseInv'  OBVIOUS
<1>1. cluster'.hdfs = cluster.hdfs /\ cluster'.trino = cluster.trino
  BY DEF TerminateCluster, IInv, TypeOK, ClusterOK
<1>2. Cause => Cause'  BY <1>1 DEF TerminateCluster, Cause, Holds
<1>3. QED  BY <1>1, <1>2, BesideCause DEF TerminateCluster

\* The flat files are deleted when there are copies of them; Spark on the flat
\* files misses them then.
LEMMA DeleteFlatCause == IInv /\ CauseInv /\ DeleteFlat => CauseInv'
<1> SUFFICES ASSUME IInv, CauseInv, DeleteFlat PROVE CauseInv'  OBVIOUS
<1>1. /\ bucket'.copies = bucket.copies /\ bucket'.flat = {}
      /\ bucket'.results = bucket.results
  BY DEF DeleteFlat, IInv, TypeOK
<1>2. bucket.flat \cup bucket.copies = Tables /\ Tables # {}
  BY ConstantFacts DEF DeleteFlat, IInv, TypeOK
<1>3. Cause => Cause'  BY <1>1, <1>2 DEF DeleteFlat, Cause, Holds
<1>4. QED  BY <1>1, <1>3, BesideCause DEF DeleteFlat

\* A coordinator that comes up has a step that is running.
LEMMA CoordinatorStartsCause == IInv /\ CauseInv /\ CoordinatorStarts => CauseInv'
<1> SUFFICES ASSUME IInv, CauseInv, CoordinatorStarts PROVE CauseInv'  OBVIOUS
<1>1. cluster'.hdfs = cluster.hdfs
  BY DEF CoordinatorStarts, IInv, TypeOK, ClusterOK
<1>2. step.pc # "FAILED"  BY DEF CoordinatorStarts, Running, Ended
<1>3. QED  BY <1>1, <1>2, BesideCause DEF CoordinatorStarts

LEMMA ReportCause == IInv /\ CauseInv /\ Report => CauseInv'
<1> SUFFICES ASSUME IInv, CauseInv, Report PROVE CauseInv'  OBVIOUS
<1>1. Cause => Cause'  BY DEF Report, Cause, Holds
<1>2. QED  BY <1>1, BesideCause DEF Report

-----------------------------------------------------------------------------
\* The next turn of a loop over the tables, or the end of it.
LEMMA NextTableTurn ==
    ASSUME IInv, NEW then, NextTable(then)
    PROVE  /\ step'.killed = step.killed
           /\ \/ step.at < Len(TABLES) /\ step'.pc = step.pc /\ step'.at = step.at + 1
              \/ ~(step.at < Len(TABLES)) /\ step'.pc = then
<1>1. step \in Steps  BY DEF IInv, TypeOK, StepOK, Steps
<1>2. CASE step.at < Len(TABLES)
  BY <1>1, <1>2 DEF NextTable, Steps
<1>3. CASE ~(step.at < Len(TABLES))
  BY <1>1, <1>3 DEF NextTable, Goto, Steps
<1>4. QED  BY <1>2, <1>3

\* A table that is nowhere in the bucket ends a Trino step; behind the last one
\* there are copies of all.
LEMMA ReshapeCause == IInv /\ CauseInv /\ Reshape => CauseInv'
<1> SUFFICES ASSUME IInv, CauseInv, Reshape PROVE CauseInv'  OBVIOUS
<1> USE ConstantFacts
<1>1. step.pc = "reshape" /\ job.engine = "trino"
  BY DEF Reshape, At, CauseInv, PlaceInv
<1>2. step.at \in 1..Len(TABLES) /\ Table \in Tables
  BY <1>1 DEF Table, IInv, TypeOK, StepOK
<1>3. CASE Table \notin bucket.flat \cup bucket.copies /\ Exit /\ UNCHANGED bucket
  <2>1. Cause  BY <1>2, <1>3 DEF Cause
  <2>2. QED  BY <1>1, <1>3, <2>1, ExitCause DEF Reshape
<1>4. CASE /\ bucket' = [bucket EXCEPT !.copies = @ \cup {Table}]
           /\ NextTable(IF job.base = "hdfs" THEN "stage" ELSE "connect")
           /\ UNCHANGED cluster
  <2>1. bucket'.copies = bucket.copies \cup {Table} /\ bucket.copies \subseteq Tables
    BY <1>4 DEF IInv, TypeOK
  <2>2. \A j \in 1..step.at : TABLES[j] \in bucket'.copies
    <3> TAKE j \in 1..step.at
    <3>1. CASE j = step.at  BY <2>1, <3>1 DEF Table
    <3>2. CASE j # step.at
      <4>1. j \in 1..(step.at - 1)  BY <1>2, <3>2
      <4>2. QED  BY <1>1, <2>1, <4>1 DEF CauseInv, ReshapedInv
    <3>3. QED  BY <3>1, <3>2
  <2>3. UNCHANGED <<glue, job, cluster>>  BY <1>4 DEF Reshape
  <2>4. CASE step.at < Len(TABLES) /\ step'.pc = step.pc /\ step'.at = step.at + 1
    <3>1. \A j \in 1..(step'.at - 1) : TABLES[j] \in bucket'.copies
      BY <1>2, <2>2, <2>4
    <3>2. QED
      BY <1>1, <2>3, <2>4, <3>1
         DEF CauseInv, PlaceInv, ReshapedInv, StagedInv, DroppedInv, FailsForCause
  <2>5. CASE /\ ~(step.at < Len(TABLES))
             /\ step'.pc = IF job.base = "hdfs" THEN "stage" ELSE "connect"
    <3>1. bucket'.copies = Tables
      BY <1>2, <2>1, <2>2, <2>5
    <3>2. PlaceInv' /\ ReshapedInv' /\ DroppedInv' /\ FailsForCause'
      BY <1>1, <2>3, <2>5, <3>1
         DEF CauseInv, PlaceInv, ReshapedInv, DroppedInv, FailsForCause
    <3>3. StagedInv'
      BY <2>3, <2>5 DEF StagedInv
    <3>4. QED  BY <3>2, <3>3 DEF CauseInv
  <2>6. QED  BY <1>4, <2>4, <2>5, NextTableTurn
<1>5. QED  BY <1>3, <1>4 DEF Reshape

\* HDFS has the marker, or gets all that there are copies of.
LEMMA StageCause == IInv /\ CauseInv /\ Stage => CauseInv'
<1> SUFFICES ASSUME IInv, CauseInv, Stage PROVE CauseInv'  OBVIOUS
<1>1. step.pc = "stage"  BY DEF Stage, At
<1>2. /\ step'.pc = (IF Marker \in cluster.hdfs THEN Staged ELSE "copy")
      /\ step'.killed = step.killed
  BY DEF Stage, Goto, IInv, TypeOK, StepOK
<1>3. UNCHANGED <<bucket, glue, cluster, job>>  BY DEF Stage
<1>4. job.number > 0 /\ job.engine \in {"trino", "spark"}
  BY <1>1 DEF IInv, JobInv, TypeOK, CauseInv, PlaceInv
<1>5. PlaceInv' /\ ReshapedInv' /\ DroppedInv' /\ FailsForCause'
  BY <1>1, <1>2, <1>3, <1>4
     DEF Staged, CauseInv, PlaceInv, ReshapedInv, DroppedInv, FailsForCause
<1>6. StagedInv'
  BY <1>2, <1>3 DEF StagedInv
<1>7. QED  BY <1>5, <1>6 DEF CauseInv

LEMMA DistCpCause == IInv /\ CauseInv /\ DistCp => CauseInv'
<1> SUFFICES ASSUME IInv, CauseInv, DistCp PROVE CauseInv'  OBVIOUS
<1>1. step.pc = "copy" /\ UNCHANGED <<bucket, glue, job>>  BY DEF DistCp, At
<1>2. job.number > 0 /\ job.engine \in {"trino", "spark"}
  BY <1>1 DEF IInv, JobInv, TypeOK, CauseInv, PlaceInv
<1>3. CASE \E t \in bucket.copies \ cluster.hdfs :
              /\ cluster' = [cluster EXCEPT !.hdfs = @ \cup {t}]
              /\ UNCHANGED step
  BY <1>1, <1>3
     DEF CauseInv, PlaceInv, ReshapedInv, StagedInv, DroppedInv, FailsForCause
<1>4. CASE bucket.copies \subseteq cluster.hdfs /\ Goto(Staged) /\ UNCHANGED cluster
  <2>1. step'.pc = Staged
    BY <1>4 DEF Goto, IInv, TypeOK, StepOK
  <2>2. PlaceInv' /\ ReshapedInv' /\ DroppedInv' /\ FailsForCause'
    BY <1>1, <1>2, <1>4, <2>1
       DEF Staged, CauseInv, PlaceInv, ReshapedInv, DroppedInv, FailsForCause
  <2>3. StagedInv'
    BY <1>1, <1>4 DEF StagedInv
  <2>4. QED  BY <2>2, <2>3 DEF CauseInv
<1>5. QED  BY <1>3, <1>4 DEF DistCp

\* A step behind the staging goes on, its staging being what it was.
LEMMA StagedCause ==
    ASSUME CauseInv, step.pc \in Phases \ {"reshape", "stage", "copy"},
           step'.pc \notin {"reshape", "stage", "copy", "FAILED"}, step'.killed = step.killed,
           UNCHANGED job, cluster'.hdfs = cluster.hdfs, bucket'.copies = bucket.copies,
           PlaceInv', DroppedInv',
           step'.pc \in {"connect", "drop", "create"} => step.pc \in {"connect", "drop", "create"}
    PROVE  CauseInv'
<1>1. ReshapedInv'  BY DEF CauseInv, ReshapedInv
<1>2. StagedInv'  BY DEF CauseInv, StagedInv
<1>3. FailsForCause'  BY DEF FailsForCause
<1>4. QED  BY <1>1, <1>2, <1>3 DEF CauseInv

\* A coordinator that does not answer in time is a cause.
LEMMA ConnectCause == IInv /\ CauseInv /\ Connect => CauseInv'
<1> SUFFICES ASSUME IInv, CauseInv, Connect PROVE CauseInv'  OBVIOUS
<1>1. step.pc = "connect" /\ job.engine = "trino" /\ UNCHANGED <<bucket, glue, job>>
  BY DEF Connect, At, CauseInv, PlaceInv
<1>2. CASE ~cluster.trino /\ Exit
  BY <1>1, <1>2, ExitCause DEF Cause
<1>3. CASE /\ UNCHANGED cluster
           /\ Goto("drop") \/ step' = [step EXCEPT !.at = @ + 1]
  <2>1. step'.pc \in {"connect", "drop"} /\ step'.killed = step.killed
    BY <1>1, <1>3 DEF Goto, IInv, TypeOK, StepOK
  <2>2. PlaceInv' /\ DroppedInv'
    BY <1>1, <2>1 DEF CauseInv, PlaceInv, DroppedInv
  <2>3. QED  BY <1>1, <1>3, <2>1, <2>2, StagedCause DEF Phases
<1>4. QED  BY <1>2, <1>3 DEF Connect

\* The table that is created next is not in the catalogue.
LEMMA DropTableCause == IInv /\ CauseInv /\ DropTable => CauseInv'
<1> SUFFICES ASSUME IInv, CauseInv, DropTable PROVE CauseInv'  OBVIOUS
<1> USE ConstantFacts
<1>1. step.pc = "drop" /\ UNCHANGED <<bucket, cluster, job>>  BY DEF DropTable, At
<1>2. step'.pc = "create" /\ step'.at = step.at /\ step'.killed = step.killed
  BY DEF DropTable, IInv, TypeOK, StepOK
<1>3. Table \in Tables
  BY <1>1 DEF Table, IInv, TypeOK, StepOK
<1>4. Table' = Table  BY <1>2 DEF Table
<1>5. glue'[Table] = None
  BY <1>3 DEF DropTable, IInv, TypeOK
<1>6. DroppedInv'  BY <1>4, <1>5 DEF DroppedInv
<1>7. PlaceInv'  BY <1>1, <1>2 DEF CauseInv, PlaceInv
<1>8. QED  BY <1>1, <1>2, <1>6, <1>7, StagedCause DEF Phases

\* The metastore refuses a table only if HDFS has no directory for it: then the
\* marker was there and no copy was made.
LEMMA CreateTableCause == IInv /\ CauseInv /\ CreateTable => CauseInv'
<1> SUFFICES ASSUME IInv, CauseInv, CreateTable PROVE CauseInv'  OBVIOUS
<1> USE ConstantFacts
<1>1. step.pc = "create" /\ job.engine = "trino" /\ UNCHANGED <<bucket, job>>
  BY DEF CreateTable, At, CauseInv, PlaceInv
<1>2. Table \in Tables
  BY <1>1 DEF Table, IInv, TypeOK, StepOK
<1>3. CASE /\ glue[Table] # None \/ (job.base = "hdfs" /\ Table \notin Holds("hdfs"))
           /\ Exit /\ UNCHANGED glue
  <2>1. job.base = "hdfs" /\ Table \notin cluster.hdfs
    BY <1>1, <1>3 DEF CauseInv, DroppedInv, Holds
  <2>2. ASSUME step.killed = None PROVE Cause
    <3>1. bucket.copies = Tables  BY <1>1 DEF CauseInv, ReshapedInv
    <3>2. Marker \in cluster.hdfs \/ bucket.copies \subseteq cluster.hdfs
      BY <1>1, <2>1, <2>2 DEF CauseInv, StagedInv, Phases
    <3>3. QED  BY <1>2, <2>1, <3>1, <3>2 DEF Cause
  <2>3. QED  BY <1>1, <1>3, <2>2, ExitCause
<1>4. CASE /\ step' = IF step.at < Len(TABLES)
                      THEN [step EXCEPT !.pc = "drop", !.at = @ + 1]
                      ELSE [step EXCEPT !.pc = "query", !.at = 1]
           /\ UNCHANGED cluster
  <2>1. step'.pc \in {"drop", "query"} /\ step'.killed = step.killed
    <3>1. step \in Steps  BY DEF IInv, TypeOK, StepOK, Steps
    <3>2. CASE step.at < Len(TABLES)  BY <1>4, <3>1, <3>2 DEF Steps
    <3>3. CASE ~(step.at < Len(TABLES))  BY <1>4, <3>1, <3>3 DEF Steps
    <3>4. QED  BY <3>2, <3>3
  <2>2. PlaceInv' /\ DroppedInv'
    BY <1>1, <2>1 DEF CauseInv, PlaceInv, DroppedInv
  <2>3. QED  BY <1>1, <1>4, <2>1, <2>2, StagedCause DEF Phases
<1>5. QED  BY <1>3, <1>4 DEF CreateTable

\* A view of Spark fails when its table is not where the job reads it.
LEMMA RegisterViewCause == IInv /\ CauseInv /\ RegisterView => CauseInv'
<1> SUFFICES ASSUME IInv, CauseInv, RegisterView PROVE CauseInv'  OBVIOUS
<1> USE ConstantFacts
<1>1. step.pc = "register" /\ job.engine = "spark" /\ UNCHANGED <<bucket, glue, job>>
  BY DEF RegisterView, At, CauseInv, PlaceInv
<1>2. Table \in Tables
  BY <1>1 DEF Table, IInv, TypeOK, StepOK
<1>3. job.base \in Locations
  BY <1>1 DEF IInv, JobInv, TypeOK, CauseInv, PlaceInv
<1>4. CASE Table \notin Holds(job.base) /\ Exit
  <2>1. ASSUME step.killed = None PROVE Cause
    <3>1. CASE job.base \in {"flat", "s3"}
      <4>1. Tables # Holds(job.base)  BY <1>2, <1>4
      <4>2. QED  BY <1>1, <3>1, <4>1 DEF Cause
    <3>2. CASE job.base = "hdfs"
      <4>1. Table \notin cluster.hdfs  BY <1>4, <3>2 DEF Holds
      <4>2. Marker \in cluster.hdfs \/ bucket.copies \subseteq cluster.hdfs
        BY <1>1, <2>1, <3>2 DEF CauseInv, StagedInv, Phases
      <4>3. CASE Marker \in cluster.hdfs
        BY <1>2, <3>2, <4>1, <4>3 DEF Cause
      <4>4. CASE bucket.copies \subseteq cluster.hdfs
        <5>1. Tables # bucket.copies  BY <1>2, <4>1, <4>4
        <5>2. QED  BY <1>1, <3>2, <5>1 DEF Cause, Holds
      <4>5. QED  BY <4>2, <4>3, <4>4
    <3>3. QED  BY <1>3, <3>1, <3>2 DEF Locations
  <2>2. QED  BY <1>1, <1>4, <2>1, ExitCause
<1>5. CASE NextTable("query") /\ UNCHANGED cluster
  <2>1. step'.pc \in {"register", "query"} /\ step'.killed = step.killed
    BY <1>1, <1>5, NextTableTurn
  <2>2. PlaceInv' /\ DroppedInv'
    BY <1>1, <2>1 DEF CauseInv, PlaceInv, DroppedInv
  <2>3. QED  BY <1>1, <1>5, <2>1, <2>2, StagedCause DEF Phases
<1>6. QED  BY <1>4, <1>5 DEF RegisterView

\* From the first query to the last part of the results.
LEMMA OnwardCause ==
    ASSUME IInv, CauseInv, step.pc \in {"query", "truncate", "write", "upload", "save", "part"},
           step'.pc \in {"query", "truncate", "write", "upload", "save", "part", "COMPLETED"},
           step'.pc = "save" => job.engine # "trino", step'.killed = step.killed,
           UNCHANGED job, cluster'.hdfs = cluster.hdfs, bucket'.copies = bucket.copies
    PROVE  CauseInv'
<1>1. job.number > 0  BY DEF IInv, JobInv, TypeOK
<1>2. PlaceInv'  BY <1>1 DEF CauseInv, PlaceInv
<1>3. DroppedInv'  BY DEF DroppedInv
<1>4. QED  BY <1>2, <1>3, StagedCause DEF Phases

LEMMA QueryCause == IInv /\ CauseInv /\ (QueryRuns \/ QueryFails) => CauseInv'
<1> SUFFICES ASSUME IInv, CauseInv, QueryRuns \/ QueryFails PROVE CauseInv'  OBVIOUS
<1>1. step.pc = "query" /\ UNCHANGED <<bucket, cluster, job>>
  BY DEF QueryRuns, QueryFails, At
<1>2. PICK ok, from : Record(ok, from)
  BY DEF QueryRuns, QueryFails
<1> DEFINE timings == Append(step.timings, [query |-> Len(step.timings) + 1, ok |-> ok, from |-> from])
<1>3. step' = [step EXCEPT !.timings = timings, !.pc = AfterQuery(timings)]
  BY <1>2 DEF Record
<1>4. /\ AfterQuery(timings) \in {"truncate", "query", "save"}
      /\ AfterQuery(timings) = "save" => job.engine # "trino"
  <2> HIDE DEF timings
  <2>1. CASE job.engine = "trino"  BY <2>1 DEF AfterQuery
  <2>2. CASE job.engine # "trino" /\ Len(timings) < NumQueries  BY <2>2 DEF AfterQuery
  <2>3. CASE job.engine # "trino" /\ ~(Len(timings) < NumQueries)  BY <2>3 DEF AfterQuery
  <2>4. QED  BY <2>1, <2>2, <2>3
<1> HIDE DEF timings
<1>5. step'.pc = AfterQuery(timings) /\ step'.killed = step.killed
  BY <1>3 DEF IInv, TypeOK, StepOK
<1>6. QED  BY <1>1, <1>4, <1>5, OnwardCause

LEMMA FileCause == IInv /\ CauseInv /\ (Truncate \/ Write) => CauseInv'
<1> SUFFICES ASSUME IInv, CauseInv, Truncate \/ Write PROVE CauseInv'  OBVIOUS
<1>1. step.pc \in {"truncate", "write"} /\ UNCHANGED <<bucket, job>>
  BY DEF Truncate, Write, At
<1>2. cluster'.hdfs = cluster.hdfs
  BY DEF Truncate, Write, IInv, TypeOK, ClusterOK
<1>3. PICK pc \in {"write", "upload", "query"} : Goto(pc)
  BY DEF Truncate, Write
<1>4. step'.pc = pc /\ step'.killed = step.killed
  BY <1>3 DEF Goto, IInv, TypeOK, StepOK
<1>5. QED  BY <1>1, <1>2, <1>4, OnwardCause

LEMMA CompletedCause == IInv /\ CauseInv /\ (Upload \/ SavePart) => CauseInv'
<1> SUFFICES ASSUME IInv, CauseInv, Upload \/ SavePart PROVE CauseInv'  OBVIOUS
<1>1. /\ step.pc \in {"upload", "part"} /\ UNCHANGED job
      /\ End("COMPLETED", step.killed)
  BY DEF Upload, SavePart, At
<1>2. bucket'.copies = bucket.copies
  BY DEF Upload, SavePart, IInv, TypeOK
<1>3. step'.pc = "COMPLETED" /\ step'.killed = step.killed
  BY <1>1 DEF End, IInv, TypeOK, StepOK
<1>4. cluster'.hdfs = cluster.hdfs
  BY <1>1 DEF End, IInv, TypeOK, ClusterOK
<1>5. QED  BY <1>1, <1>2, <1>3, <1>4, OnwardCause

\* The directory of an earlier attempt is a cause.
LEMMA MakeDirectoryCause == IInv /\ CauseInv /\ MakeDirectory => CauseInv'
<1> SUFFICES ASSUME IInv, CauseInv, MakeDirectory PROVE CauseInv'  OBVIOUS
<1>1. step.pc = "save" /\ job.engine = "spark" /\ UNCHANGED <<glue, job>>
  BY DEF MakeDirectory, At, CauseInv, PlaceInv
<1>2. CASE bucket.results[job.number] # None /\ Exit /\ UNCHANGED bucket
  <2>1. Cause  BY <1>1, <1>2 DEF Cause
  <2>2. QED  BY <1>1, <1>2, <2>1, ExitCause
<1>3. CASE /\ bucket' = [bucket EXCEPT !.results[job.number] = <<>>]
           /\ Goto("part")
           /\ UNCHANGED cluster
  <2>1. step'.pc = "part" /\ step'.killed = step.killed
    BY <1>3 DEF Goto, IInv, TypeOK, StepOK
  <2>2. bucket'.copies = bucket.copies  BY <1>3 DEF IInv, TypeOK
  <2>3. QED  BY <1>1, <1>3, <2>1, <2>2, OnwardCause
<1>4. QED  BY <1>2, <1>3 DEF MakeDirectory

-----------------------------------------------------------------------------
\* With IInv, in every state of every behaviour.
LEMMA CauseInvariant == Spec => []CauseInv
<1>1. Init => CauseInv
  BY DEF Init, CauseInv, PlaceInv, ReshapedInv, StagedInv, DroppedInv, FailsForCause, Phases
<1>2. IInv /\ CauseInv /\ [Next]_vars => CauseInv'
  <2> SUFFICES ASSUME IInv, CauseInv, [Next]_vars PROVE CauseInv'  OBVIOUS
  <2>1. CASE StepNext
    BY <2>1, ReshapeCause, StageCause, DistCpCause, ConnectCause, DropTableCause,
       CreateTableCause, RegisterViewCause, QueryCause, FileCause, CompletedCause,
       MakeDirectoryCause DEF StepNext
  <2>2. CASE Kill \/ CoordinatorStarts \/ Resubmit \/ TerminateCluster \/ DeleteFlat \/ Report
    BY <2>2, KillCause, CoordinatorStartsCause, ResubmitCause, TerminateClusterCause,
       DeleteFlatCause, ReportCause
  <2>3. CASE \E auto \in BOOLEAN :
                \/ \E base \in {"s3", "hdfs"} : Submit("trino", base, auto)
                \/ \E base \in {"flat", "s3", "hdfs"} : Submit("spark", base, auto)
    <3>1. PICK engine \in {"trino", "spark"}, base \in Locations, auto \in BOOLEAN :
              Submit(engine, base, auto)
      BY <2>3 DEF Locations
    <3>2. Start(engine, base, 1) /\ job'.engine = engine /\ job'.base = base
      BY <3>1 DEF Submit
    <3>3. QED  BY <3>2, StartCause
  <2>4. CASE UNCHANGED vars
    <3>1. Cause => Cause'  BY <2>4 DEF vars, Cause, Holds
    <3>2. QED  BY <2>4, <3>1, BesideCause DEF vars
  <2>5. QED  BY <2>1, <2>2, <2>3, <2>4 DEF Next
<1>3. QED  BY <1>1, <1>2, IInvInvariant, PTL DEF Spec

-----------------------------------------------------------------------------
(* The loops over the tables and the attempts stay within their bounds, and *)
(* bucket, catalogue, cluster and step keep their types.                    *)
THEOREM TypeCorrect == Spec => []TypeOK
<1>1. IInv => TypeOK  BY DEF IInv
<1>2. QED  BY <1>1, IInvInvariant, PTL

(* No query of any job is timed on tables that an earlier job or a killed   *)
(* step has registered elsewhere: trino_setup_catalog.py has replaced all   *)
(* of them before.                                                          *)
THEOREM TimesAreWhereAsked == Spec => []TimedWhereAsked
<1>1. IInv => TimedWhereAsked  BY DEF IInv
<1>2. QED  BY <1>1, IInvInvariant, PTL

(* flush() of trino_tpch_benchmark.py: but for a kill within the rewriting  *)
(* of the file, which loses all rows, a step that ends early leaves those   *)
(* of its queries, without the last one if it was killed right after it.    *)
THEOREM RowsAreKeptBetweenWrites == Spec => []KeepsRowsBetweenWrites
<1>1. IInv => KeepsRowsBetweenWrites
  BY DEF IInv, TypeOK, TimingsInv, FileInv, KeepsRowsBetweenWrites, BrokenOff, AllButLast
<1>2. QED  BY <1>1, IInvInvariant, PTL

(* What the submit scripts report as done is in the bucket with a row for   *)
(* each query, whatever was killed, restarted and submitted again.          *)
THEOREM DoneIsUploaded == Spec => []DoneMeansUploaded
<1>1. IInv => DoneMeansUploaded  BY DEF IInv, SavedInv, Complete, DoneMeansUploaded
<1>2. QED  BY <1>1, IInvInvariant, PTL

(* Half a copy, an old registration or an empty file of an earlier attempt   *)
(* does not make a later step fail that nobody kills, but for the marker's   *)
(* directory in HDFS and Spark's output directory.                           *)
THEOREM FailuresHaveACause == Spec => []FailsForCause
<1>1. CauseInv => FailsForCause  BY DEF CauseInv
<1>2. QED  BY <1>1, CauseInvariant, PTL
=============================================================================
