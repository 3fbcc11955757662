------------------------- MODULE BenchHarnessProofs -------------------------
(***************************************************************************)
(* Theorems about the benchmark harness, for any number of queries and of  *)
(* invocations and any settings.                                           *)
(***************************************************************************)
EXTENDS Ec2Bench, FiniteSetTheorems, SequenceTheorems, TLAPS

Alive == {"define", "warm_up", "timed", "log", "check"}

\* A process that lives is the one execute_all() waits for, and nothing has gone
\* wrong in it; one that raised or was killed has a cause.
ChildInv ==
    /\ phase # "idle" => inv >= 1
    /\ child \in Alive => phase = "waiting" /\ fault = "none"
    /\ child = "define" => runs = 0 /\ left = conf.iterations
    /\ child = "warm_up" => conf.pre_run
    /\ child = "log" => answer # "none"
    /\ child \in {"raised", "killed"} => fault # "none"

\* After q() was defined, the reader was called once before the query and once in
\* each run of it, and it has read its table on the call where it should.
CacheInv ==
    child \in Alive \ {"define"} =>
        /\ calls = runs + 1
        /\ loaded <=> (~E.cached \/ ~include_io \/ calls >= 2)
        /\ (~E.cached \/ ~include_io) => conf.io_type \in E.io

\* Every iteration and the warm-up is a run.
RunsInv ==
    child \in Alive \ {"define"} =>
        runs + left = conf.iterations + (IF conf.pre_run /\ child # "warm_up" THEN 1 ELSE 0)

ReadingInv == child = "log" /\ conf.io_type = "skip" => ~reading

\* With settings an engine can run with, the output has one time per iteration.
OutInv ==
    Runnable =>
        /\ fault # "harness"
        /\ child \in Alive => /\ Len(out) = conf.iterations - left
                              /\ \A i \in 1..Len(out) : out[i] = "took"
        /\ child = "exited" /\ fault = "none" => Parses(out)

\* The lines of the file are in the order of the invocations, and those of this
\* one have its engine and io_type.
FileInv ==
    /\ \A i \in DOMAIN timings :
           /\ timings[i].inv <= inv
           /\ timings[i].inv = inv => /\ timings[i].solution = conf.engine
                                      /\ timings[i].io_type = conf.io_type
    /\ \A i, j \in DOMAIN timings : i <= j => timings[i].inv <= timings[j].inv

AllRight(q) == \A i \in ThisRun(q) : timings[i].answer = "right"

\* Every iteration of the query is in the file, and there is one.
Complete(q) ==
    /\ conf.iterations > 0
    /\ conf.log_timings => Cardinality(ThisRun(q)) = conf.iterations
    /\ conf.check_results => AllRight(q)

\* The queries before this one are complete, and those after it have no lines yet.
PassInv ==
    /\ phase = "done" => qnum = NumQueries
    /\ phase \in {"next", "waiting", "done"} =>
           \A q \in 1..NumQueries :
               /\ q > qnum \/ (q = qnum /\ phase = "next") => ThisRun(q) = {}
               /\ q < qnum \/ (q = qnum /\ phase = "done") => Complete(q)

\* The process logs each iteration that it has begun before it goes on; only the
\* one that it is checking may have a wrong answer.
LogInv ==
    child \in Alive =>
        /\ conf.log_timings =>
               Cardinality(ThisRun(qnum)) = conf.iterations - left - (IF child = "log" THEN 1 ELSE 0)
        /\ conf.check_results /\ (child = "check" => answer = "right") => AllRight(qnum)
        /\ Parses(out) => left < conf.iterations

\* An exception that polars prints is the end of its output, so that output that
\* ends with a time is that of a process without one.
ExitInv == phase = "waiting" /\ child = "exited" /\ Parses(out) => Complete(qnum)

TimesInv == FileInv /\ PassInv /\ LogInv /\ ExitInv

IInv == /\ TypeOK /\ ChildInv /\ CacheInv /\ RunsInv /\ ReadingInv /\ OutInv
        /\ SkippedMeansCached /\ AbortsForCause

-----------------------------------------------------------------------------
\* The settings of an invocation have their types.
LEMMA ConfTypes ==
    ASSUME NEW c \in Configs
    PROVE  /\ c.iterations \in Nat
           /\ c.pre_run \in BOOLEAN
           /\ c.io_type \in IoTypes
           /\ c.engine \in DOMAIN Engine
<1>1. c \in Settings  BY ConfigsAssumption
<1>2. QED  BY <1>1 DEF Settings

\* The invariant holds before the first invocation.
LEMMA InitIInv == Init => IInv
<1> SUFFICES ASSUME Init PROVE IInv  OBVIOUS
<1>1. ValuesOK
  BY EmptySeq DEF Init, ValuesOK
<1>2. CountsOK
  BY <1>1, ConfTypes, NumQueriesAssumption, MaxInvocationsAssumption
     DEF Init, CountsOK, ValuesOK
<1>3. ChildInv /\ CacheInv /\ RunsInv /\ ReadingInv
  BY DEF Init, ChildInv, CacheInv, RunsInv, ReadingInv, Alive
<1>4. OutInv /\ SkippedMeansCached /\ AbortsForCause
  BY DEF Init, OutInv, SkippedMeansCached, AbortsForCause, Alive
<1>5. QED  BY <1>1, <1>2, <1>3, <1>4 DEF IInv, TypeOK

\* A new invocation starts with no process.
LEMMA StartHarnessStep == IInv /\ StartHarness => IInv'
<1> SUFFICES ASSUME IInv, StartHarness PROVE IInv'  OBVIOUS
<1> USE DEF IInv, TypeOK
<1>1. ValuesOK'
  BY EmptySeq DEF StartHarness, ValuesOK
<1>2. CountsOK'
  <2>1. conf'.iterations \in Nat  BY <1>1, ConfTypes DEF ValuesOK
  <2>2. QED  BY <2>1, NumQueriesAssumption, MaxInvocationsAssumption
             DEF StartHarness, CountsOK
<1>3. (ChildInv /\ CacheInv /\ RunsInv /\ ReadingInv)'
  BY DEF StartHarness, ChildInv, CacheInv, RunsInv, ReadingInv, Alive, CountsOK
<1>4. (OutInv /\ SkippedMeansCached /\ AbortsForCause)'
  BY DEF StartHarness, OutInv, SkippedMeansCached, AbortsForCause, Alive
<1>5. QED  BY <1>1, <1>2, <1>3, <1>4

\* A new process starts with nothing cached and nothing printed.
LEMMA StartQueryStep == IInv /\ StartQuery => IInv'
<1> SUFFICES ASSUME IInv, StartQuery PROVE IInv'  OBVIOUS
<1> USE DEF IInv, TypeOK
<1>1. ValuesOK'
  BY EmptySeq DEF StartQuery, ValuesOK
<1>2. conf.iterations \in Nat
  BY ConfTypes DEF ValuesOK
<1>3. CountsOK'
  BY <1>2 DEF StartQuery, CountsOK
<1>4. (ChildInv /\ CacheInv /\ RunsInv /\ ReadingInv)'
  BY DEF StartQuery, ChildInv, CacheInv, RunsInv, ReadingInv, Alive
<1>5. OutInv'
  BY <1>2 DEF StartQuery, OutInv, Alive
<1>6. (SkippedMeansCached /\ AbortsForCause)'
  BY DEF StartQuery, SkippedMeansCached, AbortsForCause
<1>7. QED  BY <1>1, <1>3, <1>4, <1>5, <1>6

\* execute_all() gives up after a process that failed, and with settings that an
\* engine can run with, after no other.
LEMMA QueryEndedStep == IInv /\ QueryEnded => IInv'
<1> SUFFICES ASSUME IInv, QueryEnded PROVE IInv'  OBVIOUS
<1> USE DEF IInv, TypeOK
<1>1. ValuesOK'
  BY DEF QueryEnded, ValuesOK, cacheVars
<1>2. CountsOK'
  BY NumQueriesAssumption DEF QueryEnded, CountsOK, cacheVars
<1>3. (ChildInv /\ CacheInv /\ RunsInv /\ ReadingInv)'
  BY DEF QueryEnded, ChildInv, CacheInv, RunsInv, ReadingInv, Alive, cacheVars,
         E, include_io
<1>4. OutInv'
  BY DEF QueryEnded, OutInv, Alive, Runnable, E, cacheVars, Parses
<1>5. AbortsForCause'
  <2> SUFFICES ASSUME phase' = "aborted", Runnable'
               PROVE  fault' \in {"query", "answer", "killed"}
    BY DEF AbortsForCause
  <2>1. Runnable  BY DEF QueryEnded, Runnable, E
  <2>2. fault # "none"
    BY <2>1 DEF QueryEnded, ChildInv, OutInv
  <2>3. QED  BY <2>1, <2>2 DEF OutInv, ValuesOK, QueryEnded
<1>6. SkippedMeansCached'
  BY DEF QueryEnded, SkippedMeansCached
<1>7. QED  BY <1>1, <1>2, <1>3, <1>4, <1>5, <1>6

\* A step of the process decides neither AbortsForCause nor, unless it writes to
\* the file, SkippedMeansCached, nor what settings an engine can run with.
LEMMA ChildKeeps ==
    ASSUME IInv, child \in Alive, UNCHANGED parentVars
    PROVE  /\ AbortsForCause' /\ (timings' = timings => SkippedMeansCached')
           /\ Runnable' <=> Runnable
           /\ phase' = "waiting" /\ phase = "waiting" /\ inv >= 1
<1>1. phase = "waiting" /\ inv >= 1  BY DEF IInv, ChildInv
<1>2. QED  BY <1>1 DEF AbortsForCause, SkippedMeansCached, parentVars, IInv,
                       Runnable, E

\* An exception that the settings allow leaves the invariant.
LEMMA RaiseStep ==
    ASSUME IInv, child \in Alive \ {"define"},
           NEW why \in {"harness", "query", "answer"}, Raise(why),
           Runnable => why # "harness",
           UNCHANGED <<timings, parentVars, cacheVars>>, left' \in 0..conf.iterations
    PROVE  IInv'
<1> USE DEF IInv, TypeOK
<1>1. /\ AbortsForCause' /\ SkippedMeansCached'
      /\ Runnable' <=> Runnable
      /\ phase' = "waiting" /\ inv' >= 1
  BY ChildKeeps DEF parentVars
<1>2. child' \in {"exited", "raised"} /\ fault' = why /\ why # "none"
  BY DEF Raise
<1>3. out' \in Seq({"took", "text"})
  <2>1. out \in Seq({"took", "text"})  BY DEF ValuesOK
  <2>2. Append(out, "text") \in Seq({"took", "text"})
    BY <2>1, AppendProperties
  <2>3. QED  BY <2>1, <2>2 DEF Raise
<1>4. ValuesOK'
  BY <1>1, <1>2, <1>3 DEF ValuesOK, parentVars, cacheVars
<1>5. CountsOK'
  BY DEF CountsOK, parentVars, cacheVars
<1>6. (ChildInv /\ CacheInv /\ RunsInv /\ ReadingInv)'
  BY <1>1, <1>2 DEF ChildInv, CacheInv, RunsInv, ReadingInv, Alive
<1>7. OutInv'
  BY <1>1, <1>2 DEF OutInv, Alive
<1>8. QED  BY <1>1, <1>4, <1>5, <1>6, <1>7

\* With settings that an engine can run with, every call of query() can work.
LEMMA NotBroken ==
    ASSUME IInv, Runnable, \/ child = "warm_up"
                           \/ child = "timed" /\ left > 0
    PROVE  ~Broken
<1>1. /\ calls = runs + 1 /\ runs \in Nat /\ left \in Nat /\ conf.iterations \in Nat
      /\ loaded <=> (~E.cached \/ ~include_io \/ calls >= 2)
      /\ child = "warm_up" => conf.pre_run
      /\ child = "timed" => runs + left = conf.iterations + (IF conf.pre_run THEN 1 ELSE 0)
  BY ConfTypes DEF IInv, TypeOK, CountsOK, ValuesOK, CacheInv, ChildInv, RunsInv, Alive
<1>2. ~(conf.engine \in Rebinding /\ runs > 0)
  BY <1>1 DEF Runnable
<1>3. conf.io_type \in E.io
  BY DEF Runnable
<1>4. ~(~loaded /\ ~(E.cached /\ Loads(calls + 1)))
  BY <1>1 DEF Loads
<1>5. QED  BY <1>2, <1>3, <1>4 DEF Broken

LEMMA QueryRaisesStep ==
    ASSUME IInv, QueryRaises, UNCHANGED <<timings, parentVars>>,
           \/ child = "warm_up" /\ left' = left
           \/ child = "timed" /\ left > 0 /\ left' = left - 1
    PROVE  IInv'
<1> DEFINE why == IF Broken THEN "harness" ELSE "query"
<1>1. Runnable => why # "harness"
  BY NotBroken
<1>2. left' \in 0..conf.iterations
  <2>1. conf.iterations \in Nat  BY ConfTypes DEF IInv, TypeOK, ValuesOK
  <2>2. QED  BY <2>1 DEF IInv, TypeOK, CountsOK
<1>3. Raise(why) /\ UNCHANGED cacheVars
  BY DEF QueryRaises
<1>4. child \in Alive \ {"define"} /\ why \in {"harness", "query", "answer"}
  BY DEF Alive
<1> HIDE DEF why
<1>5. QED  BY <1>1, <1>2, <1>3, <1>4, RaiseStep

\* What a call of query() that returns leaves behind.
LEMMA QueryReturnsLeaves ==
    ASSUME IInv, QueryReturns, child \in {"warm_up", "timed"}, UNCHANGED parentVars
    PROVE  /\ calls' = runs' + 1 /\ calls' >= 2 /\ runs' = runs + 1 /\ loaded'
           /\ runs' \in Nat /\ reading' \in BOOLEAN
           /\ (~E.cached \/ ~include_io) => conf.io_type \in E.io
           /\ conf.io_type = "skip" => ~reading'
           /\ answer' \in {"right", "wrong", "unseen"}
           /\ fault' = "none"
<1>1. calls = runs + 1 /\ runs \in Nat
  BY DEF IInv, TypeOK, CountsOK, CacheInv, Alive
<1>2. (~E.cached \/ ~include_io) => conf.io_type \in E.io
  BY DEF IInv, CacheInv, Alive
<1>3. calls' = runs' + 1 /\ calls' >= 2 /\ runs' = runs + 1 /\ loaded' /\ runs' \in Nat
  BY <1>1 DEF QueryReturns
<1>4. reading' = include_io \/ reading' = Loads(calls')
  BY DEF QueryReturns
<1>5. reading' \in BOOLEAN /\ (conf.io_type = "skip" => ~reading')
  <2>1. include_io \in BOOLEAN /\ Loads(calls') \in BOOLEAN
    BY DEF include_io, Loads
  <2>2. conf.io_type = "skip" => ~include_io /\ ~Loads(calls')
    BY <1>3 DEF include_io, Loads
  <2>3. QED  BY <1>4, <2>1, <2>2
<1>6. answer' \in {"right", "wrong", "unseen"}
  BY DEF QueryReturns
<1>7. fault' = "none"
  BY DEF QueryReturns, IInv, ChildInv, Alive
<1>8. QED  BY <1>2, <1>3, <1>5, <1>6, <1>7

\* q() calls the reader for the first time; with settings an engine can run with
\* it does not raise.
LEMMA DefineQueryStep == IInv /\ DefineQuery => IInv'
<1> SUFFICES ASSUME IInv, DefineQuery PROVE IInv'  OBVIOUS
<1> USE DEF IInv, TypeOK
<1> DEFINE reads == ~E.cached \/ Loads(1)
<1>1. /\ child = "define" /\ child \in Alive
      /\ UNCHANGED parentVars /\ UNCHANGED timings /\ UNCHANGED out /\ UNCHANGED left
      /\ UNCHANGED runs /\ UNCHANGED reading /\ UNCHANGED answer
  BY DEF DefineQuery, Alive
<1>2. /\ AbortsForCause' /\ SkippedMeansCached'
      /\ Runnable' <=> Runnable
      /\ phase' = "waiting" /\ inv' >= 1
  BY <1>1, ChildKeeps DEF parentVars
<1>3. runs = 0 /\ left = conf.iterations /\ fault = "none" /\ conf.iterations \in Nat
  BY <1>1, ConfTypes DEF ChildInv, ValuesOK
<1>4. CASE reads /\ conf.io_type \notin E.io
  <2>1. fault' = "harness" /\ child' = "raised" /\ UNCHANGED <<calls, loaded>>
    BY <1>4 DEF DefineQuery
  <2>2. TypeOK'
    BY <1>1, <1>2, <2>1 DEF ValuesOK, CountsOK, parentVars
  <2>3. (ChildInv /\ CacheInv /\ RunsInv /\ ReadingInv)'
    BY <1>2, <2>1 DEF ChildInv, CacheInv, RunsInv, ReadingInv, Alive
  <2>4. OutInv'
    BY <1>2, <1>4 DEF OutInv, Runnable
  <2>5. QED  BY <1>2, <2>2, <2>3, <2>4
<1>5. CASE ~(reads /\ conf.io_type \notin E.io)
  <2>1. /\ calls' = 1 /\ loaded' = reads /\ UNCHANGED fault
        /\ child' = IF conf.pre_run THEN "warm_up" ELSE "timed"
    BY <1>5 DEF DefineQuery
  <2>2. reads \in BOOLEAN /\ (reads <=> ~E.cached \/ ~include_io)
    BY DEF Loads, include_io
  <2>3. ValuesOK'
    <3>1. child' \in {"warm_up", "timed"} /\ loaded' \in BOOLEAN
      BY <2>1, <2>2
    <3>2. QED  BY <1>1, <1>2, <2>1, <3>1 DEF ValuesOK, parentVars
  <2>4. CountsOK'
    BY <1>1, <1>3, <2>1 DEF CountsOK, parentVars
  <2>5. (ChildInv /\ RunsInv /\ ReadingInv)'
    BY <1>1, <1>2, <1>3, <2>1 DEF ChildInv, RunsInv, ReadingInv, Alive, parentVars
  <2>6. CacheInv'
    <3>1. calls' = runs' + 1 /\ ~(calls' >= 2)  BY <1>1, <1>3, <2>1
    <3>2. loaded' <=> ~E.cached \/ ~include_io  BY <2>1, <2>2
    <3>3. E' = E /\ include_io' = include_io /\ conf' = conf
      BY <1>1 DEF E, include_io, parentVars
    <3>4. (~E.cached \/ ~include_io) => conf.io_type \in E.io
      BY <1>5, <2>2
    <3>5. QED  BY <3>1, <3>2, <3>3, <3>4 DEF CacheInv
  <2>7. OutInv'
    BY <1>1, <1>2, <1>3, <2>1 DEF OutInv, Alive, parentVars
  <2>8. QED  BY <1>2, <2>3, <2>4, <2>5, <2>6, <2>7
<1>6. QED  BY <1>4, <1>5

\* A call of query() that returns, in the warm-up or timed, leaves the invariant
\* when it prints what it should.
LEMMA QueryReturnsStep ==
    ASSUME IInv, QueryReturns, UNCHANGED parentVars, UNCHANGED timings,
           \/ child = "warm_up" /\ child' = "timed" /\ left' = left
              /\ out' = out \o Shown
           \/ child = "timed" /\ child' = "log" /\ left > 0 /\ left' = left - 1
              /\ out' = out \o Shown \o <<"took">>
    PROVE  IInv'
<1> USE DEF IInv, TypeOK
<1>1. /\ AbortsForCause' /\ SkippedMeansCached'
      /\ Runnable' <=> Runnable
      /\ phase' = "waiting" /\ inv' >= 1
  BY ChildKeeps DEF Alive, parentVars
<1>2. /\ calls' = runs' + 1 /\ calls' >= 2 /\ runs' = runs + 1 /\ loaded'
      /\ runs' \in Nat /\ reading' \in BOOLEAN
      /\ (~E.cached \/ ~include_io) => conf.io_type \in E.io
      /\ conf.io_type = "skip" => ~reading'
      /\ answer' \in {"right", "wrong", "unseen"}
      /\ fault' = "none"
  BY QueryReturnsLeaves
<1>3. /\ conf.iterations \in Nat /\ conf' = conf
      /\ left \in 0..conf.iterations /\ left' \in 0..conf.iterations
  <2>1. conf.iterations \in Nat /\ left \in 0..conf.iterations
    BY ConfTypes DEF ValuesOK, CountsOK
  <2>2. QED  BY <2>1 DEF parentVars
<1>4. RunsInv'
  <2>1. child = "warm_up" => conf.pre_run /\ runs + left = conf.iterations
    BY <1>3 DEF ChildInv, RunsInv, Alive
  <2>2. child = "timed" => runs + left = conf.iterations + (IF conf.pre_run THEN 1 ELSE 0)
    BY DEF RunsInv, Alive
  <2>3. runs \in Nat  BY DEF CountsOK
  <2>4. runs' + left' = conf.iterations + (IF conf.pre_run THEN 1 ELSE 0)
    <3>1. CASE child = "warm_up"  BY <1>2, <1>3, <2>1, <2>3, <3>1
    <3>2. CASE child = "timed"    BY <1>2, <1>3, <2>2, <2>3, <3>2
    <3>3. QED  BY <3>1, <3>2
  <2>5. QED  BY <1>3, <2>4 DEF RunsInv
<1>5. CountsOK'
  <2>1. runs' + left' = conf.iterations + (IF conf.pre_run THEN 1 ELSE 0)
    BY <1>3, <1>4 DEF RunsInv, Alive
  <2>2. runs' <= conf.iterations + 1  BY <1>2, <1>3, <2>1
  <2>3. QED  BY <1>2, <1>3, <2>2 DEF CountsOK, parentVars
<1>6. /\ out \in Seq({"took", "text"}) /\ Shown \in Seq({"took", "text"})
      /\ <<"took">> \in Seq({"took", "text"})
      /\ out \o Shown \in Seq({"took", "text"})
  <2>1. out \in Seq({"took", "text"}) /\ Shown \in Seq({"took", "text"})
    <3>1. <<"text">> \in Seq({"took", "text"}) /\ <<>> \in Seq({"took", "text"})
      OBVIOUS
    <3>2. QED  BY <3>1 DEF ValuesOK, Shown
  <2>2. <<"took">> \in Seq({"took", "text"})  OBVIOUS
  <2>3. out \o Shown \in Seq({"took", "text"})  BY <2>1, ConcatProperties
  <2>4. QED  BY <2>1, <2>2, <2>3
<1>7. ValuesOK'
  <2>1. out' \in Seq({"took", "text"})
    BY <1>6, ConcatProperties
  <2>2. child' \in {"timed", "log"}  OBVIOUS
  <2>3. loaded' \in BOOLEAN  BY DEF QueryReturns
  <2>4. QED  BY <1>1, <1>2, <2>1, <2>2, <2>3 DEF ValuesOK, parentVars
<1>8. ChildInv' /\ ReadingInv'
  BY <1>1, <1>2, <1>3 DEF ChildInv, ReadingInv, Alive
<1>9. CacheInv'
  <2>1. E' = E /\ include_io' = include_io  BY <1>3 DEF E, include_io
  <2>2. QED  BY <1>2, <1>3, <2>1 DEF CacheInv
<1>10. OutInv'
  <2> SUFFICES ASSUME Runnable
               PROVE  /\ Len(out') = conf.iterations - left'
                      /\ \A i \in 1..Len(out') : out'[i] = "took"
    BY <1>1, <1>2, <1>3 DEF OutInv, Alive
  <2>1. /\ Len(out) = conf.iterations - left
        /\ \A i \in 1..Len(out) : out[i] = "took"
    BY DEF OutInv, Alive
  <2>2. out \o Shown = out
    BY <1>6, ConcatEmptySeq DEF Runnable, Shown
  <2>3. CASE child = "warm_up"
    BY <2>1, <2>2, <2>3
  <2>4. CASE child = "timed"
    <3>1. out' = out \o <<"took">> /\ left' = left - 1
      BY <2>2, <2>4
    <3>2. /\ Len(out') = Len(out) + 1
          /\ \A i \in 1..Len(out) + 1 : out'[i] = IF i <= Len(out) THEN out[i] ELSE "took"
      BY <1>6, <3>1, ConcatProperties
    <3>3. QED  BY <1>3, <2>1, <3>1, <3>2
  <2>5. QED  BY <2>3, <2>4
<1>11. QED  BY <1>1, <1>4, <1>5, <1>7, <1>8, <1>9, <1>10

LEMMA WarmUpStep == IInv /\ WarmUp => IInv'
<1> SUFFICES ASSUME IInv, WarmUp PROVE IInv'  OBVIOUS
<1>1. CASE QueryReturns /\ child' = "timed" /\ out' = out \o Shown
  BY <1>1, QueryReturnsStep DEF WarmUp
<1>2. CASE QueryRaises
  BY <1>2, QueryRaisesStep DEF WarmUp
<1>3. QED  BY <1>1, <1>2 DEF WarmUp

LEMMA TimedRunStep == IInv /\ TimedRun => IInv'
<1> SUFFICES ASSUME IInv, TimedRun PROVE IInv'  OBVIOUS
<1>1. CASE QueryReturns /\ child' = "log" /\ out' = out \o Shown \o <<"took">>
  BY <1>1, QueryReturnsStep DEF TimedRun
<1>2. CASE QueryRaises
  BY <1>2, QueryRaisesStep DEF TimedRun
<1>3. QED  BY <1>1, <1>2 DEF TimedRun

\* The file gets an entry of a run that read nothing when it should not.
LEMMA LogTimingStep == IInv /\ LogTiming => IInv'
<1> SUFFICES ASSUME IInv, LogTiming PROVE IInv'  OBVIOUS
<1> USE DEF IInv, TypeOK
<1> DEFINE entry == [inv |-> inv, solution |-> conf.engine, query |-> qnum,
                     io_type |-> conf.io_type, read |-> reading, answer |-> answer]
<1>1. /\ child = "log" /\ child' = "check" /\ child \in Alive
      /\ UNCHANGED parentVars /\ UNCHANGED cacheVars
      /\ UNCHANGED left /\ UNCHANGED out /\ UNCHANGED fault
  BY DEF LogTiming, Alive
<1>2. /\ AbortsForCause'
      /\ Runnable' <=> Runnable
      /\ phase' = "waiting" /\ inv' >= 1 /\ inv >= 1
  BY <1>1, ChildKeeps DEF parentVars
<1>3. entry \in Entry
  <2>1. inv \in 1..MaxInvocations /\ qnum \in 1..NumQueries
    BY <1>2, MaxInvocationsAssumption DEF CountsOK
  <2>2. conf.io_type \in IoTypes /\ conf.engine \in DOMAIN Engine
    BY ConfTypes DEF ValuesOK
  <2>3. answer \in {"right", "wrong", "unseen"} /\ reading \in BOOLEAN
    BY <1>1 DEF ValuesOK, ChildInv
  <2>4. QED  BY <2>1, <2>2, <2>3 DEF Entry
<1>4. entry.io_type = "skip" => ~entry.read
  BY <1>1 DEF ReadingInv
<1>5. timings' \in Seq(Entry) /\ SkippedMeansCached'
  <2>1. timings \in Seq(Entry) /\ SkippedMeansCached
    BY DEF ValuesOK
  <2> HIDE DEF entry
  <2>2. CASE timings' = timings
    BY <2>1, <2>2 DEF SkippedMeansCached
  <2>3. CASE timings' = Append(timings, entry)
    <3>1. /\ timings' \in Seq(Entry) /\ Len(timings') = Len(timings) + 1
          /\ \A i \in 1..Len(timings) : timings'[i] = timings[i]
          /\ timings'[Len(timings) + 1] = entry
      BY <1>3, <2>1, <2>3, AppendProperties
    <3>2. \A i \in 1..Len(timings) : timings[i].io_type = "skip" => ~timings[i].read
      BY <2>1 DEF SkippedMeansCached
    <3>3. \A i \in 1..Len(timings') : timings'[i].io_type = "skip" => ~timings'[i].read
      BY <1>4, <2>1, <3>1, <3>2
    <3>4. QED  BY <3>1, <3>3 DEF SkippedMeansCached
  <2>4. timings' = timings \/ timings' = Append(timings, entry)
    BY DEF LogTiming, entry
  <2>5. QED  BY <2>2, <2>3, <2>4
<1>6. ValuesOK'
  BY <1>1, <1>2, <1>5 DEF ValuesOK, parentVars, cacheVars
<1>7. CountsOK'
  BY <1>1 DEF CountsOK, parentVars, cacheVars
<1>8. (ChildInv /\ RunsInv /\ ReadingInv)'
  BY <1>1, <1>2 DEF ChildInv, RunsInv, ReadingInv, Alive, parentVars, cacheVars
<1>9. CacheInv'
  BY <1>1 DEF CacheInv, Alive, E, include_io, parentVars, cacheVars
<1>10. OutInv'
  BY <1>1, <1>2 DEF OutInv, Alive, parentVars
<1>11. QED  BY <1>2, <1>5, <1>6, <1>7, <1>8, <1>9, <1>10

\* Checking raises only for an answer, with settings an engine can run with.
LEMMA CheckResultStep == IInv /\ CheckResult => IInv'
<1> SUFFICES ASSUME IInv, CheckResult PROVE IInv'  OBVIOUS
<1> USE DEF IInv, TypeOK
<1>1. /\ child = "check" /\ child \in Alive \ {"define"}
      /\ UNCHANGED parentVars /\ UNCHANGED cacheVars
      /\ UNCHANGED left /\ UNCHANGED timings /\ left' \in 0..conf.iterations
  BY DEF CheckResult, Alive, CountsOK
<1>2. CASE conf.check_results /\ conf.scale_factor # 1
  <2>1. Raise("harness")  BY <1>2 DEF CheckResult
  <2>2. ~Runnable  BY <1>2 DEF Runnable
  <2>3. QED  BY <1>1, <2>1, <2>2, RaiseStep
<1>3. CASE /\ ~(conf.check_results /\ conf.scale_factor # 1)
           /\ conf.check_results /\ answer # "right"
  <2>1. Raise("answer")  BY <1>3 DEF CheckResult
  <2>2. QED  BY <1>1, <2>1, RaiseStep
<1>4. CASE /\ ~(conf.check_results /\ conf.scale_factor # 1)
           /\ ~(conf.check_results /\ answer # "right")
  <2>1. /\ child' = "timed" /\ UNCHANGED fault
        /\ out' = IF conf.show_results THEN Append(out, "text") ELSE out
    BY <1>4 DEF CheckResult
  <2>2. /\ AbortsForCause' /\ SkippedMeansCached'
        /\ Runnable' <=> Runnable
        /\ phase' = "waiting" /\ inv' >= 1
    BY <1>1, ChildKeeps DEF parentVars
  <2>3. out' \in Seq({"took", "text"})
    <3>1. out \in Seq({"took", "text"})  BY DEF ValuesOK
    <3>2. Append(out, "text") \in Seq({"took", "text"})  BY <3>1, AppendProperties
    <3>3. QED  BY <2>1, <3>1, <3>2
  <2>4. ValuesOK'
    BY <1>1, <2>1, <2>2, <2>3 DEF ValuesOK, parentVars, cacheVars
  <2>5. CountsOK'
    BY <1>1 DEF CountsOK, parentVars, cacheVars
  <2>6. (ChildInv /\ RunsInv /\ ReadingInv)'
    BY <1>1, <2>1, <2>2 DEF ChildInv, RunsInv, ReadingInv, Alive, parentVars, cacheVars
  <2>7. CacheInv'
    BY <1>1, <2>1 DEF CacheInv, Alive, E, include_io, parentVars, cacheVars
  <2>8. OutInv'
    <3>1. Runnable => out' = out  BY <2>1 DEF Runnable
    <3>2. QED  BY <1>1, <2>1, <2>2, <3>1 DEF OutInv, Alive, parentVars
  <2>9. QED  BY <2>2, <2>4, <2>5, <2>6, <2>7, <2>8
<1>5. QED  BY <1>2, <1>3, <1>4

\* A process that comes to its end has printed one time per iteration.
LEMMA ExitQueryStep == IInv /\ ExitQuery => IInv'
<1> SUFFICES ASSUME IInv, ExitQuery PROVE IInv'  OBVIOUS
<1> USE DEF IInv, TypeOK
<1>1. /\ child = "timed" /\ child \in Alive /\ child' = "exited" /\ left = 0
      /\ UNCHANGED parentVars /\ UNCHANGED cacheVars /\ UNCHANGED timings
      /\ UNCHANGED left /\ UNCHANGED out /\ UNCHANGED fault
  BY DEF ExitQuery, Alive
<1>2. /\ AbortsForCause' /\ SkippedMeansCached'
      /\ Runnable' <=> Runnable
      /\ phase' = "waiting" /\ inv' >= 1
  BY <1>1, ChildKeeps DEF parentVars
<1>3. ValuesOK' /\ CountsOK'
  BY <1>1, <1>2 DEF ValuesOK, CountsOK, parentVars, cacheVars
<1>4. (ChildInv /\ CacheInv /\ RunsInv /\ ReadingInv)'
  BY <1>1, <1>2 DEF ChildInv, CacheInv, RunsInv, ReadingInv, Alive
<1>5. OutInv'
  <2>1. Runnable => Len(out) = conf.iterations /\ Len(out) > 0 /\ out[Len(out)] = "took"
    <3>1. conf.iterations \in Nat  BY ConfTypes DEF ValuesOK
    <3>2. QED  BY <1>1, <3>1 DEF OutInv, Runnable
  <2>2. Runnable => Parses(out)
    BY <2>1 DEF Parses, Last
  <2>3. QED  BY <1>1, <1>2, <2>2 DEF OutInv, Alive
<1>6. QED  BY <1>2, <1>3, <1>4, <1>5

LEMMA KillStep == IInv /\ Kill => IInv'
<1> SUFFICES ASSUME IInv, Kill PROVE IInv'  OBVIOUS
<1> USE DEF IInv, TypeOK
<1>1. /\ child \in Alive /\ child' = "killed" /\ fault' = "killed"
      /\ UNCHANGED parentVars /\ UNCHANGED cacheVars /\ UNCHANGED timings
      /\ UNCHANGED left /\ UNCHANGED out
  BY DEF Kill, Alive
<1>2. /\ AbortsForCause' /\ SkippedMeansCached'
      /\ Runnable' <=> Runnable
      /\ phase' = "waiting" /\ inv' >= 1
  BY <1>1, ChildKeeps DEF parentVars
<1>3. ValuesOK' /\ CountsOK'
  BY <1>1, <1>2 DEF ValuesOK, CountsOK, parentVars, cacheVars
<1>4. (ChildInv /\ CacheInv /\ RunsInv /\ ReadingInv)'
  BY <1>1, <1>2 DEF ChildInv, CacheInv, RunsInv, ReadingInv, Alive
<1>5. OutInv'
  BY <1>1, <1>2 DEF OutInv, Alive
<1>6. QED  BY <1>2, <1>3, <1>4, <1>5

LEMMA StutterStep == IInv /\ UNCHANGED vars => IInv'
<1> SUFFICES ASSUME IInv, UNCHANGED vars PROVE IInv'  OBVIOUS
<1> USE DEF IInv, TypeOK, vars, parentVars, cacheVars
<1>1. ValuesOK' /\ CountsOK'
  BY DEF ValuesOK, CountsOK
<1>2. (ChildInv /\ CacheInv /\ RunsInv /\ ReadingInv)'
  BY DEF ChildInv, CacheInv, RunsInv, ReadingInv, E, include_io
<1>3. (OutInv /\ SkippedMeansCached /\ AbortsForCause)'
  BY DEF OutInv, SkippedMeansCached, AbortsForCause, Runnable, E, Parses
<1>4. QED  BY <1>1, <1>2, <1>3

LEMMA IInvInvariant == Spec => []IInv
<1>1. Init => IInv  BY InitIInv
<1>2. IInv /\ [Next]_vars => IInv'
  BY StartHarnessStep, StartQueryStep, QueryEndedStep, DefineQueryStep, WarmUpStep,
     TimedRunStep, LogTimingStep, CheckResultStep, ExitQueryStep, KillStep,
     StutterStep DEF Next
<1>3. QED  BY <1>1, <1>2, PTL DEF Spec

-----------------------------------------------------------------------------
\* The state of the harness, its processes and the timings file have their types;
\* in particular no query runs more often than its iterations and the warm-up.
THEOREM TypeCorrect == Spec => []TypeOK
<1>1. IInv => TypeOK  BY DEF IInv
<1>2. QED  BY <1>1, IInvInvariant, PTL

\* A time in timings.csv that is logged as io_type skip never has a reading of the
\* tables in it (on_second_call(), _scan_ds()).
THEOREM SkippedTimesAreCached == Spec => []SkippedMeansCached
<1>1. IInv => SkippedMeansCached  BY DEF IInv
<1>2. QED  BY <1>1, IInvInvariant, PTL

\* execute_all() gives up, with settings an engine can run with, only because a
\* query failed, gave a wrong answer or was killed.
THEOREM GivesUpForCause == Spec => []AbortsForCause
<1>1. IInv => AbortsForCause  BY DEF IInv
<1>2. QED  BY <1>1, IInvInvariant, PTL

-----------------------------------------------------------------------------
(* The lines of the file.                                                  *)

\* The types that the lemmas below need.
LEMMA RowFacts ==
    ASSUME IInv
    PROVE  /\ timings \in Seq(Entry) /\ Len(timings) \in Nat
           /\ DOMAIN timings = 1..Len(timings)
           /\ \A i \in DOMAIN timings : timings[i].inv \in Nat
           /\ \A q : IsFiniteSet(ThisRun(q)) /\ Cardinality(ThisRun(q)) \in Nat
           /\ inv \in Nat /\ qnum \in 1..NumQueries /\ NumQueries \in Nat
           /\ conf.iterations \in Nat /\ left \in 0..conf.iterations
           /\ out \in Seq({"took", "text"})
<1>1. timings \in Seq(Entry) /\ Len(timings) \in Nat /\ DOMAIN timings = 1..Len(timings)
  BY DEF IInv, TypeOK, ValuesOK
<1>2. ASSUME NEW i \in DOMAIN timings PROVE timings[i].inv \in Nat
  <2>1. timings[i] \in Entry
    BY <1>1
  <2>2. QED  BY <2>1, MaxInvocationsAssumption DEF Entry
<1>3. ASSUME NEW q PROVE IsFiniteSet(ThisRun(q)) /\ Cardinality(ThisRun(q)) \in Nat
  <2>1. ThisRun(q) \subseteq 1..Len(timings)
    BY <1>1 DEF ThisRun
  <2>2. IsFiniteSet(1..Len(timings))
    BY <1>1, FS_Interval
  <2>3. IsFiniteSet(ThisRun(q))
    BY <2>1, <2>2, FS_Subset
  <2>4. QED  BY <2>3, FS_CardinalityType
<1>4. inv \in Nat /\ qnum \in 1..NumQueries /\ left \in 0..conf.iterations
  BY DEF IInv, TypeOK, CountsOK
<1>5. conf.iterations \in Nat
  BY ConfTypes DEF IInv, TypeOK, ValuesOK
<1>6. NumQueries \in Nat
  BY NumQueriesAssumption
<1>7. out \in Seq({"took", "text"})
  BY DEF IInv, TypeOK, ValuesOK
<1>8. QED  BY <1>1, <1>2, <1>3, <1>4, <1>5, <1>6, <1>7

\* What the file says of this invocation changes only with it.
LEMMA SameRows ==
    ASSUME timings' = timings, inv' = inv, conf' = conf
    PROVE  /\ \A q : ThisRun(q)' = ThisRun(q)
           /\ \A q : AllRight(q)' <=> AllRight(q)
           /\ \A q : Complete(q)' <=> Complete(q)
           /\ FileInv => FileInv'
<1>1. \A q : ThisRun(q)' = ThisRun(q)
  BY DEF ThisRun
<1>2. \A q : AllRight(q)' <=> AllRight(q)
  BY <1>1 DEF AllRight
<1>3. \A q : Complete(q)' <=> Complete(q)
  BY <1>1, <1>2 DEF Complete
<1>4. FileInv => FileInv'
  BY DEF FileInv
<1>5. QED  BY <1>1, <1>2, <1>3, <1>4

\* Output that goes on with text does not parse, and showing nothing changes nothing.
LEMMA ParsesFacts ==
    ASSUME NEW o \in Seq({"took", "text"})
    PROVE  /\ ~Parses(Append(o, "text"))
           /\ Parses(o \o Shown) => Parses(o)
           /\ ~Parses(<<>>)
<1>1. ~Parses(Append(o, "text"))
  <2>1. Len(Append(o, "text")) = Len(o) + 1 /\ Append(o, "text")[Len(o) + 1] = "text"
    BY AppendProperties
  <2>2. QED  BY <2>1 DEF Parses, Last
<1>2. ASSUME Shown = <<"text">> PROVE ~Parses(o \o Shown)
  <2>1. o \o Shown = Append(o, "text")
    BY <1>2, AppendIsConcat
  <2>2. QED  BY <1>1, <2>1
<1>3. ASSUME Shown = <<>> PROVE o \o Shown = o
  BY <1>3, ConcatEmptySeq
<1>4. Shown = <<"text">> \/ Shown = <<>>
  BY DEF Shown
<1>5. ~Parses(<<>>)
  BY DEF Parses
<1>6. QED  BY <1>1, <1>2, <1>3, <1>4, <1>5

\* One element more, whatever its type.
LEMMA AppendFacts ==
    ASSUME NEW S, NEW s \in Seq(S), NEW x
    PROVE  /\ DOMAIN Append(s, x) = 1..(Len(s) + 1)
           /\ \A i \in 1..Len(s) : Append(s, x)[i] = s[i]
           /\ Append(s, x)[Len(s) + 1] = x
<1>1. s \in Seq(S \cup {x}) /\ x \in S \cup {x}
  OBVIOUS
<1>2. Append(s, x) \in Seq(S \cup {x})
  BY <1>1, AppendProperties
<1>3. QED  BY <1>1, <1>2, AppendProperties

\* A set of positions has a last one.
LEMMA LastExists ==
    ASSUME NEW n \in Nat, NEW B \in SUBSET (1..n), B # {}
    PROVE  \E m \in B : \A x \in B : m >= x
<1> DEFINE behind == {n - x : x \in B}
<1>1. behind \subseteq Nat /\ behind # {}
  <2>1. \A x \in B : x \in 1..n /\ n - x \in Nat
    OBVIOUS
  <2>2. QED  BY <2>1
<1>2. IsWellFoundedOn(OpToRel(<, Nat), Nat)
  BY NatLessThanWellFounded
<1>3. PICK d \in behind : \A y \in behind : ~ (<<y, d>> \in OpToRel(<, Nat))
  BY <1>1, <1>2, WFMin
<1>4. PICK m \in B : d = n - m
  OBVIOUS
<1>5. ASSUME NEW x \in B PROVE m >= x
  <2>1. n - x \in behind /\ n - x \in Nat /\ d \in Nat
    BY <1>1
  <2>2. ~(n - x < d)
    BY <1>3, <2>1 DEF OpToRel
  <2>3. x \in Nat /\ m \in Nat
    OBVIOUS
  <2>4. QED  BY <1>4, <2>2, <2>3
<1>6. QED  BY <1>5

\* Sets of positions that agree from some position on have the same last one.
LEMMA SameLast ==
    ASSUME NEW n \in Nat, NEW A \in SUBSET (1..n), NEW B \in SUBSET A, B # {},
           \A i \in A, j \in B : j <= i => i \in B
    PROVE  Max(A) = Max(B)
<1>1. PICK m \in B : \A x \in B : m >= x
  BY LastExists
<1>2. \A x \in A : x \in Nat
  OBVIOUS
<1>3. \A x \in A : m >= x
  <2>1. SUFFICES ASSUME NEW x \in A, ~(m >= x) PROVE FALSE
    OBVIOUS
  <2>2. m <= x
    BY <1>2, <2>1
  <2>3. QED  BY <1>1, <2>1, <2>2
<1>4. Max(A) = m
  <2>1. Max(A) \in A /\ \A y \in A : Max(A) >= y
    BY <1>3 DEF Max
  <2>2. m \in Nat /\ Max(A) \in Nat /\ m >= Max(A) /\ Max(A) >= m
    BY <1>2, <1>3, <2>1
  <2>3. QED  BY <2>2
<1>5. Max(B) = m
  <2>1. Max(B) \in B /\ \A y \in B : Max(B) >= y
    BY <1>1 DEF Max
  <2>2. m \in Nat /\ Max(B) \in Nat /\ m >= Max(B) /\ Max(B) >= m
    BY <1>1, <1>2, <2>1
  <2>3. QED  BY <2>2
<1>6. QED  BY <1>4, <1>5

\* A step of the process that does not write to the file.
LEMMA ChildFrame ==
    ASSUME IInv, TimesInv, child \in Alive, UNCHANGED parentVars, timings' = timings
    PROVE  /\ FileInv' /\ PassInv' /\ phase' = "waiting"
           /\ conf' = conf /\ qnum' = qnum
           /\ ThisRun(qnum)' = ThisRun(qnum)
           /\ AllRight(qnum)' <=> AllRight(qnum)
           /\ Complete(qnum)' <=> Complete(qnum)
<1>1. phase = "waiting" /\ phase' = phase /\ inv' = inv /\ conf' = conf /\ qnum' = qnum
  BY DEF IInv, ChildInv, parentVars
<1>2. /\ \A q : ThisRun(q)' = ThisRun(q)
      /\ \A q : AllRight(q)' <=> AllRight(q)
      /\ \A q : Complete(q)' <=> Complete(q)
      /\ FileInv => FileInv'
  BY <1>1, SameRows
<1>3. PassInv'
  BY <1>1, <1>2 DEF TimesInv, PassInv
<1>4. QED  BY <1>1, <1>2, <1>3 DEF TimesInv

\* An exception is the end of the process, and of the output when it is printed.
LEMMA RaiseTimes ==
    ASSUME IInv, TimesInv, child \in Alive, NEW why, Raise(why),
           UNCHANGED parentVars, timings' = timings
    PROVE  TimesInv'
<1>1. FileInv' /\ PassInv'
  BY ChildFrame
<1>2. \/ child' = "raised"
      \/ child' = "exited" /\ out' = Append(out, "text")
  BY DEF Raise
<1>3. ~Parses(Append(out, "text"))
  BY RowFacts, ParsesFacts
<1>4. LogInv' /\ ExitInv'
  BY <1>2, <1>3 DEF LogInv, ExitInv, Alive
<1>5. QED  BY <1>1, <1>4 DEF TimesInv

-----------------------------------------------------------------------------
(* The steps.                                                              *)

LEMMA InitTimes == Init => TimesInv
<1> SUFFICES ASSUME Init PROVE TimesInv  OBVIOUS
<1>1. FileInv /\ PassInv
  BY DEF Init, FileInv, PassInv
<1>2. LogInv /\ ExitInv
  BY DEF Init, LogInv, ExitInv, Alive
<1>3. QED  BY <1>1, <1>2 DEF TimesInv

\* A new invocation has no lines yet.
LEMMA StartHarnessTimes == IInv /\ TimesInv /\ StartHarness => TimesInv'
<1> SUFFICES ASSUME IInv, TimesInv, StartHarness PROVE TimesInv'  OBVIOUS
<1>1. /\ inv' = inv + 1 /\ timings' = timings /\ phase' = "next" /\ qnum' = 1
      /\ child' = "none"
  BY DEF StartHarness
<1>2. \A i \in DOMAIN timings : timings[i].inv \in Nat /\ timings[i].inv <= inv /\ inv \in Nat
  BY RowFacts DEF TimesInv, FileInv
<1>3. \A i \in DOMAIN timings : timings[i].inv <= inv + 1 /\ timings[i].inv # inv + 1
  BY <1>2
<1>4. FileInv'
  BY <1>1, <1>3 DEF TimesInv, FileInv
<1>5. \A q : ThisRun(q)' = {}
  BY <1>1, <1>3 DEF ThisRun
<1>6. PassInv'
  BY <1>1, <1>5 DEF PassInv
<1>7. LogInv' /\ ExitInv'
  BY <1>1 DEF LogInv, ExitInv, Alive
<1>8. QED  BY <1>4, <1>6, <1>7 DEF TimesInv

LEMMA StartQueryTimes == IInv /\ TimesInv /\ StartQuery => TimesInv'
<1> SUFFICES ASSUME IInv, TimesInv, StartQuery PROVE TimesInv'  OBVIOUS
<1>1. /\ phase = "next" /\ phase' = "waiting" /\ child' = "define" /\ left' = conf.iterations
      /\ out' = <<>> /\ timings' = timings /\ inv' = inv /\ conf' = conf /\ qnum' = qnum
  BY DEF StartQuery
<1>2. /\ \A q : ThisRun(q)' = ThisRun(q)
      /\ \A q : AllRight(q)' <=> AllRight(q)
      /\ \A q : Complete(q)' <=> Complete(q)
      /\ FileInv'
  BY <1>1, SameRows DEF TimesInv
<1>3. qnum \in 1..NumQueries /\ conf.iterations \in Nat
  BY RowFacts
<1>4. ThisRun(qnum) = {}
  BY <1>1, <1>3 DEF TimesInv, PassInv
<1>5. PassInv'
  BY <1>1, <1>2 DEF TimesInv, PassInv
<1>6. LogInv'
  <2>1. Cardinality(ThisRun(qnum)') = 0
    BY <1>1, <1>2, <1>4, FS_EmptySet
  <2>2. AllRight(qnum)'
    BY <1>1, <1>2, <1>4 DEF AllRight
  <2>3. ~Parses(out')
    BY <1>1 DEF Parses
  <2>4. QED  BY <1>1, <1>3, <2>1, <2>2, <2>3 DEF LogInv
<1>7. ExitInv'
  BY <1>1 DEF ExitInv
<1>8. QED  BY <1>2, <1>5, <1>6, <1>7 DEF TimesInv

\* execute_all() goes on only after a process whose iterations are all in the file.
LEMMA QueryEndedTimes == IInv /\ TimesInv /\ QueryEnded => TimesInv'
<1> SUFFICES ASSUME IInv, TimesInv, QueryEnded PROVE TimesInv'  OBVIOUS
<1>1. /\ phase = "waiting" /\ timings' = timings /\ inv' = inv /\ conf' = conf /\ child' = child
      /\ child \notin Alive /\ phase' # "waiting"
  BY DEF QueryEnded, Alive
<1>2. /\ \A q : ThisRun(q)' = ThisRun(q)
      /\ \A q : Complete(q)' <=> Complete(q)
      /\ FileInv'
  BY <1>1, SameRows DEF TimesInv
<1>3. LogInv' /\ ExitInv'
  BY <1>1 DEF LogInv, ExitInv
<1>4. PassInv'
  <2>1. CASE child = "exited" /\ Parses(out)
    <3>1. Complete(qnum)
      BY <1>1, <2>1 DEF TimesInv, ExitInv
    <3>2. qnum \in Nat /\ qnum <= NumQueries /\ NumQueries \in Nat
      BY RowFacts
    <3>3. \A q \in 1..NumQueries : (q > qnum => ThisRun(q) = {}) /\ (q < qnum => Complete(q))
      BY <1>1 DEF TimesInv, PassInv
    <3>4. CASE phase' = "next" /\ qnum' = qnum + 1
      BY <1>2, <3>1, <3>2, <3>3, <3>4 DEF PassInv
    <3>5. CASE phase' = "done" /\ qnum' = qnum /\ ~(qnum < NumQueries)
      BY <1>2, <3>1, <3>2, <3>3, <3>5 DEF PassInv
    <3>6. QED  BY <2>1, <3>4, <3>5 DEF QueryEnded
  <2>2. CASE ~(child = "exited" /\ Parses(out))
    BY <2>2 DEF QueryEnded, PassInv
  <2>3. QED  BY <2>1, <2>2
<1>5. QED  BY <1>2, <1>3, <1>4 DEF TimesInv

LEMMA DefineQueryTimes == IInv /\ TimesInv /\ DefineQuery => TimesInv'
<1> SUFFICES ASSUME IInv, TimesInv, DefineQuery PROVE TimesInv'  OBVIOUS
<1>1. /\ child = "define" /\ child \in Alive /\ child' \in {"raised", "warm_up", "timed"}
      /\ UNCHANGED parentVars /\ timings' = timings /\ left' = left /\ out' = out
  BY DEF DefineQuery, Alive
<1>2. /\ FileInv' /\ PassInv' /\ conf' = conf /\ qnum' = qnum
      /\ ThisRun(qnum)' = ThisRun(qnum)
      /\ AllRight(qnum)' <=> AllRight(qnum)
  BY <1>1, ChildFrame
<1>3. LogInv'
  BY <1>1, <1>2 DEF TimesInv, LogInv, Parses
<1>4. ExitInv'
  BY <1>1 DEF ExitInv
<1>5. QED  BY <1>2, <1>3, <1>4 DEF TimesInv

LEMMA WarmUpTimes == IInv /\ TimesInv /\ WarmUp => TimesInv'
<1> SUFFICES ASSUME IInv, TimesInv, WarmUp PROVE TimesInv'  OBVIOUS
<1>1. /\ child = "warm_up" /\ child \in Alive
      /\ UNCHANGED parentVars /\ timings' = timings /\ left' = left
  BY DEF WarmUp, Alive
<1>2. CASE QueryReturns /\ child' = "timed" /\ out' = out \o Shown
  <2>1. /\ FileInv' /\ PassInv' /\ conf' = conf /\ qnum' = qnum
        /\ ThisRun(qnum)' = ThisRun(qnum)
        /\ AllRight(qnum)' <=> AllRight(qnum)
    BY <1>1, ChildFrame
  <2>2. Parses(out)' => Parses(out)
    <3>1. Parses(out \o Shown) => Parses(out)
      BY RowFacts, ParsesFacts
    <3>2. QED  BY <1>2, <3>1 DEF Parses
  <2>3. LogInv'
    BY <1>1, <1>2, <2>1, <2>2 DEF TimesInv, LogInv
  <2>4. ExitInv'
    BY <1>2 DEF ExitInv
  <2>5. QED  BY <2>1, <2>3, <2>4 DEF TimesInv
<1>3. CASE QueryRaises
  BY <1>1, <1>3, RaiseTimes DEF QueryRaises
<1>4. QED  BY <1>2, <1>3 DEF WarmUp

LEMMA TimedRunTimes == IInv /\ TimesInv /\ TimedRun => TimesInv'
<1> SUFFICES ASSUME IInv, TimesInv, TimedRun PROVE TimesInv'  OBVIOUS
<1>1. /\ child = "timed" /\ child \in Alive /\ left > 0 /\ left' = left - 1
      /\ UNCHANGED parentVars /\ timings' = timings
  BY DEF TimedRun, Alive
<1>2. CASE QueryReturns /\ child' = "log"
  <2>1. /\ FileInv' /\ PassInv' /\ conf' = conf /\ qnum' = qnum
        /\ ThisRun(qnum)' = ThisRun(qnum)
        /\ AllRight(qnum)' <=> AllRight(qnum)
    BY <1>1, ChildFrame
  <2>2. left \in Nat /\ left <= conf.iterations /\ conf.iterations \in Nat
    BY RowFacts
  <2>3. /\ conf.log_timings => Cardinality(ThisRun(qnum)) = conf.iterations - left
        /\ conf.check_results => AllRight(qnum)
    BY <1>1, <2>2 DEF TimesInv, LogInv
  <2>4. /\ conf.iterations - left = conf.iterations - left' - 1
        /\ left' < conf.iterations
    BY <1>1, <2>2
  <2>5. LogInv'
    BY <1>2, <2>1, <2>3, <2>4 DEF LogInv
  <2>6. ExitInv'
    BY <1>2 DEF ExitInv
  <2>7. QED  BY <2>1, <2>5, <2>6 DEF TimesInv
<1>3. CASE QueryRaises
  BY <1>1, <1>3, RaiseTimes DEF QueryRaises
<1>4. QED  BY <1>2, <1>3 DEF TimedRun

\* The iteration that was timed gets its line, and the others keep theirs.
LEMMA LogTimingTimes == IInv /\ TimesInv /\ LogTiming => TimesInv'
<1> SUFFICES ASSUME IInv, TimesInv, LogTiming PROVE TimesInv'  OBVIOUS
<1> DEFINE entry == [inv |-> inv, solution |-> conf.engine, query |-> qnum,
                     io_type |-> conf.io_type, read |-> reading, answer |-> answer]
           next == Len(timings) + 1
<1>1. /\ child = "log" /\ child' = "check" /\ child \in Alive
      /\ UNCHANGED parentVars /\ left' = left /\ out' = out /\ answer' = answer
      /\ inv' = inv /\ conf' = conf /\ qnum' = qnum /\ phase' = phase
  BY DEF LogTiming, Alive, parentVars, cacheVars
<1>2. phase = "waiting"
  BY <1>1 DEF IInv, ChildInv
<1>3. Parses(out)' <=> Parses(out)
  BY <1>1 DEF Parses
<1>4. /\ Parses(out) => left < conf.iterations
      /\ conf.check_results => AllRight(qnum)
      /\ conf.log_timings => Cardinality(ThisRun(qnum)) = conf.iterations - left - 1
  BY <1>1 DEF TimesInv, LogInv
<1>5. ExitInv'
  BY <1>1 DEF ExitInv
<1>6. CASE ~conf.log_timings
  <2>1. timings' = timings
    BY <1>6 DEF LogTiming
  <2>2. /\ FileInv' /\ PassInv'
        /\ AllRight(qnum)' <=> AllRight(qnum)
    BY <1>1, <2>1, ChildFrame
  <2>3. LogInv'
    BY <1>1, <1>3, <1>4, <1>6, <2>2 DEF LogInv
  <2>4. QED  BY <1>5, <2>2, <2>3 DEF TimesInv
<1>7. CASE conf.log_timings
  <2>1. timings' = Append(timings, entry)
    BY <1>7 DEF LogTiming
  <2>2. /\ timings \in Seq(Entry) /\ Len(timings) \in Nat /\ DOMAIN timings = 1..Len(timings)
        /\ \A i \in DOMAIN timings : timings[i].inv \in Nat
        /\ inv \in Nat /\ qnum \in 1..NumQueries /\ NumQueries \in Nat
        /\ conf.iterations \in Nat /\ left \in 0..conf.iterations
        /\ IsFiniteSet(ThisRun(qnum)) /\ Cardinality(ThisRun(qnum)) \in Nat
    BY RowFacts
  <2>3. /\ DOMAIN timings' = 1..next /\ next \notin 1..Len(timings)
        /\ \A i \in 1..next : i \in 1..Len(timings) \/ i = next
        /\ \A i \in 1..Len(timings) : timings'[i] = timings[i] /\ i \in 1..next
        /\ timings'[next] = entry
    <3> HIDE DEF entry
    <3>1. /\ DOMAIN timings' = 1..next
          /\ \A i \in 1..Len(timings) : timings'[i] = timings[i]
          /\ timings'[next] = entry
      BY <2>1, <2>2, AppendFacts
    <3>2. QED  BY <2>2, <3>1
  <2>4. /\ entry.inv = inv /\ entry.query = qnum /\ entry.answer = answer
        /\ entry.solution = conf.engine /\ entry.io_type = conf.io_type
    OBVIOUS
  <2> HIDE DEF entry, next
  <2>5. next \in Nat /\ \A i \in 1..Len(timings) : i < next
    BY <2>2 DEF next
  <2>6. FileInv'
    <3>1. ASSUME NEW i \in 1..next
          PROVE  /\ timings'[i].inv <= inv
                 /\ timings'[i].inv = inv => /\ timings'[i].solution = conf.engine
                                             /\ timings'[i].io_type = conf.io_type
      BY <2>2, <2>3, <2>4 DEF TimesInv, FileInv
    <3>2. ASSUME NEW i \in 1..next, NEW j \in 1..next, i <= j
          PROVE  timings'[i].inv <= timings'[j].inv
      <4>1. CASE j = next
        BY <2>3, <2>4, <3>1, <4>1
      <4>2. CASE j # next
        <5>1. i \in 1..Len(timings) /\ j \in 1..Len(timings)
          BY <2>2, <2>3, <2>5, <3>2, <4>2
        <5>2. QED  BY <2>2, <2>3, <3>2, <5>1 DEF TimesInv, FileInv
      <4>3. QED  BY <4>1, <4>2
    <3>3. QED  BY <1>1, <2>3, <3>1, <3>2 DEF FileInv
  <2>7. ThisRun(qnum)' = ThisRun(qnum) \cup {next}
    <3>1. ThisRun(qnum)' = {i \in 1..next : timings'[i].inv = inv /\ timings'[i].query = qnum}
      BY <1>1, <2>3 DEF ThisRun
    <3>2. ThisRun(qnum) = {i \in 1..Len(timings) : timings[i].inv = inv /\ timings[i].query = qnum}
      BY <2>2 DEF ThisRun
    <3>3. next \in 1..next
      BY <2>2 DEF next
    <3>4. QED  BY <2>3, <2>4, <3>1, <3>2, <3>3
  <2>8. \A q \in 1..NumQueries : q # qnum => ThisRun(q)' = ThisRun(q)
    <3>1. SUFFICES ASSUME NEW q \in 1..NumQueries, q # qnum
                   PROVE  ThisRun(q)' = ThisRun(q)
      OBVIOUS
    <3>2. ThisRun(q)' = {i \in 1..next : timings'[i].inv = inv /\ timings'[i].query = q}
      BY <1>1, <2>3 DEF ThisRun
    <3>3. ThisRun(q) = {i \in 1..Len(timings) : timings[i].inv = inv /\ timings[i].query = q}
      BY <2>2 DEF ThisRun
    <3>4. QED  BY <2>3, <2>4, <3>1, <3>2, <3>3
  <2>9. \A q \in 1..NumQueries : q # qnum /\ Complete(q) => Complete(q)'
    <3>1. SUFFICES ASSUME NEW q \in 1..NumQueries, q # qnum, Complete(q)
                   PROVE  Complete(q)'
      OBVIOUS
    <3>2. ThisRun(q)' = ThisRun(q) /\ ThisRun(q) \subseteq 1..Len(timings)
      BY <2>2, <2>8, <3>1 DEF ThisRun
    <3>3. AllRight(q) => AllRight(q)'
      BY <2>3, <3>2 DEF AllRight
    <3>4. QED  BY <1>1, <3>1, <3>2, <3>3 DEF Complete
  <2>10. PassInv'
    <3>1. SUFFICES ASSUME NEW q \in 1..NumQueries
                   PROVE  /\ q > qnum => ThisRun(q)' = {}
                          /\ q < qnum => Complete(q)'
      BY <1>1, <1>2 DEF PassInv
    <3>2. q > qnum \/ q < qnum => q # qnum
      BY <2>2
    <3>3. QED  BY <1>2, <2>8, <2>9, <3>2 DEF TimesInv, PassInv
  <2>11. LogInv'
    <3>1. Cardinality(ThisRun(qnum)') = Cardinality(ThisRun(qnum)) + 1
      <4>1. next \notin ThisRun(qnum)
        BY <2>2, <2>3 DEF ThisRun
      <4>2. QED  BY <2>2, <2>7, <4>1, FS_AddElement
    <3>2. Cardinality(ThisRun(qnum)') = conf.iterations - left
      BY <1>4, <1>7, <2>2, <3>1
    <3>3. ASSUME conf.check_results, answer = "right" PROVE AllRight(qnum)'
      <4>1. \A i \in ThisRun(qnum) : i \in 1..Len(timings) /\ timings[i].answer = "right"
        BY <1>4, <2>2, <3>3 DEF AllRight, ThisRun
      <4>2. \A i \in ThisRun(qnum)' : timings'[i].answer = "right"
        BY <2>3, <2>4, <2>7, <3>3, <4>1
      <4>3. QED  BY <4>2 DEF AllRight
    <3>4. conf.iterations' - left' - 0 = conf.iterations - left
      BY <1>1, <2>2
    <3>5. QED  BY <1>1, <1>3, <1>4, <3>2, <3>3, <3>4 DEF LogInv
  <2>12. QED  BY <1>5, <2>6, <2>10, <2>11 DEF TimesInv
<1>8. QED  BY <1>6, <1>7

LEMMA CheckResultTimes == IInv /\ TimesInv /\ CheckResult => TimesInv'
<1> SUFFICES ASSUME IInv, TimesInv, CheckResult PROVE TimesInv'  OBVIOUS
<1>1. /\ child = "check" /\ child \in Alive
      /\ UNCHANGED parentVars /\ timings' = timings /\ left' = left /\ answer' = answer
  BY DEF CheckResult, Alive, cacheVars
<1>2. CASE \E why : Raise(why)
  BY <1>1, <1>2, RaiseTimes
<1>3. CASE /\ conf.check_results => answer = "right"
           /\ child' = "timed"
           /\ out' = out \/ out' = Append(out, "text")
  <2>1. /\ FileInv' /\ PassInv' /\ conf' = conf /\ qnum' = qnum
        /\ ThisRun(qnum)' = ThisRun(qnum)
        /\ AllRight(qnum)' <=> AllRight(qnum)
    BY <1>1, ChildFrame
  <2>2. Parses(out)' => Parses(out)
    <3>1. ~Parses(Append(out, "text"))
      BY RowFacts, ParsesFacts
    <3>2. Parses(out)' <=> Parses(out')
      BY DEF Parses
    <3>3. QED  BY <1>3, <3>1, <3>2
  <2>3. LogInv'
    BY <1>1, <1>3, <2>1, <2>2 DEF TimesInv, LogInv
  <2>4. ExitInv'
    BY <1>3 DEF ExitInv
  <2>5. QED  BY <2>1, <2>3, <2>4 DEF TimesInv
<1>4. QED  BY <1>2, <1>3 DEF CheckResult

\* A process that has come to its end has logged all its iterations.
LEMMA ExitQueryTimes == IInv /\ TimesInv /\ ExitQuery => TimesInv'
<1> SUFFICES ASSUME IInv, TimesInv, ExitQuery PROVE TimesInv'  OBVIOUS
<1>1. /\ child = "timed" /\ child \in Alive /\ left = 0 /\ child' = "exited"
      /\ UNCHANGED parentVars /\ timings' = timings /\ out' = out
  BY DEF ExitQuery, Alive
<1>2. /\ FileInv' /\ PassInv' /\ conf' = conf /\ qnum' = qnum
      /\ Complete(qnum)' <=> Complete(qnum)
  BY <1>1, ChildFrame
<1>3. Parses(out) => Complete(qnum)
  <2>1. conf.iterations \in Nat
    BY RowFacts
  <2>2. QED  BY <1>1, <2>1 DEF TimesInv, LogInv, Complete
<1>4. LogInv' /\ ExitInv'
  BY <1>1, <1>2, <1>3 DEF LogInv, ExitInv, Alive, Parses
<1>5. QED  BY <1>2, <1>4 DEF TimesInv

LEMMA KillTimes == IInv /\ TimesInv /\ Kill => TimesInv'
<1> SUFFICES ASSUME IInv, TimesInv, Kill PROVE TimesInv'  OBVIOUS
<1>1. child \in Alive /\ child' = "killed" /\ UNCHANGED parentVars /\ timings' = timings
  BY DEF Kill, Alive
<1>2. FileInv' /\ PassInv'
  BY <1>1, ChildFrame
<1>3. LogInv' /\ ExitInv'
  BY <1>1 DEF LogInv, ExitInv, Alive
<1>4. QED  BY <1>2, <1>3 DEF TimesInv

LEMMA StutterTimes == TimesInv /\ UNCHANGED vars => TimesInv'
<1> SUFFICES ASSUME TimesInv, UNCHANGED vars PROVE TimesInv'  OBVIOUS
<1> USE DEF vars, parentVars, cacheVars
<1>1. timings' = timings /\ inv' = inv /\ conf' = conf
  OBVIOUS
<1>2. /\ \A q : ThisRun(q)' = ThisRun(q)
      /\ \A q : AllRight(q)' <=> AllRight(q)
      /\ \A q : Complete(q)' <=> Complete(q)
      /\ FileInv'
  BY <1>1, SameRows DEF TimesInv
<1>3. PassInv' /\ LogInv' /\ ExitInv'
  BY <1>2 DEF TimesInv, PassInv, LogInv, ExitInv, Parses
<1>4. QED  BY <1>2, <1>3 DEF TimesInv

LEMMA TimesInvInvariant == Spec => [](IInv /\ TimesInv)
<1>1. Init => IInv /\ TimesInv
  BY InitIInv, InitTimes
<1>2. IInv /\ [Next]_vars => IInv'
  BY StartHarnessStep, StartQueryStep, QueryEndedStep, DefineQueryStep, WarmUpStep,
     TimedRunStep, LogTimingStep, CheckResultStep, ExitQueryStep, KillStep,
     StutterStep DEF Next
<1>3. IInv /\ TimesInv /\ [Next]_vars => TimesInv'
  BY StartHarnessTimes, StartQueryTimes, QueryEndedTimes, DefineQueryTimes, WarmUpTimes,
     TimedRunTimes, LogTimingTimes, CheckResultTimes, ExitQueryTimes, KillTimes,
     StutterTimes DEF Next
<1>4. QED  BY <1>1, <1>2, <1>3, PTL DEF Spec

-----------------------------------------------------------------------------
\* When execute_all() has ended, all queries are complete.
LEMMA AllQueriesDone ==
    ASSUME IInv, TimesInv, phase = "done", NEW q \in 1..NumQueries
    PROVE  Complete(q)
<1>1. qnum = NumQueries
  BY DEF TimesInv, PassInv
<1>2. q < qnum \/ q = qnum
  BY <1>1, RowFacts
<1>3. QED  BY <1>2 DEF TimesInv, PassInv

\* execute_all() ends by itself only when every query was timed as often as asked
\* for, with the right answer each time when the answers are checked.
THEOREM DoneIsComplete == Spec => []DoneMeansComplete
<1>1. IInv /\ TimesInv => DoneMeansComplete
  <2> SUFFICES ASSUME IInv, TimesInv, phase = "done", NEW q \in 1..NumQueries
               PROVE  /\ conf.log_timings => Cardinality(ThisRun(q)) = conf.iterations
                      /\ conf.check_results => \A i \in ThisRun(q) : timings[i].answer = "right"
    BY DEF DoneMeansComplete
  <2>1. Complete(q)
    BY AllQueriesDone
  <2>2. QED  BY <2>1 DEF Complete, AllRight
<1>2. QED  BY <1>1, TimesInvInvariant, PTL

\* The plot shows the last iteration of the invocation that has ended, whatever
\* older lines there are in the file.
THEOREM PlotShowsThisRun == Spec => []PlotIsFresh
<1>1. IInv /\ TimesInv => PlotIsFresh
  <2> SUFFICES ASSUME IInv, TimesInv, phase = "done", conf.log_timings, NEW q \in 1..NumQueries
               PROVE  Plotted(conf.engine, q, conf.io_type) = timings[Max(ThisRun(q))]
    BY DEF PlotIsFresh
  <2> DEFINE all  == Entries(conf.engine, q, conf.io_type)
             this == ThisRun(q)
  <2>1. /\ DOMAIN timings = 1..Len(timings) /\ Len(timings) \in Nat /\ inv \in Nat
        /\ \A i \in DOMAIN timings : timings[i].inv \in Nat
    BY RowFacts
  <2>2. this # {}
    <3>1. Complete(q)
      BY AllQueriesDone
    <3>2. Cardinality(this) = conf.iterations /\ conf.iterations > 0
      BY <3>1 DEF Complete
    <3>3. QED  BY <3>2, FS_EmptySet
  <2>3. this \subseteq all /\ all \subseteq 1..Len(timings)
    BY <2>1 DEF ThisRun, Entries, TimesInv, FileInv
  <2>4. ASSUME NEW i \in all, NEW j \in this, j <= i PROVE i \in this
    <3>1. i \in DOMAIN timings /\ timings[i].query = q
      BY DEF Entries
    <3>2. j \in DOMAIN timings /\ timings[j].inv = inv
      BY DEF ThisRun
    <3>3. timings[i].inv <= inv /\ timings[j].inv <= timings[i].inv
      BY <2>4, <3>1, <3>2 DEF TimesInv, FileInv
    <3>4. timings[i].inv = inv
      BY <2>1, <3>1, <3>2, <3>3
    <3>5. QED  BY <3>1, <3>4 DEF ThisRun
  <2> HIDE DEF all, this
  <2>5. Max(all) = Max(this)
    BY <2>1, <2>2, <2>3, <2>4, SameLast
  <2>6. QED  BY <2>5 DEF Plotted, all, this
<1>2. QED  BY <1>1, TimesInvInvariant, PTL

-----------------------------------------------------------------------------
(* The script of the EC2 machine, around the same processes.               *)

ConsoleLine == [solution : DOMAIN Engine, query : 1..NumQueries,
                verdict : {"OK", "FAIL", "TIMEOUT"}, failed : BOOLEAN]

Orphan == [inv : 1..MaxInvocations, solution : DOMAIN Engine, query : 1..NumQueries]

\* The states of a script that runs each query once and does not check answers.
BenchTypes ==
    /\ timings \in Seq(Entry)
    /\ inv \in 0..MaxInvocations /\ qnum \in 1..NumQueries /\ eng \in 1..Len(ENGINES)
    /\ conf = Cold(ENGINES[eng])
    /\ phase \in {"idle", "next", "waiting", "upload", "done", "aborted"}
    /\ child \in {"none", "define", "timed", "log", "check", "exited", "raised", "killed"}
    /\ left \in 0..1 /\ reading \in BOOLEAN /\ answer \in {"none", "unseen"}
    /\ console \in Seq(ConsoleLine)
    /\ orphans \subseteq Orphan

\* A query is there while the script waits for it, and runs until something stops it.
QueryInv ==
    /\ phase # "idle" => inv >= 1
    /\ phase = "waiting" <=> child # "none"
    /\ child \in Alive => fault = "none"
    /\ child \in {"raised", "killed"} => fault # "none"
    /\ child = "define" => left = 1
    /\ child \in {"log", "check"} => left = 0
    /\ child = "log" => answer = "unseen"

Logged == Cardinality(Rows(inv, conf.engine, qnum))

\* When the query has its line in the file.
LoggedInv ==
    /\ child \in {"define", "log", "raised"} => Logged = 0
    /\ child = "timed" => Logged = 1 - left
    /\ child = "check" => Logged = 1
    /\ child = "exited" => Logged = IF fault = "none" THEN 1 ELSE 0
    /\ child = "killed" => Logged <= 1

\* The place of query q of the k-th engine, seen from that of the script.
Ahead(k, q)  == k > eng \/ (k = eng /\ (q > qnum \/ (q = qnum /\ phase = "next")))
Behind(k, q) == k < eng \/ (k = eng /\ (q < qnum \/ phase \notin {"next", "waiting"}))

\* The file has no lines of queries to come, and the console none but of those gone by.
AheadInv ==
    phase \in {"next", "waiting"} =>
        \A k \in 1..Len(ENGINES), q \in 1..NumQueries :
            Ahead(k, q) => Rows(inv, ENGINES[k], q) = {}

ConsoleInv ==
    \A i \in DOMAIN console :
        \E k \in 1..Len(ENGINES) :
            console[i].solution = ENGINES[k] /\ Behind(k, console[i].query)

\* A query that outlives its session has no line on the console of that session.
OrphanInv ==
    \A o \in orphans :
        /\ o.inv <= inv
        /\ o.inv = inv =>
               /\ phase = "aborted"
               /\ \A i \in DOMAIN console :
                      ~(console[i].solution = o.solution /\ console[i].query = o.query)

BenchInv == /\ BenchTypes /\ QueryInv /\ LoggedInv /\ AheadInv
            /\ ConsoleInv /\ OrphanInv /\ ConsoleMatchesTimes

\* The settings of run_bench.sh, and that an engine has one place in ENGINES.
LEMMA ColdFacts ==
    ASSUME BenchTypes
    PROVE  /\ conf.engine = ENGINES[eng] /\ conf.engine \in DOMAIN Engine
           /\ conf.io_type = "parquet" /\ conf.iterations = 1
           /\ ~conf.pre_run /\ conf.log_timings /\ ~conf.check_results /\ ~conf.show_results
           /\ Len(ENGINES) \in Nat \ {0} /\ DOMAIN ENGINES = 1..Len(ENGINES)
           /\ \A i, j \in 1..Len(ENGINES) : ENGINES[i] = ENGINES[j] => i = j
           /\ \A i \in 1..Len(ENGINES) : ENGINES[i] \in DOMAIN Engine
           /\ NumQueries \in Nat \ {0} /\ MaxInvocations \in Nat \ {0}
<1>1. /\ ENGINES \in Seq(DOMAIN Engine) /\ ENGINES # <<>>
      /\ \A i, j \in DOMAIN ENGINES : ENGINES[i] = ENGINES[j] => i = j
  BY EnginesAssumption
<1>2. Len(ENGINES) \in Nat \ {0} /\ DOMAIN ENGINES = 1..Len(ENGINES)
  BY <1>1, EmptySeq
<1>3. \A i \in 1..Len(ENGINES) : ENGINES[i] \in DOMAIN Engine
  BY <1>1, <1>2
<1>4. eng \in 1..Len(ENGINES) /\ conf = Cold(ENGINES[eng])
  BY DEF BenchTypes
<1>5. QED
  BY <1>1, <1>2, <1>3, <1>4, NumQueriesAssumption, MaxInvocationsAssumption DEF Cold

\* The lines of a query are finitely many.
LEMMA RowsFinite ==
    ASSUME timings \in Seq(Entry), NEW n, NEW e, NEW q
    PROVE  /\ IsFiniteSet(Rows(n, e, q)) /\ Cardinality(Rows(n, e, q)) \in Nat
           /\ Cardinality(Rows(n, e, q)) = 0 <=> Rows(n, e, q) = {}
<1>1. DOMAIN timings = 1..Len(timings) /\ Len(timings) \in Nat
  OBVIOUS
<1>2. Rows(n, e, q) \subseteq 1..Len(timings)
  BY <1>1 DEF Rows
<1>3. IsFiniteSet(Rows(n, e, q))
  <2>1. IsFiniteSet(1..Len(timings))
    BY <1>1, FS_Interval
  <2>2. QED  BY <1>2, <2>1, FS_Subset
<1>4. QED  BY <1>3, FS_CardinalityType, FS_EmptySet

\* One more line in the file is one more line of its query and of no other.
LEMMA RowsAppend ==
    ASSUME timings \in Seq(Entry), NEW x \in Entry, timings' = Append(timings, x),
           NEW n, NEW e, NEW q
    PROVE  /\ ~(n = x.inv /\ e = x.solution /\ q = x.query) =>
                  Rows(n, e, q)' = Rows(n, e, q)
           /\ n = x.inv /\ e = x.solution /\ q = x.query =>
                  Cardinality(Rows(n, e, q)') = Cardinality(Rows(n, e, q)) + 1
<1> DEFINE len == Len(timings)
<1>1. len \in Nat /\ DOMAIN timings = 1..len
  OBVIOUS
<1>2. /\ DOMAIN timings' = 1..(len + 1) /\ timings'[len + 1] = x
      /\ \A i \in 1..len : timings'[i] = timings[i]
  BY AppendFacts
<1>3. \A i \in 1..(len + 1) : i = len + 1 \/ i \in 1..len
  BY <1>1
<1>4. ~(n = x.inv /\ e = x.solution /\ q = x.query) => Rows(n, e, q)' = Rows(n, e, q)
  BY <1>1, <1>2, <1>3 DEF Rows
<1>5. ASSUME n = x.inv, e = x.solution, q = x.query
      PROVE  Cardinality(Rows(n, e, q)') = Cardinality(Rows(n, e, q)) + 1
  <2>1. Rows(n, e, q)' = Rows(n, e, q) \cup {len + 1}
    BY <1>1, <1>2, <1>3, <1>5 DEF Rows
  <2>2. len + 1 \notin Rows(n, e, q)
    BY <1>1 DEF Rows
  <2>3. IsFiniteSet(Rows(n, e, q))
    BY RowsFinite
  <2>4. QED  BY <2>1, <2>2, <2>3, FS_AddElement
<1>6. QED  BY <1>4, <1>5

\* The lines stay what they are as long as the file does.
LEMMA RowsStay ==
    ASSUME timings' = timings
    PROVE  \A n, e, q : Rows(n, e, q)' = Rows(n, e, q)
BY DEF Rows

LEMMA InitBenchInv == InitBench => BenchInv
<1> SUFFICES ASSUME InitBench PROVE BenchInv  OBVIOUS
<1>1. Len(ENGINES) \in Nat \ {0}
  BY EnginesAssumption, EmptySeq
<1>2. BenchTypes
  <2>1. timings \in Seq(Entry) /\ console \in Seq(ConsoleLine)
    BY EmptySeq DEF InitBench, Init
  <2>2. inv \in 0..MaxInvocations /\ qnum \in 1..NumQueries /\ eng \in 1..Len(ENGINES)
    BY <1>1, NumQueriesAssumption, MaxInvocationsAssumption DEF InitBench, Init
  <2>3. conf = Cold(ENGINES[eng]) /\ orphans = {}
    BY DEF InitBench
  <2>4. reading \in BOOLEAN
    <3>1. reading = FALSE  BY Zenon DEF InitBench, Init
    <3>2. QED  BY <3>1, Zenon
  <2>5. phase = "idle" /\ child = "none" /\ left \in 0..1 /\ answer = "none"
    BY DEF InitBench, Init
  <2>6. orphans \subseteq Orphan
    BY <2>3
  <2>7. QED  BY <2>1, <2>2, <2>3, <2>4, <2>5, <2>6 DEF BenchTypes
<1>3. QueryInv /\ LoggedInv /\ AheadInv
  BY DEF InitBench, Init, QueryInv, LoggedInv, AheadInv, Alive
<1>4. ConsoleInv /\ OrphanInv /\ ConsoleMatchesTimes
  BY DEF InitBench, Init, ConsoleInv, OrphanInv, ConsoleMatchesTimes
<1>5. QED  BY <1>2, <1>3, <1>4 DEF BenchInv

\* A new run has no lines in its file and none on its console.
LEMMA StartBenchInv == BenchInv /\ StartBench => BenchInv'
<1> SUFFICES ASSUME BenchInv, StartBench PROVE BenchInv'  OBVIOUS
<1>0. BenchTypes  BY DEF BenchInv
<1>1. Len(ENGINES) \in Nat \ {0} /\ NumQueries \in Nat \ {0} /\ MaxInvocations \in Nat \ {0}
  BY <1>0, ColdFacts
<1>2. /\ phase' = "next" /\ inv' = inv + 1 /\ eng' = 1 /\ conf' = Cold(ENGINES[1])
      /\ qnum' = 1 /\ console' = <<>> /\ timings' = <<>> /\ orphans' = orphans
      /\ child' = "none" /\ left' = 0 /\ reading' \in BOOLEAN /\ answer' = "none"
      /\ inv < MaxInvocations /\ inv \in Nat
  <2>1. NoChild  BY DEF StartBench
  <2>2. reading' \in BOOLEAN /\ child' = "none" /\ left' = 0 /\ answer' = "none"
    BY <2>1, Zenon DEF NoChild
  <2>3. /\ phase' = "next" /\ inv' = inv + 1 /\ eng' = 1 /\ conf' = Cold(ENGINES[1])
        /\ qnum' = 1 /\ console' = <<>> /\ timings' = <<>> /\ orphans' = orphans
        /\ inv < MaxInvocations
    BY DEF StartBench
  <2>4. inv \in Nat
    BY <1>0, <1>1 DEF BenchTypes
  <2>5. QED  BY <2>2, <2>3, <2>4
<1>3. BenchTypes'
  BY <1>0, <1>1, <1>2, EmptySeq DEF BenchTypes
<1>4. (QueryInv /\ LoggedInv)'
  BY <1>2 DEF QueryInv, LoggedInv, Alive
<1>5. AheadInv'
  BY <1>2 DEF AheadInv, Rows
<1>6. (ConsoleInv /\ ConsoleMatchesTimes)'
  BY <1>2 DEF ConsoleInv, ConsoleMatchesTimes
<1>7. OrphanInv'
  <2>1. ASSUME NEW o \in orphans PROVE o.inv <= inv /\ o.inv \in Nat
    BY <1>0, <1>1 DEF BenchInv, OrphanInv, BenchTypes, Orphan
  <2>2. ASSUME NEW o \in orphans PROVE o.inv <= inv' /\ o.inv # inv'
    BY <1>2, <2>1
  <2>3. QED  BY <1>2, <2>2 DEF OrphanInv
<1>8. QED  BY <1>3, <1>4, <1>5, <1>6, <1>7 DEF BenchInv

LEMMA StartQueryInv == BenchInv /\ StartQuery /\ UNCHANGED ec2 => BenchInv'
<1> SUFFICES ASSUME BenchInv, StartQuery, UNCHANGED ec2 PROVE BenchInv'  OBVIOUS
<1>0. BenchTypes  BY DEF BenchInv
<1>1. /\ phase = "next" /\ phase' = "waiting" /\ child' = "define" /\ left' = conf.iterations
      /\ reading' \in BOOLEAN /\ answer' = "none" /\ fault' = "none"
      /\ timings' = timings /\ inv' = inv /\ conf' = conf /\ qnum' = qnum
      /\ eng' = eng /\ console' = console /\ orphans' = orphans
  BY DEF StartQuery, ec2
<1>2. /\ conf.iterations = 1 /\ conf.engine = ENGINES[eng]
      /\ eng \in 1..Len(ENGINES) /\ qnum \in 1..NumQueries
      /\ Len(ENGINES) \in Nat /\ NumQueries \in Nat
  BY <1>0, ColdFacts DEF BenchTypes
<1>3. \A n, e, q : Rows(n, e, q)' = Rows(n, e, q)
  BY <1>1, RowsStay
<1>4. BenchTypes'
  BY <1>0, <1>1, <1>2 DEF BenchTypes
<1>5. QueryInv'
  BY <1>1, <1>2 DEF BenchInv, QueryInv, Alive
<1>6. LoggedInv'
  <2>1. Rows(inv, conf.engine, qnum) = {}
    BY <1>1, <1>2 DEF BenchInv, AheadInv, Ahead
  <2>2. Logged' = 0
    BY <1>1, <1>3, <2>1, FS_EmptySet DEF Logged
  <2>3. QED  BY <1>1, <2>2 DEF LoggedInv
<1>7. AheadInv'
  BY <1>1, <1>2, <1>3 DEF BenchInv, AheadInv, Ahead
<1>8. ConsoleInv'
  BY <1>1, <1>2 DEF BenchInv, ConsoleInv, Behind
<1>9. OrphanInv'
  BY <1>1 DEF BenchInv, OrphanInv
<1>10. ConsoleMatchesTimes'
  BY <1>1, <1>3 DEF BenchInv, ConsoleMatchesTimes
<1>11. QED  BY <1>4, <1>5, <1>6, <1>7, <1>8, <1>9, <1>10 DEF BenchInv

\* A step of the query that does not write to the file.
LEMMA QueryFrame ==
    ASSUME BenchInv, child \in Alive, UNCHANGED parentVars, UNCHANGED ec2,
           timings' = timings, child' \in {"timed", "log", "check", "exited", "raised", "killed"},
           left' \in 0..1, reading' \in BOOLEAN, answer' \in {"none", "unseen"}
    PROVE  /\ BenchTypes' /\ AheadInv' /\ ConsoleInv' /\ OrphanInv' /\ ConsoleMatchesTimes'
           /\ phase' = "waiting" /\ inv' >= 1 /\ Logged' = Logged
<1>1. /\ phase = "waiting" /\ phase' = phase /\ inv' = inv /\ conf' = conf /\ qnum' = qnum
      /\ eng' = eng /\ console' = console /\ orphans' = orphans /\ inv >= 1
  BY DEF BenchInv, QueryInv, Alive, parentVars, ec2
<1>2. \A n, e, q : Rows(n, e, q)' = Rows(n, e, q)
  BY RowsStay
<1>3. BenchTypes'
  BY <1>1 DEF BenchInv, BenchTypes
<1>4. AheadInv' /\ ConsoleInv'
  BY <1>1, <1>2 DEF BenchInv, AheadInv, Ahead, ConsoleInv, Behind
<1>5. OrphanInv'
  BY <1>1 DEF BenchInv, OrphanInv
<1>6. ConsoleMatchesTimes'
  BY <1>1, <1>2 DEF BenchInv, ConsoleMatchesTimes
<1>7. Logged' = Logged
  BY <1>1, <1>2 DEF Logged
<1>8. QED  BY <1>1, <1>3, <1>4, <1>5, <1>6, <1>7

\* The steps of the query but for the writing of its time: the process has its time
\* in the file exactly when it is past that.
LEMMA QuietStepInv ==
    BenchInv /\ (DefineQuery \/ TimedRun \/ CheckResult \/ ExitQuery \/ Kill) /\ UNCHANGED ec2
        => BenchInv'
<1> SUFFICES ASSUME BenchInv, DefineQuery \/ TimedRun \/ CheckResult \/ ExitQuery \/ Kill,
                    UNCHANGED ec2
             PROVE  BenchInv'
  OBVIOUS
<1>0. BenchTypes /\ QueryInv /\ LoggedInv  BY DEF BenchInv
<1>1. ~conf.pre_run /\ ~conf.check_results /\ ~conf.show_results
  BY <1>0, ColdFacts
<1>2. UNCHANGED parentVars /\ timings' = timings
  BY DEF DefineQuery, TimedRun, CheckResult, ExitQuery, Kill
<1>3. left \in 0..1 /\ reading \in BOOLEAN /\ answer \in {"none", "unseen"} /\ child # "warm_up"
  BY <1>0 DEF BenchTypes
<1>4. CASE DefineQuery
  <2>1. /\ child = "define" /\ left' = left /\ reading' = reading /\ answer' = answer
        /\ \/ child' = "raised" /\ fault' = "harness"
           \/ child' = "timed" /\ fault' = fault
    BY <1>1, <1>4 DEF DefineQuery
  <2>2. /\ BenchTypes' /\ AheadInv' /\ ConsoleInv' /\ OrphanInv' /\ ConsoleMatchesTimes'
        /\ phase' = "waiting" /\ inv' >= 1 /\ Logged' = Logged
    BY <1>2, <1>3, <2>1, QueryFrame DEF Alive
  <2>3. left = 1 /\ fault = "none" /\ Logged = 0
    BY <1>0, <2>1 DEF QueryInv, LoggedInv, Alive
  <2>4. QueryInv'
    BY <2>1, <2>2, <2>3 DEF QueryInv, Alive
  <2>5. LoggedInv'
    BY <2>1, <2>2, <2>3 DEF LoggedInv
  <2>6. QED  BY <2>2, <2>4, <2>5 DEF BenchInv
<1>5. CASE TimedRun
  <2>1. child = "timed" /\ left = 1 /\ left' = 0
    BY <1>3, <1>5 DEF TimedRun
  <2>2. Logged = 0 /\ fault = "none"
    BY <1>0, <2>1 DEF LoggedInv, QueryInv, Alive
  <2>3. CASE QueryReturns /\ child' = "log"
    <3>1. answer' = "unseen" /\ fault' = "none"
      BY <1>1, <2>2, <2>3 DEF QueryReturns
    <3>2. reading' \in BOOLEAN
      BY <2>3 DEF QueryReturns, Loads, include_io
    <3>3. /\ BenchTypes' /\ AheadInv' /\ ConsoleInv' /\ OrphanInv' /\ ConsoleMatchesTimes'
          /\ phase' = "waiting" /\ inv' >= 1 /\ Logged' = Logged
      BY <1>2, <2>1, <2>3, <3>1, <3>2, QueryFrame DEF Alive
    <3>4. QueryInv'
      BY <2>1, <2>3, <3>1, <3>3 DEF QueryInv, Alive
    <3>5. LoggedInv'
      BY <2>2, <2>3, <3>3 DEF LoggedInv
    <3>6. QED  BY <3>3, <3>4, <3>5 DEF BenchInv
  <2>4. CASE QueryRaises
    <3>1. /\ fault' \in {"harness", "query"} /\ child' \in {"exited", "raised"}
          /\ reading' = reading /\ answer' = answer
      BY <2>4 DEF QueryRaises, Raise, cacheVars
    <3>2. /\ BenchTypes' /\ AheadInv' /\ ConsoleInv' /\ OrphanInv' /\ ConsoleMatchesTimes'
          /\ phase' = "waiting" /\ inv' >= 1 /\ Logged' = Logged
      BY <1>2, <1>3, <2>1, <3>1, QueryFrame DEF Alive
    <3>3. QueryInv'
      BY <3>1, <3>2 DEF QueryInv, Alive
    <3>4. LoggedInv'
      BY <2>2, <3>1, <3>2 DEF LoggedInv
    <3>5. QED  BY <3>2, <3>3, <3>4 DEF BenchInv
  <2>5. QED  BY <1>5, <2>3, <2>4 DEF TimedRun
<1>6. CASE CheckResult
  <2>1. /\ child = "check" /\ child' = "timed" /\ fault' = fault /\ left' = left
        /\ reading' = reading /\ answer' = answer
    BY <1>1, <1>6 DEF CheckResult, cacheVars
  <2>2. /\ BenchTypes' /\ AheadInv' /\ ConsoleInv' /\ OrphanInv' /\ ConsoleMatchesTimes'
        /\ phase' = "waiting" /\ inv' >= 1 /\ Logged' = Logged
    BY <1>2, <1>3, <2>1, QueryFrame DEF Alive
  <2>3. left = 0 /\ fault = "none" /\ Logged = 1
    BY <1>0, <2>1 DEF QueryInv, LoggedInv, Alive
  <2>4. QueryInv'
    BY <2>1, <2>2, <2>3 DEF QueryInv, Alive
  <2>5. LoggedInv'
    BY <2>1, <2>2, <2>3 DEF LoggedInv
  <2>6. QED  BY <2>2, <2>4, <2>5 DEF BenchInv
<1>7. CASE ExitQuery
  <2>1. /\ child = "timed" /\ left = 0 /\ child' = "exited" /\ fault' = fault /\ left' = left
        /\ reading' = reading /\ answer' = answer
    BY <1>7 DEF ExitQuery, cacheVars
  <2>2. /\ BenchTypes' /\ AheadInv' /\ ConsoleInv' /\ OrphanInv' /\ ConsoleMatchesTimes'
        /\ phase' = "waiting" /\ inv' >= 1 /\ Logged' = Logged
    BY <1>2, <1>3, <2>1, QueryFrame DEF Alive
  <2>3. fault = "none" /\ Logged = 1
    BY <1>0, <2>1 DEF QueryInv, LoggedInv, Alive
  <2>4. QueryInv'
    BY <2>1, <2>2 DEF QueryInv, Alive
  <2>5. LoggedInv'
    BY <2>1, <2>2, <2>3 DEF LoggedInv
  <2>6. QED  BY <2>2, <2>4, <2>5 DEF BenchInv
<1>8. CASE Kill
  <2>1. /\ child \in Alive /\ child' = "killed" /\ fault' = "killed" /\ left' = left
        /\ reading' = reading /\ answer' = answer
    BY <1>8 DEF Kill, cacheVars, Alive
  <2>2. /\ BenchTypes' /\ AheadInv' /\ ConsoleInv' /\ OrphanInv' /\ ConsoleMatchesTimes'
        /\ phase' = "waiting" /\ inv' >= 1 /\ Logged' = Logged
    BY <1>2, <1>3, <2>1, QueryFrame
  <2>3. Logged <= 1
    BY <1>0, <1>3, <2>1 DEF LoggedInv, Alive
  <2>4. QueryInv'
    BY <2>1, <2>2 DEF QueryInv, Alive
  <2>5. LoggedInv'
    BY <2>1, <2>2, <2>3 DEF LoggedInv
  <2>6. QED  BY <2>2, <2>4, <2>5 DEF BenchInv
<1>9. QED  BY <1>4, <1>5, <1>6, <1>7, <1>8

\* What the query of the moment writes is not about a query on the console, nor about
\* one to come.
LEMMA LogTimingInv == BenchInv /\ LogTiming /\ UNCHANGED ec2 => BenchInv'
<1> SUFFICES ASSUME BenchInv, LogTiming, UNCHANGED ec2 PROVE BenchInv'  OBVIOUS
<1>0. BenchTypes /\ QueryInv /\ LoggedInv  BY DEF BenchInv
<1> DEFINE x == [inv |-> inv, solution |-> conf.engine, query |-> qnum,
                 io_type |-> conf.io_type, read |-> reading, answer |-> answer]
<1>1. /\ conf.log_timings /\ conf.engine \in DOMAIN Engine /\ conf.io_type \in IoTypes
      /\ conf.engine = ENGINES[eng]
      /\ \A i, j \in 1..Len(ENGINES) : ENGINES[i] = ENGINES[j] => i = j
      /\ Len(ENGINES) \in Nat /\ NumQueries \in Nat /\ MaxInvocations \in Nat
  BY <1>0, ColdFacts DEF IoTypes
<1>2. /\ timings' = Append(timings, x) /\ child = "log" /\ child' = "check"
      /\ inv' = inv /\ conf' = conf /\ qnum' = qnum /\ phase' = phase
      /\ left' = left /\ fault' = fault /\ reading' = reading /\ answer' = answer
      /\ eng' = eng /\ console' = console /\ orphans' = orphans
  BY <1>1 DEF LogTiming, parentVars, cacheVars, ec2
<1>3. /\ phase = "waiting" /\ inv \in 1..MaxInvocations /\ answer = "unseen"
      /\ left = 0 /\ fault = "none" /\ Logged = 0
      /\ eng \in 1..Len(ENGINES) /\ qnum \in 1..NumQueries
  BY <1>0, <1>1, <1>2 DEF QueryInv, LoggedInv, BenchTypes, Alive
<1>4. x \in Entry /\ timings \in Seq(Entry)
  BY <1>0, <1>1, <1>3 DEF BenchTypes, Entry
<1>5. x.inv = inv /\ x.solution = conf.engine /\ x.query = qnum
  OBVIOUS
<1> HIDE DEF x
<1>6. \A e, q : ~(e = conf.engine /\ q = qnum) => Rows(inv, e, q)' = Rows(inv, e, q)
  BY <1>2, <1>4, <1>5, RowsAppend
<1>7. Logged' = 1
  <2>1. Cardinality(Rows(inv, conf.engine, qnum)') = Cardinality(Rows(inv, conf.engine, qnum)) + 1
    BY <1>2, <1>4, <1>5, RowsAppend
  <2>2. QED  BY <1>3, <2>1 DEF Logged
<1>8. BenchTypes'
  <2>1. timings' \in Seq(Entry)
    BY <1>2, <1>4, AppendProperties
  <2>2. QED  BY <1>0, <1>2, <2>1 DEF BenchTypes
<1>9. QueryInv'
  BY <1>0, <1>2, <1>3 DEF QueryInv, Alive
<1>10. LoggedInv'
  BY <1>2, <1>7 DEF LoggedInv
<1>11. AheadInv'
  <2> SUFFICES ASSUME NEW k \in 1..Len(ENGINES), NEW q \in 1..NumQueries, Ahead(k, q)
               PROVE  Rows(inv, ENGINES[k], q)' = {}
    BY <1>2 DEF AheadInv, Ahead
  <2>1. ~(ENGINES[k] = conf.engine /\ q = qnum)
    BY <1>1, <1>3 DEF Ahead
  <2>2. Rows(inv, ENGINES[k], q) = {}
    BY <1>3 DEF BenchInv, AheadInv
  <2>3. QED  BY <1>6, <2>1, <2>2
<1>12. ConsoleInv'
  BY <1>2 DEF BenchInv, ConsoleInv, Behind
<1>13. OrphanInv'
  BY <1>2 DEF BenchInv, OrphanInv
<1>14. ConsoleMatchesTimes'
  <2>1. ASSUME NEW i \in DOMAIN console
        PROVE  Rows(inv, console[i].solution, console[i].query)'
                   = Rows(inv, console[i].solution, console[i].query)
    <3>1. PICK k \in 1..Len(ENGINES) :
              console[i].solution = ENGINES[k] /\ Behind(k, console[i].query)
      BY DEF BenchInv, ConsoleInv
    <3>2. console[i].query \in 1..NumQueries
      <4>1. console[i] \in ConsoleLine
        BY <1>0 DEF BenchTypes
      <4>2. QED  BY <4>1 DEF ConsoleLine
    <3>3. ~(console[i].solution = conf.engine /\ console[i].query = qnum)
      BY <1>1, <1>3, <3>1, <3>2 DEF Behind
    <3>4. QED  BY <1>2, <1>6, <3>3
  <2>2. QED  BY <1>2, <2>1 DEF BenchInv, ConsoleMatchesTimes
<1>15. QED  BY <1>8, <1>9, <1>10, <1>11, <1>12, <1>13, <1>14 DEF BenchInv

\* The script goes on after a query with a line on the console that fits the file.
LEMMA GoOnInv ==
    ASSUME BenchInv, phase = "waiting",
           NEW verdict \in {"OK", "FAIL", "TIMEOUT"}, NEW failed \in BOOLEAN,
           Recorded(verdict, failed), NextQuery, NoChild,
           UNCHANGED <<timings, inv, orphans>>,
           verdict = "OK" => Logged = IF failed THEN 0 ELSE 1,
           verdict = "FAIL" => failed,
           Logged <= 1
    PROVE  BenchInv'
<1>0. BenchTypes /\ QueryInv  BY DEF BenchInv
<1> DEFINE c == [solution |-> conf.engine, query |-> qnum, verdict |-> verdict, failed |-> failed]
<1>1. /\ conf.engine \in DOMAIN Engine /\ conf.engine = ENGINES[eng]
      /\ \A i, j \in 1..Len(ENGINES) : ENGINES[i] = ENGINES[j] => i = j
      /\ Len(ENGINES) \in Nat \ {0} /\ NumQueries \in Nat \ {0}
      /\ eng \in 1..Len(ENGINES) /\ qnum \in 1..NumQueries
  BY <1>0, ColdFacts DEF BenchTypes
<1>2. /\ console' = Append(console, c) /\ timings' = timings /\ inv' = inv /\ orphans' = orphans
      /\ child' = "none" /\ left' = 0 /\ reading' \in BOOLEAN /\ answer' = "none"
  BY DEF Recorded, NoChild
<1>3. /\ c \in ConsoleLine
      /\ c.solution = conf.engine /\ c.query = qnum /\ c.verdict = verdict /\ c.failed = failed
  BY <1>1 DEF ConsoleLine
<1> HIDE DEF c
<1>4. \/ /\ phase' = "next" /\ qnum < NumQueries /\ qnum' = qnum + 1
         /\ eng' = eng /\ conf' = conf
      \/ /\ phase' = "next" /\ qnum = NumQueries /\ qnum' = 1 /\ eng < Len(ENGINES)
         /\ eng' = eng + 1 /\ conf' = Cold(ENGINES[eng + 1])
      \/ /\ phase' = "upload" /\ qnum = NumQueries /\ qnum' = qnum /\ eng' = eng /\ conf' = conf
  BY <1>1 DEF NextQuery
<1>5. eng' \in 1..Len(ENGINES) /\ qnum' \in 1..NumQueries /\ conf' = Cold(ENGINES[eng'])
  BY <1>0, <1>1, <1>4 DEF BenchTypes
<1>6. console' \in Seq(ConsoleLine)
  BY <1>0, <1>2, <1>3, AppendProperties DEF BenchTypes
<1>7. /\ Len(console) \in Nat /\ DOMAIN console = 1..Len(console)
      /\ DOMAIN console' = 1..(Len(console) + 1) /\ console'[Len(console) + 1] = c
      /\ \A i \in 1..Len(console) : console'[i] = console[i]
  BY <1>0, <1>2, AppendFacts DEF BenchTypes
<1>8. \A n, e, q : Rows(n, e, q)' = Rows(n, e, q)
  BY <1>2, RowsStay
<1>9. BenchTypes'
  BY <1>0, <1>2, <1>4, <1>5, <1>6 DEF BenchTypes
<1>10. (QueryInv /\ LoggedInv)'
  BY <1>0, <1>2, <1>4 DEF QueryInv, LoggedInv, Alive
<1>11. AheadInv'
  <2> SUFFICES ASSUME phase' = "next", NEW k \in 1..Len(ENGINES), NEW q \in 1..NumQueries,
                      Ahead(k, q)'
               PROVE  Rows(inv, ENGINES[k], q) = {}
    BY <1>2, <1>4, <1>8 DEF AheadInv
  <2>1. Ahead(k, q)
    BY <1>1, <1>4 DEF Ahead
  <2>2. QED  BY <2>1 DEF BenchInv, AheadInv
<1>12. ConsoleInv'
  <2>1. ASSUME NEW k \in 1..Len(ENGINES), NEW q \in 1..NumQueries, Behind(k, q)
        PROVE  Behind(k, q)'
    BY <1>1, <1>4, <2>1 DEF Behind
  <2>2. ASSUME NEW i \in DOMAIN console'
        PROVE  \E k \in 1..Len(ENGINES), q \in 1..NumQueries :
                   /\ console'[i].solution = ENGINES[k] /\ console'[i].query = q
                   /\ Behind(k, q)'
    <3>1. CASE i \in 1..Len(console)
      <4>1. PICK k \in 1..Len(ENGINES) :
                console[i].solution = ENGINES[k] /\ Behind(k, console[i].query)
        BY <1>7, <3>1 DEF BenchInv, ConsoleInv
      <4>2. PICK q \in 1..NumQueries : q = console[i].query
        <5>1. console[i] \in ConsoleLine
          BY <1>0, <1>7, <3>1 DEF BenchTypes
        <5>2. QED  BY <5>1 DEF ConsoleLine
      <4>3. Behind(k, q)'
        BY <2>1, <4>1, <4>2
      <4>4. console'[i].query = q /\ console'[i].solution = ENGINES[k]
        BY <1>7, <3>1, <4>1, <4>2
      <4>5. QED  BY <4>3, <4>4
    <3>2. CASE i = Len(console) + 1
      <4>1. PICK e \in 1..Len(ENGINES), q \in 1..NumQueries : e = eng /\ q = qnum
        BY <1>1
      <4>2. Behind(e, q)'
        BY <1>1, <1>4, <4>1 DEF Behind
      <4>3. console'[i].solution = ENGINES[e] /\ console'[i].query = q
        BY <1>1, <1>3, <1>7, <3>2, <4>1
      <4>4. QED  BY <4>2, <4>3
    <3>3. QED  BY <1>7, <3>1, <3>2
  <2>3. QED  BY <2>2 DEF ConsoleInv, Behind
<1>13. OrphanInv'
  <2>1. \A o \in orphans : o.inv # inv /\ o.inv <= inv
    BY DEF BenchInv, OrphanInv
  <2>2. QED  BY <1>2, <2>1 DEF OrphanInv
<1>14. ConsoleMatchesTimes'
  <2>1. ASSUME NEW i \in DOMAIN console'
        PROVE  LET d    == console'[i]
                   rows == Cardinality(Rows(inv, d.solution, d.query))
               IN  /\ d.verdict = "OK" => rows = IF d.failed THEN 0 ELSE 1
                   /\ d.verdict = "FAIL" => d.failed
                   /\ rows <= 1
    <3>1. CASE i \in 1..Len(console)
      BY <1>7, <3>1 DEF BenchInv, ConsoleMatchesTimes
    <3>2. CASE i = Len(console) + 1
      BY <1>3, <1>7, <3>2 DEF Logged
    <3>3. QED  BY <1>7, <3>1, <3>2
  <2>2. QED  BY <1>2, <1>8, <2>1 DEF ConsoleMatchesTimes
<1>15. QED  BY <1>9, <1>10, <1>11, <1>12, <1>13, <1>14 DEF BenchInv

LEMMA ChildEndedInv == BenchInv /\ ChildEnded => BenchInv'
<1> SUFFICES ASSUME BenchInv, ChildEnded PROVE BenchInv'  OBVIOUS
<1>1. /\ phase = "waiting" /\ child \in {"exited", "raised", "killed"}
      /\ Recorded(Verdict, fault # "none") /\ NextQuery /\ NoChild
      /\ UNCHANGED <<timings, inv, orphans>>
  BY DEF ChildEnded
<1>2. Verdict \in {"OK", "FAIL", "TIMEOUT"} /\ (fault # "none") \in BOOLEAN
  BY DEF Verdict
<1>3. /\ Verdict = "OK" => Logged = IF fault # "none" THEN 0 ELSE 1
      /\ Verdict = "FAIL" => fault # "none"
      /\ Logged <= 1
  BY <1>1 DEF Verdict, BenchInv, QueryInv, LoggedInv
<1>4. QED  BY <1>1, <1>2, <1>3, GoOnInv

LEMMA TimedOutInv == BenchInv /\ TimedOut => BenchInv'
<1> SUFFICES ASSUME BenchInv, TimedOut PROVE BenchInv'  OBVIOUS
<1>1. /\ phase = "waiting" /\ Recorded("TIMEOUT", TRUE) /\ NextQuery /\ NoChild
      /\ UNCHANGED <<timings, inv, orphans>>
  BY DEF TimedOut
<1>2. Logged <= 1
  <2>1. child # "none" /\ left \in 0..1 /\ child \in {"none", "define", "timed", "log", "check",
                                                      "exited", "raised", "killed"}
    BY <1>1 DEF BenchInv, QueryInv, BenchTypes
  <2>2. LoggedInv
    BY DEF BenchInv
  <2>3. QED  BY <2>1, <2>2 DEF LoggedInv
<1>3. QED  BY <1>1, <1>2, GoOnInv

LEMMA UploadInv == BenchInv /\ Upload => BenchInv'
<1> SUFFICES ASSUME BenchInv, Upload PROVE BenchInv'  OBVIOUS
<1>1. /\ phase = "upload" /\ phase' = "done" /\ timings' = timings /\ inv' = inv /\ conf' = conf
      /\ qnum' = qnum /\ child' = child /\ left' = left /\ fault' = fault /\ eng' = eng
      /\ reading' = reading /\ answer' = answer /\ console' = console /\ orphans' = orphans
  BY DEF Upload, cacheVars
<1>2. \A n, e, q : Rows(n, e, q)' = Rows(n, e, q)
  BY <1>1, RowsStay
<1>3. BenchTypes' /\ QueryInv'
  BY <1>1 DEF BenchInv, BenchTypes, QueryInv, Alive
<1>4. LoggedInv'
  BY <1>1, <1>2 DEF BenchInv, LoggedInv, Logged
<1>5. (AheadInv /\ ConsoleInv /\ OrphanInv)'
  BY <1>1 DEF BenchInv, AheadInv, ConsoleInv, Behind, OrphanInv
<1>6. ConsoleMatchesTimes'
  BY <1>1, <1>2 DEF BenchInv, ConsoleMatchesTimes
<1>7. QED  BY <1>3, <1>4, <1>5, <1>6 DEF BenchInv

\* The query that outlives the session is not on its console.
LEMMA LoseSessionInv == BenchInv /\ LoseSession => BenchInv'
<1> SUFFICES ASSUME BenchInv, LoseSession PROVE BenchInv'  OBVIOUS
<1>0. BenchTypes /\ QueryInv  BY DEF BenchInv
<1> DEFINE o == [inv |-> inv, solution |-> conf.engine, query |-> qnum]
<1>1. /\ phase \in {"next", "waiting", "upload"} /\ phase' = "aborted"
      /\ timings' = timings /\ inv' = inv /\ conf' = conf /\ qnum' = qnum /\ eng' = eng
      /\ child' = "none" /\ left' = 0 /\ reading' \in BOOLEAN /\ answer' = "none"
      /\ console' = console
      /\ orphans' = orphans \/ (Untimed /\ orphans' = orphans \cup {o})
  BY DEF LoseSession, NoChild
<1>2. /\ conf.engine \in DOMAIN Engine /\ conf.engine = ENGINES[eng]
      /\ \A i, j \in 1..Len(ENGINES) : ENGINES[i] = ENGINES[j] => i = j
      /\ Len(ENGINES) \in Nat /\ NumQueries \in Nat /\ MaxInvocations \in Nat
      /\ eng \in 1..Len(ENGINES) /\ qnum \in 1..NumQueries /\ inv \in 1..MaxInvocations
  BY <1>0, <1>1, ColdFacts DEF BenchTypes, QueryInv
<1>3. \A n, e, q : Rows(n, e, q)' = Rows(n, e, q)
  BY <1>1, RowsStay
<1>4. /\ o \in Orphan
      /\ o.inv = inv /\ o.solution = conf.engine /\ o.query = qnum
  BY <1>2 DEF Orphan
<1> HIDE DEF o
<1>5. BenchTypes'
  BY <1>0, <1>1, <1>4 DEF BenchTypes
<1>6. (QueryInv /\ LoggedInv /\ AheadInv)'
  BY <1>0, <1>1, <1>2 DEF QueryInv, LoggedInv, AheadInv, Alive
<1>7. ConsoleInv'
  BY <1>1 DEF BenchInv, ConsoleInv, Behind
<1>8. OrphanInv'
  <2>1. \A p \in orphans : p.inv # inv /\ p.inv <= inv
    BY <1>1 DEF BenchInv, OrphanInv
  <2>2. ASSUME Untimed, NEW i \in DOMAIN console
        PROVE  ~(console[i].solution = o.solution /\ console[i].query = o.query)
    <3>1. phase = "waiting"
      BY <1>0, <2>2 DEF Untimed, QueryInv
    <3>2. PICK k \in 1..Len(ENGINES) :
              console[i].solution = ENGINES[k] /\ Behind(k, console[i].query)
      BY DEF BenchInv, ConsoleInv
    <3>3. QED  BY <1>2, <1>4, <3>1, <3>2 DEF Behind
  <2>3. QED  BY <1>1, <1>2, <1>4, <2>1, <2>2 DEF OrphanInv
<1>9. ConsoleMatchesTimes'
  BY <1>1, <1>3 DEF BenchInv, ConsoleMatchesTimes
<1>10. QED  BY <1>5, <1>6, <1>7, <1>8, <1>9 DEF BenchInv

\* What it writes is of an earlier run, or not of a query on the console.
LEMMA OrphanEndsInv ==
    ASSUME BenchInv, NEW o \in orphans, OrphanEnds(o)
    PROVE  BenchInv'
<1>0. BenchTypes /\ QueryInv  BY DEF BenchInv
<1> DEFINE x == [inv |-> o.inv, solution |-> o.solution, query |-> o.query,
                 io_type |-> "parquet", read |-> TRUE, answer |-> "unseen"]
<1>1. /\ phase' = phase /\ inv' = inv /\ conf' = conf /\ qnum' = qnum /\ eng' = eng
      /\ child' = child /\ left' = left /\ fault' = fault /\ reading' = reading
      /\ answer' = answer /\ console' = console /\ orphans' = orphans \ {o}
      /\ timings' = timings \/ timings' = Append(timings, x)
  BY DEF OrphanEnds, parentVars, cacheVars
<1>2. x \in Entry /\ timings \in Seq(Entry)
  BY <1>0 DEF BenchTypes, Orphan, Entry, IoTypes
<1>3. x.inv = o.inv /\ x.solution = o.solution /\ x.query = o.query
  OBVIOUS
<1> HIDE DEF x
<1>4. \A e, q : ~(inv = o.inv /\ e = o.solution /\ q = o.query) => Rows(inv, e, q)' = Rows(inv, e, q)
  BY <1>1, <1>2, <1>3, RowsAppend, RowsStay
<1>5. o.inv = inv =>
          /\ phase = "aborted"
          /\ \A i \in DOMAIN console :
                 ~(console[i].solution = o.solution /\ console[i].query = o.query)
  BY DEF BenchInv, OrphanInv
<1>6. BenchTypes'
  <2>1. timings' \in Seq(Entry)
    BY <1>1, <1>2, AppendProperties
  <2>2. QED  BY <1>0, <1>1, <2>1 DEF BenchTypes
<1>7. QueryInv'
  BY <1>0, <1>1 DEF QueryInv, Alive
<1>8. LoggedInv' /\ AheadInv'
  <2>1. CASE phase \in {"next", "waiting"}
    <3>1. \A e, q : Rows(inv, e, q)' = Rows(inv, e, q)
      BY <1>4, <1>5, <2>1
    <3>2. Logged' = Logged
      BY <1>1, <3>1 DEF Logged
    <3>3. QED  BY <1>1, <3>1, <3>2 DEF BenchInv, LoggedInv, AheadInv, Ahead
  <2>2. CASE phase \notin {"next", "waiting"}
    BY <1>0, <1>1, <2>2 DEF QueryInv, LoggedInv, AheadInv
  <2>3. QED  BY <2>1, <2>2
<1>9. ConsoleInv' /\ OrphanInv'
  BY <1>1 DEF BenchInv, ConsoleInv, Behind, OrphanInv
<1>10. ConsoleMatchesTimes'
  <2>1. \A i \in DOMAIN console :
            Rows(inv, console[i].solution, console[i].query)'
                = Rows(inv, console[i].solution, console[i].query)
    BY <1>1, <1>4, <1>5
  <2>2. QED  BY <1>1, <2>1 DEF BenchInv, ConsoleMatchesTimes
<1>11. QED  BY <1>6, <1>7, <1>8, <1>9, <1>10 DEF BenchInv

LEMMA BenchInvInvariant == BenchSpec => []BenchInv
<1>1. InitBench => BenchInv
  BY InitBenchInv
<1>2. BenchInv /\ [NextBench]_benchVars => BenchInv'
  <2> SUFFICES ASSUME BenchInv, [NextBench]_benchVars PROVE BenchInv'  OBVIOUS
  <2>1. CASE StartBench                    BY <2>1, StartBenchInv
  <2>2. CASE StartQuery /\ UNCHANGED ec2   BY <2>2, StartQueryInv
  <2>3. CASE QueryStep                     BY <2>3, QuietStepInv, LogTimingInv DEF QueryStep
  <2>4. CASE ChildEnded                    BY <2>4, ChildEndedInv
  <2>5. CASE TimedOut                      BY <2>5, TimedOutInv
  <2>6. CASE Upload                        BY <2>6, UploadInv
  <2>7. CASE LoseSession                   BY <2>7, LoseSessionInv
  <2>8. CASE \E o \in orphans : OrphanEnds(o)
    BY <2>8, OrphanEndsInv
  <2>9. CASE UNCHANGED benchVars
    <3>1. /\ timings' = timings /\ inv' = inv /\ conf' = conf /\ phase' = phase /\ qnum' = qnum
          /\ child' = child /\ left' = left /\ fault' = fault /\ reading' = reading
          /\ answer' = answer /\ eng' = eng /\ console' = console /\ orphans' = orphans
      BY <2>9 DEF benchVars, vars, parentVars, cacheVars, ec2
    <3>2. \A n, e, q : Rows(n, e, q)' = Rows(n, e, q)
      BY <3>1, RowsStay
    <3>3. BenchTypes' /\ QueryInv'
      BY <3>1 DEF BenchInv, BenchTypes, QueryInv
    <3>4. LoggedInv' /\ AheadInv'
      BY <3>1, <3>2 DEF BenchInv, LoggedInv, Logged, AheadInv, Ahead
    <3>5. ConsoleInv' /\ OrphanInv'
      BY <3>1 DEF BenchInv, ConsoleInv, Behind, OrphanInv
    <3>6. ConsoleMatchesTimes'
      BY <3>1, <3>2 DEF BenchInv, ConsoleMatchesTimes
    <3>7. QED  BY <3>3, <3>4, <3>5, <3>6 DEF BenchInv
  <2>10. QED
    BY <2>1, <2>2, <2>3, <2>4, <2>5, <2>6, <2>7, <2>8, <2>9 DEF NextBench
<1>3. QED  BY <1>1, <1>2, PTL DEF BenchSpec

\* run_bench.sh says OK of a query that went well, whose one time is in the file, or
\* of one that has failed in silence and left none.
THEOREM ConsoleFitsTheFile == BenchSpec => []ConsoleMatchesTimes
<1>1. BenchInv => ConsoleMatchesTimes  BY DEF BenchInv
<1>2. QED  BY <1>1, BenchInvInvariant, PTL

\* The file of the times only grows.
LEMMA GrowsAtItsEnd ==
    ASSUME NEW s \in Seq(Entry)
    PROVE  IsPrefix(s, s) /\ \A x \in Entry : IsPrefix(s, Append(s, x))
<1>1. IsPrefix(s, s)
  BY DEF IsPrefix
<1>2. ASSUME NEW x \in Entry PROVE IsPrefix(s, Append(s, x))
  <2>1. /\ Append(s, x) \in Seq(Entry) /\ Len(s) \in Nat /\ Len(Append(s, x)) = Len(s) + 1
        /\ \A i \in 1..Len(s) : Append(s, x)[i] = s[i]
    BY AppendProperties
  <2>2. SubSeq(s, 1, Len(s)) = SubSeq(Append(s, x), 1, Len(s))
    BY <2>1
  <2>3. QED  BY <2>1, <2>2 DEF IsPrefix
<1>3. QED  BY <1>1, <1>2

\* No time that was logged is lost: run_bench.sh moves the file away before it starts a
\* new one, and everything else appends to it.
THEOREM TimingsAreKept == BenchSpec => KeepsTimings
<1> DEFINE Kept == /\ backups \subseteq backups'
                   /\ IsPrefix(timings, timings') \/ timings \in backups'
<1>1. BenchInv /\ NextBench => Kept
  <2> SUFFICES ASSUME BenchInv, NextBench PROVE Kept  OBVIOUS
  <2>1. timings \in Seq(Entry)
    BY DEF BenchInv, BenchTypes
  <2>2. ASSUME StartBench PROVE Kept
    <3>1. timings' = <<>> /\ backups' = IF timings = <<>> THEN backups ELSE backups \cup {timings}
      BY <2>2 DEF StartBench
    <3>2. IsPrefix(<<>>, <<>>)
      BY EmptySeq, GrowsAtItsEnd
    <3>3. QED  BY <3>1, <3>2
  <2>3. ASSUME backups' = backups,
               timings' = timings \/ \E x \in Entry : timings' = Append(timings, x)
        PROVE  Kept
    BY <2>1, <2>3, GrowsAtItsEnd
  <2>4. ASSUME LogTiming, UNCHANGED ec2 PROVE Kept
    <3>1. timings' = timings \/ timings' = Append(timings, timings'[Len(timings) + 1])
      BY <2>1, <2>4, AppendFacts DEF LogTiming
    <3>2. timings' \in Seq(Entry)
      BY <2>4, LogTimingInv DEF BenchInv, BenchTypes
    <3>3. timings' = timings \/ timings'[Len(timings) + 1] \in Entry
      BY <2>1, <2>4, <3>1, <3>2, AppendFacts DEF LogTiming
    <3>4. QED  BY <2>3, <2>4, <3>1, <3>3 DEF ec2
  <2>5. ASSUME NEW o \in orphans, OrphanEnds(o) PROVE Kept
    <3> DEFINE x == [inv |-> o.inv, solution |-> o.solution, query |-> o.query,
                     io_type |-> "parquet", read |-> TRUE, answer |-> "unseen"]
    <3>1. x \in Entry
      BY DEF BenchInv, BenchTypes, Orphan, Entry, IoTypes
    <3>2. backups' = backups /\ (timings' = timings \/ timings' = Append(timings, x))
      BY <2>5 DEF OrphanEnds
    <3> HIDE DEF x
    <3>3. QED  BY <2>3, <3>1, <3>2
  <2>6. CASE StartQuery /\ UNCHANGED ec2
    BY <2>3, <2>6 DEF StartQuery, ec2
  <2>7. CASE (DefineQuery \/ TimedRun \/ CheckResult \/ ExitQuery \/ Kill) /\ UNCHANGED ec2
    BY <2>3, <2>7 DEF DefineQuery, TimedRun, CheckResult, ExitQuery, Kill, ec2
  <2>8. CASE ChildEnded \/ TimedOut \/ Upload \/ LoseSession
    BY <2>3, <2>8 DEF ChildEnded, TimedOut, Upload, LoseSession
  <2> HIDE DEF Kept
  <2>9. QED  BY <2>2, <2>4, <2>5, <2>6, <2>7, <2>8 DEF NextBench, QueryStep
<1>2. BenchInv /\ [NextBench]_benchVars => [Kept]_benchVars
  BY <1>1
<1>3. QED  BY <1>2, BenchInvInvariant, PTL DEF BenchSpec, KeepsTimings

-----------------------------------------------------------------------------
(* The lines of the console.                                               *)

\* There is a line for each query gone by, in the order of the loops.
LinesInv ==
    /\ phase \in {"next", "waiting"} => Len(console) = (eng - 1) * NumQueries + (qnum - 1)
    /\ phase \in {"upload", "done"} => Len(console) = Len(ENGINES) * NumQueries
    /\ \A i \in DOMAIN console :
           /\ console[i].solution = ENGINES[(i - 1) \div NumQueries + 1]
           /\ console[i].query = ((i - 1) % NumQueries) + 1

\* Query b + 1 of engine a + 1, when an engine has c queries.
LEMMA PlaceOfLine ==
    ASSUME NEW c \in Nat \ {0}, NEW a \in Nat, NEW b \in 0..(c - 1)
    PROVE  /\ (a * c + b) \div c = a /\ (a * c + b) % c = b
           /\ b = c - 1 => (a * c + b) + 1 = (a + 1) * c
OBVIOUS

\* The next line is that of the query that is waited for.
LEMMA GoOnLines ==
    ASSUME BenchInv, LinesInv, phase = "waiting", NEW verdict, NEW failed,
           Recorded(verdict, failed), NextQuery
    PROVE  LinesInv'
<1>0. BenchTypes  BY DEF BenchInv
<1> DEFINE c == [solution |-> conf.engine, query |-> qnum, verdict |-> verdict, failed |-> failed]
           n == Len(console)
<1>1. /\ conf.engine = ENGINES[eng] /\ NumQueries \in Nat \ {0} /\ Len(ENGINES) \in Nat
      /\ eng \in 1..Len(ENGINES) /\ qnum \in 1..NumQueries /\ console \in Seq(ConsoleLine)
  BY <1>0, ColdFacts DEF BenchTypes
<1>2. console' = Append(console, c) /\ c.solution = ENGINES[eng] /\ c.query = qnum
  BY <1>1 DEF Recorded
<1> HIDE DEF c
<1>3. /\ n \in Nat /\ DOMAIN console = 1..n /\ Len(console') = n + 1
      /\ DOMAIN console' = 1..(n + 1) /\ console'[n + 1] = c
      /\ \A i \in 1..n : console'[i] = console[i]
  <2>1. DOMAIN console = 1..n /\ n \in Nat
    BY <1>1
  <2>2. /\ DOMAIN console' = 1..(n + 1) /\ console'[n + 1] = c
        /\ \A i \in 1..n : console'[i] = console[i]
    BY <1>1, <1>2, AppendFacts
  <2>3. Len(console') = n + 1
    BY <1>1, <1>2
  <2>4. QED  BY <2>1, <2>2, <2>3
<1> DEFINE a == eng - 1
           b == qnum - 1
<1>4. a \in Nat /\ b \in 0..(NumQueries - 1) /\ eng = a + 1 /\ qnum = b + 1
  BY <1>1
<1>5. n = a * NumQueries + b
  BY DEF LinesInv
<1> HIDE DEF a, b, n
<1>6. /\ n \div NumQueries = a /\ n % NumQueries = b
      /\ b = NumQueries - 1 => n + 1 = (a + 1) * NumQueries
  BY <1>1, <1>4, <1>5, PlaceOfLine
<1>7. \/ /\ phase' = "next" /\ qnum < NumQueries /\ qnum' = qnum + 1 /\ eng' = eng
      \/ phase' = "next" /\ qnum = NumQueries /\ qnum' = 1 /\ eng' = eng + 1
      \/ phase' = "upload" /\ qnum = NumQueries /\ eng = Len(ENGINES)
  BY <1>1 DEF NextQuery
<1>8. phase' \in {"next", "waiting"} => Len(console') = (eng' - 1) * NumQueries + (qnum' - 1)
  <2>1. CASE qnum < NumQueries /\ qnum' = qnum + 1 /\ eng' = eng
    <3>1. eng' - 1 = a /\ qnum' - 1 = b + 1
      BY <1>4, <2>1
    <3>2. a * NumQueries \in Nat
      BY <1>1, <1>4
    <3>3. n + 1 = a * NumQueries + (b + 1)
      BY <1>4, <1>5, <3>2
    <3>4. QED  BY <1>3, <3>1, <3>3
  <2>2. CASE qnum = NumQueries /\ qnum' = 1 /\ eng' = eng + 1
    <3>1. eng' - 1 = a + 1 /\ qnum' - 1 = 0 /\ b = NumQueries - 1
      BY <1>1, <1>4, <2>2
    <3>2. (a + 1) * NumQueries \in Nat
      BY <1>1, <1>4
    <3>3. n + 1 = (a + 1) * NumQueries + 0
      BY <1>6, <3>1, <3>2
    <3>4. QED  BY <1>3, <3>1, <3>3
  <2>3. QED  BY <1>7, <2>1, <2>2
<1>9. phase' \in {"upload", "done"} => Len(console') = Len(ENGINES) * NumQueries
  <2> SUFFICES ASSUME phase' \in {"upload", "done"}
               PROVE  Len(console') = Len(ENGINES) * NumQueries
    OBVIOUS
  <2>1. b = NumQueries - 1 /\ Len(ENGINES) = a + 1
    BY <1>1, <1>4, <1>7
  <2>2. QED  BY <1>3, <1>6, <2>1
<1>10. ASSUME NEW i \in DOMAIN console'
       PROVE  /\ console'[i].solution = ENGINES[(i - 1) \div NumQueries + 1]
              /\ console'[i].query = ((i - 1) % NumQueries) + 1
  <2>1. CASE i \in 1..n
    BY <1>3, <2>1 DEF LinesInv
  <2>2. CASE i = n + 1
    <3>1. i - 1 = n
      BY <1>3, <2>2
    <3>2. (i - 1) \div NumQueries + 1 = eng /\ ((i - 1) % NumQueries) + 1 = qnum
      BY <1>4, <1>6, <3>1
    <3>3. QED  BY <1>2, <1>3, <2>2, <3>2
  <2>3. QED  BY <1>3, <2>1, <2>2
<1>11. QED  BY <1>8, <1>9, <1>10 DEF LinesInv

LEMMA LinesInvInvariant == BenchSpec => []LinesInv
<1>1. InitBench => LinesInv
  BY DEF InitBench, Init, LinesInv
<1>2. BenchInv /\ LinesInv /\ [NextBench]_benchVars => LinesInv'
  <2> SUFFICES ASSUME BenchInv, LinesInv, [NextBench]_benchVars PROVE LinesInv'  OBVIOUS
  <2>1. ASSUME console' = console, eng' = eng, qnum' = qnum,
               \/ phase' = phase
               \/ phase = "next" /\ phase' = "waiting"
               \/ phase = "upload" /\ phase' = "done"
               \/ phase' = "aborted"
        PROVE  LinesInv'
    BY <2>1 DEF LinesInv
  <2>2. CASE StartBench
    <3>1. phase' = "next" /\ eng' = 1 /\ qnum' = 1 /\ console' = <<>>
      BY <2>2 DEF StartBench
    <3>2. NumQueries \in Nat /\ (1 - 1) * NumQueries + (1 - 1) = 0
      BY NumQueriesAssumption
    <3>3. QED  BY <3>1, <3>2 DEF LinesInv
  <2>3. CASE StartQuery /\ UNCHANGED ec2
    BY <2>1, <2>3 DEF StartQuery, ec2
  <2>4. CASE QueryStep
    BY <2>1, <2>4 DEF QueryStep, DefineQuery, TimedRun, LogTiming, CheckResult, ExitQuery, Kill,
                      parentVars, ec2
  <2>5. CASE ChildEnded
    BY <2>5, GoOnLines DEF ChildEnded
  <2>6. CASE TimedOut
    BY <2>6, GoOnLines DEF TimedOut
  <2>7. CASE Upload
    BY <2>1, <2>7 DEF Upload
  <2>8. CASE LoseSession
    BY <2>1, <2>8 DEF LoseSession
  <2>9. CASE \E o \in orphans : OrphanEnds(o)
    BY <2>1, <2>9 DEF OrphanEnds, parentVars
  <2>10. CASE UNCHANGED benchVars
    BY <2>1, <2>10 DEF benchVars, vars, parentVars, ec2
  <2>11. QED
    BY <2>2, <2>3, <2>4, <2>5, <2>6, <2>7, <2>8, <2>9, <2>10 DEF NextBench
<1>3. QED  BY <1>1, <1>2, BenchInvInvariant, PTL DEF BenchSpec

\* "a failure (OOM/timeout) is recorded and the run CONTINUES": a run that comes to its
\* end has on its console a line for each query of each engine, in this order, however
\* the queries have failed or hung.
THEOREM EveryQueryHasALine == BenchSpec => [](phase = "done" => ConsoleIsWhole)
<1>1. LinesInv => (phase = "done" => ConsoleIsWhole)
  BY DEF LinesInv, ConsoleIsWhole
<1>2. QED  BY <1>1, LinesInvInvariant, PTL
=============================================================================
