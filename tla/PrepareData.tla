----------------------------- MODULE PrepareData -----------------------------
(***************************************************************************)
(* scripts/prepare_data.py, pipelined_data_generation(): the data set in   *)
(* Batches batches of Parallelism chunks.  A batch is generated by a pool  *)
(* of dbgen processes into the tpch-dbgen directory, moved to the scratch  *)
(* directory, converted to parquet, synchronised to S3 and removed.        *)
(*                                                                         *)
(* A chunk stands for its files <table>.tbl.<part> of all split tables;    *)
(* every dbgen also writes the whole of nation.tbl and region.tbl, one and *)
(* the same file for all processes ("static").  A file is full or, between *)
(* its opening and its closing, partial.  rows_per_file is one chunk.      *)
(*                                                                         *)
(* The script can be killed at any moment and is then run again, with the  *)
(* same arguments, on the directories as they are.                         *)
(***************************************************************************)
EXTENDS Integers, Sequences, FiniteSets, SequencesExt

CONSTANTS Batches,      \* num_batches
          Parallelism,  \* parallelism
          MaxCrashes    \* bound on the interrupted runs

\* With a single chunk, "-C 1 -S 1" is refused by dbgen (Makefile:17).
ASSUME ChunksAssumption == /\ Batches \in Nat \ {0} /\ Parallelism \in Nat \ {0}
                           /\ Batches * Parallelism > 1

\* The script may be interrupted any number of times.
ASSUME CrashesAssumption == MaxCrashes \in Nat

Parts   == 1..(Batches * Parallelism)
Workers == 1..Parallelism
Content == {"partial", "full"}

\* In a list of files, the parts stand for their chunks and 0 for the static tables.
Static == 0

VARIABLES stage,      \* what the script is doing
          batch_idx,
          worker,     \* where each dbgen process of the batch is
          csv,        \* csv[p]: the chunk's file in tpch-dbgen, or "none"
          static,     \* nation.tbl and region.tbl there
          scratch,    \* scratch[p]: the chunk's file in base_path
          scratchStatic,
          parquet,    \* parquet[b]: the contents of the files b_0, b_1, ... of a table
          parquetStatic,
          remote,     \* what has been synchronised of parquet
          files,      \* gen_parquet()'s next partition index
          todo,       \* the rest of the glob() that a loop moves or removes
          crashes

vars == <<stage, batch_idx, worker, csv, static, scratch, scratchStatic,
          parquet, parquetStatic, remote, files, todo, crashes>>

Init == /\ stage = "generate"
        /\ batch_idx = 0
        /\ worker = [k \in Workers |-> "idle"]
        /\ csv = [p \in Parts |-> "none"]
        /\ static = "none"
        /\ scratch = [p \in Parts |-> "none"]
        /\ scratchStatic = "none"
        /\ parquet = [b \in 0..(Batches - 1) |-> <<>>]
        /\ parquetStatic = "none"
        /\ remote = [b \in 0..(Batches - 1) |-> <<>>]
        /\ files = 0
        /\ todo = {}
        /\ crashes = 0

\* batch(range(1, n + 1), n=parallelism): the part of the k-th process.
\* The mutant starts each slice one early.
PartOverlapping(k) == IF batch_idx = 0 THEN k ELSE batch_idx * Parallelism + k - 1
Part(k) == batch_idx * Parallelism + k

-----------------------------------------------------------------------------
(* dbgen -f -S part -C n: the chunk, then the static tables.               *)

Proceed(k, from, to) == /\ stage = "generate"
                        /\ worker[k] = from
                        /\ worker' = [worker EXCEPT ![k] = to]

OpenChunk(k) ==
  /\ Proceed(k, "idle", "chunk")
  /\ csv' = [csv EXCEPT ![Part(k)] = "partial"]
  /\ UNCHANGED <<stage, batch_idx, static, scratch, scratchStatic, parquet,
                 parquetStatic, remote, files, todo, crashes>>

CloseChunk(k) ==
  /\ Proceed(k, "chunk", "chunkdone")
  /\ csv' = [csv EXCEPT ![Part(k)] = "full"]
  /\ UNCHANGED <<stage, batch_idx, static, scratch, scratchStatic, parquet,
                 parquetStatic, remote, files, todo, crashes>>

OpenStatic(k) ==
  /\ Proceed(k, "chunkdone", "static")
  /\ static' = "partial"
  /\ UNCHANGED <<stage, batch_idx, csv, scratch, scratchStatic, parquet,
                 parquetStatic, remote, files, todo, crashes>>

CloseStatic(k) ==
  /\ Proceed(k, "static", "exit")
  /\ static' = "full"
  /\ UNCHANGED <<stage, batch_idx, csv, scratch, scratchStatic, parquet,
                 parquetStatic, remote, files, todo, crashes>>

-----------------------------------------------------------------------------
(* The script.                                                             *)

\* process_pool.starmap() returns when all processes have.  The mutant goes on
\* with the first.
PoolDoneEarly == \E k \in Workers : worker[k] = "exit"
PoolDone == \A k \in Workers : worker[k] = "exit"

\* glob(tpch_dbgen/*.tbl*) lists what is there, also of an interrupted run.
EndPool ==
  /\ stage = "generate"
  /\ PoolDone
  /\ stage' = "move"
  /\ todo' = {p \in Parts : csv[p] # "none"} \cup {x \in {Static} : static # "none"}
  /\ UNCHANGED <<batch_idx, worker, csv, static, scratch, scratchStatic, parquet,
                 parquetStatic, remote, files, crashes>>

\* shutil.move() of one file of the list, over a file of the same name (both
\* directories are on one disk, where it is a rename).
MoveChunk(p) ==
  /\ stage = "move"
  /\ p \in todo
  /\ todo' = todo \ {p}
  /\ scratch' = [scratch EXCEPT ![p] = csv[p]]
  /\ csv' = [csv EXCEPT ![p] = "none"]
  /\ UNCHANGED <<stage, batch_idx, worker, static, scratchStatic, parquet,
                 parquetStatic, remote, files, crashes>>

MoveStatic ==
  /\ stage = "move"
  /\ Static \in todo
  /\ todo' = todo \ {Static}
  /\ scratchStatic' = static
  /\ static' = "none"
  /\ UNCHANGED <<stage, batch_idx, worker, csv, scratch, parquet,
                 parquetStatic, remote, files, crashes>>

EndMove ==
  /\ stage = "move"
  /\ todo = {}
  /\ stage' = "parquet"
  /\ files' = 0
  /\ UNCHANGED <<batch_idx, worker, csv, static, scratch, scratchStatic, parquet,
                 parquetStatic, remote, todo, crashes>>

\* What scan_csv(base_path/<table>.tbl*) reads, in the order of the names: one
\* order for one set of files, and not that of the numbers.
Scanned == SetToSeq({p \in Parts : scratch[p] # "none"})

Chunk(p) == [part |-> p, content |-> scratch[p]]

\* sink_parquet() writes partition b_files, over a file of the same name.
WriteParquet ==
  /\ stage = "parquet"
  /\ files < Len(Scanned)
  /\ LET chunk == Chunk(Scanned[files + 1])
     IN  parquet' = [parquet EXCEPT ![batch_idx] =
                       IF files < Len(@) THEN [@ EXCEPT ![files + 1] = chunk]
                                         ELSE Append(@, chunk)]
  /\ files' = files + 1
  /\ UNCHANGED <<stage, batch_idx, worker, csv, static, scratch, scratchStatic,
                 parquetStatic, remote, todo, crashes>>

\* scan_csv() or sink_parquet() raises, which ends the script: it may on a file
\* that was cut short, if it is empty or ends within a row.
ConversionFails ==
  /\ stage = "parquet"
  /\ \/ \E p \in Parts : scratch[p] = "partial"
     \/ batch_idx = 0 /\ scratchStatic = "partial"
  /\ stage' = "failed"
  /\ UNCHANGED <<batch_idx, worker, csv, static, scratch, scratchStatic, parquet,
                 parquetStatic, remote, files, todo, crashes>>

\* STATIC_TABLES are converted in the first batch only.
EndParquet ==
  /\ stage = "parquet"
  /\ files = Len(Scanned)
  /\ parquetStatic' = IF batch_idx = 0 THEN scratchStatic ELSE parquetStatic
  /\ stage' = "sync"
  /\ UNCHANGED <<batch_idx, worker, csv, static, scratch, scratchStatic, parquet,
                 remote, files, todo, crashes>>

\* What glob(base_path/*.tbl*) lists.  The mutant's misses the chunks.
ToRemoveStatic == {x \in {Static} : scratchStatic # "none"}
ToRemove == {p \in Parts : scratch[p] # "none"} \cup {x \in {Static} : scratchStatic # "none"}

\* aws s3 sync.  The os.remove() after it finds nothing to remove: the parquet
\* files are not in base_path but in its directories.
Sync ==
  /\ stage = "sync"
  /\ remote' = parquet
  /\ stage' = "remove"
  /\ todo' = ToRemove
  /\ UNCHANGED <<batch_idx, worker, csv, static, scratch, scratchStatic, parquet,
                 parquetStatic, files, crashes>>

\* os.remove() of one file of the list.
RemoveChunk(p) ==
  /\ stage = "remove"
  /\ p \in todo
  /\ todo' = todo \ {p}
  /\ scratch' = [scratch EXCEPT ![p] = "none"]
  /\ UNCHANGED <<stage, batch_idx, worker, csv, static, scratchStatic, parquet,
                 parquetStatic, remote, files, crashes>>

RemoveStatic ==
  /\ stage = "remove"
  /\ Static \in todo
  /\ todo' = todo \ {Static}
  /\ scratchStatic' = "none"
  /\ UNCHANGED <<stage, batch_idx, worker, csv, static, scratch, parquet,
                 parquetStatic, remote, files, crashes>>

\* The end of the batches, and a mutant that takes one more.
MoreBatchesLate == batch_idx < Batches
MoreBatches == batch_idx + 1 < Batches

EndBatch ==
  /\ stage = "remove"
  /\ todo = {}
  /\ IF MoreBatches
     THEN stage' = "generate" /\ batch_idx' = batch_idx + 1
     ELSE stage' = "done" /\ UNCHANGED batch_idx
  /\ worker' = [k \in Workers |-> "idle"]
  /\ UNCHANGED <<csv, static, scratch, scratchStatic, parquet, parquetStatic,
                 remote, files, todo, crashes>>

\* The script and its processes are killed, or it has failed; it is run again
\* from batch 0.
CrashAndRerun ==
  /\ stage # "done"
  /\ crashes < MaxCrashes
  /\ crashes' = crashes + 1
  /\ stage' = "generate"
  /\ batch_idx' = 0
  /\ worker' = [k \in Workers |-> "idle"]
  /\ files' = 0
  /\ todo' = {}
  /\ UNCHANGED <<csv, static, scratch, scratchStatic, parquet, parquetStatic, remote>>

Dbgen(k) == OpenChunk(k) \/ CloseChunk(k) \/ OpenStatic(k) \/ CloseStatic(k)

Script == \/ EndPool \/ MoveStatic \/ EndMove \/ WriteParquet \/ ConversionFails \/ EndParquet
          \/ Sync \/ RemoveStatic \/ EndBatch
          \/ \E p \in Parts : MoveChunk(p) \/ RemoveChunk(p)

Terminated == stage \in {"done", "failed"} /\ UNCHANGED vars

Next == (\E k \in Workers : Dbgen(k)) \/ Script \/ CrashAndRerun \/ Terminated

Spec == Init /\ [][Next]_vars

-----------------------------------------------------------------------------
(* Correctness.                                                            *)

Chunks == [part: Parts, content: Content]

TypeOK == /\ stage \in {"generate", "move", "parquet", "sync", "remove", "done", "failed"}
          /\ batch_idx \in 0..(Batches - 1)
          /\ worker \in [Workers -> {"idle", "chunk", "chunkdone", "static", "exit"}]
          /\ csv \in [Parts -> Content \cup {"none"}]
          /\ scratch \in [Parts -> Content \cup {"none"}]
          /\ {static, scratchStatic, parquetStatic} \subseteq Content \cup {"none"}
          /\ parquet \in [0..(Batches - 1) -> Seq(Chunks)]
          /\ remote \in [0..(Batches - 1) -> Seq(Chunks)]
          /\ files \in 0..Cardinality(Parts)
          /\ todo \subseteq Parts \cup {Static}
          /\ crashes \in 0..MaxCrashes

Full(p) == [part |-> p, content |-> "full"]

\* The places of a part: the batch and the index of a file that holds it.
Places(data, p) == {at \in (0..(Batches - 1)) \X Parts :
                      at[2] <= Len(data[at[1]]) /\ data[at[1]][at[2]].part = p}
Copies(data, p) == Cardinality(Places(data, p))

\* A run that comes to its end has converted and uploaded every chunk, in full,
\* however many runs were interrupted before and whatever they left behind.
NothingLost ==
  stage = "done" =>
    \A p \in Parts : \E b \in 0..(Batches - 1) : Full(p) \in ToSet(remote[b])

\* Without an interrupted run, it has done so once, and nothing else.
NothingTwice ==
  stage = "done" /\ crashes = 0 =>
    \A p \in Parts : Copies(remote, p) = 1

\* Although all dbgen processes write nation.tbl and region.tbl at the same
\* time, what is converted and kept is the whole file of the last run.
StaticTablesWhole == stage = "done" => parquetStatic = "full"

\* "more batches reduce disk space required for temporary tbl files": there are
\* never more chunks on disk than one batch has.
OneBatchOnDisk ==
  crashes = 0 => Cardinality({p \in Parts : csv[p] # "none" \/ scratch[p] # "none"})
                   <= Parallelism

\* What makes a conversion raise is always a chunk of another batch that an
\* interrupted run has left cut short, never the batch's own chunks or the static
\* tables: these are whole, whatever lay in the directories before.
FailsOnLeftovers ==
  stage = "failed" =>
    /\ crashes > 0
    /\ scratchStatic = "full" /\ \A k \in Workers : scratch[Part(k)] = "full"
    /\ \E p \in Parts : scratch[p] = "partial"
=============================================================================
