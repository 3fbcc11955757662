-------------------------- MODULE PrepareDataProofs --------------------------
(***************************************************************************)
(* Theorems about scripts/prepare_data.py, for any number of batches, any  *)
(* parallelism and any number of interrupted runs.                         *)
(***************************************************************************)
EXTENDS PrepareData, FiniteSetTheorems, SequenceTheorems, TLAPS

\* The parts of batch b.
Own(b) == (b * Parallelism + 1)..(b * Parallelism + Parallelism)

\* This run has converted batch b; it has uploaded it.
Converted(b) == b < batch_idx \/ (b = batch_idx /\ stage \in {"sync", "remove", "done"})
Uploaded(b)  == b < batch_idx \/ (b = batch_idx /\ stage \in {"remove", "done"})

\* A process that has left its chunk has closed it, and the last process to
\* leave the static tables has closed those.
PoolInv ==
  stage = "generate" =>
    /\ \A k \in Workers : worker[k] \in {"chunkdone", "static", "exit"} => csv[Part(k)] = "full"
    /\ PoolDone => static = "full"

\* The list of the move is what is left in tpch-dbgen; the whole batch and the
\* static tables are in one of the two directories, and what an interrupted run has
\* left of them is overwritten by what is moved.
MoveInv ==
  stage = "move" =>
    /\ \A p \in Parts : p \in todo <=> csv[p] # "none"
    /\ Static \in todo <=> static # "none"
    /\ \A p \in Own(batch_idx) : csv[p] = "full" \/ (csv[p] = "none" /\ scratch[p] = "full")
    /\ static = "full" \/ (static = "none" /\ scratchStatic = "full")

\* Nothing stays behind in tpch-dbgen.
EmptyInv == stage \in {"parquet", "sync", "remove", "done"} =>
              static = "none" /\ \A p \in Parts : csv[p] = "none"

\* The files written so far are the first ones of what is scanned, which has the
\* whole batch in it.
ScanInv ==
  stage = "parquet" =>
    /\ \A p \in Own(batch_idx) : scratch[p] = "full"
    /\ scratchStatic = "full"
    /\ files <= Len(Scanned) /\ files <= Len(parquet[batch_idx])
    /\ \A i \in 1..files : parquet[batch_idx][i] = Chunk(Scanned[i])

\* What has been converted and uploaded.
ConvertedInv == \A b \in 0..(Batches - 1) :
                  Converted(b) => \A p \in Own(b) : Full(p) \in ToSet(parquet[b])
UploadedInv  == \A b \in 0..(Batches - 1) : Uploaded(b) => remote[b] = parquet[b]
StaticInv    == Converted(0) => parquetStatic = "full"
DoneInv      == stage = "done" => batch_idx = Batches - 1

\* The list of the removal is what is left in the scratch directory.
RemoveInv == stage = "remove" => \A p \in Parts : p \in todo <=> scratch[p] # "none"

\* Without an interrupted run, only chunks of the batch are on disk.
DiskInv == crashes = 0 =>
             \A p \in Parts : csv[p] # "none" \/ scratch[p] # "none" => p \in Own(batch_idx)

\* No part is twice among the files.
OnceEach(data, parts) ==
  /\ Len(data) <= Parallelism
  /\ \A i \in 1..Len(data) : data[i].part \in parts
  /\ \A i, j \in 1..Len(data) : data[i].part = data[j].part => i = j

\* Without an interrupted run, the files of a batch are its chunks, and there
\* are no older files to be written over.
OnceInv ==
  crashes = 0 =>
    \A b \in 0..(Batches - 1) :
      /\ Converted(b) => OnceEach(parquet[b], Own(b))
      /\ b = batch_idx /\ stage = "parquet" => Len(parquet[b]) = files
      /\ b > batch_idx \/ (b = batch_idx /\ stage \in {"generate", "move"}) => parquet[b] = <<>>

IInv == /\ TypeOK /\ PoolInv /\ MoveInv /\ EmptyInv /\ ScanInv
        /\ ConvertedInv /\ UploadedInv /\ StaticInv /\ DoneInv
        /\ RemoveInv /\ DiskInv /\ OnceInv /\ FailsOnLeftovers

-----------------------------------------------------------------------------
(* The parts of the batches.                                               *)

\* Products of natural numbers are ordered as the numbers are.
LEMMA Monotone ==
  ASSUME NEW a \in Nat, NEW b \in Nat, NEW c \in Nat, a <= b
  PROVE  a * c \in Nat /\ b * c \in Nat /\ a * c <= b * c
<1>1. PICK d \in Nat : b = a + d
  <2>1. b - a \in Nat /\ b = a + (b - a)
    OBVIOUS
  <2>2. QED  BY <2>1
<1>2. a * c \in Nat /\ b * c \in Nat /\ d * c \in Nat
  OBVIOUS
<1>3. b * c = a * c + d * c
  BY <1>1
<1>4. QED  BY <1>2, <1>3

\* The parts of a batch are parts of the table, and as many as a batch has.
LEMMA OwnParts ==
  ASSUME NEW b \in 0..(Batches - 1)
  PROVE  /\ b * Parallelism \in Nat
         /\ Own(b) \subseteq Parts
         /\ Batches * Parallelism \in Nat /\ Parallelism <= Batches * Parallelism
<1> USE ChunksAssumption
<1>1. b \in Nat /\ b + 1 \in Nat /\ b + 1 <= Batches /\ Batches \in Nat /\ Parallelism \in Nat
  OBVIOUS
<1>2. b * Parallelism \in Nat
  BY <1>1
<1>3. (b + 1) * Parallelism = b * Parallelism + Parallelism
  BY <1>1
<1>4. (b + 1) * Parallelism <= Batches * Parallelism /\ Batches * Parallelism \in Nat
  BY <1>1, Monotone
<1>5. QED
  <2> DEFINE first == b * Parallelism
             all   == Batches * Parallelism
  <2>1. first \in Nat /\ all \in Nat /\ first + Parallelism <= all
    BY <1>2, <1>3, <1>4
  <2> HIDE DEF first, all
  <2>2. (first + 1)..(first + Parallelism) \subseteq 1..all /\ Parallelism <= all
    BY <2>1, <1>1
  <2>3. QED  BY <2>1, <2>2 DEF first, all, Own, Parts

\* Different batches have different parts.
LEMMA OwnDisjoint ==
  ASSUME NEW b \in 0..(Batches - 1), NEW c \in 0..(Batches - 1), NEW p \in Own(b), p \in Own(c)
  PROVE  b = c
<1> USE ChunksAssumption
<1>1. ASSUME NEW d \in 0..(Batches - 1), NEW e \in 0..(Batches - 1), d < e,
             p \in Own(d), p \in Own(e)
      PROVE  FALSE
  <2>1. d + 1 \in Nat /\ e \in Nat /\ d + 1 <= e /\ Parallelism \in Nat
    BY <1>1
  <2>2. (d + 1) * Parallelism <= e * Parallelism
    BY <2>1, Monotone
  <2>3. (d + 1) * Parallelism = d * Parallelism + Parallelism
    BY <2>1
  <2>4. d * Parallelism \in Nat /\ e * Parallelism \in Nat
    BY <1>1, OwnParts
  <2>5. p \in Int /\ p <= d * Parallelism + Parallelism /\ e * Parallelism < p
    BY <1>1, <2>4 DEF Own
  <2>6. QED  BY <2>2, <2>3, <2>4, <2>5
<1>2. CASE b < c  BY <1>1, <1>2
<1>3. CASE c < b  BY <1>1, <1>3
<1>4. QED  BY <1>2, <1>3

\* Every part is in a batch.
LEMMA OwnCovers ==
  ASSUME NEW p \in Parts
  PROVE  \E b \in 0..(Batches - 1) : p \in Own(b)
<1> USE ChunksAssumption
<1> DEFINE b == (p - 1) \div Parallelism
           r == (p - 1) % Parallelism
<1>1. Batches * Parallelism \in Nat /\ p \in Nat /\ p - 1 \in Nat /\ p <= Batches * Parallelism
  BY DEF Parts
<1>2. b \in Nat /\ r \in 0..(Parallelism - 1) /\ p - 1 = Parallelism * b + r
  BY <1>1
<1> HIDE DEF b, r
<1>3. Parallelism * b = b * Parallelism /\ b * Parallelism \in Nat
  BY <1>2
<1>4. p \in Own(b)
  BY <1>1, <1>2, <1>3 DEF Own
<1>5. b < Batches
  <2>1. SUFFICES ASSUME Batches <= b PROVE FALSE
    BY <1>2
  <2>2. Batches * Parallelism <= b * Parallelism
    BY <2>1, <1>2, Monotone
  <2>3. QED  BY <1>1, <1>2, <1>3, <2>2
<1>6. QED  BY <1>2, <1>4, <1>5

\* A batch has as many parts as there are processes.
LEMMA OwnSize ==
  ASSUME NEW b \in 0..(Batches - 1)
  PROVE  IsFiniteSet(Own(b)) /\ Cardinality(Own(b)) = Parallelism
<1> DEFINE first == b * Parallelism
<1>1. first \in Nat /\ Parallelism \in Nat
  BY OwnParts, ChunksAssumption
<1> HIDE DEF first
<1>2. /\ IsFiniteSet((first + 1)..(first + Parallelism))
      /\ Cardinality((first + 1)..(first + Parallelism)) = Parallelism
  BY <1>1, FS_Interval
<1>3. QED  BY <1>2 DEF first, Own

\* A process's part is one of the batch, and each of the batch's is some process's.
LEMMA PartIsOwn ==
  ASSUME TypeOK
  PROVE  /\ \A k \in Workers : Part(k) \in Own(batch_idx) /\ Part(k) \in Parts
         /\ \A j, k \in Workers : Part(j) = Part(k) => j = k
         /\ \A p \in Own(batch_idx) : \E k \in Workers : Part(k) = p
<1> USE ChunksAssumption
<1> DEFINE first == batch_idx * Parallelism
<1>1. first \in Nat /\ Own(batch_idx) \subseteq Parts
  BY OwnParts DEF TypeOK
<1>2. Own(batch_idx) = (first + 1)..(first + Parallelism)
  BY DEF Own
<1>3. \A k : Part(k) = first + k
  BY DEF Part
<1> HIDE DEF first
<1>4. \A k \in Workers : Part(k) \in Own(batch_idx)
  BY <1>1, <1>2, <1>3 DEF Workers
<1>5. \A j, k \in Workers : Part(j) = Part(k) => j = k
  BY <1>1, <1>3 DEF Workers
<1>6. ASSUME NEW p \in Own(batch_idx) PROVE \E k \in Workers : Part(k) = p
  <2>1. p - first \in Workers /\ first + (p - first) = p
    BY <1>1, <1>2 DEF Workers
  <2>2. QED  BY <2>1, <1>3
<1>7. QED  BY <1>1, <1>4, <1>5, <1>6

-----------------------------------------------------------------------------
(* What is scanned.                                                        *)

OnDisk == {p \in Parts : scratch[p] # "none"}

\* A finite set as a sequence: its elements, each in one place.
LEMMA SetAsSequence ==
  ASSUME NEW S, IsFiniteSet(S)
  PROVE  /\ Cardinality(S) \in Nat
         /\ SetToSeq(S) \in Seq(S) /\ Len(SetToSeq(S)) = Cardinality(S)
         /\ \A i, j \in 1..Len(SetToSeq(S)) : SetToSeq(S)[i] = SetToSeq(S)[j] => i = j
         /\ \A x \in S : \E i \in 1..Len(SetToSeq(S)) : SetToSeq(S)[i] = x
<1> DEFINE n == Cardinality(S)
           s == SetToSeq(S)
<1>1. n \in Nat /\ ExistsBijection(1..n, S)
  BY FS_CardinalityType
<1>2. \E f \in [1..n -> S] : IsInjective(f)
  BY <1>1 DEF ExistsBijection, Bijection, Injection
<1>3. s \in [1..n -> S] /\ IsInjective(s)
  BY <1>2 DEF SetToSeq
<1> HIDE DEF s
<1>4. s \in Seq(S) /\ Len(s) = n /\ DOMAIN s = 1..n
  BY <1>1, <1>3
<1>5. \A i, j \in 1..Len(s) : s[i] = s[j] => i = j
  BY <1>3, <1>4 DEF IsInjective
<1>6. IsFiniteSet(1..n) /\ Cardinality(1..n) = n
  BY <1>1, FS_Interval
<1>7. s \in Injection(1..n, S)
  BY <1>3 DEF Injection
<1>8. s \in Surjection(1..n, S)
  BY <1>6, <1>7, FS_Injection
<1>9. \A x \in S : \E i \in 1..Len(s) : s[i] = x
  BY <1>4, <1>8 DEF Surjection
<1>10. QED  BY <1>1, <1>4, <1>5, <1>9 DEF s

\* The scan reads every chunk on disk in one place, and nothing else.
LEMMA ScanFacts ==
  /\ IsFiniteSet(OnDisk) /\ Cardinality(OnDisk) \in Nat
  /\ IsFiniteSet(Parts) /\ Cardinality(Parts) = Batches * Parallelism
  /\ Scanned \in Seq(OnDisk) /\ Len(Scanned) = Cardinality(OnDisk)
  /\ Len(Scanned) <= Cardinality(Parts)
  /\ \A i \in 1..Len(Scanned) : Scanned[i] \in Parts /\ scratch[Scanned[i]] # "none"
  /\ \A i, j \in 1..Len(Scanned) : Scanned[i] = Scanned[j] => i = j
  /\ \A p \in OnDisk : \E i \in 1..Len(Scanned) : Scanned[i] = p
<1>1. Batches * Parallelism \in Nat
  BY ChunksAssumption
<1>2. IsFiniteSet(Parts) /\ Cardinality(Parts) = Batches * Parallelism
  BY <1>1, FS_Interval DEF Parts
<1>3. IsFiniteSet(OnDisk) /\ Cardinality(OnDisk) <= Cardinality(Parts)
  BY <1>2, FS_Subset DEF OnDisk
<1>4. Scanned = SetToSeq(OnDisk)
  BY DEF Scanned, OnDisk
<1>5. /\ Cardinality(OnDisk) \in Nat
      /\ Scanned \in Seq(OnDisk) /\ Len(Scanned) = Cardinality(OnDisk)
      /\ \A i, j \in 1..Len(Scanned) : Scanned[i] = Scanned[j] => i = j
      /\ \A p \in OnDisk : \E i \in 1..Len(Scanned) : Scanned[i] = p
  BY <1>3, <1>4, SetAsSequence
<1>6. \A i \in 1..Len(Scanned) : Scanned[i] \in OnDisk
  BY <1>5
<1>7. \A i \in 1..Len(Scanned) : Scanned[i] \in Parts /\ scratch[Scanned[i]] # "none"
  BY <1>6 DEF OnDisk
<1>8. QED  BY <1>2, <1>3, <1>5, <1>7

-----------------------------------------------------------------------------
(* The invariant holds at the start.                                       *)

LEMMA InitIInv == Init => IInv
<1> SUFFICES ASSUME Init PROVE IInv  OBVIOUS
<1> USE ChunksAssumption, CrashesAssumption
<1>1. TypeOK
  <2>1. Cardinality(Parts) \in Nat
    BY ScanFacts
  <2>2. QED  BY <2>1 DEF Init, TypeOK, Content
<1>2. PoolInv
  <2>1. 1 \in Workers
    BY DEF Workers
  <2>2. QED  BY <2>1 DEF Init, PoolInv, PoolDone
<1>3. MoveInv /\ EmptyInv /\ ScanInv /\ DoneInv /\ RemoveInv /\ FailsOnLeftovers
  BY DEF Init, MoveInv, EmptyInv, ScanInv, DoneInv, RemoveInv, FailsOnLeftovers
<1>4. \A b \in 0..(Batches - 1) : ~Converted(b) /\ ~Uploaded(b)
  BY DEF Init, Converted, Uploaded
<1>5. ConvertedInv /\ UploadedInv /\ StaticInv
  BY <1>4 DEF ConvertedInv, UploadedInv, StaticInv
<1>6. DiskInv
  BY DEF Init, DiskInv
<1>7. OnceInv
  BY <1>4 DEF Init, OnceInv
<1>8. QED  BY <1>1, <1>2, <1>3, <1>5, <1>6, <1>7 DEF IInv

-----------------------------------------------------------------------------
(* The steps.                                                              *)

\* What is written of a batch's files: one more or one of them anew.
Files(data, i, chunk) == IF i < Len(data) THEN [data EXCEPT ![i + 1] = chunk]
                                          ELSE Append(data, chunk)

\* File i + 1 is the chunk and the others are as they were.
LEMMA FilesWritten ==
  ASSUME NEW S, NEW data \in Seq(S), NEW chunk \in S, NEW i \in Nat, i <= Len(data)
  PROVE  /\ Files(data, i, chunk) \in Seq(S)
         /\ Len(Files(data, i, chunk)) \in Nat /\ Len(data) \in Nat
         /\ Len(Files(data, i, chunk)) = IF i < Len(data) THEN Len(data) ELSE i + 1
         /\ Files(data, i, chunk)[i + 1] = chunk
         /\ \A j \in 1..i : Files(data, i, chunk)[j] = data[j]
<1>1. Len(data) \in Nat
  OBVIOUS
<1>2. CASE i < Len(data)
  <2>1. Files(data, i, chunk) = [data EXCEPT ![i + 1] = chunk]
    BY <1>2 DEF Files
  <2>2. i + 1 \in 1..Len(data)
    BY <1>1, <1>2
  <2>3. QED  BY <1>1, <1>2, <2>1, <2>2, ExceptSeq
<1>3. CASE i = Len(data)
  <2>1. Files(data, i, chunk) = Append(data, chunk)
    BY <1>1, <1>3 DEF Files
  <2>2. QED  BY <1>1, <1>3, <2>1, AppendProperties
<1>4. QED  BY <1>1, <1>2, <1>3

\* What a step of gen_parquet() writes.
LEMMA WriteFacts ==
  ASSUME TypeOK, ScanInv, WriteParquet
  PROVE  /\ files \in Nat /\ files + 1 <= Len(Scanned) /\ files <= Len(parquet[batch_idx])
         /\ parquet[batch_idx] \in Seq(Chunks)
         /\ Chunk(Scanned[files + 1]) \in Chunks
         /\ parquet' = [parquet EXCEPT ![batch_idx] =
                          Files(parquet[batch_idx], files, Chunk(Scanned[files + 1]))]
<1>1. files \in Nat /\ Len(Scanned) \in Nat
  BY ScanFacts DEF TypeOK
<1>2. files + 1 \in 1..Len(Scanned)
  BY <1>1 DEF WriteParquet
<1>3. Scanned[files + 1] \in Parts /\ scratch[Scanned[files + 1]] \in Content
  BY <1>2, ScanFacts DEF TypeOK
<1>4. Chunk(Scanned[files + 1]) \in Chunks
  BY <1>3 DEF Chunk, Chunks
<1>5. parquet[batch_idx] \in Seq(Chunks)
  BY DEF TypeOK
<1>6. parquet' = [parquet EXCEPT ![batch_idx] =
                    Files(parquet[batch_idx], files, Chunk(Scanned[files + 1]))]
  BY DEF WriteParquet, Files, TypeOK
<1>7. files <= Len(parquet[batch_idx])
  BY DEF WriteParquet, ScanInv
<1>8. QED  BY <1>1, <1>2, <1>4, <1>5, <1>6, <1>7

\* Every step keeps the types.
LEMMA TypesKept == TypeOK /\ ScanInv /\ Next => TypeOK'
<1> SUFFICES ASSUME TypeOK, ScanInv, Next PROVE TypeOK'  OBVIOUS
<1> USE ChunksAssumption, CrashesAssumption DEF Content
<1>0. \A k \in Workers : Part(k) \in Parts
  BY PartIsOwn
<1>1. ASSUME NEW k \in Workers, Dbgen(k) PROVE TypeOK'
  <2>1. CASE OpenChunk(k)    BY <1>0, <2>1 DEF OpenChunk, Proceed, TypeOK
  <2>2. CASE CloseChunk(k)   BY <1>0, <2>2 DEF CloseChunk, Proceed, TypeOK
  <2>3. CASE OpenStatic(k)   BY <2>3 DEF OpenStatic, Proceed, TypeOK
  <2>4. CASE CloseStatic(k)  BY <2>4 DEF CloseStatic, Proceed, TypeOK
  <2>5. QED  BY <1>1, <2>1, <2>2, <2>3, <2>4 DEF Dbgen
<1>2. CASE EndPool  BY <1>2 DEF EndPool, TypeOK
<1>3. ASSUME NEW p \in Parts, MoveChunk(p) PROVE TypeOK'
  BY <1>3 DEF MoveChunk, TypeOK
<1>4. CASE MoveStatic  BY <1>4 DEF MoveStatic, TypeOK
<1>5. CASE EndMove
  <2>1. 0 \in 0..Cardinality(Parts)
    BY ScanFacts
  <2>2. QED  BY <1>5, <2>1 DEF EndMove, TypeOK
<1>6. CASE WriteParquet
  <2> DEFINE new == Files(parquet[batch_idx], files, Chunk(Scanned[files + 1]))
  <2>1. new \in Seq(Chunks)
    BY <1>6, WriteFacts, FilesWritten
  <2>2. parquet' \in [0..(Batches - 1) -> Seq(Chunks)]
    <3>1. parquet' = [parquet EXCEPT ![batch_idx] = new]
      BY <1>6, WriteFacts
    <3> HIDE DEF new
    <3>2. QED  BY <2>1, <3>1 DEF TypeOK
  <2>3. files' \in 0..Cardinality(Parts)
    <3>1. Len(Scanned) \in Nat /\ Cardinality(Parts) \in Nat /\ Len(Scanned) <= Cardinality(Parts)
      BY ScanFacts
    <3>2. files \in Nat /\ files + 1 <= Len(Scanned) /\ files' = files + 1
      BY <1>6, WriteFacts DEF WriteParquet
    <3>3. QED  BY <3>1, <3>2
  <2>4. QED  BY <1>6, <2>2, <2>3 DEF WriteParquet, TypeOK
<1>7. CASE EndParquet
  <2>1. parquetStatic' \in Content \cup {"none"}
    BY <1>7 DEF EndParquet, TypeOK
  <2>2. QED  BY <1>7, <2>1 DEF EndParquet, TypeOK
<1>8. CASE Sync  BY <1>8 DEF Sync, ToRemove, TypeOK
<1>9. ASSUME NEW p \in Parts, RemoveChunk(p) PROVE TypeOK'
  BY <1>9 DEF RemoveChunk, TypeOK
<1>10. CASE RemoveStatic  BY <1>10 DEF RemoveStatic, TypeOK
<1>11. CASE EndBatch
  <2>1. batch_idx' \in 0..(Batches - 1) /\ stage' \in {"generate", "done"}
    BY <1>11 DEF EndBatch, MoreBatches, TypeOK
  <2>2. QED  BY <1>11, <2>1 DEF EndBatch, TypeOK
<1>12. CASE CrashAndRerun
  <2>1. 0 \in 0..Cardinality(Parts)
    BY ScanFacts
  <2>2. QED  BY <1>12, <2>1 DEF CrashAndRerun, TypeOK
<1>13. CASE Terminated  BY <1>13 DEF Terminated, vars, TypeOK
<1>14. CASE ConversionFails  BY <1>14 DEF ConversionFails, TypeOK
<1>15. QED
  BY <1>1, <1>2, <1>3, <1>4, <1>5, <1>6, <1>7, <1>8, <1>9, <1>10, <1>11, <1>12, <1>13, <1>14
  DEF Next, Script

\* A process closes what it has opened before it exits, and the static tables
\* that another has opened again are closed by that one.
LEMMA PoolKept == TypeOK /\ PoolInv /\ Next => PoolInv'
<1> SUFFICES ASSUME TypeOK, PoolInv, Next PROVE PoolInv'  OBVIOUS
<1> USE ChunksAssumption
<1>0. /\ \A k \in Workers : Part(k) \in Parts
      /\ \A j, k \in Workers : Part(j) = Part(k) => j = k
  BY PartIsOwn
<1>1. ASSUME NEW k \in Workers, Dbgen(k) PROVE PoolInv'
  <2>1. batch_idx' = batch_idx /\ stage = "generate" /\ \A j \in Workers : Part(j)' = Part(j)
    BY <1>1 DEF Dbgen, OpenChunk, CloseChunk, OpenStatic, CloseStatic, Proceed, Part
  <2>2. CASE OpenChunk(k)
    <3>1. \A j \in Workers : worker'[j] = (IF j = k THEN "chunk" ELSE worker[j])
      BY <2>2 DEF OpenChunk, Proceed, TypeOK
    <3>2. \A j \in Workers : j # k => csv'[Part(j)] = csv[Part(j)]
      BY <1>0, <2>2 DEF OpenChunk, TypeOK
    <3>3. ~PoolDone'
      BY <3>1 DEF PoolDone
    <3>4. QED  BY <2>1, <3>1, <3>2, <3>3 DEF PoolInv
  <2>3. CASE CloseChunk(k)
    <3>1. \A j \in Workers : worker'[j] = (IF j = k THEN "chunkdone" ELSE worker[j])
      BY <2>3 DEF CloseChunk, Proceed, TypeOK
    <3>2. \A j \in Workers : csv'[Part(j)] = (IF j = k THEN "full" ELSE csv[Part(j)])
      BY <1>0, <2>3 DEF CloseChunk, TypeOK
    <3>3. ~PoolDone'
      BY <3>1 DEF PoolDone
    <3>4. QED  BY <2>1, <3>1, <3>2, <3>3 DEF PoolInv
  <2>4. CASE OpenStatic(k)
    <3>1. \A j \in Workers : worker'[j] = (IF j = k THEN "static" ELSE worker[j])
      BY <2>4 DEF OpenStatic, Proceed, TypeOK
    <3>2. csv' = csv /\ worker[k] = "chunkdone"
      BY <2>4 DEF OpenStatic, Proceed
    <3>3. ~PoolDone'
      BY <3>1 DEF PoolDone
    <3>4. QED  BY <2>1, <3>1, <3>2, <3>3 DEF PoolInv
  <2>5. CASE CloseStatic(k)
    <3>1. \A j \in Workers : worker'[j] = (IF j = k THEN "exit" ELSE worker[j])
      BY <2>5 DEF CloseStatic, Proceed, TypeOK
    <3>2. csv' = csv /\ worker[k] = "static" /\ static' = "full"
      BY <2>5 DEF CloseStatic, Proceed
    <3>3. QED  BY <2>1, <3>1, <3>2 DEF PoolInv
  <2>6. QED  BY <1>1, <2>2, <2>3, <2>4, <2>5 DEF Dbgen
<1>2. CASE EndBatch \/ CrashAndRerun
  <2>1. worker' = [k \in Workers |-> "idle"]
    BY <1>2 DEF EndBatch, CrashAndRerun
  <2>2. 1 \in Workers
    BY DEF Workers
  <2>3. QED  BY <2>1, <2>2 DEF PoolInv, PoolDone
<1>3. CASE Script /\ ~EndBatch
  BY <1>3 DEF Script, EndPool, MoveStatic, EndMove, WriteParquet, ConversionFails, EndParquet,
              Sync, RemoveStatic, MoveChunk, RemoveChunk, PoolInv
<1>4. CASE Terminated
  BY <1>4 DEF Terminated, vars, PoolInv
<1>5. QED  BY <1>1, <1>2, <1>3, <1>4 DEF Next

\* The move takes each file over whole.
LEMMA MoveKept == TypeOK /\ PoolInv /\ MoveInv /\ Next => MoveInv'
<1> SUFFICES ASSUME TypeOK, PoolInv, MoveInv, Next PROVE MoveInv'  OBVIOUS
<1>0. Static \notin Parts
  BY DEF Static, Parts
<1>1. Own(batch_idx) \subseteq Parts
  BY OwnParts DEF TypeOK
<1>2. CASE stage' # "move"
  BY <1>2 DEF MoveInv
<1>3. CASE EndPool
  <2>1. \A p \in Own(batch_idx) : csv[p] = "full"
    <3>1. SUFFICES ASSUME NEW p \in Own(batch_idx) PROVE csv[p] = "full"
      OBVIOUS
    <3>2. PICK k \in Workers : Part(k) = p
      BY PartIsOwn
    <3>3. QED  BY <1>3, <3>2 DEF EndPool, PoolDone, PoolInv
  <2>2. static = "full"
    BY <1>3 DEF EndPool, PoolInv
  <2>3. csv' = csv /\ static' = static /\ batch_idx' = batch_idx
    BY <1>3 DEF EndPool
  <2>4. /\ \A p \in Parts : p \in todo' <=> csv'[p] # "none"
        /\ Static \in todo' <=> static' # "none"
    BY <1>0, <1>3 DEF EndPool
  <2>5. QED  BY <2>1, <2>2, <2>3, <2>4 DEF MoveInv
<1>4. ASSUME NEW p \in Parts, MoveChunk(p) PROVE MoveInv'
  <2>1. /\ csv' = [csv EXCEPT ![p] = "none"] /\ scratch' = [scratch EXCEPT ![p] = csv[p]]
        /\ stage = "move" /\ batch_idx' = batch_idx /\ todo' = todo \ {p} /\ p \in todo
        /\ static' = static /\ scratchStatic' = scratchStatic
    BY <1>4 DEF MoveChunk
  <2>2. ASSUME NEW q \in Own(batch_idx)
        PROVE  csv'[q] = "full" \/ (csv'[q] = "none" /\ scratch'[q] = "full")
    BY <1>1, <2>1 DEF MoveInv, TypeOK
  <2>3. /\ \A q \in Parts : q \in todo' <=> csv'[q] # "none"
        /\ Static \in todo' <=> static' # "none"
    BY <1>0, <2>1 DEF MoveInv, TypeOK
  <2>4. QED  BY <2>1, <2>2, <2>3 DEF MoveInv
<1>5. CASE MoveStatic
  BY <1>0, <1>5 DEF MoveStatic, MoveInv
<1>6. CASE Terminated
  BY <1>6 DEF Terminated, vars, MoveInv
<1>7. ASSUME NEW k \in Workers, Dbgen(k) PROVE stage' # "move"
  BY <1>7 DEF Dbgen, OpenChunk, CloseChunk, OpenStatic, CloseStatic, Proceed
<1>8. ASSUME EndMove \/ WriteParquet \/ ConversionFails \/ EndParquet \/ Sync \/ RemoveStatic
               \/ EndBatch \/ CrashAndRerun \/ \E p \in Parts : RemoveChunk(p)
      PROVE  stage' # "move"
  BY <1>8 DEF EndMove, WriteParquet, ConversionFails, EndParquet, Sync, RemoveStatic, EndBatch,
              CrashAndRerun, RemoveChunk
<1>9. QED
  BY <1>2, <1>3, <1>4, <1>5, <1>6, <1>7, <1>8 DEF Next, Script

\* The move leaves nothing behind, and dbgen alone writes there.
LEMMA EmptyKept == MoveInv /\ EmptyInv /\ Next => EmptyInv'
<1> SUFFICES ASSUME MoveInv, EmptyInv, Next PROVE EmptyInv'  OBVIOUS
<1>1. ASSUME NEW k \in Workers, Dbgen(k) PROVE EmptyInv'
  BY <1>1 DEF Dbgen, OpenChunk, CloseChunk, OpenStatic, CloseStatic, Proceed, EmptyInv
<1>2. CASE EndMove
  BY <1>2 DEF EndMove, MoveInv, EmptyInv
<1>3. CASE WriteParquet \/ EndParquet \/ Sync \/ RemoveStatic \/ EndBatch
             \/ \E p \in Parts : RemoveChunk(p)
  BY <1>3 DEF WriteParquet, EndParquet, Sync, RemoveStatic, EndBatch, RemoveChunk, EmptyInv
<1>4. CASE EndPool \/ MoveStatic \/ ConversionFails \/ CrashAndRerun
             \/ \E p \in Parts : MoveChunk(p)
  BY <1>4 DEF EndPool, MoveStatic, ConversionFails, CrashAndRerun, MoveChunk, EmptyInv
<1>5. CASE Terminated
  BY <1>5 DEF Terminated, vars, EmptyInv
<1>6. QED  BY <1>1, <1>2, <1>3, <1>4, <1>5 DEF Next, Script

\* The files follow the scan, one by one.
LEMMA ScanKept == TypeOK /\ MoveInv /\ ScanInv /\ Next => ScanInv'
<1> SUFFICES ASSUME TypeOK, MoveInv, ScanInv, Next PROVE ScanInv'  OBVIOUS
<1>1. CASE EndMove
  <2>1. \A p \in Own(batch_idx) : scratch[p] = "full"
    <3>1. Own(batch_idx) \subseteq Parts
      BY OwnParts DEF TypeOK
    <3>2. QED  BY <1>1, <3>1 DEF EndMove, MoveInv
  <2>2. scratchStatic = "full"
    BY <1>1 DEF EndMove, MoveInv
  <2>3. /\ batch_idx' = batch_idx /\ scratch' = scratch /\ scratchStatic' = scratchStatic
        /\ parquet' = parquet /\ files' = 0
    BY <1>1 DEF EndMove
  <2>4. Scanned' = Scanned
    BY <2>3 DEF Scanned
  <2>5. 0 <= Len(Scanned) /\ 0 <= Len(parquet[batch_idx]) /\ 1..0 = {}
    <3>1. parquet[batch_idx] \in Seq(Chunks)
      BY DEF TypeOK
    <3>2. Len(parquet[batch_idx]) \in Nat
      BY <3>1
    <3>3. QED  BY <3>2, ScanFacts
  <2>6. QED  BY <2>1, <2>2, <2>3, <2>4, <2>5 DEF ScanInv
<1>2. CASE WriteParquet
  <2> DEFINE old == parquet[batch_idx]
             chunk == Chunk(Scanned[files + 1])
             new == Files(old, files, chunk)
  <2>1. /\ stage = "parquet" /\ batch_idx' = batch_idx /\ scratch' = scratch
        /\ scratchStatic' = scratchStatic /\ files' = files + 1
    BY <1>2 DEF WriteParquet
  <2>2. Scanned' = Scanned /\ \A p : Chunk(p)' = Chunk(p)
    BY <2>1 DEF Scanned, Chunk
  <2>3. /\ files \in Nat /\ files + 1 <= Len(Scanned) /\ files <= Len(old)
        /\ old \in Seq(Chunks) /\ chunk \in Chunks
        /\ parquet' = [parquet EXCEPT ![batch_idx] = new]
    BY <1>2, WriteFacts
  <2>4. /\ Len(new) \in Nat /\ Len(old) \in Nat
        /\ Len(new) = IF files < Len(old) THEN Len(old) ELSE files + 1
        /\ new[files + 1] = chunk
        /\ \A j \in 1..files : new[j] = old[j]
    BY <2>3, FilesWritten
  <2> HIDE DEF new
  <2>5. parquet'[batch_idx] = new
    BY <2>3 DEF TypeOK
  <2>6. files + 1 <= Len(new)
    BY <2>3, <2>4
  <2>7. \A i \in 1..(files + 1) : new[i] = Chunk(Scanned[i])
    <3>1. \A i \in 1..files : new[i] = Chunk(Scanned[i])
      BY <2>1, <2>4 DEF ScanInv
    <3>2. \A i \in 1..(files + 1) : i \in 1..files \/ i = files + 1
      BY <2>3
    <3>3. QED  BY <2>4, <3>1, <3>2
  <2>8. /\ \A p \in Own(batch_idx) : scratch[p] = "full"
        /\ scratchStatic = "full"
    BY <2>1 DEF ScanInv
  <2>9. /\ files' <= Len(Scanned') /\ files' <= Len(parquet'[batch_idx'])
        /\ \A i \in 1..files' : parquet'[batch_idx'][i] = Chunk(Scanned[i])
    BY <2>1, <2>2, <2>3, <2>5, <2>6, <2>7
  <2>10. QED  BY <2>1, <2>2, <2>8, <2>9 DEF ScanInv
<1>3. CASE Terminated
  BY <1>3 DEF Terminated, vars, ScanInv, Scanned, Chunk
<1>4. ASSUME NEW k \in Workers, Dbgen(k) PROVE stage' # "parquet"
  BY <1>4 DEF Dbgen, OpenChunk, CloseChunk, OpenStatic, CloseStatic, Proceed
<1>5. ASSUME EndPool \/ MoveStatic \/ ConversionFails \/ EndParquet \/ Sync \/ RemoveStatic
               \/ EndBatch \/ CrashAndRerun \/ \E p \in Parts : MoveChunk(p) \/ RemoveChunk(p)
      PROVE  stage' # "parquet"
  BY <1>5 DEF EndPool, MoveStatic, ConversionFails, EndParquet, Sync, RemoveStatic, EndBatch,
              CrashAndRerun, MoveChunk, RemoveChunk
<1>6. CASE stage' # "parquet"
  BY <1>6 DEF ScanInv
<1>7. QED  BY <1>1, <1>2, <1>3, <1>4, <1>5, <1>6 DEF Next, Script

\* A batch becomes converted, and uploaded, in one step.
LEMMA ProgressSteps ==
  ASSUME TypeOK, Next, NEW b \in 0..(Batches - 1)
  PROVE  /\ Converted(b)' => Converted(b) \/ (EndParquet /\ b = batch_idx)
         /\ Uploaded(b)'  => Uploaded(b)  \/ (Sync /\ b = batch_idx)
         /\ Converted(b)' => b <= batch_idx
<1> USE ChunksAssumption DEF Converted, Uploaded
<1>0. b \in Nat /\ batch_idx \in Nat
  BY DEF TypeOK
<1>1. ASSUME NEW k \in Workers, Dbgen(k) PROVE batch_idx' = batch_idx /\ stage' = stage
  BY <1>1 DEF Dbgen, OpenChunk, CloseChunk, OpenStatic, CloseStatic, Proceed
<1>2. CASE EndPool \/ MoveStatic \/ EndMove \/ WriteParquet \/ ConversionFails \/ RemoveStatic
             \/ \E p \in Parts : MoveChunk(p) \/ RemoveChunk(p)
  BY <1>0, <1>2 DEF EndPool, MoveStatic, EndMove, WriteParquet, ConversionFails,
                    RemoveStatic, MoveChunk, RemoveChunk
<1>3. CASE EndParquet  BY <1>0, <1>3 DEF EndParquet
<1>4. CASE Sync        BY <1>0, <1>4 DEF Sync
<1>5. CASE EndBatch    BY <1>0, <1>5 DEF EndBatch, MoreBatches
<1>6. CASE CrashAndRerun  BY <1>0, <1>6 DEF CrashAndRerun
<1>7. CASE Terminated  BY <1>0, <1>7 DEF Terminated, vars
<1>8. CASE batch_idx' = batch_idx /\ stage' = stage
  BY <1>0, <1>8
<1>9. QED
  BY <1>1, <1>2, <1>3, <1>4, <1>5, <1>6, <1>7, <1>8 DEF Next, Script

\* Only gen_parquet() writes the parquet files.
LEMMA ParquetUnwritten == Next /\ ~WriteParquet => parquet' = parquet
<1> SUFFICES ASSUME Next, ~WriteParquet PROVE parquet' = parquet  OBVIOUS
<1>1. ASSUME NEW k \in Workers, Dbgen(k) PROVE parquet' = parquet
  BY <1>1 DEF Dbgen, OpenChunk, CloseChunk, OpenStatic, CloseStatic
<1>2. ASSUME Script \/ CrashAndRerun \/ Terminated PROVE parquet' = parquet
  BY <1>2 DEF Script, EndPool, MoveStatic, EndMove, ConversionFails, EndParquet, Sync,
              RemoveStatic, EndBatch, MoveChunk, RemoveChunk, CrashAndRerun, Terminated, vars
<1>3. QED  BY <1>1, <1>2 DEF Next

\* It writes only the batch's.
LEMMA ParquetSteps ==
  ASSUME TypeOK, ScanInv, Next, NEW b \in 0..(Batches - 1), Converted(b) \/ b # batch_idx
  PROVE  parquet'[b] = parquet[b]
<1>1. CASE WriteParquet
  <2>1. parquet' = [parquet EXCEPT ![batch_idx] =
                      Files(parquet[batch_idx], files, Chunk(Scanned[files + 1]))]
    BY <1>1, WriteFacts
  <2>2. b # batch_idx
    BY <1>1 DEF WriteParquet, Converted, TypeOK
  <2>3. QED  BY <2>1, <2>2 DEF TypeOK
<1>2. QED  BY <1>1, ParquetUnwritten

\* What is converted is the scan, which has every chunk of the batch.
LEMMA ConvertedKept == TypeOK /\ ScanInv /\ ConvertedInv /\ Next => ConvertedInv'
<1> SUFFICES ASSUME TypeOK, ScanInv, ConvertedInv, Next,
                    NEW b \in 0..(Batches - 1), Converted(b)', NEW p \in Own(b)
             PROVE  Full(p) \in ToSet(parquet'[b])
  BY DEF ConvertedInv, Own, Full
<1>1. CASE Converted(b)
  BY <1>1, ParquetSteps DEF ConvertedInv
<1>2. CASE EndParquet /\ b = batch_idx
  <2>1. /\ stage = "parquet" /\ files = Len(Scanned) /\ parquet' = parquet
    BY <1>2 DEF EndParquet
  <2>2. scratch[p] = "full" /\ p \in Parts
    BY <1>2, <2>1, OwnParts DEF ScanInv
  <2>3. PICK i \in 1..Len(Scanned) : Scanned[i] = p
    BY <2>2, ScanFacts DEF OnDisk
  <2>4. parquet[b][i] = Full(p)
    BY <1>2, <2>1, <2>2, <2>3 DEF ScanInv, Chunk, Full
  <2>5. i \in DOMAIN parquet[b]
    <3>1. parquet[b] \in Seq(Chunks)
      BY DEF TypeOK
    <3>2. Len(parquet[b]) \in Nat /\ DOMAIN parquet[b] = 1..Len(parquet[b])
      BY <3>1
    <3>3. Len(Scanned) \in Nat /\ Len(Scanned) <= Len(parquet[b])
      BY <1>2, <2>1, ScanFacts DEF ScanInv
    <3>4. QED  BY <2>3, <3>2, <3>3
  <2>6. QED  BY <2>1, <2>4, <2>5 DEF ToSet
<1>3. QED  BY <1>1, <1>2, ProgressSteps

\* What is uploaded is what was converted, and neither changes afterwards.
LEMMA UploadedKept == TypeOK /\ ScanInv /\ UploadedInv /\ Next => UploadedInv'
<1> SUFFICES ASSUME TypeOK, ScanInv, UploadedInv, Next,
                    NEW b \in 0..(Batches - 1), Uploaded(b)'
             PROVE  remote'[b] = parquet'[b]
  BY DEF UploadedInv
<1>1. CASE Sync
  BY <1>1 DEF Sync
<1>2. CASE ~Sync
  <2>1. Uploaded(b)
    BY <1>2, ProgressSteps
  <2>2. Converted(b)
    BY <2>1 DEF Uploaded, Converted
  <2>3. remote' = remote
    <3>1. ASSUME NEW k \in Workers, Dbgen(k) PROVE remote' = remote
      BY <3>1 DEF Dbgen, OpenChunk, CloseChunk, OpenStatic, CloseStatic
    <3>2. ASSUME Script \/ CrashAndRerun \/ Terminated PROVE remote' = remote
      BY <1>2, <3>2 DEF Script, EndPool, MoveStatic, EndMove, WriteParquet, ConversionFails,
                  EndParquet, RemoveStatic, EndBatch, MoveChunk, RemoveChunk, CrashAndRerun,
                  Terminated, vars
    <3>3. QED  BY <3>1, <3>2 DEF Next
  <2>4. QED  BY <2>1, <2>2, <2>3, ParquetSteps DEF UploadedInv
<1>3. QED  BY <1>1, <1>2

\* The first batch converts the static tables, which are whole.
LEMMA StaticKept == TypeOK /\ ScanInv /\ StaticInv /\ Next => StaticInv'
<1> SUFFICES ASSUME TypeOK, ScanInv, StaticInv, Next, Converted(0)'
             PROVE  parquetStatic' = "full"
  BY DEF StaticInv
<1>0. 0 \in 0..(Batches - 1)
  BY ChunksAssumption
<1>1. CASE EndParquet
  <2>1. stage = "parquet" /\ scratchStatic = "full"
    BY <1>1 DEF EndParquet, ScanInv
  <2>2. CASE batch_idx = 0
    BY <1>1, <2>1, <2>2 DEF EndParquet
  <2>3. CASE batch_idx # 0
    <3>1. Converted(0)
      BY <1>0, <2>3, ProgressSteps
    <3>2. QED  BY <1>1, <2>3, <3>1 DEF EndParquet, StaticInv
  <2>4. QED  BY <2>2, <2>3
<1>2. CASE ~EndParquet
  <2>1. Converted(0)
    BY <1>0, <1>2, ProgressSteps
  <2>2. parquetStatic' = parquetStatic
    <3>1. ASSUME NEW k \in Workers, Dbgen(k) PROVE parquetStatic' = parquetStatic
      BY <3>1 DEF Dbgen, OpenChunk, CloseChunk, OpenStatic, CloseStatic
    <3>2. ASSUME Script \/ CrashAndRerun \/ Terminated PROVE parquetStatic' = parquetStatic
      BY <1>2, <3>2 DEF Script, EndPool, MoveStatic, EndMove, WriteParquet, ConversionFails,
                  Sync, RemoveStatic, EndBatch, MoveChunk, RemoveChunk, CrashAndRerun,
                  Terminated, vars
    <3>3. QED  BY <3>1, <3>2 DEF Next
  <2>3. QED  BY <2>1, <2>2 DEF StaticInv
<1>3. QED  BY <1>1, <1>2

\* The script ends with the last batch.
LEMMA DoneKept == TypeOK /\ DoneInv /\ Next => DoneInv'
<1> SUFFICES ASSUME TypeOK, DoneInv, Next, stage' = "done" PROVE batch_idx' = Batches - 1
  BY DEF DoneInv
<1>1. CASE EndBatch
  <2>1. ~MoreBatches /\ batch_idx' = batch_idx
    BY <1>1 DEF EndBatch
  <2>2. batch_idx \in 0..(Batches - 1)
    BY DEF TypeOK
  <2>3. QED  BY <2>1, <2>2, ChunksAssumption DEF MoreBatches
<1>2. CASE Terminated
  BY <1>2 DEF Terminated, vars, DoneInv
<1>3. ASSUME NEW k \in Workers, Dbgen(k) PROVE FALSE
  BY <1>3 DEF Dbgen, OpenChunk, CloseChunk, OpenStatic, CloseStatic, Proceed
<1>4. ASSUME (Script /\ ~EndBatch) \/ CrashAndRerun PROVE FALSE
  BY <1>4 DEF Script, EndPool, MoveStatic, EndMove, WriteParquet, ConversionFails, EndParquet,
              Sync, RemoveStatic, MoveChunk, RemoveChunk, CrashAndRerun
<1>5. QED  BY <1>1, <1>2, <1>3, <1>4 DEF Next

\* Each batch begins with empty directories.
LEMMA DiskKept == TypeOK /\ EmptyInv /\ RemoveInv /\ DiskInv /\ Next => DiskInv'
<1> SUFFICES ASSUME TypeOK, EmptyInv, RemoveInv, DiskInv, Next, crashes' = 0,
                    NEW p \in Parts, csv'[p] # "none" \/ scratch'[p] # "none"
             PROVE  p \in Own(batch_idx')
  <2>1. DiskInv' <=> (crashes' = 0 => \A p \in Parts :
                       csv'[p] # "none" \/ scratch'[p] # "none" => p \in Own(batch_idx'))
    BY DEF DiskInv, Own, Parts
  <2>2. QED  BY <2>1
<1>1. ASSUME crashes = 0, batch_idx' = batch_idx, csv[p] # "none" \/ scratch[p] # "none"
      PROVE  p \in Own(batch_idx')
  BY <1>1 DEF DiskInv
<1>2. ASSUME NEW k \in Workers, Dbgen(k) PROVE p \in Own(batch_idx')
  <2>1. batch_idx' = batch_idx /\ crashes' = crashes /\ scratch' = scratch
    BY <1>2 DEF Dbgen, OpenChunk, CloseChunk, OpenStatic, CloseStatic
  <2>2. CASE p = Part(k)
    BY <2>1, <2>2, PartIsOwn
  <2>3. CASE p # Part(k)
    <3>1. csv'[p] = csv[p]
      BY <1>2, <2>3 DEF Dbgen, OpenChunk, CloseChunk, OpenStatic, CloseStatic, TypeOK
    <3>2. QED  BY <1>1, <2>1, <3>1
  <2>4. QED  BY <2>2, <2>3
<1>3. ASSUME NEW q \in Parts, MoveChunk(q) \/ RemoveChunk(q) PROVE p \in Own(batch_idx')
  <2>1. crashes' = crashes /\ batch_idx' = batch_idx
    BY <1>3 DEF MoveChunk, RemoveChunk
  <2>2. csv[p] # "none" \/ scratch[p] # "none"
    BY <1>3 DEF MoveChunk, RemoveChunk, TypeOK
  <2>3. QED  BY <1>1, <2>1, <2>2
<1>4. CASE EndBatch
  <2>1. csv[p] = "none" /\ scratch[p] = "none" /\ csv' = csv /\ scratch' = scratch
    BY <1>4 DEF EndBatch, EmptyInv, RemoveInv
  <2>2. QED  BY <2>1
<1>5. CASE CrashAndRerun
  BY <1>5 DEF CrashAndRerun, TypeOK
<1>6. CASE EndPool \/ MoveStatic \/ EndMove \/ WriteParquet \/ ConversionFails \/ EndParquet
             \/ Sync \/ RemoveStatic \/ Terminated
  <2>1. /\ crashes' = crashes /\ batch_idx' = batch_idx
        /\ csv' = csv /\ scratch' = scratch
    BY <1>6 DEF EndPool, MoveStatic, EndMove, WriteParquet, ConversionFails, EndParquet, Sync,
                RemoveStatic,
                Terminated, vars
  <2>2. QED  BY <1>1, <2>1
<1>7. QED  BY <1>2, <1>3, <1>4, <1>5, <1>6 DEF Next, Script

\* A batch that has been converted has been so once.
LEMMA OnceKept ==
  TypeOK /\ ScanInv /\ DiskInv /\ OnceInv /\ Next /\ TypeOK' => OnceInv'
<1> SUFFICES ASSUME TypeOK, ScanInv, DiskInv, OnceInv, Next, TypeOK', crashes' = 0,
                    NEW b \in 0..(Batches - 1)
             PROVE  /\ Converted(b)' => OnceEach(parquet'[b], Own(b))
                    /\ b = batch_idx' /\ stage' = "parquet" => Len(parquet'[b]) = files'
                    /\ b > batch_idx' \/ (b = batch_idx' /\ stage' \in {"generate", "move"})
                         => parquet'[b] = <<>>
  BY DEF OnceInv, OnceEach, Own
<1>0. crashes = 0 /\ ~CrashAndRerun
  <2>1. ~CrashAndRerun
    BY DEF CrashAndRerun, TypeOK
  <2>2. ASSUME NEW k \in Workers, Dbgen(k) PROVE crashes' = crashes
    BY <2>2 DEF Dbgen, OpenChunk, CloseChunk, OpenStatic, CloseStatic
  <2>3. ASSUME Script \/ Terminated PROVE crashes' = crashes
    BY <2>3 DEF Script, EndPool, MoveStatic, EndMove, WriteParquet, ConversionFails,
                EndParquet, Sync,
                RemoveStatic, EndBatch, MoveChunk, RemoveChunk, Terminated, vars
  <2>4. QED  BY <2>1, <2>2, <2>3 DEF Next
<1>1. /\ Converted(b) => OnceEach(parquet[b], Own(b))
      /\ b = batch_idx /\ stage = "parquet" => Len(parquet[b]) = files
      /\ b > batch_idx \/ (b = batch_idx /\ stage \in {"generate", "move"})
           => parquet[b] = <<>>
  BY <1>0 DEF OnceInv
<1>2. b \in Int /\ batch_idx \in Int /\ batch_idx' \in Int
  BY DEF TypeOK
<1>3. Converted(b)' => OnceEach(parquet'[b], Own(b))
  <2>1. SUFFICES ASSUME Converted(b)' PROVE OnceEach(parquet'[b], Own(b))
    OBVIOUS
  <2>2. CASE Converted(b)
    BY <1>1, <2>2, ParquetSteps
  <2>3. CASE EndParquet /\ b = batch_idx
    <3> DEFINE data == parquet[b]
    <3>1. /\ stage = "parquet" /\ files = Len(Scanned) /\ parquet' = parquet
      BY <2>3 DEF EndParquet
    <3>2. Len(data) = Len(Scanned) /\ Len(Scanned) = Cardinality(OnDisk)
      BY <1>1, <2>3, <3>1, ScanFacts
    <3>3. \A i \in 1..Len(data) : data[i].part = Scanned[i]
      <4>1. \A i \in 1..Len(data) : data[i] = Chunk(Scanned[i])
        BY <2>3, <3>1, <3>2 DEF ScanInv
      <4>2. \A q : Chunk(q).part = q
        BY DEF Chunk
      <4>3. QED  BY <4>1, <4>2
    <3>4. OnDisk \subseteq Own(b)
      BY <1>0, <2>3 DEF OnDisk, DiskInv
    <3>5. Len(data) <= Parallelism
      <4>1. b * Parallelism \in Nat /\ Parallelism \in Nat
        BY OwnParts, ChunksAssumption
      <4>2. IsFiniteSet(Own(b)) /\ Cardinality(Own(b)) = Parallelism
        BY <4>1, OwnSize
      <4>3. QED  BY <3>2, <3>4, <4>2, FS_Subset
    <3>6. \A i \in 1..Len(data) : Scanned[i] \in Own(b)
      BY <3>2, <3>4, ScanFacts DEF OnDisk
    <3>7. \A i, j \in 1..Len(data) : Scanned[i] = Scanned[j] => i = j
      BY <3>2, ScanFacts
    <3> HIDE DEF data
    <3>8. OnceEach(data, Own(b))
      BY <3>3, <3>5, <3>6, <3>7 DEF OnceEach
    <3>9. QED  BY <3>1, <3>8 DEF data
  <2>4. QED  BY <2>1, <2>2, <2>3, ProgressSteps
<1>4. ASSUME b = batch_idx', stage' = "parquet" PROVE Len(parquet'[b]) = files'
  <2>1. CASE EndMove
    <3>1. b = batch_idx /\ stage = "move" /\ parquet' = parquet /\ files' = 0
      BY <1>4, <2>1 DEF EndMove
    <3>2. parquet[b] = <<>>
      BY <1>1, <3>1
    <3>3. QED  BY <3>1, <3>2, EmptySeq
  <2>2. CASE WriteParquet
    <3> DEFINE new == Files(parquet[b], files, Chunk(Scanned[files + 1]))
    <3>1. b = batch_idx /\ stage = "parquet" /\ files' = files + 1
      BY <1>4, <2>2 DEF WriteParquet
    <3>2. Len(parquet[b]) = files
      BY <1>1, <3>1
    <3>3. /\ files \in Nat /\ files <= Len(parquet[b]) /\ parquet[b] \in Seq(Chunks)
          /\ Chunk(Scanned[files + 1]) \in Chunks
          /\ parquet' = [parquet EXCEPT ![b] = new]
      BY <2>2, <3>1, WriteFacts
    <3>4. Len(new) = files + 1
      BY <3>2, <3>3, FilesWritten
    <3>5. parquet'[b] = new
      BY <3>3 DEF TypeOK
    <3>6. QED  BY <3>1, <3>4, <3>5
  <2>3. CASE Terminated
    BY <1>1, <1>4, <2>3 DEF Terminated, vars
  <2>4. ASSUME NEW k \in Workers, Dbgen(k) PROVE FALSE
    BY <1>4, <2>4 DEF Dbgen, OpenChunk, CloseChunk, OpenStatic, CloseStatic, Proceed
  <2>5. ASSUME Script, ~EndMove, ~WriteParquet PROVE FALSE
    BY <1>4, <2>5 DEF Script, EndPool, MoveStatic, ConversionFails, EndParquet, Sync,
                RemoveStatic, EndBatch, MoveChunk, RemoveChunk
  <2>6. QED  BY <1>0, <2>1, <2>2, <2>3, <2>4, <2>5 DEF Next
<1>5. ASSUME b > batch_idx' \/ (b = batch_idx' /\ stage' \in {"generate", "move"})
      PROVE  parquet'[b] = <<>>
  <2>1. b > batch_idx \/ (b = batch_idx /\ stage \in {"generate", "move"})
    <3>1. ASSUME NEW k \in Workers, Dbgen(k) PROVE batch_idx' = batch_idx /\ stage' = stage
      BY <3>1 DEF Dbgen, OpenChunk, CloseChunk, OpenStatic, CloseStatic, Proceed
    <3>2. ASSUME EndPool \/ MoveStatic \/ EndMove \/ WriteParquet \/ ConversionFails
                   \/ EndParquet \/ Sync \/ RemoveStatic
                   \/ \E p \in Parts : MoveChunk(p) \/ RemoveChunk(p)
          PROVE  /\ batch_idx' = batch_idx
                 /\ stage' \in {"generate", "move"} => stage \in {"generate", "move"}
      BY <3>2 DEF EndPool, MoveStatic, EndMove, WriteParquet, ConversionFails, EndParquet, Sync,
                  RemoveStatic, MoveChunk, RemoveChunk
    <3>3. ASSUME EndBatch
          PROVE  \/ batch_idx' = batch_idx + 1
                 \/ batch_idx' = batch_idx /\ stage' = "done"
      BY <3>3 DEF EndBatch
    <3>4. ASSUME Terminated PROVE batch_idx' = batch_idx /\ stage' = stage
      BY <3>4 DEF Terminated, vars
    <3>5. QED
      BY <1>0, <1>2, <1>5, <3>1, <3>2, <3>3, <3>4 DEF Next, Script
  <2>2. parquet[b] = <<>>
    BY <1>1, <2>1
  <2>3. parquet'[b] = parquet[b]
    <3>1. CASE b # batch_idx
      BY <3>1, ParquetSteps
    <3>2. CASE b = batch_idx
      <4>1. stage \in {"generate", "move"}
        BY <1>2, <2>1, <3>2
      <4>2. ~WriteParquet
        BY <4>1 DEF WriteParquet
      <4>3. QED  BY <1>0, <4>2, ParquetUnwritten
    <3>3. QED  BY <3>1, <3>2
  <2>4. QED  BY <2>2, <2>3
<1>6. QED  BY <1>3, <1>4, <1>5

\* The removal takes what is in the scratch directory.
LEMMA RemoveKept == TypeOK /\ RemoveInv /\ Next => RemoveInv'
<1> SUFFICES ASSUME TypeOK, RemoveInv, Next, stage' = "remove"
             PROVE  \A p \in Parts : p \in todo' <=> scratch'[p] # "none"
  BY DEF RemoveInv
<1>0. Static \notin Parts
  BY DEF Static, Parts
<1>1. CASE Sync
  BY <1>0, <1>1 DEF Sync, ToRemove
<1>2. ASSUME NEW q \in Parts, RemoveChunk(q)
      PROVE  \A p \in Parts : p \in todo' <=> scratch'[p] # "none"
  BY <1>2 DEF RemoveChunk, RemoveInv, TypeOK
<1>3. CASE RemoveStatic
  BY <1>0, <1>3 DEF RemoveStatic, RemoveInv
<1>4. CASE Terminated
  BY <1>4 DEF Terminated, vars, RemoveInv
<1>5. ASSUME NEW k \in Workers, Dbgen(k) PROVE FALSE
  BY <1>5 DEF Dbgen, OpenChunk, CloseChunk, OpenStatic, CloseStatic, Proceed
<1>6. ASSUME EndPool \/ MoveStatic \/ EndMove \/ WriteParquet \/ ConversionFails \/ EndParquet
               \/ EndBatch \/ CrashAndRerun \/ \E p \in Parts : MoveChunk(p)
      PROVE  FALSE
  BY <1>6 DEF EndPool, MoveStatic, EndMove, WriteParquet, ConversionFails, EndParquet,
              EndBatch, CrashAndRerun, MoveChunk
<1>7. QED  BY <1>1, <1>2, <1>3, <1>4, <1>5, <1>6 DEF Next, Script

\* A conversion that raises has met a leftover: the batch and the static tables
\* are whole, and without an interrupted run nothing else is there.
LEMMA FailuresKept ==
  TypeOK /\ ScanInv /\ DiskInv /\ FailsOnLeftovers /\ Next => FailsOnLeftovers'
<1> SUFFICES ASSUME TypeOK, ScanInv, DiskInv, FailsOnLeftovers, Next PROVE FailsOnLeftovers'
  OBVIOUS
<1>1. CASE ConversionFails
  <2>1. /\ stage = "parquet" /\ batch_idx' = batch_idx /\ scratch' = scratch
        /\ scratchStatic' = scratchStatic /\ crashes' = crashes
    BY <1>1 DEF ConversionFails
  <2>2. scratchStatic = "full" /\ \A p \in Own(batch_idx) : scratch[p] = "full"
    BY <2>1 DEF ScanInv
  <2>3. \A k \in Workers : scratch[Part(k)] = "full"
    BY <2>2, PartIsOwn
  <2>4. PICK p \in Parts : scratch[p] = "partial"
    BY <1>1, <2>2 DEF ConversionFails
  <2>5. crashes # 0
    BY <2>2, <2>4 DEF DiskInv
  <2>6. crashes > 0
    BY <2>5, CrashesAssumption DEF TypeOK
  <2>7. QED  BY <2>1, <2>2, <2>3, <2>4, <2>6 DEF FailsOnLeftovers, Part
<1>2. CASE Terminated
  BY <1>2 DEF Terminated, vars, FailsOnLeftovers, Part
<1>3. ASSUME NEW k \in Workers, Dbgen(k) PROVE stage' # "failed"
  BY <1>3 DEF Dbgen, OpenChunk, CloseChunk, OpenStatic, CloseStatic, Proceed
<1>4. ASSUME (Script /\ ~ConversionFails) \/ CrashAndRerun PROVE stage' # "failed"
  BY <1>4 DEF Script, EndPool, MoveStatic, EndMove, WriteParquet, EndParquet, Sync,
              RemoveStatic, EndBatch, MoveChunk, RemoveChunk, CrashAndRerun
<1>5. CASE stage' # "failed"
  BY <1>5 DEF FailsOnLeftovers
<1>6. QED  BY <1>1, <1>2, <1>3, <1>4, <1>5 DEF Next

-----------------------------------------------------------------------------
(* The theorems.                                                           *)

\* The invariant holds in every reachable state.
LEMMA InvariantHolds == Spec => []IInv
<1>1. ASSUME IInv, [Next]_vars PROVE IInv'
  <2>1. CASE Next
    <3>1. TypeOK /\ PoolInv /\ MoveInv /\ EmptyInv /\ ScanInv /\ ConvertedInv
            /\ UploadedInv /\ StaticInv /\ DoneInv /\ RemoveInv /\ DiskInv /\ OnceInv
            /\ FailsOnLeftovers
      BY <1>1 DEF IInv
    <3>2. TypeOK'
      BY <2>1, <3>1, TypesKept
    <3>3. QED
      BY <2>1, <3>1, <3>2, PoolKept, MoveKept, EmptyKept, ScanKept, ConvertedKept,
         UploadedKept, StaticKept, DoneKept, RemoveKept, DiskKept, OnceKept, FailuresKept DEF IInv
  <2>2. CASE UNCHANGED vars
    <3>1. /\ \A b : Converted(b)' <=> Converted(b)
          /\ \A b : Uploaded(b)' <=> Uploaded(b)
      BY <2>2 DEF vars, Converted, Uploaded
    <3>2. /\ TypeOK' /\ PoolInv' /\ MoveInv' /\ EmptyInv' /\ DoneInv' /\ RemoveInv' /\ DiskInv'
          /\ FailsOnLeftovers'
      BY <1>1, <2>2 DEF vars, IInv, TypeOK, PoolInv, PoolDone, Part, MoveInv, EmptyInv, DoneInv,
                        RemoveInv, DiskInv, FailsOnLeftovers
    <3>3. ScanInv'
      BY <1>1, <2>2 DEF vars, IInv, ScanInv, Scanned, Chunk
    <3>4. ConvertedInv' /\ UploadedInv' /\ StaticInv'
      BY <1>1, <2>2, <3>1 DEF vars, IInv, ConvertedInv, UploadedInv, StaticInv
    <3>5. OnceInv'
      BY <1>1, <2>2, <3>1 DEF vars, IInv, OnceInv
    <3>6. QED  BY <3>2, <3>3, <3>4, <3>5 DEF IInv
  <2>3. QED  BY <1>1, <2>1, <2>2
<1>2. QED  BY InitIInv, <1>1, PTL DEF Spec

\* What is on disk has its types, and no batch after the last one is begun.
THEOREM TypeCorrect == Spec => []TypeOK
<1>1. IInv => TypeOK
  BY DEF IInv
<1>2. QED  BY <1>1, InvariantHolds, PTL

\* A run that comes to its end has uploaded every chunk in full, whatever runs
\* were interrupted before it.
THEOREM EveryChunkUploaded == Spec => []NothingLost
<1>1. IInv => NothingLost
  <2> SUFFICES ASSUME IInv, stage = "done", NEW p \in Parts
               PROVE  \E b \in 0..(Batches - 1) : Full(p) \in ToSet(remote[b])
    BY DEF NothingLost
  <2>1. PICK b \in 0..(Batches - 1) : p \in Own(b)
    BY OwnCovers
  <2>2. batch_idx = Batches - 1
    BY DEF IInv, DoneInv
  <2>3. Converted(b) /\ Uploaded(b)
    BY <2>2, ChunksAssumption DEF Converted, Uploaded
  <2>4. Full(p) \in ToSet(parquet[b]) /\ remote[b] = parquet[b]
    BY <2>1, <2>3 DEF IInv, ConvertedInv, UploadedInv
  <2>5. QED  BY <2>4
<1>2. QED  BY <1>1, InvariantHolds, PTL

\* A conversion raises only on the truncated leftover of an interrupted run, and
\* never on one of the batch that is being converted.
THEOREM FailuresAreLeftovers == Spec => []FailsOnLeftovers
<1>1. IInv => FailsOnLeftovers
  BY DEF IInv
<1>2. QED  BY <1>1, InvariantHolds, PTL

\* Without an interrupted run, it has uploaded each chunk in one file.
THEOREM EveryChunkOnce == Spec => []NothingTwice
<1>1. IInv => NothingTwice
  <2> SUFFICES ASSUME IInv, stage = "done", crashes = 0, NEW p \in Parts
               PROVE  Copies(remote, p) = 1
    BY DEF NothingTwice
  <2>1. PICK b \in 0..(Batches - 1) : p \in Own(b)
    BY OwnCovers
  <2>2. batch_idx = Batches - 1
    BY DEF IInv, DoneInv
  <2>3. \A c \in 0..(Batches - 1) : Converted(c) /\ Uploaded(c)
    BY <2>2, ChunksAssumption DEF Converted, Uploaded
  <2>4. \A c \in 0..(Batches - 1) : remote[c] = parquet[c] /\ OnceEach(remote[c], Own(c))
    BY <2>3 DEF IInv, UploadedInv, OnceInv
  <2>5. \A c \in 0..(Batches - 1) : remote[c] \in Seq(Chunks)
    BY DEF IInv, TypeOK
  <2>6. Full(p) \in ToSet(remote[b])
    BY <2>1, <2>3, <2>4 DEF IInv, ConvertedInv
  <2>7. PICK i \in 1..Len(remote[b]) : remote[b][i] = Full(p)
    <3>1. DOMAIN remote[b] = 1..Len(remote[b])
      BY <2>5
    <3>2. QED  BY <2>6, <3>1 DEF ToSet
  <2>8. remote[b][i].part = p
    BY <2>7 DEF Full
  <2>9. i \in Parts
    <3>1. Len(remote[b]) \in Nat
      BY <2>5
    <3>2. Len(remote[b]) <= Parallelism
      BY <2>4 DEF OnceEach
    <3>3. Batches * Parallelism \in Nat /\ Parallelism <= Batches * Parallelism
      BY OwnParts
    <3>4. QED  BY <3>1, <3>2, <3>3, ChunksAssumption DEF Parts
  <2>10. i <= Len(remote[b])
    BY <2>5
  <2>11. <<b, i>> \in Places(remote, p)
    BY <2>8, <2>9, <2>10 DEF Places
  <2>12. ASSUME NEW at \in Places(remote, p) PROVE at = <<b, i>>
    <3>1. PICK c \in 0..(Batches - 1), j \in Parts : at = <<c, j>>
      BY DEF Places
    <3>2. j <= Len(remote[c]) /\ remote[c][j].part = p
      BY <3>1 DEF Places
    <3>3. j \in 1..Len(remote[c])
      <4>1. Len(remote[c]) \in Nat /\ j \in Nat /\ j >= 1
        BY <2>5, OwnParts DEF Parts
      <4>2. QED  BY <3>2, <4>1
    <3>4. p \in Own(c)
      BY <2>4, <3>2, <3>3 DEF OnceEach
    <3>5. c = b
      BY <2>1, <3>4, OwnDisjoint
    <3>6. j = i
      BY <2>4, <2>8, <3>2, <3>3, <3>5 DEF OnceEach
    <3>7. QED  BY <3>1, <3>5, <3>6
  <2>13. Places(remote, p) = {<<b, i>>}
    BY <2>11, <2>12
  <2>14. QED  BY <2>13, FS_Singleton DEF Copies
<1>2. QED  BY <1>1, InvariantHolds, PTL

\* The static tables, which all processes write, are kept whole.
THEOREM StaticTablesKept == Spec => []StaticTablesWhole
<1>1. IInv => StaticTablesWhole
  <2> SUFFICES ASSUME IInv, stage = "done" PROVE parquetStatic = "full"
    BY DEF StaticTablesWhole
  <2>1. Converted(0)
    BY DEF IInv, TypeOK, Converted
  <2>2. QED  BY <2>1 DEF IInv, StaticInv
<1>2. QED  BY <1>1, InvariantHolds, PTL

\* Without an interrupted run, no more chunks than one batch has are on disk.
THEOREM OneBatchAtATime == Spec => []OneBatchOnDisk
<1>1. IInv => OneBatchOnDisk
  <2> DEFINE present == {p \in Parts : csv[p] # "none" \/ scratch[p] # "none"}
  <2> SUFFICES ASSUME IInv, crashes = 0 PROVE Cardinality(present) <= Parallelism
    BY DEF OneBatchOnDisk
  <2>1. present \subseteq Own(batch_idx)
    BY DEF IInv, DiskInv
  <2>2. IsFiniteSet(Own(batch_idx)) /\ Cardinality(Own(batch_idx)) = Parallelism
    BY OwnSize DEF IInv, TypeOK
  <2> HIDE DEF present
  <2>3. QED  BY <2>1, <2>2, FS_Subset
<1>2. QED  BY <1>1, InvariantHolds, PTL
=============================================================================
