---------------------------- MODULE DbgenRefresh ----------------------------
(***************************************************************************)
(* dbgen -U: the refresh sets.  Set n is a pair of an insert file (orders  *)
(* and their lineitems, for TPC-H's UF1) and a delete file (order keys,    *)
(* for UF2).  The set's rows continue the random-number streams where the  *)
(* base tables end, and their keys go into the holes that mk_sparse()      *)
(* leaves between the keys of the base orders.                             *)
(*                                                                         *)
(* Options: -U updates, -S step, -i insert_segments, -d delete_segments.   *)
(* The orders and the lineitem file of a segment are opened together and   *)
(* are one file here.  The text pool is modelled in Dbgen.                 *)
(***************************************************************************)
EXTENDS DbgenTables, Sequences, SequencesExt

CONSTANTS Base,          \* tdefs[ORDER].base, a multiple of 1500 at every -s
          Scale,         \* scale
          BasisPoints,   \* 10000, the unit of UPD_PCT
          UPD_PCT,       \* 10
          UPDATE_PROCS,  \* 100, the procs of main()'s set_state(ORDER, ...)
          ModeUnit,      \* 10000, the step of a segment in upd_num
          MaxUpdates,    \* bound on -U
          MaxSegments    \* bound on -i and -d

Orders  == Base * Scale                             \* the rows of the base table
SetRows == (Base \div BasisPoints) * Scale * UPD_PCT    \* rowcnt
Period  == BasisPoints \div UPD_PCT

ASSUME SizesAssumption == /\ Base \in Nat \ {0} /\ Scale \in Nat \ {0}
                          /\ UPD_PCT \in Nat \ {0} /\ BasisPoints \in Nat \ {0}
                          /\ BasisPoints % UPD_PCT = 0
ASSUME BoundsAssumption == /\ ModeUnit \in Nat /\ MaxUpdates \in 1..(ModeUnit - 1)
                           /\ MaxSegments \in Nat
ASSUME WholeParts == UPDATE_PROCS \in Nat \ {0} /\ Orders % UPDATE_PROCS = 0

VARIABLES updates, step, insert_segments, delete_segments,   \* options
          phase,     \* "next" in main()'s loop, "insert" in gen_tbl(),
                     \* "delete" in pr_drange(), "exit"
          upd_num,   \* main()'s upd_num: the sets done
          row, left, \* the loop variables of gen_tbl() and pr_drange()
          mode,      \* gen_tbl()'s upd_num: the set plus ModeUnit per segment
          lastMode,  \* pr_order()'s last_mode
          segRows,   \* rows_this_segment
          delPer,    \* pr_drange()'s static rows_per_segment
          seed,      \* positions of the streams
          ins,       \* ins[n]: the insert files of set n, each a sequence of rows
          del        \* del[n]: its delete files, each a sequence of keys

options == <<updates, step, insert_segments, delete_segments>>
vars == <<options, phase, upd_num, row, left, mode, lastMode, segRows, delPer, seed, ins, del>>

Sets == 1..MaxUpdates

-----------------------------------------------------------------------------
(* Keys.                                                                   *)

\* mk_sparse(): bits 3 and 4 of a base key are free for seq, which is added.
OrderKey(i, seq) == (((i \div 8) * 4 + seq) * 8) + (i % 8)

\* MK_SPARSE(), of which pr_drange() makes its keys, masks seq instead.
MK_SPARSE(key, seq) == (((key \div 8) * 4 + (seq % 4)) * 8) + (key % 8)

\* Mutant: the first Period sets use the base table's seq.
InsertSeqFromZero(n) == n \div Period
InsertSeq(n) == IF n = 0 THEN 0 ELSE 1 + n \div Period

\* Mutant: the seq of the inserts of the same set.
DeleteSeqOfInsert(n) == 1 + n \div Period
DeleteSeq(n) == n \div Period

\* The number of row k of set n.
SetRow(n, k) == (n - 1) * SetRows + k

-----------------------------------------------------------------------------
\* Mutant: sd_line() is not called for earlier sets.
PriorSetOrdersOnly(s) == SdOrder[s]
PriorSet(s) == SdOrder[s] + SdLine(0)[s]

FirstSeed ==
  LET base  == SetState("ORDER", Orders, UPDATE_PROCS, UPDATE_PROCS + 1,
                        [s \in Streams |-> 0])
      prior == IF step > 0 THEN step - 1 ELSE 0
  IN  [s \in Streams |-> base[s] + prior * SetRows * PriorSet(s)]

Init == /\ updates \in Sets
        /\ step \in {-1} \cup Sets
        /\ insert_segments \in 0..MaxSegments
        /\ delete_segments \in 0..MaxSegments
        /\ phase = "next"
        /\ upd_num = IF step > 0 THEN step - 1 ELSE 0
        /\ row = 1 /\ left = 0
        /\ mode = 0 /\ lastMode = 0
        /\ segRows = 0 /\ delPer = 0
        /\ seed = FirstSeed
        /\ ins = [n \in Sets |-> <<>>]
        /\ del = [n \in Sets |-> <<>>]

StartSet ==
  /\ phase = "next"
  /\ upd_num < updates
  /\ phase' = "insert"
  /\ row' = SetRow(upd_num + 1, 1)
  /\ left' = SetRows
  /\ mode' = upd_num + 1
  /\ segRows' = -1
  /\ UNCHANGED <<options, upd_num, lastMode, delPer, seed, ins, del>>

\* Appending a row to the last of a set's files, after opening one if need be.
Write(files, opens, x) ==
  LET all == IF opens THEN Append(files, <<>>) ELSE files
  IN  [all EXCEPT ![Len(all)] = Append(@, x)]

\* The rows of the segment that gen_tbl() is in: the first residual_rows
\* segments take one more.  The mutant gives them none.
SegmentRowsEven == SetRows \div insert_segments
SegmentRows == SetRows \div insert_segments
               + (IF mode \div ModeUnit < SetRows % insert_segments THEN 1 ELSE 0)

\* The loop condition of gen_tbl() and of pr_drange(), and a mutant one row late.
MoreLate == left >= 0
More == left > 0

\* One turn of gen_tbl(ORDER_LINE): the order is made before, and written
\* after, the step to the next segment.
GenOrder ==
  /\ phase = "insert"
  /\ More
  /\ LET ends   == insert_segments > 0 /\ segRows + 1 >= SegmentRows
         order  == [key |-> OrderKey(row, InsertSeq(mode % ModeUnit)),
                    at  |-> [s \in Reads("ORDER_LINE") |-> seed[s]]]
     IN  /\ mode' = IF ends THEN mode + ModeUnit ELSE mode
         /\ segRows' = CASE ends                         -> 0
                         [] ~ends /\ insert_segments > 0 -> segRows + 1
                         [] OTHER                        -> segRows
         /\ ins' = [ins EXCEPT ![upd_num + 1] = Write(@, mode' # lastMode, order)]
         /\ lastMode' = mode'
  /\ \E draws \in Draws("ORDER_LINE") : seed' = AfterRow("ORDER_LINE", seed, draws)
  /\ row' = row + 1
  /\ left' = left - 1
  /\ UNCHANGED <<options, phase, upd_num, delPer, del>>

\* gen_tbl() returns and pr_drange() opens the set's first delete file.
EndInsert ==
  /\ phase = "insert"
  /\ ~More
  /\ phase' = "delete"
  /\ row' = SetRow(upd_num + 1, 1)
  /\ left' = SetRows
  /\ segRows' = 0
  /\ del' = [del EXCEPT ![upd_num + 1] = <<<<>>>>]
  /\ UNCHANGED <<options, upd_num, mode, lastMode, delPer, seed, ins>>

\* rows_per_segment, computed once; the mutant rounds it down.
DeletePerDown == IF delPer = 0 THEN left \div delete_segments ELSE delPer
DeletePer == IF delPer = 0 THEN left \div delete_segments + 1 ELSE delPer

DeleteOrder ==
  /\ phase = "delete"
  /\ More
  /\ IF delete_segments = 0
     THEN /\ UNCHANGED <<segRows, delPer>>
          /\ del' = [del EXCEPT ![upd_num + 1] =
                       Write(@, FALSE, MK_SPARSE(row, DeleteSeq(upd_num + 1)))]
     ELSE /\ delPer' = DeletePer
          /\ segRows' = IF segRows + 1 > delPer' THEN 1 ELSE segRows + 1
          /\ del' = [del EXCEPT ![upd_num + 1] =
                       Write(@, segRows + 1 > delPer', MK_SPARSE(row, DeleteSeq(upd_num + 1)))]
  /\ row' = row + 1
  /\ left' = left - 1
  /\ UNCHANGED <<options, phase, upd_num, mode, lastMode, seed, ins>>

EndSet ==
  /\ phase = "delete"
  /\ ~More
  /\ phase' = "next"
  /\ upd_num' = upd_num + 1
  /\ UNCHANGED <<options, row, left, mode, lastMode, segRows, delPer, seed, ins, del>>

Exit ==
  /\ phase = "next"
  /\ upd_num >= updates
  /\ phase' = "exit"
  /\ UNCHANGED <<options, upd_num, row, left, mode, lastMode, segRows, delPer, seed, ins, del>>

Terminated == phase = "exit" /\ UNCHANGED vars

Next == \/ StartSet \/ GenOrder \/ EndInsert \/ DeleteOrder \/ EndSet \/ Exit
        \/ Terminated

Spec == Init /\ [][Next]_vars

-----------------------------------------------------------------------------
(* Correctness.                                                            *)

OrderRow == [key: Nat, at: [Reads("ORDER_LINE") -> Nat]]

TypeOK == /\ updates \in Sets /\ step \in {-1} \cup Sets
          /\ insert_segments \in 0..MaxSegments /\ delete_segments \in 0..MaxSegments
          /\ phase \in {"next", "insert", "delete", "exit"}
          /\ upd_num \in 0..MaxUpdates
          /\ row \in Nat /\ left \in 0..SetRows
          /\ mode \in Nat /\ lastMode \in Nat
          /\ segRows \in -1..SetRows /\ delPer \in 0..(SetRows + 1)
          /\ seed \in [Streams -> Nat]
          /\ ins \in [Sets -> Seq(Seq(OrderRow))]
          /\ del \in [Sets -> Seq(Seq(Nat))]

\* The sets that this run was to generate and whose files are complete.
Ours(n)     == n >= step /\ n <= updates
Deleted(n)  == Ours(n) /\ n <= upd_num
Inserted(n) == \/ Deleted(n)
               \/ Ours(n) /\ n = upd_num + 1 /\ phase = "delete"

BaseKeys      == {OrderKey(i, 0) : i \in 1..Orders}
InsertKeys(n) == {OrderKey(SetRow(n, k), InsertSeq(n)) : k \in 1..SetRows}
DeleteKeys(n) == {MK_SPARSE(SetRow(n, k), DeleteSeq(n)) : k \in 1..SetRows}
KeysOf(files) == {x.key : x \in UNION {ToSet(f) : f \in ToSet(files)}}

\* Row k of set n is row Orders + (n-1)*SetRows + k of the streams, the same
\* whether the run that writes it began with set 1 or, by -S, with a later one,
\* and whatever files -i splits it into.
SetsCanonical ==
  \A n \in Sets :
    LET rows == FlattenSeq(ins[n])
    IN  \A k \in 1..Len(rows) :
          rows[k] = [key |-> OrderKey(SetRow(n, k), InsertSeq(n)),
                     at  |-> [s \in Reads("ORDER_LINE") |->
                                (Orders + SetRow(n, k) - 1) * Boundary(s)]]

\* UF1 never inserts an order that is already there: the key of a new order is
\* not the key of a base order, nor of an order of another set.
InsertsAreFresh ==
  \A n \in Sets : /\ KeysOf(ins[n]) \cap BaseKeys = {}
                  /\ \A m \in Sets \ {n} : KeysOf(ins[n]) \cap InsertKeys(m) = {}

\* UF2 of set n deletes orders that are there when the sets are applied in
\* turn: loaded, or inserted by an earlier set, and not deleted before.
Hits(n) ==
  \A key \in UNION {ToSet(f) : f \in ToSet(del[n])} :
    /\ \/ key \in BaseKeys
       \/ \E m \in 1..(n - 1) : key \in InsertKeys(m)
    /\ \A m \in 1..(n - 1) : key \notin DeleteKeys(m)

\* So it does for the sets that go once through the base table.
DeletesHit == \A n \in Sets : n < Period => Hits(n)

\* What BUGS says has been repaired: "file delete.1000 contains keys to be
\* deleted that have never been loaded".
DeletesAlwaysHit == \A n \in Sets : Hits(n)

\* -i splits the inserts of a set into the files asked for (fewer only if there
\* are fewer rows), whose sizes differ by at most one row.
InsertsSplitEvenly ==
  \A n \in Sets : Inserted(n) /\ insert_segments > 0 =>
    /\ Len(ins[n]) = IF SetRows < insert_segments THEN SetRows ELSE insert_segments
    /\ \A i, j \in 1..Len(ins[n]) : Len(ins[n][i]) <= Len(ins[n][j]) + 1

\* -d never opens more delete files than asked for, all but the last of a set
\* have the same number of keys, and none is empty.
DeletesSplitWithinLimit ==
  \A n \in Sets : Deleted(n) /\ SetRows > 0 /\ delete_segments > 0 =>
    /\ Len(del[n]) <= delete_segments
    /\ \A i \in 1..Len(del[n]) : /\ del[n][i] # <<>>
                                 /\ i < Len(del[n]) => Len(del[n][i]) = Len(del[n][1])
=============================================================================
