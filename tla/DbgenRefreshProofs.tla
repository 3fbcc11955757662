------------------------- MODULE DbgenRefreshProofs -------------------------
(***************************************************************************)
(* Theorems about the refresh sets, for any scale factor, any number of    *)
(* sets and any segments.                                                  *)
(***************************************************************************)
EXTENDS DbgenRefresh, LoadBalance, DbgenLemmas, FiniteSetTheorems

\* The set that is being made, and how many of its rows are done.
Current == upd_num + 1
Done    == SetRows - left
Busy    == phase \in {"insert", "delete"}

LoopInv == /\ step > 0 => upd_num >= step - 1
           /\ Busy => /\ upd_num < updates
                      /\ row = SetRow(Current, Done + 1)

\* upd_num in gen_tbl() has the set in its lower digits; pr_order()'s last_mode
\* is that of the file just written, and never that of a later set.
ModeInv == /\ phase = "insert" => /\ mode % ModeUnit = Current
                                  /\ Done > 0 => lastMode = mode
           /\ lastMode % ModeUnit <=
                IF phase = "delete" \/ (phase = "insert" /\ Done > 0) THEN Current ELSE upd_num

\* The files of later sets are not there yet.
FilesInv == /\ \A n \in Sets : n > upd_num /\ (Busy => n # Current) => ins[n] = <<>> /\ del[n] = <<>>
            /\ phase = "insert" => /\ del[Current] = <<>>
                                   /\ ins[Current] = <<>> <=> Done = 0
            /\ phase = "delete" => del[Current] # <<>>

\* How far the streams have gone beyond the base table.
StreamRows == CASE phase = "insert" -> row - 1
                [] phase = "delete" -> Current * SetRows
                [] OTHER            -> upd_num * SetRows

SeedInv == \A s \in Reads("ORDER_LINE") : seed[s] = (Orders + StreamRows) * Boundary(s)

RowsInv == /\ SetsCanonical
           /\ phase = "insert" => Len(FlattenSeq(ins[Current])) = Done

\* The rows that belong into the files of set n.
SetOrders(n) == {r \in OrderRow : r.key \in InsertKeys(n)}

KeysInv == \A n \in Sets : /\ ins[n] \in Seq(Seq(SetOrders(n)))
                           /\ del[n] \in Seq(Seq(DeleteKeys(n)))

-----------------------------------------------------------------------------
(* The splitting of a set.                                                 *)

PerInsert == SetRows \div insert_segments
Extra     == SetRows % insert_segments
Segment   == mode \div ModeUnit

Smaller(a, b) == IF a <= b THEN a ELSE b

\* D rows are written: the files before the current one, number g, are complete,
\* and it has k + 1 rows.
SplitInto(files, g, k, D) ==
  /\ g < insert_segments
  /\ Len(files) = g + 1
  /\ \A i \in 1..g : Len(files[i]) \in {PerInsert, PerInsert + 1}
  /\ Len(files[g + 1]) = k + 1
  /\ k + 1 \in 1..(PerInsert + (IF g < Extra THEN 1 ELSE 0))
  /\ D = g * PerInsert + Smaller(g, Extra) + (k + 1)

SplitInv ==
  phase = "insert" /\ insert_segments > 0 =>
    /\ Done = 0 => segRows = -1 /\ Segment = 0
    /\ Done > 0 => SplitInto(ins[Current], Segment, segRows, Done)

PerDelete == SetRows \div delete_segments + 1

DeleteInv ==
  delete_segments > 0 =>
    /\ delPer \in {0, PerDelete}
    /\ phase = "delete" =>
         /\ Done > 0 => delPer = PerDelete /\ segRows > 0
         /\ Done = 0 => Len(del[Current]) = 1
         /\ segRows \in 0..PerDelete
         /\ \A i \in 1..(Len(del[Current]) - 1) : Len(del[Current][i]) = PerDelete
         /\ Len(del[Current][Len(del[Current])]) = segRows
         /\ Done = (Len(del[Current]) - 1) * PerDelete + segRows

SegRowsInv == /\ phase = "insert" => segRows \in -1..(Done - 1)
              /\ phase = "delete" => segRows \in 0..Done

IInv == /\ TypeOK /\ LoopInv /\ ModeInv /\ FilesInv /\ SeedInv /\ RowsInv /\ KeysInv
        /\ SplitInv /\ DeleteInv /\ SegRowsInv
        /\ InsertsSplitEvenly /\ DeletesSplitWithinLimit

-----------------------------------------------------------------------------
(* Sizes and rows.                                                         *)

LEMMA Sizes ==
  /\ Orders \in Nat /\ SetRows \in Nat /\ Period \in Nat \ {0}
  /\ ModeUnit \in Nat \ {0} /\ MaxUpdates \in Nat \ {0} /\ MaxUpdates < ModeUnit
  /\ MaxSegments \in Nat
  /\ Sets \subseteq Nat \ {0}
<1>1. Orders \in Nat
  BY SizesAssumption, ProductIsNat DEF Orders
<1>2. SetRows \in Nat
  <2>1. Base \div BasisPoints \in Nat  BY SizesAssumption, Division
  <2>2. (Base \div BasisPoints) * Scale \in Nat  BY <2>1, SizesAssumption, ProductIsNat
  <2>3. QED  BY <2>2, SizesAssumption, ProductIsNat DEF SetRows
<1>3. Period \in Nat \ {0}
  <2>1. Period \in Nat /\ BasisPoints = UPD_PCT * Period + (BasisPoints % UPD_PCT)
    BY SizesAssumption, Division DEF Period
  <2>2. QED  BY <2>1, SizesAssumption
<1>4. QED  BY <1>1, <1>2, <1>3, BoundsAssumption DEF Sets

LEMMA SetRowIsNat ==
  ASSUME NEW n \in Nat \ {0}, NEW k \in Nat
  PROVE  /\ (n - 1) * SetRows \in Nat
         /\ SetRow(n, k) \in Nat
         /\ SetRow(n, k + 1) = SetRow(n, k) + 1
<1>1. (n - 1) * SetRows \in Nat
  BY Sizes, ProductIsNat
<1>2. QED  BY <1>1 DEF SetRow

\* The rows of a set end where those of the next one begin.
LEMMA SetRowOfNextSet ==
  ASSUME NEW n \in Nat \ {0}
  PROVE  /\ SetRow(n, SetRows) = n * SetRows
         /\ SetRow(n + 1, 1) = n * SetRows + 1
<1>1. (n - 1) * SetRows + SetRows = n * SetRows
  BY Sizes
<1>2. (n + 1) - 1 = n  OBVIOUS
<1>3. QED  BY <1>1, <1>2 DEF SetRow

LEMMA SetsAreApart ==
  ASSUME NEW m \in Nat \ {0}, NEW n \in Nat \ {0}, m < n,
         NEW j \in 1..SetRows, NEW k \in 1..SetRows
  PROVE  SetRow(m, j) < SetRow(n, k)
<1>1. m * SetRows <= (n - 1) * SetRows
  BY Sizes, Monotone
<1>2. (m - 1) * SetRows + SetRows = m * SetRows
  BY Sizes
<1>3. (m - 1) * SetRows \in Nat /\ (n - 1) * SetRows \in Nat
  BY SetRowIsNat
<1>4. QED  BY <1>1, <1>2, <1>3, Sizes DEF SetRow

\* Period sets have at most as many rows as the base table, and twice as many
\* sets more.
LEMMA PeriodRows ==
  /\ Period * SetRows <= Orders
  /\ SetRows > 0 => Orders < 2 * (Period * SetRows)
<1> DEFINE q == Base \div BasisPoints
           r == Base % BasisPoints
<1>1. q \in Nat /\ r \in 0..(BasisPoints - 1) /\ Base = BasisPoints * q + r
  BY SizesAssumption, Division
<1>2. Period \in Nat /\ BasisPoints = UPD_PCT * Period
  BY SizesAssumption, Division, Sizes DEF Period
<1>3. SetRows = q * Scale * UPD_PCT
  BY DEF SetRows
<1>4. SizesAssumption  BY SizesAssumption
<1> HIDE DEF q, r
<1>5. Period * SetRows = BasisPoints * q * Scale
  <2>1. Period * (q * Scale * UPD_PCT) = (UPD_PCT * Period) * q * Scale
    BY <1>1, <1>2, SizesAssumption
  <2>2. QED  BY <1>2, <1>3, <2>1
<1>6. Orders = BasisPoints * q * Scale + r * Scale
  BY <1>1, SizesAssumption DEF Orders
<1>7. r * Scale \in Nat
  BY <1>1, SizesAssumption, ProductIsNat
<1>8. BasisPoints * q * Scale \in Nat
  BY <1>1, SizesAssumption, ProductIsNat
<1>9. ASSUME SetRows > 0 PROVE r * Scale < BasisPoints * q * Scale
  <2>1. q >= 1
    <3>1. CASE q = 0  BY <1>3, <1>9, <3>1, SizesAssumption
    <3>2. QED  BY <1>1, <3>1
  <2>2. BasisPoints * Scale <= BasisPoints * q * Scale
    <3>1. BasisPoints * Scale \in Nat  BY SizesAssumption, ProductIsNat
    <3>2. 1 * (BasisPoints * Scale) <= q * (BasisPoints * Scale)
      BY <1>1, <2>1, <3>1, Monotone
    <3>3. q * (BasisPoints * Scale) = BasisPoints * q * Scale
      BY <1>1, SizesAssumption
    <3>4. QED  BY <3>1, <3>2, <3>3
  <2>3. r * Scale < BasisPoints * Scale
    BY <1>1, SizesAssumption
  <2>4. r * Scale \in Int /\ BasisPoints * Scale \in Int
    BY <1>1, SizesAssumption
  <2>5. QED  BY <1>8, <2>2, <2>3, <2>4
<1>10. QED  BY <1>5, <1>6, <1>7, <1>8, <1>9

-----------------------------------------------------------------------------
(* Keys.                                                                   *)

LEMMA OrderKeyIsNat ==
  ASSUME NEW i \in Nat, NEW s \in Nat
  PROVE  OrderKey(i, s) \in Nat /\ MK_SPARSE(i, s) \in Nat
BY DEF OrderKey, MK_SPARSE

\* A key determines the low bits of its row, and the rest up to seq.
LEMMA SameKey ==
  ASSUME NEW i \in Nat, NEW s \in Nat, NEW j \in Nat, NEW t \in Nat,
         OrderKey(i, s) = OrderKey(j, t)
  PROVE  /\ i % 8 = j % 8
         /\ 4 * (i \div 8) + s = 4 * (j \div 8) + t
BY DEF OrderKey

LEMMA LaterRowLaterKey ==
  ASSUME NEW i \in Nat, NEW s \in Nat, NEW j \in Nat, NEW t \in Nat, i < j, s <= t
  PROVE  OrderKey(i, s) # OrderKey(j, t)
BY SameKey

LEMMA SeqIsNat ==
  ASSUME NEW n \in Nat \ {0}
  PROVE  /\ InsertSeq(n) = 1 + n \div Period /\ InsertSeq(n) \in Nat \ {0}
         /\ DeleteSeq(n) \in Nat
BY Sizes, Division DEF InsertSeq, DeleteSeq

LEMMA DivideMonotone ==
  ASSUME NEW c \in Nat \ {0}, NEW a \in Nat, NEW b \in Nat, a <= b
  PROVE  a \div c <= b \div c
OBVIOUS

\* The keys of different sets, and of a set and the base table, are different.
LEMMA SetKeysApart ==
  ASSUME NEW m \in Nat \ {0}, NEW n \in Nat \ {0}, m < n
  PROVE  InsertKeys(m) \cap InsertKeys(n) = {}
<1>1. InsertSeq(m) <= InsertSeq(n) /\ InsertSeq(m) \in Nat /\ InsertSeq(n) \in Nat
  <2>1. m \div Period <= n \div Period  BY Sizes, DivideMonotone
  <2>2. m \div Period \in Nat /\ n \div Period \in Nat  BY Sizes, Division
  <2>3. QED  BY <2>1, <2>2, SeqIsNat
<1>2. ASSUME NEW j \in 1..SetRows, NEW k \in 1..SetRows
      PROVE  OrderKey(SetRow(m, j), InsertSeq(m)) # OrderKey(SetRow(n, k), InsertSeq(n))
  <2>1. SetRow(m, j) < SetRow(n, k)  BY SetsAreApart
  <2>2. SetRow(m, j) \in Nat /\ SetRow(n, k) \in Nat
    <3>1. j \in Nat /\ k \in Nat  BY Sizes
    <3>2. QED  BY <3>1, SetRowIsNat
  <2>3. QED  BY <1>1, <2>1, <2>2, LaterRowLaterKey
<1>3. QED  BY <1>2 DEF InsertKeys

LEMMA QuotientBound ==
  ASSUME NEW a \in Nat, NEW c \in Nat \ {0}, NEW q \in Nat, a \div c >= q
  PROVE  a >= q * c
<1> DEFINE d == a \div c
           r == a % c
<1>1. d \in Nat /\ r \in Nat /\ a = c * d + r
  BY Division
<1>2. d >= q  OBVIOUS
<1> HIDE DEF d, r
<1>3. q * c <= d * c /\ d * c = c * d /\ q * c \in Nat /\ d * c \in Nat
  BY <1>1, <1>2, Monotone, ProductIsNat
<1>4. QED  BY <1>1, <1>3

LEMMA BaseKeysApart ==
  ASSUME NEW n \in Nat \ {0}
  PROVE  InsertKeys(n) \cap BaseKeys = {}
<1> SUFFICES ASSUME NEW i \in 1..Orders, NEW k \in 1..SetRows,
                    OrderKey(i, 0) = OrderKey(SetRow(n, k), InsertSeq(n))
             PROVE  FALSE
  BY DEF InsertKeys, BaseKeys
<1> DEFINE row0 == SetRow(n, k)
           seq0 == InsertSeq(n)
<1>1. row0 \in Nat /\ seq0 \in Nat \ {0} /\ seq0 = 1 + n \div Period /\ i \in Nat
  BY SetRowIsNat, SeqIsNat, Sizes
<1>2. row0 = (n - 1) * SetRows + k  BY DEF SetRow
<1>3. OrderKey(i, 0) = OrderKey(row0, seq0)  OBVIOUS
<1> HIDE DEF row0, seq0
<1>4. i > row0
  <2>1. ~ (i < row0)  BY <1>1, <1>3, LaterRowLaterKey
  <2>2. i # row0  BY <1>1, <1>3, SameKey
  <2>3. QED  BY <1>1, <2>1, <2>2
<1>5. seq0 >= 4
  <2>1. 4 * (i \div 8) + 0 = 4 * (row0 \div 8) + seq0
    <3>1. i \in Nat /\ 0 \in Nat /\ row0 \in Nat /\ seq0 \in Nat  BY <1>1
    <3>2. QED  BY <1>3, <3>1, SameKey
  <2>2. QED  BY <1>1, <2>1
<1>6. n >= 3 * Period
  <2>1. n \div Period >= 3
    <3>1. n \div Period \in Nat  BY Sizes, Division
    <3>2. QED  BY <1>1, <1>5, <3>1
  <2>2. QED  BY <2>1, Sizes, QuotientBound
<1>7. 2 * (Period * SetRows) <= (n - 1) * SetRows
  <2>1. 2 * Period <= n - 1  BY <1>6, Sizes
  <2>2. (2 * Period) * SetRows <= (n - 1) * SetRows  BY <2>1, Sizes, Monotone
  <2>3. (2 * Period) * SetRows = 2 * (Period * SetRows)  BY Sizes
  <2>4. QED  BY <2>2, <2>3
<1>8. SetRows > 0  BY Sizes
<1>9. (n - 1) * SetRows \in Nat /\ Period * SetRows \in Nat
  BY SetRowIsNat, Sizes, ProductIsNat
<1>10. QED  BY <1>1, <1>2, <1>4, <1>7, <1>8, <1>9, PeriodRows, Sizes

\* A set that belongs to the first round deletes base orders, each only once.
LEMMA FirstRoundDeletes ==
  ASSUME NEW n \in Nat \ {0}, n < Period
  PROVE  /\ DeleteKeys(n) \subseteq BaseKeys
         /\ \A m \in 1..(n - 1) : DeleteKeys(m) \cap DeleteKeys(n) = {}
<1>1. ASSUME NEW m \in 1..n PROVE DeleteSeq(m) = 0
  BY Sizes DEF DeleteSeq
<1>2. ASSUME NEW i \in Nat PROVE MK_SPARSE(i, 0) = OrderKey(i, 0)
  BY DEF MK_SPARSE, OrderKey
<1>3. ASSUME NEW m \in 1..n, NEW k \in 1..SetRows
      PROVE  /\ SetRow(m, k) \in Nat
             /\ MK_SPARSE(SetRow(m, k), DeleteSeq(m)) = OrderKey(SetRow(m, k), 0)
  <2>1. m \in Nat \ {0} /\ k \in Nat  BY Sizes
  <2>2. SetRow(m, k) \in Nat  BY <2>1, SetRowIsNat
  <2>3. QED  BY <1>1, <1>2, <2>2
<1>4. ASSUME NEW k \in 1..SetRows PROVE SetRow(n, k) \in 1..Orders
  <2>1. (n - 1) * SetRows + k <= n * SetRows
    <3>1. (n - 1) * SetRows + SetRows = n * SetRows  BY Sizes
    <3>2. (n - 1) * SetRows \in Nat  BY SetRowIsNat
    <3>3. QED  BY <3>1, <3>2, Sizes
  <2>2. n * SetRows <= Period * SetRows  BY Sizes, Monotone
  <2>3. n * SetRows \in Nat /\ Period * SetRows \in Nat /\ (n - 1) * SetRows \in Nat
    BY Sizes, ProductIsNat
  <2>4. QED  BY <2>1, <2>2, <2>3, PeriodRows, Sizes DEF SetRow
<1>5. DeleteKeys(n) \subseteq BaseKeys
  BY <1>3, <1>4 DEF DeleteKeys, BaseKeys
<1>6. ASSUME NEW m \in 1..(n - 1) PROVE DeleteKeys(m) \cap DeleteKeys(n) = {}
  <2>1. ASSUME NEW j \in 1..SetRows, NEW k \in 1..SetRows
        PROVE  OrderKey(SetRow(m, j), 0) # OrderKey(SetRow(n, k), 0)
    <3>1. SetRow(m, j) < SetRow(n, k)  BY SetsAreApart
    <3>2. m \in 1..n /\ n \in 1..n  OBVIOUS
    <3>3. SetRow(m, j) \in Nat /\ SetRow(n, k) \in Nat  BY <1>3, <3>2
    <3>4. QED  BY <3>1, <3>3, LaterRowLaterKey
  <2>2. m \in 1..n  OBVIOUS
  <2>3. QED  BY <1>3, <2>1, <2>2 DEF DeleteKeys
<1>7. QED  BY <1>5, <1>6

-----------------------------------------------------------------------------
(* Files.                                                                  *)

\* One more row in the last file, or in a new one.
OneMore(new, old, opens, x) ==
  /\ Len(new) = Len(old) + (IF opens THEN 1 ELSE 0)
  /\ Len(new) \in Nat \ {0}
  /\ \A i \in 1..(Len(new) - 1) : new[i] = old[i]
  /\ new[Len(new)] = IF opens THEN <<x>> ELSE Append(old[Len(old)], x)

\* Write() appends a row to the last file, or to a new one.
LEMMA WriteAppends ==
  ASSUME NEW S, NEW files \in Seq(Seq(S)), NEW opens \in BOOLEAN, NEW x \in S,
         files # <<>> \/ opens
  PROVE  /\ Write(files, opens, x) \in Seq(Seq(S))
         /\ OneMore(Write(files, opens, x), files, opens, x)
         /\ FlattenSeq(Write(files, opens, x)) = Append(FlattenSeq(files), x)
<1> DEFINE all == IF opens THEN Append(files, <<>>) ELSE files
           new == Write(files, opens, x)
<1>1. all \in Seq(Seq(S)) /\ all # <<>>
  <2>1. <<>> \in Seq(S)  OBVIOUS
  <2>2. Append(files, <<>>) \in Seq(Seq(S)) /\ Append(files, <<>>) # <<>>
    BY <2>1, AppendProperties
  <2>3. QED  BY <2>2
<1>2. PICK tt \in Seq(Seq(S)), s \in Seq(S) : all = Append(tt, s)
  <2> HIDE DEF all
  <2>1. QED  BY <1>1, LastPiece
<1>3. /\ Len(all) = Len(tt) + 1 /\ all[Len(all)] = s /\ Len(tt) \in Nat
      /\ \A i \in 1..Len(tt) : all[i] = tt[i]
  <2> HIDE DEF all
  <2>1. QED  BY <1>2, AppendProperties
<1>4. Append(s, x) \in Seq(S)
  BY AppendProperties
<1>5. new = [all EXCEPT ![Len(all)] = Append(@, x)]
  BY DEF Write
<1> HIDE DEF all
<1>6. new = Append(tt, Append(s, x))
  <2>1. new \in Seq(Seq(S)) /\ Len(new) = Len(all) 
    BY <1>1, <1>3, <1>4, <1>5, ExceptSeq
  <2>2. new[Len(tt) + 1] = Append(s, x) /\ \A i \in 1..Len(tt) : new[i] = tt[i]
    BY <1>1, <1>3, <1>5
  <2> HIDE DEF new
  <2>3. QED  BY <1>3, <1>4, <2>1, <2>2, IsAppend
<1> HIDE DEF new
<1>7. /\ new \in Seq(Seq(S)) /\ Len(new) = Len(tt) + 1 /\ new[Len(tt) + 1] = Append(s, x)
      /\ \A i \in 1..Len(tt) : new[i] = tt[i]
  BY <1>4, <1>6, AppendProperties
<1>8. FlattenSeq(new) = Append(FlattenSeq(all), x)
  BY <1>2, <1>6, FlattenAppendToLast
<1>9. CASE opens
  <2>1. all = Append(files, <<>>)  BY <1>9 DEF all
  <2>2. <<>> \in Seq(S)  OBVIOUS
  <2>3. /\ Len(all) = Len(files) + 1 /\ all[Len(files) + 1] = <<>> /\ Len(files) \in Nat
        /\ \A i \in 1..Len(files) : all[i] = files[i]
    BY <2>1, <2>2, AppendProperties
  <2>4. FlattenSeq(all) = FlattenSeq(files)
    <3>1. FlattenSeq(files) \in Seq(S)  BY FlattenType
    <3>2. FlattenSeq(all) = FlattenSeq(files) \o <<>>  BY <2>1, <2>2, FlattenAppend
    <3>3. QED  BY <3>1, <3>2
  <2>5. s = <<>>  BY <1>3, <2>3
  <2>6. Append(s, x) = <<x>>  BY <2>5
  <2>7. Len(tt) = Len(files)
    <3> DEFINE nt == Len(tt)
               nf == Len(files)
    <3>1. nt \in Nat /\ nf \in Nat /\ nt + 1 = nf + 1  BY <1>3, <2>3
    <3> HIDE DEF nt, nf
    <3>2. nt = nf  BY <3>1
    <3>3. QED  BY <3>2 DEF nt, nf
  <2>8. /\ Len(new) = Len(files) + 1 /\ Len(new) \in Nat \ {0}
        /\ \A i \in 1..(Len(new) - 1) : new[i] = files[i]
    <3>1. \A i \in 1..Len(tt) : new[i] = files[i]  BY <1>3, <1>7, <2>3, <2>7
    <3>2. (Len(files) + 1) - 1 = Len(files)  BY <2>3
    <3>3. Len(new) = Len(files) + 1  BY <1>7, <2>7
    <3>4. QED  BY <2>3, <2>7, <3>1, <3>2, <3>3
  <2>9. new[Len(new)] = <<x>> /\ FlattenSeq(new) = Append(FlattenSeq(files), x)
    BY <1>7, <1>8, <2>4, <2>6
  <2>10. QED  BY <1>7, <1>9, <2>8, <2>9 DEF new, OneMore
<1>10. CASE ~opens
  <2>1. all = files  BY <1>10 DEF all
  <2>2. Len(tt) + 1 = Len(files) /\ s = files[Len(files)] /\ ~opens  BY <1>3, <1>10, <2>1
  <2>3. \A i \in 1..Len(tt) : new[i] = files[i]  BY <1>3, <1>7, <2>1
  <2>4. QED  BY <1>3, <1>7, <1>8, <1>10, <2>1, <2>2, <2>3 DEF new, OneMore
<1>11. QED  BY <1>9, <1>10

-----------------------------------------------------------------------------
(* Streams.                                                                *)

\* Skipping the base table and skipping the rows of earlier sets are by the
\* boundaries of the streams.
LEMMA OrderSkips ==
  ASSUME NEW s \in Reads("ORDER_LINE")
  PROVE  ChunkSkip("ORDER")[s] = Boundary(s) /\ PriorSet(s) = Boundary(s)
BY DEF Reads, ChunkSkip, GenSeed, Child, PriorSet, SdOrder, SdLine, Boundary, Streams, O_LCNT_MAX

LEMMA PriorSetIsNat ==
  ASSUME NEW s \in Streams
  PROVE  PriorSet(s) \in Nat /\ GenSeed("ORDER", 0)[s] \in Nat /\ ChunkSkip("ORDER")[s] \in Nat
BY DEF PriorSet, SdOrder, SdLine, GenSeed, ChunkSkip, Child, Streams, O_LCNT_MAX

LEMMA OrderReads == Reads("ORDER_LINE") \subseteq Streams \ {"TEXT"}
BY ReadsAreStreams DEF Tables

\* The base table as set_state() skips it.
LEMMA BaseSkip ==
  ASSUME NEW s \in Streams
  PROVE  SetState("ORDER", Orders, UPDATE_PROCS, UPDATE_PROCS + 1, [t \in Streams |-> 0])[s]
           = Orders * ChunkSkip("ORDER")[s]
<1> DEFINE q == Orders \div UPDATE_PROCS
           c == ChunkSkip("ORDER")[s]
           g == GenSeed("ORDER", 0)[s]
<1>1. q \in Nat /\ Orders = UPDATE_PROCS * q
  BY Sizes, WholeParts, Division
<1>2. SetState("ORDER", Orders, UPDATE_PROCS, UPDATE_PROCS + 1, [t \in Streams |-> 0])[s]
        = 0 + ((UPDATE_PROCS + 1) - 1) * q * c + 0 * g
  BY WholeParts DEF SetState
<1>3. c \in Nat /\ g \in Nat
  BY PriorSetIsNat
<1> HIDE DEF q, c, g
<1>4. 0 * g = 0 /\ (UPDATE_PROCS + 1) - 1 = UPDATE_PROCS
  BY <1>3, WholeParts
<1>5. Orders * c \in Nat
  BY <1>3, Sizes, ProductIsNat
<1>6. SetState("ORDER", Orders, UPDATE_PROCS, UPDATE_PROCS + 1, [t \in Streams |-> 0])[s] = Orders * c
  BY <1>1, <1>2, <1>4, <1>5
<1>7. QED  BY <1>6 DEF c

LEMMA FirstSeedStands ==
  ASSUME NEW n \in Nat, n = IF step > 0 THEN step - 1 ELSE 0
  PROVE  /\ FirstSeed \in [Streams -> Nat]
         /\ \A s \in Reads("ORDER_LINE") : FirstSeed[s] = (Orders + n * SetRows) * Boundary(s)
<1>1. ASSUME NEW s \in Streams
      PROVE  FirstSeed[s] = Orders * ChunkSkip("ORDER")[s] + n * SetRows * PriorSet(s)
  BY BaseSkip DEF FirstSeed
<1>2. n * SetRows \in Nat
  BY Sizes, ProductIsNat
<1>3. ASSUME NEW s \in Streams PROVE FirstSeed[s] \in Nat
  <2>1. Orders * ChunkSkip("ORDER")[s] \in Nat  BY PriorSetIsNat, Sizes, ProductIsNat
  <2>2. n * SetRows * PriorSet(s) \in Nat  BY <1>2, PriorSetIsNat, ProductIsNat
  <2>3. QED  BY <1>1, <2>1, <2>2
<1>4. FirstSeed \in [Streams -> Nat]
  <2>1. FirstSeed = [s \in Streams |-> FirstSeed[s]]  BY DEF FirstSeed
  <2>2. QED  BY <1>3, <2>1
<1>5. ASSUME NEW s \in Reads("ORDER_LINE")
      PROVE  FirstSeed[s] = (Orders + n * SetRows) * Boundary(s)
  <2>1. s \in Streams /\ Boundary(s) \in Nat  BY OrderReads, BoundaryIsPositive
  <2>2. FirstSeed[s] = Orders * Boundary(s) + (n * SetRows) * Boundary(s)
    BY <1>1, <2>1, OrderSkips
  <2>3. Orders * Boundary(s) + (n * SetRows) * Boundary(s) = (Orders + n * SetRows) * Boundary(s)
    BY <1>2, <2>1, Sizes
  <2>4. QED  BY <2>2, <2>3
<1>6. QED  BY <1>4, <1>5

\* A row of gen_tbl() moves the streams of its order by one boundary.
LEMMA OrderMovesOneBoundary ==
  ASSUME NEW draws \in Draws("ORDER_LINE"), NEW seeds \in [Streams -> Nat]
  PROVE  /\ AfterRow("ORDER_LINE", seeds, draws) \in [Streams -> Nat]
         /\ \A s \in Reads("ORDER_LINE") :
              AfterRow("ORDER_LINE", seeds, draws)[s] = seeds[s] + Boundary(s)
<1>1. "ORDER_LINE" \in Tables  BY DEF Tables
<1>2. draws \in [Streams -> Nat]  BY <1>1, DrawsArePadded
<1>3. [draws EXCEPT !["TEXT"] = @ + 0] = draws
  <2>1. "TEXT" \in Streams  BY DEF Streams
  <2>2. draws["TEXT"] + 0 = draws["TEXT"]  BY <1>2, <2>1
  <2>3. QED  BY <1>2, <2>2
<1>4. AfterRow("ORDER_LINE", seeds, draws) \in [Streams -> Nat]
  BY <1>1, <1>2, AfterRowIsASeed
<1>5. ASSUME NEW s \in Reads("ORDER_LINE")
      PROVE  AfterRow("ORDER_LINE", seeds, draws)[s] = seeds[s] + Boundary(s)
  <2>1. AfterRow("ORDER_LINE", seeds, [draws EXCEPT !["TEXT"] = @ + 0])[s] = seeds[s] + Boundary(s)
    <3>1. 0 \in Nat  OBVIOUS
    <3>2. QED  BY <1>1, <3>1, RowMovesOneBoundary
  <2>2. QED  BY <1>3, <2>1
<1>6. QED  BY <1>4, <1>5

-----------------------------------------------------------------------------
(* Splitting.                                                              *)

\* All the rows of segment g are written, and there are more.
FullIn(N, is, g, q, r, D) ==
  /\ N \in Nat /\ is \in Nat \ {0} /\ g \in Nat /\ g < is
  /\ q \in Nat /\ r \in 0..(is - 1) /\ N = is * q + r
  /\ D \in Nat /\ D = g * q + Smaller(g, r) + (q + (IF g < r THEN 1 ELSE 0)) /\ D < N

\* The next segment.
LEMMA NextSegment ==
  ASSUME NEW N, NEW is, NEW g, NEW q, NEW r, NEW D, FullIn(N, is, g, q, r, D)
  PROVE  /\ g + 1 < is
         /\ D = (g + 1) * q + Smaller(g + 1, r)
         /\ q + (IF g + 1 < r THEN 1 ELSE 0) >= 1
<1> USE DEF FullIn
<1>1. (g + 1) * q = g * q + q /\ g * q \in Nat
  BY ProductIsNat
<1>2. D = (g + 1) * q + Smaller(g + 1, r)
  BY <1>1 DEF Smaller
<1>3. g + 1 < is
  <2>1. SUFFICES ASSUME g + 1 = is PROVE FALSE
    OBVIOUS
  <2>2. (g + 1) * q = is * q  BY <2>1
  <2>3. Smaller(g + 1, r) = r  BY <2>1 DEF Smaller
  <2>4. QED  BY <1>2, <2>2, <2>3
<1>4. ASSUME q = 0 PROVE g + 1 < r
  <2>1. (g + 1) * q = 0 /\ is * q = 0  BY <1>4
  <2>2. Smaller(g + 1, r) < r  BY <1>2, <2>1 DEF Smaller
  <2>3. QED  BY <2>2 DEF Smaller
<1>5. QED  BY <1>2, <1>3, <1>4

\* N rows in is segments, the last k of them in segment g.
LastIn(N, is, g, q, r, k) ==
  /\ N \in Nat \ {0} /\ is \in Nat \ {0} /\ g \in Nat /\ g < is
  /\ q \in Nat /\ r \in 0..(is - 1) /\ N = is * q + r
  /\ k \in Nat /\ k \in 1..(q + (IF g < r THEN 1 ELSE 0))
  /\ N = g * q + Smaller(g, r) + k

\* The last segment.
LEMMA LastSegment ==
  ASSUME NEW N, NEW is, NEW g, NEW q, NEW r, NEW k, LastIn(N, is, g, q, r, k)
  PROVE  /\ g + 1 = IF N < is THEN N ELSE is
         /\ k \in {q, q + 1}
<1> USE DEF LastIn
<1>1. CASE q = 0
  <2>1. g * q = 0 /\ is * q = 0  BY <1>1
  <2>2. g < r /\ k = 1  BY <1>1
  <2>3. QED  BY <1>1, <2>1, <2>2 DEF Smaller
<1>2. CASE q > 0
  <2>1. is * 1 <= is * q /\ is * q \in Nat
    <3>1. 1 * is <= q * is  BY <1>2, Monotone
    <3>2. 1 * is = is * 1 /\ q * is = is * q /\ is * q \in Nat  BY ProductIsNat
    <3>3. QED  BY <3>1, <3>2
  <2>2. N >= is  BY <2>1
  <2>3. g + 1 = is
    <3>1. SUFFICES ASSUME g + 1 < is PROVE FALSE
      OBVIOUS
    <3>2. (g + 2) * q <= is * q
      BY <3>1, Monotone
    <3>3. (g + 2) * q = g * q + 2 * q /\ g * q \in Nat  BY ProductIsNat
    <3>4. Smaller(g, r) + (IF g < r THEN 1 ELSE 0) <= r  BY DEF Smaller
    <3>5. Smaller(g, r) \in Nat  BY DEF Smaller
    <3>6. QED  BY <1>2, <2>1, <3>2, <3>3, <3>4, <3>5
  <2>4. is * q = g * q + q /\ g * q \in Nat  BY <2>3, ProductIsNat
  <2>5. Smaller(g, r) = r  BY <2>3 DEF Smaller
  <2>6. k = q  BY <2>4, <2>5
  <2>7. QED  BY <2>2, <2>3, <2>6
<1>3. QED  BY <1>1, <1>2

\* Files of N div d + 1 keys: no more than d of them are begun.
LEMMA FilesWithinLimit ==
  ASSUME NEW N \in Nat, NEW d \in Nat \ {0}, NEW m \in Nat, m * (N \div d + 1) < N
  PROVE  m < d
<1> DEFINE q == N \div d
           r == N % d
<1>1. q \in Nat /\ r \in 0..(d - 1) /\ N = d * q + r
  BY Division
<1>2. m * (q + 1) < N  OBVIOUS
<1> HIDE DEF q, r
<1>3. SUFFICES ASSUME d <= m PROVE FALSE
  OBVIOUS
<1>4. d * (q + 1) <= m * (q + 1)  BY <1>1, <1>3, Monotone
<1>5. d * (q + 1) = d * q + d  BY <1>1
<1>6. d * q \in Nat /\ m * (q + 1) \in Nat  BY <1>1, ProductIsNat
<1>7. QED  BY <1>1, <1>2, <1>4, <1>5, <1>6

-----------------------------------------------------------------------------
(* IInv is inductive: the first state and the steps between sets.          *)

LEMMA CurrentIsASet ==
  ASSUME TypeOK, LoopInv, Busy
  PROVE  /\ Current \in Sets /\ Current \in Nat \ {0} /\ Current <= updates
         /\ Current < ModeUnit
         /\ Done \in 0..SetRows /\ row = SetRow(Current, Done + 1)
<1>1. upd_num \in Nat /\ upd_num < updates /\ updates \in 1..MaxUpdates /\ left \in 0..SetRows
  BY Sizes DEF TypeOK, LoopInv, Sets
<1>2. QED  BY <1>1, Sizes DEF Current, Done, LoopInv, Sets

\* The sizes of the files, as far as they are divisions.
LEMMA InsertSizes ==
  ASSUME TypeOK, insert_segments > 0
  PROVE  /\ insert_segments \in Nat \ {0}
         /\ PerInsert \in Nat /\ Extra \in 0..(insert_segments - 1)
         /\ SetRows = insert_segments * PerInsert + Extra
         /\ Segment \in Nat /\ segRows \in Int
         /\ SegmentRows = PerInsert + (IF Segment < Extra THEN 1 ELSE 0)
<1>1. insert_segments \in Nat \ {0}
  BY Sizes DEF TypeOK
<1>2. /\ PerInsert \in Nat /\ Extra \in 0..(insert_segments - 1)
      /\ SetRows = insert_segments * PerInsert + Extra
  <2>1. SetRows \in Nat  BY Sizes
  <2>2. QED  BY <1>1, <2>1, Division DEF PerInsert, Extra
<1>3. Segment \in Nat
  <2>1. mode \in Nat /\ ModeUnit \in Nat \ {0}  BY Sizes DEF TypeOK
  <2>2. QED  BY <2>1, Division DEF Segment
<1>4. segRows \in Int
  BY Sizes DEF TypeOK
<1>5. SegmentRows = PerInsert + (IF Segment < Extra THEN 1 ELSE 0)
  BY DEF SegmentRows, PerInsert, Extra, Segment
<1>6. QED  BY <1>1, <1>2, <1>3, <1>4, <1>5

LEMMA DeleteSizes ==
  ASSUME TypeOK, delete_segments > 0
  PROVE  /\ delete_segments \in Nat \ {0}
         /\ PerDelete = SetRows \div delete_segments + 1
         /\ PerDelete \in Nat \ {0}
         /\ PerDelete <= SetRows + 1
<1>1. delete_segments \in Nat \ {0} /\ SetRows \in Nat
  BY Sizes DEF TypeOK
<1>2. SetRows \div delete_segments \in Nat /\ SetRows \div delete_segments <= SetRows
  <2> DEFINE q == SetRows \div delete_segments
             m == SetRows % delete_segments
  <2>1. q \in Nat /\ m \in Nat /\ SetRows = delete_segments * q + m
    BY <1>1, Division
  <2> HIDE DEF q, m
  <2>2. 1 * q <= delete_segments * q  BY <1>1, <2>1, Monotone
  <2>3. 1 * q = q /\ delete_segments * q \in Nat  BY <1>1, <2>1, ProductIsNat
  <2>4. q <= SetRows  BY <1>1, <2>1, <2>2, <2>3
  <2>5. QED  BY <2>1, <2>4 DEF q
<1>3. QED  BY <1>1, <1>2 DEF PerDelete

LEMMA InitIInv == Init => IInv
<1> SUFFICES ASSUME Init PROVE IInv
  OBVIOUS
<1>1. upd_num \in 0..MaxUpdates /\ upd_num = IF step > 0 THEN step - 1 ELSE 0
  BY Sizes DEF Init, Sets
<1>2. \A n \in Sets : ins[n] = <<>> /\ del[n] = <<>>
  BY DEF Init
<1>3. /\ seed \in [Streams -> Nat]
      /\ \A s \in Reads("ORDER_LINE") : seed[s] = (Orders + upd_num * SetRows) * Boundary(s)
  <2>1. seed = FirstSeed /\ upd_num \in Nat  BY <1>1 DEF Init
  <2>2. QED  BY <1>1, <2>1, FirstSeedStands
<1>4. phase = "next"  BY DEF Init
<1>5. TypeOK
  <2>1. ins \in [Sets -> Seq(Seq(OrderRow))] /\ del \in [Sets -> Seq(Seq(Nat))]
    BY DEF Init
  <2>2. row \in Nat /\ left \in 0..SetRows /\ segRows \in -1..SetRows /\ delPer \in 0..(SetRows + 1)
    BY Sizes DEF Init
  <2>3. QED  BY <1>1, <1>3, <2>1, <2>2 DEF Init, TypeOK
<1>6. LoopInv
  BY <1>1, <1>4, Sizes DEF LoopInv, Busy, Init, Sets
<1>7. ModeInv
  <2>1. lastMode % ModeUnit = 0  BY Sizes DEF Init
  <2>2. QED  BY <1>1, <1>4, <2>1, Sizes DEF ModeInv
<1>8. FilesInv
  BY <1>2, <1>4 DEF FilesInv
<1>9. SeedInv
  BY <1>3, <1>4 DEF SeedInv, StreamRows
<1>10. RowsInv
  BY <1>2, <1>4, FlattenEmpty DEF RowsInv, SetsCanonical
<1>11. KeysInv
  <2>1. ASSUME NEW n \in Sets
        PROVE  <<>> \in Seq(Seq(SetOrders(n))) /\ <<>> \in Seq(Seq(DeleteKeys(n)))
    OBVIOUS
  <2>2. QED  BY <1>2, <2>1 DEF KeysInv
<1>12. SplitInv /\ DeleteInv /\ SegRowsInv
  BY <1>4 DEF SplitInv, DeleteInv, SegRowsInv, Init
<1>13. InsertsSplitEvenly /\ DeletesSplitWithinLimit
  <2>1. \A n \in Sets : ~Inserted(n) /\ ~Deleted(n)
    BY <1>1, <1>4, Sizes DEF Inserted, Deleted, Ours, Init, Sets
  <2>2. QED  BY <2>1 DEF InsertsSplitEvenly, DeletesSplitWithinLimit
<1>14. QED  BY <1>5, <1>6, <1>7, <1>8, <1>9, <1>10, <1>11, <1>12, <1>13 DEF IInv

\* No step that leaves the files of a set alone concerns its rows.
LEMMA SameFiles ==
  ASSUME UNCHANGED <<ins, del>>
  PROVE  /\ SetsCanonical => SetsCanonical'
         /\ KeysInv => KeysInv'
BY DEF SetsCanonical, KeysInv

LEMMA StartSetIInv == IInv /\ StartSet => IInv'
<1> SUFFICES ASSUME IInv, StartSet PROVE IInv'
  OBVIOUS
<1>1. /\ TypeOK /\ LoopInv /\ ModeInv /\ FilesInv /\ SeedInv /\ RowsInv /\ KeysInv
      /\ DeleteInv /\ InsertsSplitEvenly /\ DeletesSplitWithinLimit
  BY DEF IInv
<1>2. /\ upd_num \in Nat /\ upd_num < updates /\ updates \in 1..MaxUpdates
      /\ Current \in Nat \ {0} /\ Current \in Sets /\ Current < ModeUnit
  BY <1>1, Sizes DEF StartSet, TypeOK, Sets, Current
<1>3. /\ phase = "next" /\ phase' = "insert" /\ row' = SetRow(Current, 1) /\ left' = SetRows
      /\ mode' = Current /\ segRows' = -1
      /\ UNCHANGED <<options, upd_num, lastMode, delPer, seed, ins, del>>
  BY DEF StartSet, Current
<1>4. Current' = Current /\ Done' = 0 /\ Busy' /\ ~Busy
  BY <1>3, Sizes DEF Current, Done, Busy
<1>5. row' \in Nat
  BY <1>2, <1>3, SetRowIsNat
<1>6. TypeOK'
  BY <1>1, <1>2, <1>3, <1>5, Sizes DEF TypeOK, options
<1>7. LoopInv'
  BY <1>1, <1>2, <1>3, <1>4 DEF LoopInv, options
<1>8. ModeInv'
  <2>1. Current % ModeUnit = Current  BY <1>2, Sizes
  <2>2. lastMode % ModeUnit <= upd_num  BY <1>1, <1>3 DEF ModeInv
  <2>3. QED  BY <1>3, <1>4, <2>1, <2>2 DEF ModeInv
<1>9. FilesInv'
  <2>1. \A n \in Sets : n > upd_num => ins[n] = <<>> /\ del[n] = <<>>
    BY <1>1, <1>4 DEF FilesInv
  <2>2. ins[Current] = <<>> /\ del[Current] = <<>>
    BY <1>2, <2>1 DEF Current
  <2>3. QED  BY <1>3, <1>4, <2>1, <2>2 DEF FilesInv
<1>10. SeedInv'
  <2>1. StreamRows = upd_num * SetRows  BY <1>3 DEF StreamRows
  <2>2. row' - 1 = upd_num * SetRows
    <3>1. row' = (Current - 1) * SetRows + 1 /\ Current - 1 = upd_num
      BY <1>2, <1>3 DEF SetRow, Current
    <3>2. upd_num * SetRows \in Nat  BY <1>2, Sizes, ProductIsNat
    <3>3. QED  BY <3>1, <3>2
  <2>3. StreamRows' = row' - 1  BY <1>3 DEF StreamRows
  <2>4. StreamRows' = StreamRows /\ seed' = seed  BY <1>3, <2>1, <2>2, <2>3
  <2>5. QED  BY <1>1, <2>4 DEF SeedInv
<1>11. RowsInv'
  <2>1. FlattenSeq(ins[Current]) = <<>>
    <3>1. ins[Current] = <<>>  BY <1>1, <1>2, <1>4 DEF FilesInv, Current
    <3>2. QED  BY <3>1, FlattenEmpty
  <2>2. SetsCanonical'  BY <1>1, <1>3, SameFiles DEF RowsInv
  <2>3. QED  BY <1>3, <1>4, <2>1, <2>2 DEF RowsInv
<1>12. KeysInv'
  BY <1>1, <1>3, SameFiles
<1>13. SplitInv'
  <2>1. mode' \div ModeUnit = 0  BY <1>2, <1>3, Sizes
  <2>2. QED  BY <1>3, <1>4, <2>1 DEF SplitInv, Segment
<1>14. DeleteInv'
  BY <1>1, <1>3 DEF DeleteInv, PerDelete, options
<1>15. SegRowsInv'
  BY <1>3, <1>4 DEF SegRowsInv
<1>16. InsertsSplitEvenly' /\ DeletesSplitWithinLimit'
  <2>1. \A n \in Sets : (Inserted(n)' => Inserted(n)) /\ (Deleted(n)' => Deleted(n))
    BY <1>3 DEF Inserted, Deleted, Ours, options
  <2>2. QED  BY <1>1, <1>3, <2>1 DEF InsertsSplitEvenly, DeletesSplitWithinLimit, options
<1>17. QED  BY <1>6, <1>7, <1>8, <1>9, <1>10, <1>11, <1>12, <1>13, <1>14, <1>15, <1>16 DEF IInv

-----------------------------------------------------------------------------
(* The steps from one loop to the next.                                    *)

LEMMA EndInsertIInv == IInv /\ EndInsert => IInv'
<1> SUFFICES ASSUME IInv, EndInsert PROVE IInv'
  OBVIOUS
<1>1. /\ TypeOK /\ LoopInv /\ ModeInv /\ FilesInv /\ SeedInv /\ RowsInv /\ KeysInv
      /\ SplitInv /\ DeleteInv /\ InsertsSplitEvenly /\ DeletesSplitWithinLimit
  BY DEF IInv
<1>2. /\ phase = "insert" /\ phase' = "delete" /\ row' = SetRow(Current, 1) /\ left' = SetRows
      /\ ~More /\ segRows' = 0 /\ del' = [del EXCEPT ![Current] = <<<<>>>>]
      /\ UNCHANGED <<options, upd_num, mode, lastMode, delPer, seed, ins>>
  BY DEF EndInsert, Current
<1>3. Current' = Current /\ Done' = 0 /\ Busy' /\ Busy
  BY <1>2, Sizes DEF Current, Done, Busy
<1>4. /\ Current \in Sets /\ Current \in Nat \ {0} /\ Current <= updates
      /\ Done = SetRows /\ row = SetRow(Current, SetRows + 1)
  <2>1. /\ Current \in Sets /\ Current \in Nat \ {0} /\ Current <= updates
        /\ row = SetRow(Current, Done + 1)
    BY <1>1, <1>3, CurrentIsASet
  <2>2. Done = SetRows
    BY <1>1, <1>2, Sizes DEF TypeOK, More, Done
  <2>3. QED  BY <2>1, <2>2
<1>5. del'[Current] = <<<<>>>> /\ \A n \in Sets \ {Current} : del'[n] = del[n]
  BY <1>1, <1>2, <1>4 DEF TypeOK
<1>6. TypeOK'
  <2>1. row' \in Nat  BY <1>2, <1>4, SetRowIsNat
  <2>2. del' \in [Sets -> Seq(Seq(Nat))]
    <3>1. <<<<>>>> \in Seq(Seq(Nat))  OBVIOUS
    <3>2. QED  BY <1>1, <1>2, <3>1 DEF TypeOK
  <2>3. QED  BY <1>1, <1>2, <2>1, <2>2, Sizes DEF TypeOK, options
<1>7. LoopInv'
  BY <1>1, <1>2, <1>3 DEF LoopInv, options
<1>8. ModeInv'
  <2>1. lastMode % ModeUnit <= Current
    <3>1. upd_num \in Nat /\ Current = upd_num + 1  BY <1>1 DEF TypeOK, Current
    <3>2. lastMode % ModeUnit \in Nat  BY <1>1, Sizes, Division DEF TypeOK
    <3>3. QED  BY <1>1, <1>2, <3>1, <3>2 DEF ModeInv
  <2>2. QED  BY <1>2, <1>3, <2>1 DEF ModeInv
<1>9. FilesInv'
  BY <1>1, <1>2, <1>3, <1>5 DEF FilesInv
<1>10. SeedInv'
  <2>1. row - 1 = Current * SetRows
    <3>1. row = SetRow(Current, SetRows) + 1  BY <1>4, SetRowIsNat, Sizes
    <3>2. SetRow(Current, SetRows) = Current * SetRows /\ Current * SetRows \in Nat
      BY <1>4, SetRowOfNextSet, Sizes, ProductIsNat
    <3>3. QED  BY <3>1, <3>2
  <2>2. StreamRows' = StreamRows  BY <1>2, <1>3, <2>1 DEF StreamRows
  <2>3. QED  BY <1>1, <1>2, <2>2 DEF SeedInv
<1>11. RowsInv'
  BY <1>1, <1>2 DEF RowsInv, SetsCanonical
<1>12. KeysInv'
  <2>1. <<<<>>>> \in Seq(Seq(DeleteKeys(Current)))  OBVIOUS
  <2>2. QED  BY <1>1, <1>2, <1>5, <2>1 DEF KeysInv
<1>13. SplitInv'
  BY <1>2 DEF SplitInv
<1>14. DeleteInv'
  <2>1. ASSUME delete_segments > 0 PROVE PerDelete \in Nat
    BY <1>1, <2>1, DeleteSizes
  <2>2. Len(<<<<>>>>) = 1 /\ <<<<>>>>[1] = <<>> /\ Len(<<>>) = 0  OBVIOUS
  <2>3. delete_segments > 0 => (1 - 1) * PerDelete + 0 = 0  BY <2>1
  <2>4. PerDelete' = PerDelete /\ delete_segments' = delete_segments
    BY <1>2 DEF PerDelete, options
  <2>5. ASSUME delete_segments > 0 PROVE delPer' \in {0, PerDelete}
    BY <1>1, <1>2, <2>5 DEF DeleteInv
  <2>6. ASSUME delete_segments > 0
        PROVE  /\ Len(del'[Current]) = 1 /\ segRows' \in 0..PerDelete
               /\ \A i \in 1..(Len(del'[Current]) - 1) : Len(del'[Current][i]) = PerDelete
               /\ Len(del'[Current][Len(del'[Current])]) = segRows'
               /\ 0 = (Len(del'[Current]) - 1) * PerDelete + segRows'
    <3>1. Len(del'[Current]) = 1 /\ del'[Current][1] = <<>>  BY <1>5, <2>2
    <3>2. segRows' = 0 /\ PerDelete \in Nat /\ 0 = (1 - 1) * PerDelete + 0
      BY <1>2, <2>1, <2>3, <2>6
    <3>3. QED  BY <2>2, <3>1, <3>2
  <2>7. QED  BY <1>3, <2>4, <2>5, <2>6 DEF DeleteInv
<1>15. SegRowsInv'
  BY <1>2, <1>3 DEF SegRowsInv
<1>16. InsertsSplitEvenly'
  <2>1. ASSUME NEW n \in Sets, n # Current, Inserted(n)' PROVE Inserted(n)
    BY <1>2, <2>1 DEF Inserted, Deleted, Ours, Current, options
  <2>2. ASSUME insert_segments > 0
        PROVE  /\ Len(ins[Current]) = IF SetRows < insert_segments THEN SetRows ELSE insert_segments
               /\ \A i, j \in 1..Len(ins[Current]) :
                    Len(ins[Current][i]) <= Len(ins[Current][j]) + 1
    <3>1. insert_segments \in Nat \ {0} /\ ins[Current] \in Seq(Seq(OrderRow))
      BY <1>1, <1>4, <2>2, Sizes DEF TypeOK
    <3>2. CASE SetRows = 0
      <4>1. ins[Current] = <<>>
        BY <1>1, <1>2, <1>4, <3>2 DEF FilesInv
      <4>2. QED  BY <3>1, <3>2, <4>1
    <3>3. CASE SetRows > 0
      <4> DEFINE g == Segment
                 k == segRows + 1
      <4>1. /\ g < insert_segments /\ Len(ins[Current]) = g + 1
            /\ \A i \in 1..g : Len(ins[Current][i]) \in {PerInsert, PerInsert + 1}
            /\ Len(ins[Current][g + 1]) = k
            /\ k \in 1..(PerInsert + (IF g < Extra THEN 1 ELSE 0))
            /\ SetRows = g * PerInsert + Smaller(g, Extra) + k
        BY <1>1, <1>2, <1>4, <2>2, <3>3 DEF SplitInv, SplitInto
      <4>2. /\ PerInsert \in Nat /\ Extra \in 0..(insert_segments - 1)
            /\ SetRows = insert_segments * PerInsert + Extra
            /\ g \in Nat /\ segRows \in Int
        BY <1>1, <2>2, InsertSizes
      <4>4. k \in Nat /\ SetRows \in Nat \ {0}
        BY <3>3, <4>1, <4>2, Sizes
      <4> HIDE DEF g, k
      <4>6. /\ g + 1 = IF SetRows < insert_segments THEN SetRows ELSE insert_segments
            /\ k \in {PerInsert, PerInsert + 1}
        <5>2. insert_segments \in Nat \ {0} /\ g < insert_segments  BY <3>1, <4>1
        <5>3. LastIn(SetRows, insert_segments, g, PerInsert, Extra, k)
          BY <4>1, <4>2, <4>4, <5>2 DEF LastIn
        <5>4. QED  BY <5>3, LastSegment
      <4>7. \A i \in 1..Len(ins[Current]) : Len(ins[Current][i]) \in {PerInsert, PerInsert + 1}
        BY <4>1, <4>2, <4>6
      <4>8. ASSUME NEW i \in 1..Len(ins[Current]), NEW j \in 1..Len(ins[Current])
            PROVE  Len(ins[Current][i]) <= Len(ins[Current][j]) + 1
        BY <4>2, <4>7
      <4>9. QED  BY <4>1, <4>6, <4>8
    <3>4. QED  BY <3>2, <3>3, Sizes
  <2>3. QED  BY <1>1, <1>2, <2>1, <2>2 DEF InsertsSplitEvenly, options
<1>17. DeletesSplitWithinLimit'
  <2>1. \A n \in Sets : Deleted(n)' => Deleted(n) /\ n # Current
    BY <1>1, <1>2, Sizes DEF Deleted, Ours, Current, options, TypeOK, Sets
  <2>2. QED  BY <1>1, <1>2, <1>5, <2>1 DEF DeletesSplitWithinLimit, options
<1>18. QED  BY <1>6, <1>7, <1>8, <1>9, <1>10, <1>11, <1>12, <1>13, <1>14, <1>15, <1>16, <1>17 DEF IInv

LEMMA EndSetIInv == IInv /\ EndSet => IInv'
<1> SUFFICES ASSUME IInv, EndSet PROVE IInv'
  OBVIOUS
<1>1. /\ TypeOK /\ LoopInv /\ ModeInv /\ FilesInv /\ SeedInv /\ RowsInv /\ KeysInv
      /\ DeleteInv /\ InsertsSplitEvenly /\ DeletesSplitWithinLimit
  BY DEF IInv
<1>2. /\ phase = "delete" /\ phase' = "next" /\ ~More /\ upd_num' = Current
      /\ UNCHANGED <<options, row, left, mode, lastMode, segRows, delPer, seed, ins, del>>
  BY DEF EndSet, Current
<1>3. Busy /\ ~Busy'
  BY <1>2 DEF Busy
<1>4. /\ Current \in Sets /\ Current \in Nat \ {0} /\ Current <= updates
      /\ Done = SetRows /\ Current = upd_num + 1 /\ upd_num \in Nat
  <2>1. Current \in Sets /\ Current \in Nat \ {0} /\ Current <= updates
    BY <1>1, <1>3, CurrentIsASet
  <2>2. Done = SetRows
    BY <1>1, <1>2, Sizes DEF TypeOK, More, Done
  <2>3. QED  BY <1>1, <2>1, <2>2 DEF Current, TypeOK
<1>5. TypeOK'
  BY <1>1, <1>2, <1>4, Sizes DEF TypeOK, options, Sets
<1>6. LoopInv'
  BY <1>1, <1>2, <1>3, <1>4, Sizes DEF LoopInv, options, TypeOK, Sets
<1>7. ModeInv'
  BY <1>1, <1>2 DEF ModeInv
<1>8. FilesInv'
  BY <1>1, <1>2, <1>3, <1>4 DEF FilesInv, Sets
<1>9. SeedInv'
  BY <1>1, <1>2 DEF SeedInv, StreamRows
<1>10. RowsInv' /\ KeysInv'
  BY <1>1, <1>2, SameFiles DEF RowsInv
<1>11. SplitInv' /\ SegRowsInv'
  BY <1>2 DEF SplitInv, SegRowsInv
<1>12. DeleteInv'
  BY <1>1, <1>2 DEF DeleteInv, PerDelete, options
<1>13. InsertsSplitEvenly'
  <2>1. ASSUME NEW n \in Sets, Inserted(n)' PROVE Inserted(n)
    BY <1>2, <1>4, <2>1 DEF Inserted, Deleted, Ours, options, Sets
  <2>2. QED  BY <1>1, <1>2, <2>1 DEF InsertsSplitEvenly, options
<1>14. DeletesSplitWithinLimit'
  <2>1. ASSUME NEW n \in Sets, n # Current, Deleted(n)' PROVE Deleted(n)
    BY <1>2, <1>4, <2>1 DEF Deleted, Ours, options, Sets
  <2>2. ASSUME delete_segments > 0, SetRows > 0
        PROVE  /\ Len(del[Current]) <= delete_segments
               /\ \A i \in 1..Len(del[Current]) :
                    /\ del[Current][i] # <<>>
                    /\ i < Len(del[Current]) => Len(del[Current][i]) = Len(del[Current][1])
    <3> DEFINE n == Len(del[Current])
    <3>1. delete_segments \in Nat \ {0} /\ del[Current] \in Seq(Seq(Nat)) /\ del[Current] # <<>>
      BY <1>1, <1>2, <1>4, <2>2, Sizes DEF TypeOK, FilesInv
    <3>2. n \in Nat \ {0}  BY <3>1
    <3>3. /\ segRows > 0 /\ segRows \in 0..PerDelete
          /\ \A i \in 1..(n - 1) : Len(del[Current][i]) = PerDelete
          /\ Len(del[Current][n]) = segRows
          /\ SetRows = (n - 1) * PerDelete + segRows
      BY <1>1, <1>2, <1>4, <2>2 DEF DeleteInv
    <3>4. PerDelete = SetRows \div delete_segments + 1 /\ PerDelete \in Nat \ {0}
      BY <1>1, <2>2, DeleteSizes
    <3>5. \A i \in 1..n : del[Current][i] \in Seq(Nat)  BY <3>1
    <3> HIDE DEF n
    <3>6. n <= delete_segments
      <4>1. n - 1 \in Nat /\ (n - 1) * PerDelete \in Nat  BY <3>2, <3>4, ProductIsNat
      <4>2. (n - 1) * PerDelete < SetRows  BY <3>3, <3>4, <4>1
      <4>3. (n - 1) * (SetRows \div delete_segments + 1) < SetRows  BY <3>4, <4>2
      <4>4. n - 1 < delete_segments  BY <3>1, <4>1, <4>3, FilesWithinLimit, Sizes
      <4>5. QED  BY <3>1, <3>2, <4>4
    <3>7. ASSUME NEW i \in 1..n PROVE Len(del[Current][i]) > 0
      BY <3>2, <3>3, <3>4
    <3>8. ASSUME NEW i \in 1..n PROVE del[Current][i] # <<>>
      BY <3>5, <3>7
    <3>9. ASSUME NEW i \in 1..n, i < n PROVE Len(del[Current][i]) = Len(del[Current][1])
      BY <3>2, <3>3, <3>9
    <3>10. QED  BY <3>6, <3>8, <3>9 DEF n
  <2>3. QED  BY <1>1, <1>2, <2>1, <2>2 DEF DeletesSplitWithinLimit, options
<1>15. QED  BY <1>5, <1>6, <1>7, <1>8, <1>9, <1>10, <1>11, <1>12, <1>13, <1>14 DEF IInv

LEMMA ExitIInv == IInv /\ Exit => IInv'
<1> SUFFICES ASSUME IInv, Exit PROVE IInv'
  OBVIOUS
<1>1. /\ phase = "next" /\ phase' = "exit"
      /\ UNCHANGED <<options, upd_num, row, left, mode, lastMode, segRows, delPer, seed, ins, del>>
  BY DEF Exit
<1>2. Busy' = Busy /\ ~Busy  BY <1>1 DEF Busy
<1>3. TypeOK'  BY <1>1 DEF IInv, TypeOK, options
<1>4. LoopInv' /\ ModeInv' /\ FilesInv'
  BY <1>1, <1>2 DEF IInv, LoopInv, ModeInv, FilesInv, options
<1>5. SeedInv' /\ RowsInv' /\ KeysInv'
  BY <1>1, SameFiles DEF IInv, SeedInv, RowsInv, StreamRows
<1>6. SplitInv' /\ DeleteInv' /\ SegRowsInv'
  BY <1>1 DEF IInv, SplitInv, DeleteInv, SegRowsInv, PerDelete, options
<1>7. InsertsSplitEvenly' /\ DeletesSplitWithinLimit'
  <2>1. \A n \in Sets : (Inserted(n)' => Inserted(n)) /\ (Deleted(n)' => Deleted(n))
    BY <1>1 DEF Inserted, Deleted, Ours, options
  <2>2. QED  BY <1>1, <2>1 DEF IInv, InsertsSplitEvenly, DeletesSplitWithinLimit, options
<1>8. QED  BY <1>3, <1>4, <1>5, <1>6, <1>7 DEF IInv

-----------------------------------------------------------------------------
(* A delete key.                                                           *)

NewKey == MK_SPARSE(row, DeleteSeq(Current))

\* Whether the step that writes the key opens a file for it.
DeleteOpens == delete_segments > 0 /\ segRows + 1 > delPer'

LEMMA DeleteOrderFacts ==
  ASSUME IInv, DeleteOrder
  PROVE  /\ DeleteOpens \in BOOLEAN
         /\ del' = [del EXCEPT ![Current] = Write(@, DeleteOpens, NewKey)]
         /\ IF delete_segments = 0 THEN UNCHANGED <<segRows, delPer>>
            ELSE delPer' = DeletePer /\ segRows' = IF DeleteOpens THEN 1 ELSE segRows + 1
<1>1. delete_segments \in Nat  BY Sizes DEF IInv, TypeOK
<1>2. CASE delete_segments = 0
  <2>1. DeleteOpens = FALSE  BY <1>2 DEF DeleteOpens
  <2>2. UNCHANGED <<segRows, delPer>>  BY <1>2 DEF DeleteOrder
  <2>3. del' = [del EXCEPT ![Current] = Write(@, FALSE, NewKey)]
    BY <1>2 DEF DeleteOrder, NewKey, Current
  <2>4. QED  BY <1>2, <2>1, <2>2, <2>3
<1>3. CASE delete_segments # 0
  <2>1. delete_segments > 0  BY <1>1, <1>3
  <2>2. delPer' = DeletePer /\ segRows' = IF segRows + 1 > delPer' THEN 1 ELSE segRows + 1
    BY <1>3 DEF DeleteOrder
  <2>3. del' = [del EXCEPT ![Current] = Write(@, segRows + 1 > delPer', NewKey)]
    BY <1>3 DEF DeleteOrder, NewKey, Current
  <2>4. CASE segRows + 1 > delPer'
    <3>1. DeleteOpens = TRUE  BY <2>1, <2>4 DEF DeleteOpens
    <3>2. (segRows + 1 > delPer') = TRUE  BY <2>4
    <3>3. del' = [del EXCEPT ![Current] = Write(@, TRUE, NewKey)]  BY <2>3, <3>2
    <3>4. QED  BY <1>3, <2>2, <2>4, <3>1, <3>3
  <2>5. CASE ~(segRows + 1 > delPer')
    <3>1. DeleteOpens = FALSE  BY <2>5 DEF DeleteOpens
    <3>2. (segRows + 1 > delPer') = FALSE  BY <2>5
    <3>3. del' = [del EXCEPT ![Current] = Write(@, FALSE, NewKey)]  BY <2>3, <3>2
    <3>4. QED  BY <1>3, <2>2, <2>5, <3>1, <3>3
  <2>6. QED  BY <2>4, <2>5
<1>4. QED  BY <1>2, <1>3

LEMMA DeleteOrderIInv == IInv /\ DeleteOrder => IInv'
<1> SUFFICES ASSUME IInv, DeleteOrder PROVE IInv'
  OBVIOUS
<1>1. /\ TypeOK /\ LoopInv /\ ModeInv /\ FilesInv /\ SeedInv /\ RowsInv /\ KeysInv
      /\ DeleteInv /\ SegRowsInv /\ InsertsSplitEvenly /\ DeletesSplitWithinLimit
  BY DEF IInv
<1>2. /\ phase = "delete" /\ phase' = "delete" /\ More
      /\ row' = row + 1 /\ left' = left - 1
      /\ UNCHANGED <<options, upd_num, mode, lastMode, seed, ins>>
  BY DEF DeleteOrder
<1>3. Busy /\ Busy' /\ Current' = Current
  BY <1>2 DEF Busy, Current
<1>4. /\ Current \in Sets /\ Current \in Nat \ {0} /\ Current <= updates
      /\ left \in 1..SetRows /\ Done \in Nat /\ Done + 1 \in 1..SetRows
      /\ Done' = Done + 1 /\ row = SetRow(Current, Done + 1)
  <2>1. /\ Current \in Sets /\ Current \in Nat \ {0} /\ Current <= updates
        /\ row = SetRow(Current, Done + 1)
    BY <1>1, <1>3, CurrentIsASet
  <2>2. left \in 1..SetRows  BY <1>1, <1>2, Sizes DEF TypeOK, More
  <2>3. QED  BY <1>2, <2>1, <2>2, Sizes DEF Done
<1>5. NewKey \in DeleteKeys(Current) /\ NewKey \in Nat
  <2>1. row \in Nat /\ DeleteSeq(Current) \in Nat  BY <1>1, <1>4, SeqIsNat DEF TypeOK
  <2>2. NewKey \in Nat  BY <2>1, OrderKeyIsNat DEF NewKey
  <2>3. QED  BY <1>4, <2>2 DEF NewKey, DeleteKeys
<1> DEFINE opens == DeleteOpens
           old == del[Current]
           new == Write(old, opens, NewKey)
<1>6. /\ opens \in BOOLEAN
      /\ opens <=> delete_segments > 0 /\ segRows + 1 > delPer'
      /\ del' = [del EXCEPT ![Current] = Write(@, opens, NewKey)]
      /\ IF delete_segments = 0 THEN UNCHANGED <<segRows, delPer>>
         ELSE delPer' = DeletePer /\ segRows' = IF opens THEN 1 ELSE segRows + 1
  <2>1. opens <=> delete_segments > 0 /\ segRows + 1 > delPer'  BY DEF DeleteOpens
  <2>2. QED  BY <2>1, DeleteOrderFacts
<1> HIDE DEF opens
<1>7. /\ old \in Seq(Seq(Nat)) /\ old # <<>> /\ old \in Seq(Seq(DeleteKeys(Current)))
      /\ Len(old) \in Nat \ {0}
  BY <1>1, <1>2, <1>4 DEF TypeOK, FilesInv, KeysInv
<1>8. /\ new \in Seq(Seq(Nat))
      /\ Len(new) = Len(old) + (IF opens THEN 1 ELSE 0)
      /\ Len(new) \in Nat \ {0}
      /\ \A i \in 1..(Len(new) - 1) : new[i] = old[i]
      /\ new[Len(new)] = IF opens THEN <<NewKey>> ELSE Append(old[Len(old)], NewKey)
  <2> HIDE DEF old
  <2>1. old \in Seq(Seq(Nat)) /\ opens \in BOOLEAN /\ NewKey \in Nat /\ old # <<>>
    BY <1>5, <1>6, <1>7
  <2>2. new \in Seq(Seq(Nat)) /\ OneMore(new, old, opens, NewKey)
    BY <2>1, WriteAppends
  <2>3. QED  BY <2>2 DEF OneMore
<1>9. new \in Seq(Seq(DeleteKeys(Current)))
  <2> HIDE DEF old
  <2>1. /\ old \in Seq(Seq(DeleteKeys(Current))) /\ opens \in BOOLEAN
        /\ NewKey \in DeleteKeys(Current) /\ old # <<>>
    BY <1>5, <1>6, <1>7
  <2>2. QED  BY <2>1, WriteAppends
<1>10. del'[Current] = new /\ \A n \in Sets \ {Current} : del'[n] = del[n]
  BY <1>1, <1>4, <1>6 DEF TypeOK
<1>11. del' \in [Sets -> Seq(Seq(Nat))]
  <2> HIDE DEF new
  <2>1. del' = [del EXCEPT ![Current] = new]  BY <1>6 DEF new
  <2>2. QED  BY <1>1, <1>8, <2>1 DEF TypeOK
<1> HIDE DEF new, old
<1>12. SegRowsInv'
  <2>1. segRows \in 0..Done  BY <1>1, <1>2 DEF SegRowsInv
  <2>2. segRows' \in 0..(Done + 1)  BY <1>4, <1>6, <2>1
  <2>3. QED  BY <1>2, <1>4, <2>2 DEF SegRowsInv
<1>13. ASSUME delete_segments > 0
       PROVE  delPer' = PerDelete /\ PerDelete \in Nat \ {0} /\ PerDelete <= SetRows + 1
  <2>1. PerDelete = SetRows \div delete_segments + 1 /\ PerDelete \in Nat \ {0}
        /\ PerDelete <= SetRows + 1
    BY <1>1, <1>13, DeleteSizes
  <2>2. delPer' = DeletePer  BY <1>6, <1>13
  <2>3. delPer \in {0, PerDelete} /\ (Done > 0 => delPer = PerDelete)
    BY <1>1, <1>2, <1>13 DEF DeleteInv
  <2>4. Done = 0 => left = SetRows  BY <1>4, Sizes DEF Done
  <2>5. QED  BY <1>4, <2>1, <2>2, <2>3, <2>4 DEF DeletePer
<1>14. TypeOK'
  <2>1. delPer' \in 0..(SetRows + 1)
    <3>1. CASE delete_segments = 0  BY <1>1, <1>6, <3>1 DEF TypeOK
    <3>2. CASE delete_segments # 0
      <4>1. delete_segments > 0  BY <1>1, <3>2, Sizes DEF TypeOK
      <4>2. QED  BY <1>13, <4>1, Sizes
    <3>3. QED  BY <3>1, <3>2
  <2>2. segRows' \in -1..SetRows
    <3>1. segRows' \in 0..Done'  BY <1>2, <1>12 DEF SegRowsInv
    <3>2. QED  BY <1>4, <3>1, Sizes
  <2>3. row' \in Nat /\ left' \in 0..SetRows  BY <1>1, <1>2, <1>4, Sizes DEF TypeOK
  <2>4. QED  BY <1>1, <1>2, <1>11, <2>1, <2>2, <2>3 DEF TypeOK, options
<1>15. LoopInv'
  <2>1. row' = SetRow(Current, (Done + 1) + 1)
    <3>1. Done + 1 \in Nat  BY <1>4
    <3>2. SetRow(Current, (Done + 1) + 1) = SetRow(Current, Done + 1) + 1
      BY <1>4, <3>1, SetRowIsNat
    <3>3. QED  BY <1>2, <1>4, <3>2
  <2>2. QED  BY <1>1, <1>2, <1>3, <1>4, <2>1 DEF LoopInv, options
<1>16. ModeInv'
  BY <1>1, <1>2, <1>3 DEF ModeInv
<1>17. FilesInv'
  <2>1. new # <<>>
    <3>1. Len(new) \in Nat \ {0}  BY <1>8
    <3>2. QED  BY <3>1
  <2>2. QED  BY <1>1, <1>2, <1>3, <1>4, <1>10, <2>1 DEF FilesInv
<1>18. SeedInv'
  BY <1>1, <1>2, <1>3 DEF SeedInv, StreamRows
<1>19. RowsInv'
  BY <1>1, <1>2 DEF RowsInv, SetsCanonical
<1>20. KeysInv'
  BY <1>1, <1>2, <1>9, <1>10 DEF KeysInv
<1>21. SplitInv'
  BY <1>2 DEF SplitInv
<1>22. DeleteInv'
  <2>1. PerDelete' = PerDelete /\ delete_segments' = delete_segments
    BY <1>2 DEF PerDelete, options
  <2>2. SUFFICES ASSUME delete_segments > 0
        PROVE  /\ segRows' > 0 /\ segRows' \in 0..PerDelete
               /\ \A i \in 1..(Len(new) - 1) : Len(new[i]) = PerDelete
               /\ Len(new[Len(new)]) = segRows'
               /\ Done + 1 = (Len(new) - 1) * PerDelete + segRows'
    BY <1>2, <1>3, <1>4, <1>10, <1>13, <2>1 DEF DeleteInv
  <2>3. /\ segRows \in 0..PerDelete
        /\ \A i \in 1..(Len(old) - 1) : Len(old[i]) = PerDelete
        /\ Len(old[Len(old)]) = segRows
        /\ Done = (Len(old) - 1) * PerDelete + segRows
    BY <1>1, <1>2, <2>2 DEF DeleteInv, old
  <2>4. PerDelete \in Nat \ {0} /\ opens <=> segRows + 1 > PerDelete
    BY <1>6, <1>13, <2>2
  <2>5. segRows' = IF opens THEN 1 ELSE segRows + 1
    BY <1>1, <1>6, <2>2
  <2>6. CASE opens
    <3>1. segRows = PerDelete /\ segRows' = 1  BY <1>13, <2>2, <2>3, <2>4, <2>5, <2>6
    <3>2. Len(new) = Len(old) + 1 /\ new[Len(new)] = <<NewKey>>  BY <1>8, <2>6
    <3>3. \A i \in 1..Len(old) : Len(new[i]) = PerDelete
      <4>1. Len(new) - 1 = Len(old)  BY <1>7, <3>2
      <4>2. ASSUME NEW i \in 1..Len(old) PROVE Len(old[i]) = PerDelete
        BY <1>7, <2>3, <3>1
      <4>3. \A i \in 1..Len(old) : new[i] = old[i]  BY <1>8, <4>1
      <4>4. QED  BY <4>2, <4>3
    <3>4. (Len(old) - 1) * PerDelete + PerDelete = Len(old) * PerDelete
      BY <1>7, <1>13, <2>2
    <3>5. Len(old) * PerDelete \in Nat  BY <1>7, <1>13, <2>2, ProductIsNat
    <3>6. (Len(old) + 1) - 1 = Len(old) /\ Len(<<NewKey>>) = 1  BY <1>7
    <3>7. QED  BY <1>4, <1>13, <2>2, <2>3, <3>1, <3>2, <3>3, <3>4, <3>5, <3>6
  <2>7. CASE ~opens
    <3>1. segRows + 1 <= PerDelete /\ segRows' = segRows + 1
      BY <1>13, <2>2, <2>3, <2>4, <2>5, <2>7
    <3>2. Len(new) = Len(old) /\ new[Len(new)] = Append(old[Len(old)], NewKey)
      BY <1>7, <1>8, <2>7
    <3>3. Len(Append(old[Len(old)], NewKey)) = segRows + 1
      <4>1. old[Len(old)] \in Seq(Nat)  BY <1>7
      <4>2. QED  BY <1>5, <2>3, <4>1, AppendProperties
    <3>4. \A i \in 1..(Len(new) - 1) : Len(new[i]) = PerDelete
      BY <1>8, <2>3, <3>2
    <3>5. (Len(old) - 1) * PerDelete \in Nat
      <4>1. Len(old) - 1 \in Nat  BY <1>7
      <4>2. QED  BY <1>13, <2>2, <4>1, ProductIsNat
    <3>6. QED  BY <1>4, <1>13, <2>2, <2>3, <3>1, <3>2, <3>3, <3>4, <3>5
  <2>8. QED  BY <2>6, <2>7
<1>23. InsertsSplitEvenly'
  <2>1. \A n \in Sets : Inserted(n)' => Inserted(n)
    BY <1>2 DEF Inserted, Deleted, Ours, options
  <2>2. QED  BY <1>1, <1>2, <2>1 DEF InsertsSplitEvenly, options
<1>24. DeletesSplitWithinLimit'
  <2>1. \A n \in Sets : Deleted(n)' => Deleted(n) /\ n # Current
    BY <1>1, <1>2, Sizes DEF Deleted, Ours, Current, options, TypeOK, Sets
  <2>2. QED  BY <1>1, <1>2, <1>10, <2>1 DEF DeletesSplitWithinLimit, options
<1>25. QED
  BY <1>12, <1>14, <1>15, <1>16, <1>17, <1>18, <1>19, <1>20, <1>21, <1>22, <1>23, <1>24 DEF IInv

-----------------------------------------------------------------------------
(* An order.                                                               *)

Ends == insert_segments > 0 /\ segRows + 1 >= SegmentRows

NewOrder == [key |-> OrderKey(row, InsertSeq(mode % ModeUnit)),
             at  |-> [s \in Reads("ORDER_LINE") |-> seed[s]]]

\* Whether the step that writes the order opens a file for it.
InsertOpens == mode' # lastMode

LEMMA GenOrderFacts ==
  ASSUME GenOrder
  PROVE  /\ mode' = IF Ends THEN mode + ModeUnit ELSE mode
         /\ segRows' = IF Ends THEN 0
                       ELSE IF insert_segments > 0 THEN segRows + 1 ELSE segRows
         /\ ins' = [ins EXCEPT ![Current] = Write(@, InsertOpens, NewOrder)]
         /\ lastMode' = mode'
         /\ \E draws \in Draws("ORDER_LINE") : seed' = AfterRow("ORDER_LINE", seed, draws)
<1>1. /\ mode' = IF Ends THEN mode + ModeUnit ELSE mode
      /\ segRows' = IF Ends THEN 0
                    ELSE IF insert_segments > 0 THEN segRows + 1 ELSE segRows
  BY DEF GenOrder, Ends
<1>2. ins' = [ins EXCEPT ![Current] = Write(@, InsertOpens, NewOrder)]
  BY DEF GenOrder, Current, InsertOpens, NewOrder
<1>3. lastMode' = mode' /\ \E draws \in Draws("ORDER_LINE") : seed' = AfterRow("ORDER_LINE", seed, draws)
  BY DEF GenOrder
<1>4. QED  BY <1>1, <1>2, <1>3

\* The order is the next of its set, and stands where it should in the streams.
LEMMA NewOrderIsCanonical ==
  ASSUME TypeOK, LoopInv, ModeInv, SeedInv, phase = "insert", left > 0
  PROVE  /\ NewOrder = [key |-> OrderKey(SetRow(Current, Done + 1), InsertSeq(Current)),
                        at  |-> [s \in Reads("ORDER_LINE") |->
                                   (Orders + SetRow(Current, Done + 1) - 1) * Boundary(s)]]
         /\ NewOrder \in SetOrders(Current)
         /\ NewOrder \in OrderRow
<1>1. /\ Current \in Nat \ {0} /\ row = SetRow(Current, Done + 1)
      /\ Done + 1 \in 1..SetRows
  BY CurrentIsASet, Sizes DEF Busy, TypeOK, Done
<1>2. mode % ModeUnit = Current
  BY DEF ModeInv
<1>3. row \in Nat
  BY DEF TypeOK
<1>4. ASSUME NEW s \in Reads("ORDER_LINE")
      PROVE  seed[s] = (Orders + SetRow(Current, Done + 1) - 1) * Boundary(s) /\ seed[s] \in Nat
  <2>1. seed[s] = (Orders + (row - 1)) * Boundary(s)  BY DEF SeedInv, StreamRows
  <2>2. Orders + (row - 1) = Orders + row - 1  BY <1>3, Sizes
  <2>3. seed[s] \in Nat  BY OrderReads DEF TypeOK
  <2>4. QED  BY <1>1, <2>1, <2>2, <2>3
<1>5. NewOrder = [key |-> OrderKey(SetRow(Current, Done + 1), InsertSeq(Current)),
                  at  |-> [s \in Reads("ORDER_LINE") |->
                             (Orders + SetRow(Current, Done + 1) - 1) * Boundary(s)]]
  BY <1>1, <1>2, <1>4 DEF NewOrder
<1>6. NewOrder \in OrderRow
  <2>1. NewOrder.key \in Nat
    <3>1. OrderKey(row, InsertSeq(Current)) \in Nat
      BY <1>1, <1>3, SeqIsNat, OrderKeyIsNat
    <3>2. QED  BY <1>2, <3>1 DEF NewOrder
  <2>2. NewOrder.at \in [Reads("ORDER_LINE") -> Nat]  BY <1>4 DEF NewOrder
  <2>3. QED  BY <2>1, <2>2 DEF NewOrder, OrderRow
<1>7. NewOrder.key \in InsertKeys(Current)
  BY <1>1, <1>5 DEF InsertKeys
<1>8. QED  BY <1>5, <1>6, <1>7 DEF SetOrders

\* The mode keeps the set, and a set's first order opens a file.
LEMMA InsertOpensFirst ==
  ASSUME TypeOK, LoopInv, ModeInv, FilesInv, phase = "insert", GenOrder
  PROVE  /\ mode' \in Nat /\ mode' % ModeUnit = Current
         /\ InsertOpens \in BOOLEAN
         /\ Done = 0 => InsertOpens
         /\ Done > 0 => (InsertOpens <=> Ends)
         /\ ins[Current] # <<>> \/ InsertOpens
<1>1. mode' = IF Ends THEN mode + ModeUnit ELSE mode
  BY GenOrderFacts
<1>2. mode \in Nat /\ ModeUnit \in Nat \ {0} /\ mode % ModeUnit = Current
  BY Sizes DEF TypeOK, ModeInv
<1>3. mode' \in Nat /\ mode' % ModeUnit = Current
  <2>1. (mode + ModeUnit) % ModeUnit = mode % ModeUnit  BY <1>2, DivideNext
  <2>2. mode + ModeUnit \in Nat  BY <1>2
  <2>3. QED  BY <1>1, <1>2, <2>1, <2>2
<1>4. Done = 0 => InsertOpens
  <2>1. ASSUME Done = 0 PROVE lastMode % ModeUnit <= upd_num
    BY <2>1 DEF ModeInv
  <2>2. Current = upd_num + 1 /\ upd_num \in Nat  BY DEF Current, TypeOK
  <2>3. lastMode % ModeUnit \in Int  BY <1>2, Division DEF TypeOK
  <2>4. QED  BY <1>3, <2>1, <2>2, <2>3 DEF InsertOpens
<1>5. Done > 0 => (InsertOpens <=> Ends)
  BY <1>1, <1>2 DEF ModeInv, InsertOpens
<1>6. ins[Current] # <<>> \/ InsertOpens
  BY <1>4 DEF FilesInv
<1>7. QED  BY <1>3, <1>4, <1>5, <1>6 DEF InsertOpens

\* The order's segment.
LEMMA GenOrderSplits ==
  ASSUME IInv, GenOrder, insert_segments > 0, NEW old, NEW new, NEW x \in OrderRow,
         old = ins[Current], old \in Seq(Seq(OrderRow)), OneMore(new, old, InsertOpens, x),
         Done' = Done + 1, Done \in Nat, Done < SetRows, phase = "insert",
         Done = 0 => InsertOpens, Done > 0 => (InsertOpens <=> Ends)
  PROVE  SplitInto(new, Segment', segRows', Done + 1)
<1>1. /\ insert_segments \in Nat \ {0}
      /\ PerInsert \in Nat /\ Extra \in 0..(insert_segments - 1)
      /\ SetRows = insert_segments * PerInsert + Extra
      /\ Segment \in Nat /\ segRows \in Int
      /\ SegmentRows = PerInsert + (IF Segment < Extra THEN 1 ELSE 0)
  BY InsertSizes DEF IInv
<1>2. /\ mode' = IF Ends THEN mode + ModeUnit ELSE mode
      /\ segRows' = IF Ends THEN 0 ELSE segRows + 1
  BY GenOrderFacts
<1>3. Segment' = IF Ends THEN Segment + 1 ELSE Segment
  <2>1. mode \in Nat /\ ModeUnit \in Nat \ {0}  BY Sizes DEF IInv, TypeOK
  <2>2. (mode + ModeUnit) \div ModeUnit = mode \div ModeUnit + 1  BY <2>1, DivideNext
  <2>3. QED  BY <1>2, <2>2 DEF Segment
<1>4. Ends <=> segRows + 1 >= SegmentRows
  BY DEF Ends
<1>5. SplitInv  BY DEF IInv
<1>6. Len(<<x>>) = 1  OBVIOUS
<1>7. CASE Done = 0
  <2>1. segRows = -1 /\ Segment = 0 /\ old = <<>>
    BY <1>5, <1>7 DEF SplitInv, IInv, FilesInv
  <2>2. SegmentRows >= 1
    <3>1. ASSUME PerInsert = 0 PROVE Extra > 0
      <4>1. insert_segments * PerInsert = 0  BY <1>1, <3>1
      <4>2. QED  BY <1>1, <1>7, <4>1
    <3>2. QED  BY <1>1, <2>1, <3>1
  <2>3. ~Ends /\ segRows' = 0 /\ Segment' = 0
    BY <1>1, <1>2, <1>3, <1>4, <2>1, <2>2
  <2>4. Len(new) = 1 /\ new[1] = <<x>>
    <3>1. InsertOpens  BY <1>7
    <3>2. Len(old) = 0  BY <2>1
    <3>3. QED  BY <3>1, <3>2 DEF OneMore
  <2>5. 0 * PerInsert + Smaller(0, Extra) + (0 + 1) = 1
    BY <1>1 DEF Smaller
  <2>6. 0 + 1 \in 1..(PerInsert + (IF 0 < Extra THEN 1 ELSE 0))
    BY <1>1, <2>1, <2>2
  <2>7. SplitInto(new, 0, 0, Done + 1)
    <3>1. 0 < insert_segments /\ Len(new) = 0 + 1 /\ Len(new[0 + 1]) = 0 + 1
      <4>1. 0 + 1 = 1  OBVIOUS
      <4>2. 0 < insert_segments  BY <1>1
      <4>3. Len(new) = 1  BY <2>4
      <4>4. Len(new[1]) = 1  BY <1>6, <2>4, Zenon
      <4>5. QED  BY <4>1, <4>2, <4>3, <4>4, Zenon
    <3>2. \A i \in 1..0 : Len(new[i]) \in {PerInsert, PerInsert + 1}  OBVIOUS
    <3>3. Done + 1 = 0 * PerInsert + Smaller(0, Extra) + (0 + 1)  BY <1>7, <2>5
    <3>4. QED  BY <2>6, <3>1, <3>2, <3>3, Zenon DEF SplitInto
  <2>8. QED  BY <2>3, <2>7
<1>8. CASE Done > 0
  <2>1. /\ Segment < insert_segments
        /\ Len(old) = Segment + 1
        /\ \A i \in 1..Segment : Len(old[i]) \in {PerInsert, PerInsert + 1}
        /\ Len(old[Segment + 1]) = segRows + 1
        /\ segRows + 1 \in 1..SegmentRows
        /\ Done = Segment * PerInsert + Smaller(Segment, Extra) + (segRows + 1)
    BY <1>1, <1>5, <1>8 DEF SplitInv, SplitInto
  <2>2. CASE Ends
    <3>1. segRows + 1 = SegmentRows /\ segRows' = 0 /\ Segment' = Segment + 1
      BY <1>1, <1>2, <1>3, <1>4, <2>1, <2>2
    <3>2. FullIn(SetRows, insert_segments, Segment, PerInsert, Extra, Done)
      <4>1. Done = Segment * PerInsert + Smaller(Segment, Extra)
                    + (PerInsert + (IF Segment < Extra THEN 1 ELSE 0))
        BY <1>1, <2>1, <3>1
      <4>2. QED  BY <1>1, <2>1, <4>1, Sizes DEF FullIn
    <3>3. /\ Segment + 1 < insert_segments
          /\ Done = (Segment + 1) * PerInsert + Smaller(Segment + 1, Extra)
          /\ PerInsert + (IF Segment + 1 < Extra THEN 1 ELSE 0) >= 1
      BY <3>2, NextSegment
    <3>4. Len(new) = Segment + 2 /\ new[Segment + 2] = <<x>>
          /\ \A i \in 1..(Segment + 1) : new[i] = old[i]
      <4>1. InsertOpens  BY <1>8, <2>2
      <4>2. Len(new) = (Segment + 1) + 1 /\ (Segment + 1) + 1 = Segment + 2 /\ Segment + 2 - 1 = Segment + 1
        BY <1>1, <2>1, <4>1 DEF OneMore
      <4>3. Len(new) = Segment + 2 /\ Len(new) - 1 = Segment + 1  BY <1>1, <4>2
      <4>4. new[Len(new)] = <<x>>  BY <4>1 DEF OneMore
      <4>5. \A i \in 1..(Len(new) - 1) : new[i] = old[i]  BY DEF OneMore
      <4>6. QED  BY <4>3, <4>4, <4>5
    <3>5. ASSUME NEW i \in 1..(Segment + 1) PROVE Len(new[i]) \in {PerInsert, PerInsert + 1}
      <4>1. CASE i = Segment + 1
        <5>1. Len(old[Segment + 1]) = SegmentRows  BY <2>1, <3>1
        <5>2. SegmentRows \in {PerInsert, PerInsert + 1}  BY <1>1
        <5>3. QED  BY <3>4, <4>1, <5>1, <5>2
      <4>2. CASE i # Segment + 1
        <5>1. i \in 1..Segment  BY <1>1, <4>2
        <5>2. QED  BY <2>1, <3>4, <5>1
      <4>3. QED  BY <4>1, <4>2
    <3>6. Done + 1 = (Segment + 1) * PerInsert + Smaller(Segment + 1, Extra) + (0 + 1)
      BY <3>3
    <3>7. (Segment + 1) + 1 = Segment + 2  BY <1>1
    <3>8. Len(new[Segment + 2]) = 1  BY <1>6, <3>4
    <3>9. 0 + 1 \in 1..(PerInsert + (IF Segment + 1 < Extra THEN 1 ELSE 0))
      BY <1>1, <3>3
    <3>10. SplitInto(new, Segment + 1, 0, Done + 1)
      <4>1. Len(new) = (Segment + 1) + 1 /\ Len(new[(Segment + 1) + 1]) = 0 + 1
        <5>1. 0 + 1 = 1  OBVIOUS
        <5>2. Len(new) = (Segment + 1) + 1  BY <3>4, <3>7
        <5>3. Len(new[(Segment + 1) + 1]) = 1  BY <3>7, <3>8
        <5>4. QED  BY <5>1, <5>2, <5>3, Zenon
      <4>2. QED  BY <3>3, <3>5, <3>6, <3>9, <4>1, Zenon DEF SplitInto
    <3>11. QED  BY <3>1, <3>10
  <2>3. CASE ~Ends
    <3>1. segRows + 1 < SegmentRows /\ segRows' = segRows + 1 /\ Segment' = Segment
      BY <1>1, <1>2, <1>3, <1>4, <2>1, <2>3
    <3>2. Len(new) = Segment + 1 /\ new[Segment + 1] = Append(old[Segment + 1], x)
          /\ \A i \in 1..Segment : new[i] = old[i]
      <4>1. ~InsertOpens  BY <1>8, <2>3
      <4>2. Len(new) = Segment + 1 /\ (Segment + 1) - 1 = Segment
        BY <1>1, <2>1, <4>1 DEF OneMore
      <4>3. QED  BY <2>1, <4>1, <4>2 DEF OneMore
    <3>3. Len(new[Segment + 1]) = segRows' + 1
      <4>1. Segment + 1 \in 1..Len(old)  BY <1>1, <2>1
      <4>2. old[Segment + 1] \in Seq(OrderRow)  BY <4>1
      <4>3. Len(Append(old[Segment + 1], x)) = Len(old[Segment + 1]) + 1
        BY <4>2, AppendProperties
      <4>4. QED  BY <2>1, <3>1, <3>2, <4>3
    <3>4. \A i \in 1..Segment : Len(new[i]) \in {PerInsert, PerInsert + 1}
      BY <2>1, <3>2
    <3>5. Done + 1 = Segment * PerInsert + Smaller(Segment, Extra) + (segRows' + 1)
      <4>1. Smaller(Segment, Extra) \in Nat /\ Segment * PerInsert \in Nat
        BY <1>1, ProductIsNat DEF Smaller
      <4>2. QED  BY <1>1, <2>1, <3>1, <4>1
    <3>6. segRows' + 1 \in 1..(PerInsert + (IF Segment < Extra THEN 1 ELSE 0))
      BY <1>1, <2>1, <3>1
    <3>7. SplitInto(new, Segment, segRows', Done + 1)
      BY <2>1, <3>2, <3>3, <3>4, <3>5, <3>6 DEF SplitInto
    <3>8. QED  BY <3>1, <3>7
  <2>4. QED  BY <2>2, <2>3
<1>9. QED  BY <1>7, <1>8

LEMMA GenOrderIInv == IInv /\ GenOrder => IInv'
<1> SUFFICES ASSUME IInv, GenOrder PROVE IInv'
  OBVIOUS
<1>1. /\ TypeOK /\ LoopInv /\ ModeInv /\ FilesInv /\ SeedInv /\ RowsInv /\ KeysInv
      /\ DeleteInv /\ SegRowsInv /\ InsertsSplitEvenly /\ DeletesSplitWithinLimit
  BY DEF IInv
<1>2. /\ phase = "insert" /\ phase' = "insert" /\ More
      /\ row' = row + 1 /\ left' = left - 1
      /\ UNCHANGED <<options, upd_num, delPer, del>>
  BY DEF GenOrder
<1>3. Busy /\ Busy' /\ Current' = Current
  BY <1>2 DEF Busy, Current
<1>4. /\ Current \in Sets /\ Current \in Nat \ {0} /\ Current <= updates
      /\ left \in 1..SetRows /\ Done \in Nat /\ Done + 1 \in 1..SetRows /\ Done < SetRows
      /\ Done' = Done + 1 /\ row = SetRow(Current, Done + 1)
  <2>1. /\ Current \in Sets /\ Current \in Nat \ {0} /\ Current <= updates
        /\ row = SetRow(Current, Done + 1)
    BY <1>1, <1>3, CurrentIsASet
  <2>2. left \in 1..SetRows  BY <1>1, <1>2, Sizes DEF TypeOK, More
  <2>3. QED  BY <1>2, <2>1, <2>2, Sizes DEF Done
<1>5. /\ mode' = IF Ends THEN mode + ModeUnit ELSE mode
      /\ segRows' = IF Ends THEN 0
                    ELSE IF insert_segments > 0 THEN segRows + 1 ELSE segRows
      /\ ins' = [ins EXCEPT ![Current] = Write(@, InsertOpens, NewOrder)]
      /\ lastMode' = mode'
  BY GenOrderFacts
<1>6. /\ NewOrder = [key |-> OrderKey(SetRow(Current, Done + 1), InsertSeq(Current)),
                     at  |-> [s \in Reads("ORDER_LINE") |->
                                (Orders + SetRow(Current, Done + 1) - 1) * Boundary(s)]]
      /\ NewOrder \in SetOrders(Current) /\ NewOrder \in OrderRow
  <2>1. left > 0  BY <1>4
  <2>2. QED  BY <1>1, <1>2, <2>1, NewOrderIsCanonical
<1>7. /\ mode' \in Nat /\ mode' % ModeUnit = Current /\ InsertOpens \in BOOLEAN
      /\ Done = 0 => InsertOpens
      /\ Done > 0 => (InsertOpens <=> Ends)
      /\ ins[Current] # <<>> \/ InsertOpens
  BY <1>1, <1>2, InsertOpensFirst
<1> DEFINE opens == InsertOpens
           old == ins[Current]
           new == Write(old, opens, NewOrder)
<1>8. old \in Seq(Seq(OrderRow)) /\ old \in Seq(Seq(SetOrders(Current)))
  BY <1>1, <1>4 DEF TypeOK, KeysInv
<1>9. /\ new \in Seq(Seq(OrderRow))
      /\ OneMore(new, old, opens, NewOrder)
      /\ FlattenSeq(new) = Append(FlattenSeq(old), NewOrder)
  <2> HIDE DEF old, opens
  <2>1. old # <<>> \/ opens  BY <1>7 DEF old, opens
  <2>2. opens \in BOOLEAN  BY <1>7 DEF opens
  <2>3. NewOrder \in OrderRow /\ old \in Seq(Seq(OrderRow))  BY <1>6, <1>8
  <2>4. QED  BY <2>1, <2>2, <2>3, WriteAppends
<1>10. new \in Seq(Seq(SetOrders(Current)))
  <2> HIDE DEF old, opens
  <2>1. old # <<>> \/ opens  BY <1>7 DEF old, opens
  <2>2. opens \in BOOLEAN  BY <1>7 DEF opens
  <2>3. NewOrder \in SetOrders(Current) /\ old \in Seq(Seq(SetOrders(Current)))  BY <1>6, <1>8
  <2>4. QED  BY <2>1, <2>2, <2>3, WriteAppends
<1>11. ins'[Current] = new /\ \A n \in Sets \ {Current} : ins'[n] = ins[n]
  BY <1>1, <1>4, <1>5 DEF TypeOK
<1>12. ins' \in [Sets -> Seq(Seq(OrderRow))]
  <2> HIDE DEF new
  <2>1. ins' = [ins EXCEPT ![Current] = new]  BY <1>5 DEF new
  <2>2. QED  BY <1>1, <1>9, <2>1 DEF TypeOK
<1> HIDE DEF new, old, opens
<1>13. PICK draws \in Draws("ORDER_LINE") : seed' = AfterRow("ORDER_LINE", seed, draws)
  BY GenOrderFacts
<1>14. /\ seed' \in [Streams -> Nat]
       /\ \A s \in Reads("ORDER_LINE") : seed'[s] = seed[s] + Boundary(s)
  <2>1. seed \in [Streams -> Nat]  BY <1>1 DEF TypeOK
  <2>2. QED  BY <1>13, <2>1, OrderMovesOneBoundary
<1>15. SegRowsInv'
  <2>1. segRows \in -1..(Done - 1)  BY <1>1, <1>2 DEF SegRowsInv
  <2>2. segRows' \in -1..((Done + 1) - 1)  BY <1>4, <1>5, <2>1
  <2>3. QED  BY <1>2, <1>4, <2>2 DEF SegRowsInv
<1>16. TypeOK'
  <2>1. segRows' \in -1..SetRows
    <3>1. segRows' \in -1..(Done' - 1)  BY <1>2, <1>15 DEF SegRowsInv
    <3>2. QED  BY <1>4, <3>1, Sizes
  <2>2. row' \in Nat /\ left' \in 0..SetRows  BY <1>1, <1>2, <1>4, Sizes DEF TypeOK
  <2>3. lastMode' \in Nat  BY <1>5, <1>7
  <2>4. QED  BY <1>1, <1>2, <1>7, <1>12, <1>14, <2>1, <2>2, <2>3 DEF TypeOK, options
<1>17. LoopInv'
  <2>1. row' = SetRow(Current, (Done + 1) + 1)
    <3>1. Done + 1 \in Nat  BY <1>4
    <3>2. SetRow(Current, (Done + 1) + 1) = SetRow(Current, Done + 1) + 1
      BY <1>4, <3>1, SetRowIsNat
    <3>3. QED  BY <1>2, <1>4, <3>2
  <2>2. QED  BY <1>1, <1>2, <1>3, <1>4, <2>1 DEF LoopInv, options
<1>18. ModeInv'
  <2>1. lastMode' % ModeUnit <= Current /\ lastMode' = mode'  BY <1>4, <1>5, <1>7
  <2>2. Done' > 0  BY <1>4
  <2>3. QED  BY <1>2, <1>3, <1>7, <2>1, <2>2 DEF ModeInv
<1>19. FilesInv'
  <2>1. new # <<>>
    <3>1. Len(new) \in Nat \ {0}  BY <1>9 DEF OneMore
    <3>2. QED  BY <3>1
  <2>2. ins'[Current'] # <<>> /\ Done' # 0  BY <1>3, <1>4, <1>11, <2>1
  <2>3. del'[Current'] = <<>>  BY <1>1, <1>2, <1>3 DEF FilesInv
  <2>4. \A n \in Sets : n > upd_num /\ n # Current => ins[n] = <<>> /\ del[n] = <<>>
    BY <1>1, <1>3 DEF FilesInv
  <2>5. \A n \in Sets : n > upd_num' /\ n # Current' => ins'[n] = <<>> /\ del'[n] = <<>>
    BY <1>2, <1>3, <1>11, <2>4
  <2>6. QED  BY <1>2, <1>3, <2>2, <2>3, <2>5 DEF FilesInv
<1>20. SeedInv'
  <2>1. ASSUME NEW s \in Reads("ORDER_LINE")
        PROVE  seed'[s] = (Orders + (row' - 1)) * Boundary(s)
    <3>1. Boundary(s) \in Nat  BY OrderReads, BoundaryIsPositive
    <3>2. seed[s] = (Orders + (row - 1)) * Boundary(s)  BY <1>1, <1>2 DEF SeedInv, StreamRows
    <3>3. row \in Nat  BY <1>1 DEF TypeOK
    <3>4. (Orders + (row - 1)) * Boundary(s) + Boundary(s) = ((Orders + (row - 1)) + 1) * Boundary(s)
      BY <3>1, <3>3, Sizes
    <3>5. (Orders + (row - 1)) + 1 = Orders + (row' - 1)  BY <1>2, <3>3, Sizes
    <3>6. seed'[s] = seed[s] + Boundary(s)  BY <1>14
    <3>7. QED  BY <3>2, <3>4, <3>5, <3>6
  <2>2. QED  BY <1>2, <2>1 DEF SeedInv, StreamRows
<1>21. RowsInv'
  <2> DEFINE rows == FlattenSeq(old)
  <2>1. rows \in Seq(OrderRow) /\ Len(rows) = Done /\ FlattenSeq(new) = Append(rows, NewOrder)
    <3>1. rows \in Seq(OrderRow)  BY <1>8, FlattenType
    <3>2. Len(rows) = Done  BY <1>1, <1>2 DEF RowsInv, old
    <3>3. QED  BY <1>9, <3>1, <3>2
  <2>2. \A k \in 1..Len(rows) :
          rows[k] = [key |-> OrderKey(SetRow(Current, k), InsertSeq(Current)),
                     at  |-> [s \in Reads("ORDER_LINE") |->
                                (Orders + SetRow(Current, k) - 1) * Boundary(s)]]
    BY <1>1, <1>4 DEF RowsInv, SetsCanonical, old
  <2> HIDE DEF rows
  <2>3. /\ Len(FlattenSeq(new)) = Done + 1 /\ FlattenSeq(new)[Done + 1] = NewOrder
        /\ \A k \in 1..Done : FlattenSeq(new)[k] = rows[k]
    BY <1>6, <2>1, AppendProperties
  <2>4. ASSUME NEW k \in 1..Len(FlattenSeq(new))
        PROVE  FlattenSeq(new)[k] = [key |-> OrderKey(SetRow(Current, k), InsertSeq(Current)),
                                     at  |-> [s \in Reads("ORDER_LINE") |->
                                                (Orders + SetRow(Current, k) - 1) * Boundary(s)]]
    <3>1. CASE k = Done + 1  BY <1>6, <2>3, <3>1
    <3>2. CASE k # Done + 1
      <4>1. k \in 1..Done  BY <1>4, <2>3, <3>2
      <4>2. QED  BY <2>1, <2>2, <2>3, <4>1
    <3>3. QED  BY <3>1, <3>2
  <2>5. SetsCanonical'
    <3> SUFFICES ASSUME NEW n \in Sets, NEW k \in 1..Len(FlattenSeq(ins'[n]))
                 PROVE  FlattenSeq(ins'[n])[k]
                          = [key |-> OrderKey(SetRow(n, k), InsertSeq(n)),
                             at  |-> [s \in Reads("ORDER_LINE") |->
                                        (Orders + SetRow(n, k) - 1) * Boundary(s)]]
      BY DEF SetsCanonical
    <3>1. CASE n = Current  BY <1>11, <2>4, <3>1
    <3>2. CASE n # Current  BY <1>1, <1>11, <3>2 DEF RowsInv, SetsCanonical
    <3>3. QED  BY <3>1, <3>2
  <2>6. QED  BY <1>2, <1>3, <1>4, <1>11, <2>3, <2>5 DEF RowsInv
<1>22. KeysInv'
  BY <1>1, <1>2, <1>10, <1>11 DEF KeysInv
<1>23. SplitInv'
  <2>1. SUFFICES ASSUME insert_segments > 0
                 PROVE  SplitInto(new, Segment', segRows', Done + 1)
    <3>1. Done' > 0 /\ insert_segments' = insert_segments  BY <1>2, <1>4 DEF options
    <3>2. QED  BY <1>2, <1>3, <1>4, <1>11, <3>1 DEF SplitInv, SplitInto, PerInsert, Extra, options
  <2>2. old = ins[Current]  BY DEF old
  <2>3. OneMore(new, old, InsertOpens, NewOrder)  BY <1>9 DEF opens
  <2>4. QED  BY <1>2, <1>4, <1>6, <1>7, <1>8, <2>1, <2>2, <2>3, GenOrderSplits
<1>24. DeleteInv'
  BY <1>1, <1>2 DEF DeleteInv, PerDelete, options
<1>25. InsertsSplitEvenly'
  <2>1. \A n \in Sets : Inserted(n)' => Inserted(n) /\ n # Current
    BY <1>1, <1>2, Sizes DEF Inserted, Deleted, Ours, Current, options, TypeOK, Sets
  <2>2. QED  BY <1>1, <1>2, <1>11, <2>1 DEF InsertsSplitEvenly, options
<1>26. DeletesSplitWithinLimit'
  <2>1. \A n \in Sets : Deleted(n)' => Deleted(n)
    BY <1>2 DEF Deleted, Ours, options
  <2>2. QED  BY <1>1, <1>2, <2>1 DEF DeletesSplitWithinLimit, options
<1>27. QED
  BY <1>15, <1>16, <1>17, <1>18, <1>19, <1>20, <1>21, <1>22, <1>23, <1>24, <1>25, <1>26 DEF IInv

LEMMA NextIInv == IInv /\ [Next]_vars => IInv'
<1> SUFFICES ASSUME IInv, [Next]_vars PROVE IInv'
  OBVIOUS
<1>1. CASE StartSet  BY <1>1, StartSetIInv
<1>2. CASE GenOrder  BY <1>2, GenOrderIInv
<1>3. CASE EndInsert  BY <1>3, EndInsertIInv
<1>4. CASE DeleteOrder  BY <1>4, DeleteOrderIInv
<1>5. CASE EndSet  BY <1>5, EndSetIInv
<1>6. CASE Exit  BY <1>6, ExitIInv
<1>7. CASE UNCHANGED vars
  <2>1. UNCHANGED <<options, phase, upd_num, row, left, mode, lastMode, segRows, delPer,
                    seed, ins, del>>
    BY <1>7 DEF vars
  <2>2. /\ Current' = Current /\ Done' = Done /\ Busy' = Busy /\ StreamRows' = StreamRows
        /\ PerInsert' = PerInsert /\ Extra' = Extra /\ Segment' = Segment
        /\ SegmentRows' = SegmentRows /\ PerDelete' = PerDelete
    BY <2>1 DEF Current, Done, Busy, StreamRows, PerInsert, Extra, Segment, SegmentRows,
                PerDelete, options
  <2>3. TypeOK' /\ LoopInv' /\ ModeInv'
    BY <2>1, <2>2 DEF IInv, TypeOK, LoopInv, ModeInv, options
  <2>4. FilesInv' /\ SeedInv'
    BY <2>1, <2>2 DEF IInv, FilesInv, SeedInv
  <2>5. RowsInv' /\ KeysInv'
    BY <2>1, <2>2, SameFiles DEF IInv, RowsInv
  <2>6. SplitInv' /\ DeleteInv' /\ SegRowsInv'
    BY <2>1, <2>2 DEF IInv, SplitInv, SplitInto, DeleteInv, SegRowsInv, options
  <2>7. InsertsSplitEvenly' /\ DeletesSplitWithinLimit'
    <3>1. \A n \in Sets : (Inserted(n)' => Inserted(n)) /\ (Deleted(n)' => Deleted(n))
      BY <2>1 DEF Inserted, Deleted, Ours, options
    <3>2. QED  BY <2>1, <3>1 DEF IInv, InsertsSplitEvenly, DeletesSplitWithinLimit, options
  <2>8. QED  BY <2>3, <2>4, <2>5, <2>6, <2>7 DEF IInv
<1>8. QED  BY <1>1, <1>2, <1>3, <1>4, <1>5, <1>6, <1>7 DEF Next, Terminated

-----------------------------------------------------------------------------
(* What the invariant shows of the keys.                                   *)

LEMMA FilesHaveInsertKeys ==
  ASSUME KeysInv, NEW n \in Sets
  PROVE  KeysOf(ins[n]) \subseteq InsertKeys(n)
<1>1. ins[n] \in Seq(Seq(SetOrders(n)))
  BY DEF KeysInv
<1>2. ASSUME NEW f \in ToSet(ins[n]), NEW x \in ToSet(f) PROVE x.key \in InsertKeys(n)
  <2>1. f \in Seq(SetOrders(n))  BY <1>1 DEF ToSet
  <2>2. x \in SetOrders(n)  BY <2>1 DEF ToSet
  <2>3. QED  BY <2>2 DEF SetOrders
<1>3. QED  BY <1>2 DEF KeysOf

LEMMA FilesHaveDeleteKeys ==
  ASSUME KeysInv, NEW n \in Sets
  PROVE  UNION {ToSet(f) : f \in ToSet(del[n])} \subseteq DeleteKeys(n)
<1>1. del[n] \in Seq(Seq(DeleteKeys(n)))
  BY DEF KeysInv
<1>2. ASSUME NEW f \in ToSet(del[n]), NEW x \in ToSet(f) PROVE x \in DeleteKeys(n)
  <2>1. f \in Seq(DeleteKeys(n))  BY <1>1 DEF ToSet
  <2>2. QED  BY <2>1 DEF ToSet
<1>3. QED  BY <1>2

LEMMA KeysAreFresh == IInv => InsertsAreFresh
<1> SUFFICES ASSUME IInv, NEW n \in Sets
             PROVE  /\ KeysOf(ins[n]) \cap BaseKeys = {}
                    /\ \A m \in Sets \ {n} : KeysOf(ins[n]) \cap InsertKeys(m) = {}
  BY DEF InsertsAreFresh
<1>1. KeysOf(ins[n]) \subseteq InsertKeys(n)
  BY FilesHaveInsertKeys DEF IInv
<1>2. n \in Nat \ {0}
  BY Sizes
<1>3. KeysOf(ins[n]) \cap BaseKeys = {}
  BY <1>1, <1>2, BaseKeysApart
<1>4. ASSUME NEW m \in Sets \ {n} PROVE KeysOf(ins[n]) \cap InsertKeys(m) = {}
  <2>1. m \in Nat \ {0} /\ (m < n \/ n < m)  BY <1>2, Sizes
  <2>2. CASE m < n  BY <1>1, <1>2, <2>1, <2>2, SetKeysApart
  <2>3. CASE n < m  BY <1>1, <1>2, <2>1, <2>3, SetKeysApart
  <2>4. QED  BY <2>1, <2>2, <2>3
<1>5. QED  BY <1>3, <1>4

LEMMA FirstRoundHits == IInv => DeletesHit
<1> SUFFICES ASSUME IInv, NEW n \in Sets, n < Period PROVE Hits(n)
  BY DEF DeletesHit
<1>1. n \in Nat \ {0}
  BY Sizes
<1>2. /\ DeleteKeys(n) \subseteq BaseKeys
      /\ \A m \in 1..(n - 1) : DeleteKeys(m) \cap DeleteKeys(n) = {}
  BY <1>1, FirstRoundDeletes
<1>3. UNION {ToSet(f) : f \in ToSet(del[n])} \subseteq DeleteKeys(n)
  BY FilesHaveDeleteKeys DEF IInv
<1>4. QED  BY <1>2, <1>3 DEF Hits

-----------------------------------------------------------------------------
(* Theorems.                                                               *)

\* The invariant holds in every state.
LEMMA Invariance == Spec => []IInv
<1>1. Init => IInv  BY InitIInv
<1>2. IInv /\ [Next]_vars => IInv'  BY NextIInv
<1>3. QED  BY <1>1, <1>2, PTL DEF Spec

\* Every variable has its type: no counter leaves the rows of a set.
THEOREM TypeCorrect == Spec => []TypeOK
<1>1. IInv => TypeOK  BY DEF IInv
<1>2. QED  BY <1>1, Invariance, PTL

\* Row k of set n is the same row of the streams whatever -S, -U and -i are, at
\* every scale factor.
THEOREM SetsAreCanonical == Spec => []SetsCanonical
<1>1. IInv => SetsCanonical  BY DEF IInv, RowsInv
<1>2. QED  BY <1>1, Invariance, PTL

\* No insert file has the key of a base order or of an order of another set,
\* although from set 3000 on the seq of a key is carried into the row's digits.
THEOREM FreshKeys == Spec => []InsertsAreFresh
<1>1. QED  BY KeysAreFresh, Invariance, PTL

\* The sets before the 1000th delete orders of the base table, each only once.
THEOREM DeletesHitBase == Spec => []DeletesHit
<1>1. QED  BY FirstRoundHits, Invariance, PTL

\* -i splits a set into the files asked for, whose sizes differ by at most one.
THEOREM EvenSplit == Spec => []InsertsSplitEvenly
<1>1. IInv => InsertsSplitEvenly  BY DEF IInv
<1>2. QED  BY <1>1, Invariance, PTL

\* -d opens no more files than asked for, all of one size but the last.
THEOREM LimitedSplit == Spec => []DeletesSplitWithinLimit
<1>1. IInv => DeletesSplitWithinLimit  BY DEF IInv
<1>2. QED  BY <1>1, Invariance, PTL

-----------------------------------------------------------------------------
(* The workers of the test driver, for any number of them and any task     *)
(* list.                                                                   *)

\* A worker that has read a number goes on to run its task, or to exit.
Committed == {"truncate", "store", "unlock", "run"}

Places == Waiting \cup Holding \cup
            {"write", "writeremoved", "check", "run", "running", "exit"}

\* The types without the bound on the numbers, which is a consequence.
Types == /\ pc \in [Workers -> Places]
         /\ lock \in {None, Empty} \cup Workers
         /\ tid \in {Empty} \cup (Nat \ {0})
         /\ num \in [Workers -> {Empty} \cup (Nat \ {0})]
         /\ ran \in [1..Tasks -> 0..2]

\* Number n has been taken: its task was run, or a worker has read it and will
\* run it or, behind the end of the list, exits with it.
Taken(n) == \/ n \in 1..Tasks /\ ran[n] > 0
            \/ \E w \in Workers : num[w] = n /\ pc[w] \in Committed \cup {"exit"}

AllTakenBelow(n) == \A m \in 1..(n - 1) : Taken(m)

\* Whatever number is in the file or in a worker's hands, those below it have
\* been taken.
NumbersInv == /\ tid # Empty => AllTakenBelow(tid)
              /\ \A w \in Workers :
                    pc[w] \in Committed \cup {"exit"} /\ num[w] # Empty => AllTakenBelow(num[w])

\* A number behind the end of the list leads to the exit, and nothing else does.
ExitInv == \A w \in Workers :
             /\ pc[w] = "exit" => num[w] # Empty /\ num[w] > Tasks
             /\ num[w] # Empty /\ num[w] > Tasks => pc[w] \in Committed \cup {"exit"}

WorkersInv == Types /\ NumbersInv /\ ExitInv /\ LockIsOwned

-----------------------------------------------------------------------------
\* The invariant holds when the parent has started the workers.
LEMMA InitWorkersInv == WorkersInit => WorkersInv
<1> SUFFICES ASSUME WorkersInit PROVE WorkersInv  OBVIOUS
<1>1. Types
  BY TasksAssumption DEF WorkersInit, Types, Places, Waiting, Holding
<1>2. NumbersInv
  BY DEF WorkersInit, NumbersInv, AllTakenBelow, Committed
<1>3. ExitInv
  BY DEF WorkersInit, ExitInv
<1>4. LockIsOwned
  BY FileContents DEF WorkersInit, LockIsOwned
<1>5. QED  BY <1>1, <1>2, <1>3, <1>4 DEF WorkersInv

\* Every step keeps the types.
LEMMA TypesKept == Types /\ WorkersNext => Types'
<1> SUFFICES ASSUME Types, WorkersNext PROVE Types'  OBVIOUS
<1> USE TasksAssumption, FileContents DEF Types, Places, Waiting, Holding, Goto
<1>1. ASSUME NEW w \in Workers, Step(w) PROVE Types'
  <2>1. CASE Test(w)          BY <2>1 DEF Test
  <2>2. CASE Create(w)        BY <2>2 DEF Create
  <2>3. CASE WriteLock(w)         BY <2>3 DEF WriteLock
  <2>4. CASE WriteRemoved(w)  BY <2>4 DEF WriteRemoved
  <2>5. CASE CheckLost(w)     BY <2>5 DEF CheckLost
  <2>6. CASE Locked(w)        BY <2>6 DEF Locked
  <2>7. CASE Read(w)          BY <2>7 DEF Read
  <2>8. CASE Truncate(w)      BY <2>8 DEF Truncate
  <2>9. CASE Store(w)
    <3>1. num[w] \in {Empty} \cup (Nat \ {0})  OBVIOUS
    <3>2. Stored(num[w]) \in Nat \ {0}  BY <3>1 DEF Stored
    <3>3. QED  BY <2>9, <3>2 DEF Store
  <2>10. CASE Unlock(w)       BY <2>10 DEF Unlock
  <2>11. CASE Run(w)
    <3>1. num[w] \in 1..Tasks  BY <2>11 DEF Run
    <3>2. ran' \in [1..Tasks -> 0..2]  BY <2>11, <3>1 DEF Run
    <3>3. QED  BY <2>11, <3>2 DEF Run
  <2>12. CASE RunWholeList(w) BY <2>12 DEF RunWholeList
  <2>13. CASE Finish(w)       BY <2>13 DEF Finish
  <2>14. CASE Break(w)        BY <2>14 DEF Break
  <2>15. QED  BY <1>1, <2>1, <2>2, <2>3, <2>4, <2>5, <2>6, <2>7, <2>8, <2>9, <2>10,
                 <2>11, <2>12, <2>13, <2>14 DEF Step
<1>2. CASE WorkersEnd  BY <1>2 DEF WorkersEnd, workerVars
<1>3. QED  BY <1>1, <1>2 DEF WorkersNext

\* What has been taken stays so: a worker leaves a number only by running its task.
LEMMA TakenStays ==
    ASSUME Types, NEW w \in Workers, Step(w), NEW n \in Nat, Taken(n)
    PROVE  Taken(n)'
<1> USE TasksAssumption, FileContents DEF Types, Goto, Committed
<1>1. CASE n \in 1..Tasks /\ ran[n] > 0
  <2>1. ran'[n] > 0
    <3>1. CASE Run(w)
      <4>1. num[w] \in 1..Tasks  BY <3>1 DEF Run
      <4>2. ran'[n] = IF n = num[w] THEN IF ran[n] = 0 THEN 1 ELSE 2 ELSE ran[n]
        BY <1>1, <3>1, <4>1 DEF Run
      <4>3. QED  BY <1>1, <4>2
    <3>2. CASE ~Run(w)
      BY <1>1, <3>2 DEF Step, Test, Create, WriteLock, WriteRemoved, CheckLost, Locked, Read,
                        Truncate, Store, Unlock, RunWholeList, Finish, Break
    <3>3. QED  BY <3>1, <3>2
  <2>2. QED  BY <1>1, <2>1 DEF Taken
<1>2. CASE \E v \in Workers : num[v] = n /\ pc[v] \in Committed \cup {"exit"}
  <2>1. PICK v \in Workers : num[v] = n /\ pc[v] \in Committed \cup {"exit"}
    BY <1>2
  <2>2. CASE Run(w) /\ v = w
    <3>1. n \in 1..Tasks  BY <2>1, <2>2 DEF Run
    <3>2. ran'[n] = IF ran[n] = 0 THEN 1 ELSE 2
      BY <2>1, <2>2, <3>1 DEF Run
    <3>3. ran'[n] > 0  BY <3>1, <3>2
    <3>4. QED  BY <3>1, <3>3 DEF Taken
  <2>3. CASE RunWholeList(w) /\ v = w
    BY <2>1, <2>3 DEF RunWholeList
  <2>4. CASE ~(Run(w) /\ v = w) /\ ~(RunWholeList(w) /\ v = w)
    <3>1. num'[v] = n /\ pc'[v] \in Committed \cup {"exit"}
      BY <2>1, <2>4 DEF Step, Test, Create, WriteLock, WriteRemoved, CheckLost, Locked, Read,
                        Truncate, Store, Unlock, Run, RunWholeList, Finish, Break
    <3>2. QED  BY <3>1 DEF Taken
  <2>5. QED  BY <2>2, <2>3, <2>4
<1>3. QED  BY <1>1, <1>2 DEF Taken

\* A worker reads a number below which all have been taken, and stores the next
\* one when it is about to run the task of its own.
LEMMA NumbersKept ==
    ASSUME WorkersInv, NEW w \in Workers, Step(w)
    PROVE  NumbersInv'
<1> USE TasksAssumption, FileContents DEF WorkersInv, Types, Goto, Committed
<1>1. ASSUME NEW n \in Nat \ {0}, AllTakenBelow(n)
      PROVE  \A m \in 1..(n - 1) : Taken(m)'
  BY <1>1, TakenStays DEF AllTakenBelow
<1>2. tid' # Empty => \A m \in 1..(tid' - 1) : Taken(m)'
  <2> SUFFICES ASSUME tid' # Empty PROVE \A m \in 1..(tid' - 1) : Taken(m)'  OBVIOUS
  <2>1. CASE Store(w) /\ num[w] = Empty
    BY <2>1 DEF Store, Stored
  <2>2. CASE Store(w) /\ num[w] # Empty
    <3>1. /\ num[w] \in Nat \ {0} /\ tid' = num[w] + 1 /\ AllTakenBelow(num[w])
          /\ num' = num /\ pc'[w] = "unlock"
      BY <2>2 DEF Store, Stored, NumbersInv
    <3>2. \A m \in 1..(num[w] - 1) : Taken(m)'  BY <1>1, <3>1
    <3>3. Taken(num[w])'  BY <3>1 DEF Taken
    <3>4. QED  BY <3>1, <3>2, <3>3
  <2>3. CASE ~Store(w)
    <3>1. tid' = tid
      BY <2>3 DEF Step, Test, Create, WriteLock, WriteRemoved, CheckLost, Locked, Read,
                  Truncate, Unlock, Run, RunWholeList, Finish, Break
    <3>2. QED  BY <1>1, <3>1 DEF NumbersInv
  <2>4. QED  BY <2>1, <2>2, <2>3
<1>3. ASSUME NEW v \in Workers, pc'[v] \in Committed \cup {"exit"}, num'[v] # Empty
      PROVE  \A m \in 1..(num'[v] - 1) : Taken(m)'
  <2>1. CASE Read(w) /\ v = w
    <3>1. num'[v] = tid /\ tid \in Nat \ {0} /\ AllTakenBelow(tid)
      BY <1>3, <2>1 DEF Read, NumbersInv
    <3>2. QED  BY <1>1, <3>1
  <2>2. CASE ~(Read(w) /\ v = w)
    <3>1. num'[v] = num[v] /\ pc[v] \in Committed \cup {"exit"}
      BY <1>3, <2>2 DEF Step, Test, Create, WriteLock, WriteRemoved, CheckLost, Locked, Read,
                        Truncate, Store, Unlock, Run, RunWholeList, Finish, Break
    <3>2. num[v] \in Nat \ {0} /\ AllTakenBelow(num[v])
      BY <1>3, <3>1 DEF NumbersInv
    <3>3. QED  BY <1>1, <3>1, <3>2
  <2>3. QED  BY <2>1, <2>2
<1>4. QED  BY <1>2, <1>3 DEF NumbersInv, AllTakenBelow

\* Only Break leads to the exit, and with a number behind the end of the list no
\* other step but those before it is taken.
LEMMA ExitKept ==
    ASSUME WorkersInv, NEW w \in Workers, Step(w)
    PROVE  ExitInv'
<1> USE TasksAssumption, FileContents DEF WorkersInv, Types, Goto, Committed, ExitInv
<1>1. CASE Read(w)  BY <1>1 DEF Read
<1>2. CASE Unlock(w)
  <2>1. \A v \in Workers : pc'[v] = pc[v] \/ (pc[v] = "unlock" /\ pc'[v] = "run")
                           \/ (pc[v] = "write" /\ pc'[v] = "writeremoved")
    BY <1>2 DEF Unlock
  <2>2. num' = num  BY <1>2 DEF Unlock
  <2>3. QED  BY <2>1, <2>2
<1>3. CASE Run(w)   BY <1>3 DEF Run
<1>4. CASE RunWholeList(w)  BY <1>4 DEF RunWholeList
<1>5. CASE Break(w)  BY <1>5 DEF Break
<1>6. CASE ~Read(w) /\ ~Unlock(w) /\ ~Run(w) /\ ~RunWholeList(w) /\ ~Break(w)
  <2>1. num' = num /\ \A v \in Workers \ {w} : pc'[v] = pc[v]
    BY <1>6 DEF Step, Test, Create, WriteLock, WriteRemoved, CheckLost, Locked, Truncate,
                Store, Finish
  <2>2. /\ pc'[w] # "exit"
        /\ pc[w] \in Committed \cup {"exit"} => pc'[w] \in Committed \cup {"exit"}
    BY <1>6 DEF Step, Test, Create, WriteLock, WriteRemoved, CheckLost, Locked, Truncate,
                Store, Finish
  <2>3. QED  BY <2>1, <2>2
<1>7. QED  BY <1>1, <1>2, <1>3, <1>4, <1>5, <1>6

\* The lock file is written by a worker that goes on to check it, and a worker
\* between its check and its unlock does not leave without removing it.
LEMMA LockKept ==
    ASSUME WorkersInv, NEW w \in Workers, Step(w)
    PROVE  LockIsOwned'
<1> USE FileContents DEF WorkersInv, Types, Goto, LockIsOwned, Holding
<1>1. CASE Create(w)  BY <1>1 DEF Create
<1>2. CASE WriteLock(w)   BY <1>2 DEF WriteLock
<1>3. CASE Unlock(w)  BY <1>3 DEF Unlock
<1>4. CASE ~Create(w) /\ ~WriteLock(w) /\ ~Unlock(w)
  <2>1. lock' = lock /\ \A v \in Workers \ {w} : pc'[v] = pc[v]
    BY <1>4 DEF Step, Test, WriteRemoved, CheckLost, Locked, Read, Truncate, Store, Run,
                RunWholeList, Finish, Break
  <2>2. /\ pc[w] # "write"
        /\ lock = w => pc'[w] \in {"check"} \cup Holding
    BY <1>4 DEF Step, Test, WriteRemoved, CheckLost, Locked, Read, Truncate, Store, Run,
                RunWholeList, Finish, Break
  <2>3. QED  BY <2>1, <2>2
<1>5. QED  BY <1>1, <1>2, <1>3, <1>4

LEMMA StepWorkersInv == WorkersInv /\ [WorkersNext]_workerVars => WorkersInv'
<1> SUFFICES ASSUME WorkersInv, [WorkersNext]_workerVars PROVE WorkersInv'  OBVIOUS
<1>1. ASSUME NEW w \in Workers, Step(w) PROVE WorkersInv'
  <2>1. Types'  BY <1>1, TypesKept DEF WorkersInv, WorkersNext
  <2>2. QED  BY <1>1, <2>1, NumbersKept, ExitKept, LockKept DEF WorkersInv
<1>2. CASE UNCHANGED workerVars
  BY <1>2 DEF workerVars, WorkersInv, Types, NumbersInv, AllTakenBelow, Taken, ExitInv, LockIsOwned
<1>3. QED  BY <1>1, <1>2 DEF WorkersNext, WorkersEnd

LEMMA WorkersInvariance == WorkersSpec => []WorkersInv
<1>1. QED  BY InitWorkersInv, StepWorkersInv, PTL DEF WorkersSpec

-----------------------------------------------------------------------------
\* As many numbers behind the end of the list as workers hold are at most as many
\* as the workers.
LEMMA BehindTheEnd ==
    ASSUME NEW n \in Nat, NEW held \in [Workers -> {Empty} \cup (Nat \ {0})],
           \A m \in (Tasks + 1)..n : \E w \in Workers : held[w] = m
    PROVE  n <= Tasks + Cardinality(Workers)
<1> DEFINE S == (Tasks + 1)..n
           holder == [m \in S |-> CHOOSE w \in Workers : held[w] = m]
<1>1. IsFiniteSet(Workers) /\ Cardinality(Workers) \in Nat
  BY WorkersAssumption, FS_CardinalityType
<1>2. /\ IsFiniteSet(S)
      /\ Cardinality(S) = IF Tasks + 1 > n THEN 0 ELSE n - (Tasks + 1) + 1
  BY TasksAssumption, FS_Interval
<1>3. holder \in [S -> Workers] /\ \A m \in S : held[holder[m]] = m
  OBVIOUS
<1> HIDE DEF S, holder
<1>4. \A x, y \in S : x # y => holder[x] # holder[y]
  BY <1>3
<1>5. ~(Cardinality(Workers) < Cardinality(S))
  BY <1>1, <1>2, <1>3, <1>4, FS_PigeonHole
<1>6. QED  BY <1>1, <1>2, <1>5, TasksAssumption

\* No number is larger than the invariant's bound.
LEMMA NumbersAreBounded == WorkersInv => WorkersTypeOK
<1> SUFFICES ASSUME WorkersInv PROVE WorkersTypeOK  OBVIOUS
<1> USE TasksAssumption, FileContents DEF WorkersInv, Types
<1>1. Cardinality(Workers) \in Nat  BY WorkersAssumption, FS_CardinalityType
<1>2. ASSUME tid # Empty PROVE tid - 1 <= Tasks + Cardinality(Workers)
  <2>1. tid - 1 \in Nat /\ \A m \in (Tasks + 1)..(tid - 1) : \E w \in Workers : num[w] = m
    BY <1>2 DEF NumbersInv, AllTakenBelow, Taken
  <2>2. QED  BY <2>1, BehindTheEnd
<1>3. ASSUME NEW v \in Workers, num[v] # Empty
      PROVE  num[v] <= Tasks + Cardinality(Workers)
  <2>1. CASE num[v] <= Tasks  BY <1>1, <1>3, <2>1
  <2>2. CASE num[v] > Tasks
    <3>1. AllTakenBelow(num[v])  BY <1>3, <2>2 DEF NumbersInv, ExitInv
    <3>2. num[v] \in Nat /\ \A m \in (Tasks + 1)..num[v] : \E w \in Workers : num[w] = m
      BY <1>3, <3>1 DEF AllTakenBelow, Taken
    <3>3. QED  BY <3>2, BehindTheEnd
  <2>3. QED  BY <1>3, <2>1, <2>2
<1>4. num \in [Workers -> Number]
  BY <1>1, <1>3 DEF Number
<1>5. tid \in Number \cup {Tasks + Cardinality(Workers) + 1}
  BY <1>1, <1>2 DEF Number
<1>6. QED  BY <1>4, <1>5 DEF WorkersTypeOK, Places

\* When all workers have exited, the number a worker exits with is behind the end
\* of the list, and nobody is left who has taken a task and not run it.
LEMMA NobodySkips == WorkersInv => NoTaskSkipped
<1> SUFFICES ASSUME WorkersInv, AllExited, NEW t \in 1..Tasks PROVE ran[t] > 0
  BY DEF NoTaskSkipped
<1> USE TasksAssumption, FileContents DEF WorkersInv, Types, AllExited
<1>1. PICK w \in Workers : pc[w] = "exit"  BY WorkersAssumption
<1>2. num[w] # Empty /\ num[w] > Tasks /\ AllTakenBelow(num[w])
  BY <1>1 DEF ExitInv, NumbersInv
<1>3. Taken(t)  BY <1>2 DEF AllTakenBelow
<1>4. ~ \E v \in Workers : num[v] = t /\ pc[v] \in Committed \cup {"exit"}
  BY DEF ExitInv
<1>5. QED  BY <1>3, <1>4 DEF Taken

\* Places, files and numbers keep their types: the number in the file never runs
\* further behind the end of the list than there are workers to exit.
THEOREM WorkersTypeCorrect == WorkersSpec => []WorkersTypeOK
<1>1. QED  BY WorkersInvariance, NumbersAreBounded, PTL

\* However many workers race for the number, and although the lock lets two of
\* them in, when all have exited every task of the list was run.
THEOREM EveryTaskRuns == WorkersSpec => []NoTaskSkipped
<1>1. QED  BY WorkersInvariance, NobodySkips, PTL

\* The lock file is always that of a worker that will remove it.
THEOREM LockHasOwner == WorkersSpec => []LockIsOwned
<1>1. QED  BY WorkersInvariance, PTL DEF WorkersInv
=============================================================================
