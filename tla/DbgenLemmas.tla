---------------------------- MODULE DbgenLemmas ----------------------------
(***************************************************************************)
(* What the proofs about Dbgen and DbgenRefresh share: the four places     *)
(* where DbgenTables counts the draws of a row agree, and facts about      *)
(* natural numbers and sequences.                                          *)
(***************************************************************************)
EXTENDS DbgenTables, SequencesExt, SequenceTheorems, WellFoundedInduction, TLAPS

-----------------------------------------------------------------------------
(* The numbers of DbgenTables agree.                                       *)

LEMMA BoundaryIsPositive ==
  ASSUME NEW s \in Streams
  PROVE  Boundary(s) \in Nat \ {0}
BY DEF Boundary, SUPP_PER_PART, O_LCNT_MAX

LEMMA ReadsAreStreams ==
  ASSUME NEW t \in Tables
  PROVE  Reads(t) \subseteq Streams \ {"TEXT"}
BY DEF Reads, Streams, Tables

\* Skipping a row moves every stream that the table reads by one boundary.
LEMMA SkipMatchesBoundary ==
  ASSUME NEW t \in Tables \ CodeTables, NEW s \in Reads(t)
  PROVE  ChunkSkip(t)[s] = Boundary(s)
<1> USE DEF Boundary, SUPP_PER_PART, O_LCNT_MAX, Streams
<1>1. CASE t = "PART"
  BY <1>1 DEF Reads, ChunkSkip, GenSeed, Child, SdPart, SdPsupp
<1>2. CASE t = "PSUPP"
  BY <1>2 DEF Reads, ChunkSkip, GenSeed, Child, SdPsupp
<1>3. CASE t = "PART_PSUPP"
  BY <1>3 DEF Reads, ChunkSkip, GenSeed, Child, SdPart, SdPsupp
<1>4. CASE t = "SUPP"
  BY <1>4 DEF Reads, ChunkSkip, GenSeed, Child, SdSupp
<1>5. CASE t = "CUST"
  BY <1>5 DEF Reads, ChunkSkip, GenSeed, Child, SdCust
<1>6. CASE t = "ORDER"
  BY <1>6 DEF Reads, ChunkSkip, GenSeed, Child, SdOrder, SdLine
<1>7. CASE t = "LINE"
  BY <1>7 DEF Reads, ChunkSkip, GenSeed, Child, SdLine
<1>8. CASE t = "ORDER_LINE"
  BY <1>8 DEF Reads, ChunkSkip, GenSeed, Child, SdOrder, SdLine
<1> QED BY <1>1, <1>2, <1>3, <1>4, <1>5, <1>6, <1>7, <1>8 DEF Tables, CodeTables

LEMMA VStrInBoundary ==
  ASSUME NEW n \in VStrDraws(AddrLen)
  PROVE  n \in 1..9
BY DEF VStrDraws, AddrLen, ARndDraws

\* A row draws no more than a boundary from a stream its table reads, and what
\* it leaves of the boundary is padded.
LEMMA DrawsArePadded ==
  ASSUME NEW t \in Tables, NEW draws \in Draws(t)
  PROVE  /\ draws \in [Streams -> Nat]
         /\ \A s \in Reads(t) : /\ draws[s] \in 0..Boundary(s)
                                /\ Padded(t, s) \/ draws[s] = Boundary(s)
<1> USE DEF Draws, Reads, Padded, RowStopTable, Child, SeedTable, Boundary, Streams,
            SUPP_PER_PART, O_LCNT_MAX
<1>1. CASE t \in {"PART", "PSUPP", "PART_PSUPP"}
  BY <1>1 DEF MkPart, ColorsCount
<1>2. CASE t = "SUPP"
  BY <1>2, VStrInBoundary DEF MkSupp
<1>3. CASE t = "CUST"
  BY <1>3, VStrInBoundary DEF MkCust
<1>4. CASE t \in {"ORDER", "LINE", "ORDER_LINE"}
  BY <1>4 DEF MkOrder, OrderDraws
<1>5. CASE t \in {"NATION", "REGION"}
  BY <1>5 DEF MkCode
<1> QED BY <1>1, <1>2, <1>3, <1>4, <1>5 DEF Tables

LEMMA ProductIsNat ==
  ASSUME NEW a \in Nat, NEW b \in Nat
  PROVE  a * b \in Nat
OBVIOUS

LEMMA DivModAreNat ==
  ASSUME NEW n \in Nat, NEW c \in Nat \ {0}
  PROVE  /\ n \div c \in Nat
         /\ n % c \in Nat
OBVIOUS

LEMMA GenSeedIsNat ==
  ASSUME NEW t \in Tables, NEW child \in Nat, NEW s \in Streams
  PROVE  GenSeed(t, child)[s] \in Nat
BY DEF GenSeed, SdPart, SdPsupp, SdSupp, SdCust, SdOrder, SdLine, SUPP_PER_PART,
       O_LCNT_MAX, Streams, Tables

LEMMA ChunkSkipIsNat ==
  ASSUME NEW t \in Tables, NEW s \in Streams
  PROVE  ChunkSkip(t)[s] \in Nat
<1>1. Child(t) \in Tables \cup {"NONE"}
  BY DEF Child, Tables
<1> QED BY <1>1, GenSeedIsNat DEF ChunkSkip

LEMMA AfterRowIsASeed ==
  ASSUME NEW t \in Tables, NEW seeds \in [Streams -> Nat], NEW usage \in [Streams -> Nat]
  PROVE  AfterRow(t, seeds, usage) \in [Streams -> Nat]
<1>1. \A s \in Streams : Boundary(s) \in Nat
  BY BoundaryIsPositive
<1> QED BY <1>1 DEF AfterRow, RowStop, NthElement

\* A row of t moves the streams that t reads by one boundary, and the first row
\* of a process fills the text pool from stream 5 without touching any other.
LEMMA RowMovesOneBoundary ==
  ASSUME NEW t \in Tables, NEW draws \in Draws(t), NEW fill \in Nat,
         NEW seeds \in [Streams -> Nat], NEW s \in Reads(t)
  PROVE  AfterRow(t, seeds, [draws EXCEPT !["TEXT"] = @ + fill])[s] = seeds[s] + Boundary(s)
<1>1. /\ s \in Streams /\ s # "TEXT"
      /\ Boundary(s) \in Nat
      /\ draws \in [Streams -> Nat]
      /\ draws[s] \in 0..Boundary(s)
      /\ Padded(t, s) \/ draws[s] = Boundary(s)
  BY ReadsAreStreams, DrawsArePadded, BoundaryIsPositive
<1>2. [draws EXCEPT !["TEXT"] = @ + fill][s] = draws[s]
  BY <1>1
<1> QED BY <1>1, <1>2 DEF AfterRow, RowStop, NthElement

LEMMA RowsBeforeIsNat ==
  ASSUME NEW n \in Nat, NEW c \in Nat \ {0}, NEW p \in 1..c
  PROVE  /\ p - 1 \in Nat
         /\ n \div c \in Nat
         /\ (p - 1) * (n \div c) \in Nat
<1>1. p - 1 \in Nat
  OBVIOUS
<1>2. n \div c \in Nat
  BY DivModAreNat
<1> QED BY <1>1, <1>2, ProductIsNat

-----------------------------------------------------------------------------
(* Division.                                                               *)

\* The quotient and the remainder of a division, for a divisor that is a parameter.
LEMMA Division ==
  ASSUME NEW a \in Nat, NEW c \in Nat \ {0}
  PROVE  /\ a \div c \in Nat /\ a % c \in 0..(c - 1)
         /\ a = c * (a \div c) + (a % c)
OBVIOUS

LEMMA Monotone ==
  ASSUME NEW a \in Nat, NEW b \in Nat, NEW c \in Nat, a <= b
  PROVE  a * c <= b * c
OBVIOUS

\* Only they have these properties.
LEMMA DivisionIsUnique ==
  ASSUME NEW c \in Nat \ {0}, NEW q \in Nat, NEW r \in 0..(c - 1)
  PROVE  /\ (c * q + r) \div c = q
         /\ (c * q + r) % c = r
OBVIOUS

\* One divisor more.
LEMMA DivideNext ==
  ASSUME NEW a \in Nat, NEW c \in Nat \ {0}
  PROVE  /\ (a + c) \div c = a \div c + 1
         /\ (a + c) % c = a % c
<1> DEFINE q == a \div c
           r == a % c
<1>1. q \in Nat /\ r \in 0..(c - 1) /\ a = c * q + r
  BY Division
<1> HIDE DEF q, r
<1>2. c * (q + 1) = c * q + c
  BY <1>1
<1>3. a + c = c * (q + 1) + r
  BY <1>1, <1>2
<1>4. q + 1 \in Nat
  BY <1>1
<1>5. (c * (q + 1) + r) \div c = q + 1 /\ (c * (q + 1) + r) % c = r
  BY <1>1, <1>4, DivisionIsUnique
<1>6. (a + c) \div c = q + 1 /\ (a + c) % c = r
  BY <1>3, <1>5
<1>7. QED  BY <1>6 DEF q, r

-----------------------------------------------------------------------------
(* Induction for a property given as a set, which the provers can use; it  *)
(* gives the recursive definition of FlattenSeq.                           *)

\* A set of natural numbers with 0 and every successor is Nat.
LEMMA SetInduction ==
    ASSUME NEW X, X \subseteq Nat, 0 \in X, \A n \in X : n + 1 \in X
    PROVE  X = Nat
<1>1. SUFFICES ASSUME Nat \ X # {} PROVE FALSE
  OBVIOUS
<1>2. IsWellFoundedOn(OpToRel(<, Nat), Nat)
  BY NatLessThanWellFounded
<1>3. PICK m \in Nat \ X : \A y \in Nat \ X : ~ (<<y, m>> \in OpToRel(<, Nat))
  BY <1>1, <1>2, WFMin
<1>4. m # 0
  BY <1>3
<1>5. m - 1 \in Nat /\ <<m - 1, m>> \in OpToRel(<, Nat) /\ (m - 1) + 1 = m
  BY <1>4 DEF OpToRel
<1>6. m - 1 \in X
  BY <1>3, <1>5
<1>7. QED  BY <1>3, <1>5, <1>6

-----------------------------------------------------------------------------
(* FlattenSeq.                                                             *)

\* The sequence that FlattenSeq's local function has computed after i pieces.
Flattens(f, ss) == f = [i \in 1..Len(ss) |-> IF i = 1 THEN ss[i] ELSE f[i - 1] \o ss[i]]

\* The first n equations.
FlattensUpTo(f, ss, n, S) ==
    /\ f \in [1..Len(ss) -> Seq(S)]
    /\ \A i \in 1..n : f[i] = IF i = 1 THEN ss[i] ELSE f[i - 1] \o ss[i]

\* A function that meets the first n equations can be changed to meet one more.
LEMMA FlattenOneMore ==
    ASSUME NEW S, NEW ss \in Seq(Seq(S)), NEW n \in Nat, n + 1 <= Len(ss),
           NEW f, FlattensUpTo(f, ss, n, S)
    PROVE  \E g : FlattensUpTo(g, ss, n + 1, S)
<1> DEFINE v == IF n = 0 THEN ss[n + 1] ELSE f[n] \o ss[n + 1]
           g == [f EXCEPT ![n + 1] = v]
<1>1. f \in [1..Len(ss) -> Seq(S)] /\ Len(ss) \in Nat
  BY DEF FlattensUpTo
<1>2. v \in Seq(S)
  <2>1. ss[n + 1] \in Seq(S)  OBVIOUS
  <2>2. ASSUME n # 0 PROVE f[n] \in Seq(S)
    <3>1. n \in 1..Len(ss)  BY <2>2
    <3>2. QED  BY <1>1, <3>1
  <2>3. QED  BY <2>1, <2>2
<1> HIDE DEF v
<1>3. g \in [1..Len(ss) -> Seq(S)]
  BY <1>1, <1>2
<1>4. ASSUME NEW i \in 1..(n + 1)
      PROVE  g[i] = IF i = 1 THEN ss[i] ELSE g[i - 1] \o ss[i]
  <2>1. CASE i = n + 1  BY <1>1, <2>1 DEF v
  <2>2. CASE i # n + 1  BY <1>1, <2>2 DEF FlattensUpTo
  <2>3. QED  BY <2>1, <2>2
<1>5. FlattensUpTo(g, ss, n + 1, S)
  BY <1>3, <1>4 DEF FlattensUpTo
<1>6. QED  BY <1>5

\* FlattenSeq's local function is defined for every sequence of sequences.
LEMMA FlattenExists ==
    ASSUME NEW S, NEW ss \in Seq(Seq(S))
    PROVE  \E f : Flattens(f, ss) /\ f \in [1..Len(ss) -> Seq(S)]
<1> DEFINE X == {n \in Nat : n <= Len(ss) => \E f : FlattensUpTo(f, ss, n, S)}
<1>1. 0 \in X
  <2>1. FlattensUpTo([i \in 1..Len(ss) |-> <<>>], ss, 0, S)
    BY DEF FlattensUpTo
  <2>2. QED  BY <2>1
<1>2. ASSUME NEW n \in X PROVE n + 1 \in X
  <2>1. ASSUME n + 1 <= Len(ss) PROVE \E f : FlattensUpTo(f, ss, n + 1, S)
    <3>1. Len(ss) \in Nat /\ n \in Nat  OBVIOUS
    <3>2. \E f : FlattensUpTo(f, ss, n, S)  BY <2>1, <3>1
    <3>3. QED  BY <2>1, <3>1, <3>2, FlattenOneMore
  <2>2. QED  BY <2>1
<1>3. X \subseteq Nat  OBVIOUS
<1> HIDE DEF X
<1>4. X = Nat  BY <1>1, <1>2, <1>3, SetInduction
<1>5. PICK f : FlattensUpTo(f, ss, Len(ss), S)
  <2>1. Len(ss) \in X  BY <1>4
  <2>2. QED  BY <2>1 DEF X
<1>6. Flattens(f, ss) /\ f \in [1..Len(ss) -> Seq(S)]
  BY <1>5 DEF Flattens, FlattensUpTo
<1>7. QED  BY <1>6

\* One equation of such a function.
LEMMA FlattensAt ==
    ASSUME NEW f, NEW ss, Flattens(f, ss), NEW i \in 1..Len(ss)
    PROVE  f[i] = IF i = 1 THEN ss[i] ELSE f[i - 1] \o ss[i]
BY DEF Flattens

Agree(f, g, n) == \A i \in 1..n : f[i] = g[i]

\* Two such functions agree on the pieces that their sequences share.
LEMMA FlattenUnique ==
    ASSUME NEW S, NEW ss \in Seq(Seq(S)), NEW tt \in Seq(Seq(S)), NEW f, NEW g,
           Flattens(f, ss), Flattens(g, tt), NEW n \in Nat, n <= Len(ss), n <= Len(tt),
           Agree(ss, tt, n)
    PROVE  Agree(f, g, n)
<1> DEFINE X == {k \in Nat : k \in 1..n => f[k] = g[k]}
<1>1. 0 \in X  OBVIOUS
<1>2. ASSUME NEW k \in X PROVE k + 1 \in X
  <2>1. ASSUME k + 1 \in 1..n PROVE f[k + 1] = g[k + 1]
    <3>1. k \in Nat /\ Len(ss) \in Nat /\ Len(tt) \in Nat  OBVIOUS
    <3> k + 1 \in 1..Len(ss) /\ k + 1 \in 1..Len(tt)  BY <2>1, <3>1
    <3>2. f[k + 1] = IF k + 1 = 1 THEN ss[k + 1] ELSE f[(k + 1) - 1] \o ss[k + 1]
      BY FlattensAt
    <3>3. g[k + 1] = IF k + 1 = 1 THEN tt[k + 1] ELSE g[(k + 1) - 1] \o tt[k + 1]
      BY FlattensAt
    <3>4. ss[k + 1] = tt[k + 1]  BY <2>1 DEF Agree
    <3>5. k # 0 => f[(k + 1) - 1] = g[(k + 1) - 1]  BY <2>1, <3>1
    <3>6. k + 1 = 1 <=> k = 0  BY <3>1
    <3>7. QED  BY <3>2, <3>3, <3>4, <3>5, <3>6
  <2>2. QED  BY <2>1
<1>3. X \subseteq Nat  OBVIOUS
<1> HIDE DEF X
<1>4. X = Nat  BY <1>1, <1>2, <1>3, SetInduction
<1>5. ASSUME NEW i \in 1..n PROVE f[i] = g[i]
  <2>1. i \in X  BY <1>4
  <2>2. QED  BY <2>1 DEF X
<1>6. QED  BY <1>5 DEF Agree

\* FlattenSeq by any such function.
LEMMA FlattenIs ==
    ASSUME NEW S, NEW ss \in Seq(Seq(S)), ss # <<>>, NEW f, Flattens(f, ss)
    PROVE  FlattenSeq(ss) = f[Len(ss)]
<1> DEFINE h == CHOOSE g : Flattens(g, ss)
<1>1. Flattens(h, ss)  OBVIOUS
<1>2. Len(ss) \in Nat /\ Len(ss) # 0  OBVIOUS
<1>3. FlattenSeq(ss) = h[Len(ss)]
  BY <1>2 DEF FlattenSeq, Flattens
<1> HIDE DEF h
<1>4. Agree(ss, ss, Len(ss))  BY DEF Agree
<1>5. Agree(h, f, Len(ss))  BY <1>1, <1>2, <1>4, FlattenUnique
<1>6. Len(ss) \in 1..Len(ss)  BY <1>2
<1>7. QED  BY <1>3, <1>5, <1>6 DEF Agree

\* Nothing flattened is nothing.
LEMMA FlattenEmpty == FlattenSeq(<<>>) = <<>>
BY DEF FlattenSeq

\* A sequence of sequences, flattened, is a sequence of their elements.
LEMMA FlattenType ==
    ASSUME NEW S, NEW ss \in Seq(Seq(S))
    PROVE  FlattenSeq(ss) \in Seq(S)
<1>1. CASE ss = <<>>
  <2>1. FlattenSeq(ss) = <<>>  BY <1>1, FlattenEmpty
  <2>2. <<>> \in Seq(S)  OBVIOUS
  <2>3. QED  BY <2>1, <2>2
<1>2. CASE ss # <<>>
  <2>1. PICK f : Flattens(f, ss) /\ f \in [1..Len(ss) -> Seq(S)]  BY FlattenExists
  <2>2. FlattenSeq(ss) = f[Len(ss)]  BY <1>2, <2>1, FlattenIs
  <2>3. Len(ss) \in 1..Len(ss)  BY <1>2
  <2>4. QED  BY <2>1, <2>2, <2>3
<1>3. QED  BY <1>1, <1>2

\* One more piece is appended to what the others are flattened to.
LEMMA FlattenAppend ==
    ASSUME NEW S, NEW ss \in Seq(Seq(S)), NEW s \in Seq(S)
    PROVE  FlattenSeq(Append(ss, s)) = FlattenSeq(ss) \o s
<1> DEFINE tt == Append(ss, s)
           n == Len(ss)
<1>1. /\ tt \in Seq(Seq(S)) /\ tt # <<>> /\ n \in Nat /\ Len(tt) = n + 1
      /\ tt[n + 1] = s /\ \A i \in 1..n : tt[i] = ss[i]
  BY AppendProperties
<1> HIDE DEF tt, n
<1>2. PICK g : Flattens(g, tt)  BY <1>1, FlattenExists
<1>3. FlattenSeq(tt) = g[n + 1]  BY <1>1, <1>2, FlattenIs DEF n
<1>4. g[n + 1] = IF n + 1 = 1 THEN s ELSE g[(n + 1) - 1] \o s
  BY <1>1, <1>2, FlattensAt
<1>5. CASE n = 0
  <2>1. ss = <<>>  BY <1>5 DEF n
  <2>2. FlattenSeq(tt) = s  BY <1>3, <1>4, <1>5
  <2>3. QED  BY <2>1, <2>2, FlattenEmpty DEF tt
<1>6. CASE n # 0
  <2>1. PICK f : Flattens(f, ss)  BY FlattenExists
  <2>2. ss # <<>>  BY <1>6 DEF n
  <2>3. FlattenSeq(ss) = f[n]  BY <2>1, <2>2, FlattenIs DEF n
  <2>4. Agree(f, g, n)
    <3>1. n \in Nat /\ n <= Len(ss) /\ n <= Len(tt) /\ Agree(ss, tt, n)
      BY <1>1 DEF n, Agree
    <3>2. tt \in Seq(Seq(S))  BY <1>1
    <3>3. QED  BY <1>2, <2>1, <3>1, <3>2, FlattenUnique
  <2>5. n \in 1..n /\ (n + 1) - 1 = n /\ n + 1 # 1  BY <1>1, <1>6
  <2>6. g[n] = f[n]  BY <2>4, <2>5 DEF Agree
  <2>7. QED  BY <1>3, <1>4, <2>3, <2>5, <2>6 DEF tt
<1>7. QED  BY <1>5, <1>6

\* A sequence is another one with an appended element if their elements are the same.
LEMMA IsAppend ==
    ASSUME NEW T, NEW tt \in Seq(T), NEW y \in T, NEW uu \in Seq(T),
           Len(uu) = Len(tt) + 1, \A i \in 1..Len(tt) : uu[i] = tt[i], uu[Len(tt) + 1] = y
    PROVE  uu = Append(tt, y)
<1> DEFINE v == Append(tt, y)
<1>1. /\ v \in Seq(T) /\ Len(v) = Len(tt) + 1 /\ v[Len(tt) + 1] = y
      /\ \A i \in 1..Len(tt) : v[i] = tt[i]
  BY AppendProperties
<1> HIDE DEF v
<1>2. \A i \in 1..Len(uu) : uu[i] = v[i]
  BY <1>1
<1>3. uu = v  BY <1>1, <1>2, SeqEqual
<1>4. QED  BY <1>3 DEF v

\* Appending to the second of two sequences appends to both.
LEMMA ConcatAppend ==
    ASSUME NEW T, NEW a \in Seq(T), NEW b \in Seq(T), NEW x \in T
    PROVE  a \o Append(b, x) = Append(a \o b, x)
OBVIOUS

\* What is not empty has a last piece.
LEMMA LastPiece ==
    ASSUME NEW S, NEW ss \in Seq(Seq(S)), ss # <<>>
    PROVE  \E tt \in Seq(Seq(S)), s \in Seq(S) : ss = Append(tt, s)
BY SequenceEmptyOrAppend

\* An element appended to the last piece is appended to the whole.
LEMMA FlattenAppendToLast ==
    ASSUME NEW S, NEW tt \in Seq(Seq(S)), NEW s \in Seq(S), NEW x \in S
    PROVE  FlattenSeq(Append(tt, Append(s, x))) = Append(FlattenSeq(Append(tt, s)), x)
<1>1. Append(s, x) \in Seq(S)
  BY AppendProperties
<1>2. FlattenSeq(Append(tt, s)) = FlattenSeq(tt) \o s
  BY FlattenAppend
<1>3. FlattenSeq(Append(tt, Append(s, x))) = FlattenSeq(tt) \o Append(s, x)
  BY <1>1, FlattenAppend
<1>4. FlattenSeq(tt) \in Seq(S)
  BY FlattenType
<1>5. FlattenSeq(tt) \o Append(s, x) = Append(FlattenSeq(tt) \o s, x)
  BY <1>4, ConcatAppend
<1>6. QED  BY <1>2, <1>3, <1>5
=============================================================================
