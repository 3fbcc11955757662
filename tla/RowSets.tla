------------------------------ MODULE RowSets ------------------------------
(***************************************************************************)
(* Relations as the query modules use them.  A row is a record whose       *)
(* fields are the columns of TPC-H, a relation is a set of rows, and the   *)
(* rows of a join carry the columns of both sides.  A set is enough where  *)
(* the engines have a bag: every row keeps the primary keys of the tables  *)
(* it was joined from, so that no two rows of a query are equal.           *)
(*                                                                         *)
(* Nothing here is the repository's: an operator stands for what a clause  *)
(* of SQL, a method of polars or a method of pandas does with rows, and    *)
(* the three query modules say which ones a query uses, and in what order. *)
(*                                                                         *)
(* Data.  Dates are integers yyyymmdd, money and quantities integers,      *)
(* discounts and taxes integers in hundredths.  A text that a query looks  *)
(* into (p_type, p_name, comments, c_phone) is the tuple of its words; any *)
(* other text is a string, ordered by its place in Alphabetical.  A        *)
(* quotient is a pair <<numerator, denominator>>.  Columns that a query    *)
(* only carries to its output (addresses, phones, ...) are left out, and   *)
(* so is rounding: all engines round the same number.                      *)
(***************************************************************************)
EXTENDS Integers, SequencesExt

CONSTANTS
    Null,          \* the missing value
    Alphabetical,  \* the names that are sorted, in their order
    Cut            \* how many rows a limit of 10, 20 or 100 keeps

ASSUME CutAssumption == /\ Cut \in [{10, 20, 100} -> Nat \ {0}]
                        /\ Cut[10] < Cut[20] /\ Cut[20] < Cut[100]

-----------------------------------------------------------------------------
(* Rows.                                                                   *)

On(r, cols) == [c \in cols |-> r[c]]

(* The row of a join: where both rows have a column the left one keeps its *)
(* name (the other is <name>_right in polars; pandas calls them <name>_x   *)
(* and <name>_y).                                                          *)
Joined(l, r) == [c \in DOMAIN l \cup DOMAIN r |-> IF c \in DOMAIN l THEN l[c] ELSE r[c]]

(* as: new name -> the column it is taken from.                            *)
Select(R, as) == {[c \in DOMAIN as |-> r[as[c]]] : r \in R}
Project(R, cols) == {On(r, cols) : r \in R}
Rename(R, old, new) == {Joined([c \in {new} |-> r[old]], On(r, DOMAIN r \ {old})) : r \in R}
WithColumns(R, New(_)) == {Joined(New(r), r) : r \in R}

-----------------------------------------------------------------------------
(* Joins.                                                                  *)

Cross(R, S) == {Joined(p[1], p[2]) : p \in R \X S}
R \otimes S == Cross(R, S)

Match(l, r, lk, rk) == \A i \in DOMAIN lk : l[lk[i]] = r[rk[i]]
Merge(R, S, lk, rk) ==
    {Joined(p[1], p[2]) : p \in {q \in R \X S : Match(q[1], q[2], lk, rk)}}
SemiMerge(R, S, lk, rk) == {l \in R : \E r \in S : Match(l, r, lk, rk)}
(* cols: the columns of S, which are null where nothing matches.           *)
LeftMerge(R, S, lk, rk, cols) ==
    Merge(R, S, lk, rk) \cup
    {Joined(l, [c \in cols |-> Null]) : l \in R \ SemiMerge(R, S, lk, rk)}

-----------------------------------------------------------------------------
(* Groups and their sums.                                                  *)

GroupBy(R, cols, Agg(_)) ==
    {Joined(k, Agg({r \in R : On(r, cols) = k})) : k \in Project(R, cols)}

Total(g, Of(_)) == SumFunction([r \in g |-> Of(r)])
Mean(g, Of(_)) == <<Total(g, Of), Cardinality(g)>>
Count(g, col) == Cardinality({r \in g : r[col] # Null})
CountDistinct(g, col) == Cardinality({r[col] : r \in g})

(* The sum of no rows is null in SQL and zero in a data frame.             *)
SqlSum(g, Of(_)) == IF g = {} THEN Null ELSE Total(g, Of)

-----------------------------------------------------------------------------
(* Order.  By gives the sort key of a row as a tuple of integers, a        *)
(* descending column negated.  Rows with equal keys come in any order, so  *)
(* an answer is the set of its rows with their places: the number of rows  *)
(* that come before.  Rows that tie for the last place of a limit are all  *)
(* in it.                                                                  *)

Alpha(name) == CHOOSE i \in DOMAIN Alphabetical : Alphabetical[i] = name

AlphaWords(text) == [i \in DOMAIN text |-> Alpha(text[i])]

Before(a, b) == \E i \in DOMAIN a :
                    a[i] < b[i] /\ \A j \in 1..(i - 1) : a[j] = b[j]
Sorted(R, By(_)) ==
    {[row |-> r, place |-> Cardinality({s \in R : Before(By(s), By(r))})] : r \in R}
Top(R, By(_), n) == {a \in Sorted(R, By) : a.place < n}

-----------------------------------------------------------------------------
(* Dates and texts.                                                        *)

Year(date) == date \div 10000
Between(x, low, high) == low <= x /\ x <= high

StartsWith(text, words) == IsPrefix(words, text)
EndsWith(text, words) == IsSuffix(words, text)
Mentions(text, word) == \E i \in DOMAIN text : text[i] = word
HasPhrase(text, words) ==
    \E i \in 0..(Len(text) - Len(words)) : SubSeq(text, i + 1, i + Len(words)) = words
(* like '%first%second%'                                                   *)
MentionsInOrder(text, first, second) ==
    \E i, j \in DOMAIN text : i < j /\ text[i] = first /\ text[j] = second
=============================================================================
