---------------------------- MODULE QueriesLemmas ----------------------------
(***************************************************************************)
(* What the proof that the engines answer alike rests on (QueriesProofs),  *)
(* and the queries that need no more than this module:                     *)
(*  - a sum over a finite set does not depend on the order of the library's *)
(*    fold, nor on the names of what is summed;                            *)
(*  - the row of a join is cut into the rows of its tables, so that a chain *)
(*    of joins is known by the parts of its rows (Part, Keeps, Frame);     *)
(*  - rows that correspond one to one, with the same keys, make the same   *)
(*    groups (GroupsOfImage), and a key may be renamed (RenamedGroups);    *)
(*  - the keys and parents of every state's database (Databases).          *)
(***************************************************************************)
EXTENDS Queries, Functions, FiniteSetTheorems, WellFoundedInduction, TLAPS

-----------------------------------------------------------------------------
(* Sums.                                                                   *)

\* A set of numbers has a least one.
LEMMA LeastOf ==
  ASSUME NEW B, B \subseteq Nat, B # {}
  PROVE  \E m \in B : m \in Nat /\ \A n \in Nat : n < m => n \notin B
<1>1. IsWellFoundedOn(OpToRel(<, Nat), Nat)
  BY NatLessThanWellFounded, Zenon
<1>2. PICK m \in B : \A y \in B : ~ (<<y, m>> \in OpToRel(<, Nat))
  BY <1>1, WFMin, Zenon
<1>3. ASSUME NEW n \in Nat, n < m PROVE n \notin B
  <2>1. <<n, m>> \in OpToRel(<, Nat)
    BY <1>3 DEF OpToRel
  <2> QED BY <1>2, <2>1, Zenon
<1> QED BY <1>3

\* What holds of the empty set, and goes on holding when an element is added,
\* holds of a finite set.
LEMMA SetInduction ==
  ASSUME NEW S, IsFiniteSet(S), NEW Good, {} \in Good,
         \A T \in SUBSET S : \A x \in S \ T : T \in Good => T \cup {x} \in Good
  PROVE  S \in Good
<1>1. SUFFICES ASSUME S \notin Good PROVE FALSE
  OBVIOUS
<1> DEFINE Bad == {n \in Nat : \E T \in SUBSET S : T \notin Good /\ Cardinality(T) = n}
<1>2. Bad # {} /\ Bad \subseteq Nat
  <2>1. Cardinality(S) \in Nat
    BY FS_CardinalityType
  <2> QED BY <1>1, <2>1
<1>4. PICK m \in Bad : m \in Nat /\ \A n \in Nat : n < m => n \notin Bad
  BY <1>2, LeastOf
<1>5. PICK T \in SUBSET S : T \notin Good /\ Cardinality(T) = m
  BY <1>4
<1>6. PICK x \in T : TRUE
  BY <1>5
<1>7. IsFiniteSet(T)
  BY FS_Subset
<1>8. Cardinality(T \ {x}) = m - 1 /\ IsFiniteSet(T \ {x})
  BY <1>5, <1>6, <1>7, FS_RemoveElement
<1>9. Cardinality(T \ {x}) \in Nat /\ m \in Nat
  BY <1>8, FS_CardinalityType
<1>10. m - 1 \notin Bad
  BY <1>4, <1>8, <1>9
<1>11. T \ {x} \in Good
  BY <1>8, <1>9, <1>10
<1>12. T = (T \ {x}) \cup {x}
  BY <1>6
<1>13. T \ {x} \in SUBSET S /\ x \in S \ (T \ {x})
  BY <1>6
<1>14. (T \ {x}) \cup {x} \in Good
  BY <1>11, <1>13
<1> QED BY <1>5, <1>12, <1>14

(* The function with which the fold computes the sum over S of f.          *)
First(s) == CHOOSE x \in s : TRUE

Sum1(f, it, s) == IF s = {} THEN 0 ELSE f[First(s)] + it[s \ {First(s)}]

Sums(f, S, it) == it = [s \in SUBSET S |-> Sum1(f, it, s)]

Iter(f, S) == CHOOSE it : Sums(f, S, it)

\* The library's sum is the value at the whole set of the function that it
\* recurs with.
LEMMA SumIsIter ==
  ASSUME NEW f, NEW S
  PROVE  SumFunctionOnSet(f, S) = Iter(f, S)[S]
BY DEF SumFunctionOnSet, FoldFunctionOnSet, MapThenFoldSet, Iter, Sums, Sum1, First

\* That function's equation at one set.
LEMMA SumsAt ==
  ASSUME NEW f, NEW S, NEW it, Sums(f, S, it), NEW s \in SUBSET S
  PROVE  it[s] = Sum1(f, it, s)
BY DEF Sums

\* The element that is taken out first.
LEMMA FirstIsIn ==
  ASSUME NEW s, s # {}
  PROVE  First(s) \in s
BY DEF First

(* Two such functions agree where they are both defined.                   *)
LEMMA SumsAgree ==
  ASSUME NEW f, NEW S, NEW U, NEW it, NEW jt, Sums(f, S, it), Sums(f, U, jt),
         NEW T, T \subseteq S, T \subseteq U, IsFiniteSet(T)
  PROVE  it[T] = jt[T]
<1> DEFINE Bad == {n \in Nat : \E s \in SUBSET T : it[s] # jt[s] /\ Cardinality(s) = n}
<1>1. SUFFICES ASSUME it[T] # jt[T] PROVE FALSE
  OBVIOUS
<1>2. Bad # {} /\ Bad \subseteq Nat
  <2>1. Cardinality(T) \in Nat
    BY FS_CardinalityType
  <2> QED BY <1>1, <2>1
<1>3. PICK m \in Bad : m \in Nat /\ \A n \in Nat : n < m => n \notin Bad
  BY <1>2, LeastOf
<1>4. PICK s \in SUBSET T : it[s] # jt[s] /\ Cardinality(s) = m
  BY <1>3
<1>5. s \in SUBSET S /\ s \in SUBSET U
  BY <1>4
<1>6. it[s] = (IF s = {} THEN 0 ELSE f[First(s)] + it[s \ {First(s)}])
  BY <1>5 DEF Sums, Sum1
<1>7. jt[s] = (IF s = {} THEN 0 ELSE f[First(s)] + jt[s \ {First(s)}])
  BY <1>5 DEF Sums, Sum1
<1> DEFINE x == First(s)
<1>8. s # {} /\ x \in s
  BY <1>4, <1>6, <1>7, FirstIsIn
<1> HIDE DEF x
<1>9. IsFiniteSet(s)
  BY FS_Subset
<1>10. Cardinality(s \ {x}) = m - 1 /\ IsFiniteSet(s \ {x})
  BY <1>4, <1>8, <1>9, FS_RemoveElement
<1>11. Cardinality(s \ {x}) \in Nat /\ m \in Nat
  BY <1>10, FS_CardinalityType
<1>12. m - 1 \notin Bad
  BY <1>3, <1>10, <1>11
<1>13. it[s \ {x}] = jt[s \ {x}]
  BY <1>10, <1>11, <1>12
<1> QED BY <1>4, <1>6, <1>7, <1>8, <1>13 DEF x

\* There is one for each finite set.
LEMMA SumsExist ==
  ASSUME NEW f, NEW S, IsFiniteSet(S)
  PROVE  \E it : Sums(f, S, it)
<1> DEFINE Bad == {n \in Nat : \E s \in SUBSET S : ~(\E it : Sums(f, s, it)) /\ Cardinality(s) = n}
<1>1. SUFFICES ASSUME ~\E it : Sums(f, S, it) PROVE FALSE
  OBVIOUS
<1>2. Bad # {} /\ Bad \subseteq Nat
  <2>1. Cardinality(S) \in Nat
    BY FS_CardinalityType
  <2> QED BY <1>1, <2>1
<1>3. PICK m \in Bad : m \in Nat /\ \A n \in Nat : n < m => n \notin Bad
  BY <1>2, LeastOf
<1>4. PICK T \in SUBSET S : ~(\E it : Sums(f, T, it)) /\ Cardinality(T) = m
  BY <1>3
<1>5. IsFiniteSet(T)
  BY FS_Subset
<1>6. ASSUME NEW s \in SUBSET T, s # T PROVE \E it : Sums(f, s, it)
  <2>1. IsFiniteSet(s) /\ Cardinality(s) \in Nat /\ Cardinality(s) <= m /\ Cardinality(s) # m
    BY <1>4, <1>5, <1>6, FS_Subset, FS_CardinalityType
  <2>2. m \in Nat /\ Cardinality(s) < m
    BY <2>1
  <2>3. Cardinality(s) \notin Bad
    BY <1>3, <2>1, <2>2
  <2> QED BY <2>1, <2>3
<1> DEFINE below(s) == IF s = {} THEN 0
                       ELSE f[First(s)] + Iter(f, s \ {First(s)})[s \ {First(s)}]
           it == [s \in SUBSET T |-> below(s)]
<1>7. ASSUME NEW s \in SUBSET T, s # T PROVE Sums(f, s, Iter(f, s))
  BY <1>6, <1>7 DEF Iter
<1>8. ASSUME NEW s \in SUBSET T, s # {}
      PROVE  it[s \ {First(s)}] = Iter(f, s \ {First(s)})[s \ {First(s)}]
  <2> DEFINE r == s \ {First(s)}
  <2>1. r \in SUBSET T /\ r # T
    BY <1>8, FirstIsIn
  <2>2. Sums(f, r, Iter(f, r))
    BY <2>1, <1>7
  <2>3. it[r] = below(r)
    BY <2>1
  <2>4. Iter(f, r)[r] = IF r = {} THEN 0 ELSE f[First(r)] + Iter(f, r)[r \ {First(r)}]
    <3>1. r \in SUBSET r
      OBVIOUS
    <3> HIDE DEF r
    <3> QED BY <3>1, <2>2 DEF Sums, Sum1
  <2>5. CASE r = {}
    BY <2>3, <2>4, <2>5
  <2>6. CASE r # {}
    <3> DEFINE u == r \ {First(r)}
    <3>1. u \in SUBSET T /\ u # T /\ u \subseteq r
      BY <2>1, <2>6, FirstIsIn
    <3>2. Sums(f, u, Iter(f, u)) /\ IsFiniteSet(u)
      BY <3>1, <1>7, <1>5, FS_Subset
    <3>3. Iter(f, u)[u] = Iter(f, r)[u]
      BY <3>1, <3>2, <2>2, SumsAgree
    <3> QED BY <2>3, <2>4, <2>6, <3>3
  <2> QED BY <2>5, <2>6
<1>9. it = [s \in SUBSET T |-> IF s = {} THEN 0 ELSE f[First(s)] + it[s \ {First(s)}]]
  <2>1. ASSUME NEW s \in SUBSET T
        PROVE  below(s) = IF s = {} THEN 0 ELSE f[First(s)] + it[s \ {First(s)}]
    BY <1>8
  <2> HIDE DEF below
  <2>2. [s \in SUBSET T |-> below(s)] = [s \in SUBSET T |-> IF s
          = {} THEN 0 ELSE f[First(s)] + it[s \ {First(s)}]]
    BY <2>1
  <2> QED BY <2>2
<1>10. Sums(f, T, it)
  BY <1>9 DEF Sums, Sum1
<1> QED BY <1>4, <1>10

\* The sum over no elements.
LEMMA SumOfNone ==
  ASSUME NEW f
  PROVE  SumFunctionOnSet(f, {}) = 0
<1>1. IsFiniteSet({})
  BY FS_EmptySet
<1>2. Sums(f, {}, Iter(f, {}))
  BY <1>1, SumsExist DEF Iter
<1>3. {} \in SUBSET {}
  OBVIOUS
<1> QED BY <1>2, <1>3, SumsAt, SumIsIter DEF Sum1

\* The sum in the order of the library.
LEMMA SumOfFirst ==
  ASSUME NEW f, NEW S, IsFiniteSet(S), S # {}
  PROVE  SumFunctionOnSet(f, S) = f[First(S)] + SumFunctionOnSet(f, S \ {First(S)})
<1> DEFINE R == S \ {First(S)}
<1>1. IsFiniteSet(R) /\ R \subseteq S
  BY FS_Subset
<1>2. Sums(f, S, Iter(f, S)) /\ Sums(f, R, Iter(f, R))
  BY <1>1, SumsExist DEF Iter
<1>3. Iter(f, S)[R] = Iter(f, R)[R]
  BY <1>1, <1>2, SumsAgree
<1>4. Iter(f, S)[S] = f[First(S)] + Iter(f, S)[R]
  <2>1. S \in SUBSET S
    OBVIOUS
  <2> QED BY <1>2, <2>1, SumsAt DEF Sum1
<1> QED BY <1>3, <1>4, SumIsIter

\* What holds of a set when it holds of its proper subsets holds of a finite
\* set.
LEMMA SubsetInduction ==
  ASSUME NEW S, IsFiniteSet(S), NEW Good,
         \A T \in SUBSET S : (\A U \in SUBSET T : U # T => U \in Good) => T \in Good
  PROVE  S \in Good
<1>1. SUFFICES ASSUME S \notin Good PROVE FALSE
  OBVIOUS
<1> DEFINE Bad == {n \in Nat : \E T \in SUBSET S : T \notin Good /\ Cardinality(T) = n}
<1>2. Bad # {} /\ Bad \subseteq Nat
  <2>1. Cardinality(S) \in Nat
    BY FS_CardinalityType
  <2> QED BY <1>1, <2>1
<1>3. PICK m \in Bad : m \in Nat /\ \A n \in Nat : n < m => n \notin Bad
  BY <1>2, LeastOf
<1>4. PICK T \in SUBSET S : T \notin Good /\ Cardinality(T) = m
  BY <1>3
<1>5. IsFiniteSet(T)
  BY FS_Subset
<1>6. ASSUME NEW U \in SUBSET T, U # T PROVE U \in Good
  <2>1. IsFiniteSet(U) /\ Cardinality(U) \in Nat /\ Cardinality(U) <= m /\ Cardinality(U) # m
    BY <1>4, <1>5, <1>6, FS_Subset, FS_CardinalityType
  <2>2. Cardinality(U) \notin Bad
    BY <1>3, <2>1
  <2> QED BY <2>1, <2>2
<1> QED BY <1>4, <1>6

\* A sum of integers is one.
LEMMA SumIsInt ==
  ASSUME NEW S, IsFiniteSet(S), NEW f, \A x \in S : f[x] \in Int
  PROVE  SumFunctionOnSet(f, S) \in Int
<1> DEFINE Good == {T \in SUBSET S : SumFunctionOnSet(f, T) \in Int}
<1>1. ASSUME NEW T \in SUBSET S, \A U \in SUBSET T : U # T => U \in Good
      PROVE  T \in Good
  <2>1. CASE T = {}
    BY <2>1, SumOfNone
  <2>2. CASE T # {}
    <3> DEFINE c == First(T)
    <3>1. c \in T
      BY <2>2, FirstIsIn
    <3>2. SumFunctionOnSet(f, T) = f[c] + SumFunctionOnSet(f, T \ {c})
      BY <2>2, SumOfFirst, FS_Subset
    <3> HIDE DEF c
    <3>3. T \ {c} \in Good
      BY <1>1, <3>1
    <3> QED BY <3>1, <3>2, <3>3
  <2> QED BY <2>1, <2>2
<1>2. S \in Good
  <2> HIDE DEF Good
  <2> QED BY <1>1, SubsetInduction
<1> QED BY <1>2

\* Any element may be the first: the order of a sum does not matter.
LEMMA SumOfAny ==
  ASSUME NEW S, IsFiniteSet(S), NEW f, \A x \in S : f[x] \in Int, NEW x \in S
  PROVE  SumFunctionOnSet(f, S) = f[x] + SumFunctionOnSet(f, S \ {x})
<1> DEFINE Good == {T \in SUBSET S : \A y \in T :
                       SumFunctionOnSet(f, T) = f[y] + SumFunctionOnSet(f, T \ {y})}
<1>1. ASSUME NEW T \in SUBSET S, \A U \in SUBSET T : U # T => U \in Good
      PROVE  T \in Good
  <2> SUFFICES ASSUME NEW y \in T
               PROVE  SumFunctionOnSet(f, T) = f[y] + SumFunctionOnSet(f, T \ {y})
    OBVIOUS
  <2> DEFINE c == First(T)
  <2>1. c \in T
    BY FirstIsIn
  <2>2. IsFiniteSet(T)
    BY FS_Subset
  <2>3. SumFunctionOnSet(f, T) = f[c] + SumFunctionOnSet(f, T \ {c})
    BY <2>2, SumOfFirst
  <2> HIDE DEF c
  <2>4. CASE c = y
    BY <2>3, <2>4
  <2>5. CASE c # y
    <3>1. T \ {c} \in Good /\ T \ {y} \in Good
      BY <1>1, <2>1
    <3>2. SumFunctionOnSet(f, T \ {c}) = f[y] + SumFunctionOnSet(f, (T \ {c}) \ {y})
      BY <3>1, <2>5
    <3>3. SumFunctionOnSet(f, T \ {y}) = f[c] + SumFunctionOnSet(f, (T \ {y}) \ {c})
      BY <3>1, <2>1, <2>5
    <3>4. (T \ {c}) \ {y} = (T \ {y}) \ {c}
      OBVIOUS
    <3> DEFINE v == SumFunctionOnSet(f, (T \ {y}) \ {c})
    <3>5. v \in Int
      BY <2>2, SumIsInt, FS_Subset
    <3>6. f[c] \in Int /\ f[y] \in Int
      BY <2>1
    <3>7. SumFunctionOnSet(f, T \ {c}) = f[y] + v
      BY <3>2, <3>4
    <3>8. SumFunctionOnSet(f, T \ {y}) = f[c] + v
      BY <3>3
    <3> HIDE DEF v
    <3> QED BY <2>3, <3>7, <3>8, <3>5, <3>6
  <2> QED BY <2>4, <2>5
<1>2. S \in Good
  <2> HIDE DEF Good
  <2> QED BY <1>1, SubsetInduction
<1> QED BY <1>2

\* The sum over a set and one more element.
LEMMA SumWithOneMore ==
  ASSUME NEW S, IsFiniteSet(S), NEW f, \A y \in S : f[y] \in Int, NEW x, x \notin S, f[x] \in Int
  PROVE  SumFunctionOnSet(f, S \cup {x}) = f[x] + SumFunctionOnSet(f, S)
<1>1. IsFiniteSet(S \cup {x})
  BY FS_AddElement
<1>2. (S \cup {x}) \ {x} = S
  OBVIOUS
<1>3. \A y \in S \cup {x} : f[y] \in Int
  OBVIOUS
<1> QED BY <1>1, <1>2, <1>3, SumOfAny

(* Where b maps S one to one onto T, and f to g, their sums are the same.  *)
OneToOne(b, S, T) ==
    /\ \A x \in S : b[x] \in T
    /\ \A y \in T : \E x \in S : b[x] = y
    /\ \A x, y \in S : b[x] = b[y] => x = y

ImageOf(b, S) == {b[x] : x \in S}

\* A sum does not change with the names of what is summed.
LEMMA SumOfImage ==
  ASSUME NEW S, IsFiniteSet(S), NEW b, \A x, y \in S : b[x] = b[y] => x = y,
         NEW f, NEW g, \A x \in S : f[x] \in Int /\ g[b[x]] = f[x]
  PROVE  SumFunctionOnSet(f, S) = SumFunctionOnSet(g, ImageOf(b, S))
         /\ IsFiniteSet(ImageOf(b, S))
<1> DEFINE Good == {T \in SUBSET S :
                       /\ SumFunctionOnSet(f, T) = SumFunctionOnSet(g, ImageOf(b, T))
                       /\ IsFiniteSet(ImageOf(b, T))}
<1>1. {} \in Good
  <2>1. ImageOf(b, {}) = {}
    BY DEF ImageOf
  <2> QED BY <2>1, SumOfNone, FS_EmptySet
<1>2. ASSUME NEW T \in SUBSET S, NEW x \in S \ T, T \in Good
      PROVE  T \cup {x} \in Good
  <2>1. ImageOf(b, T \cup {x}) = ImageOf(b, T) \cup {b[x]}
    BY DEF ImageOf
  <2>2. b[x] \notin ImageOf(b, T)
    BY DEF ImageOf
  <2>3. \A y \in ImageOf(b, T) : g[y] \in Int
    BY DEF ImageOf
  <2>4. IsFiniteSet(T) /\ (\A y \in T : f[y] \in Int) /\ f[x] \in Int
    BY FS_Subset
  <2>5. SumFunctionOnSet(f, T \cup {x}) = f[x] + SumFunctionOnSet(f, T)
    BY <2>4, SumWithOneMore
  <2>6. IsFiniteSet(ImageOf(b, T)) /\ g[b[x]] \in Int
    BY <1>2
  <2>7. SumFunctionOnSet(g, ImageOf(b, T) \cup {b[x]})
          = g[b[x]] + SumFunctionOnSet(g, ImageOf(b, T))
    BY <2>2, <2>3, <2>6, SumWithOneMore
  <2>8. IsFiniteSet(ImageOf(b, T) \cup {b[x]})
    BY <2>6, FS_AddElement
  <2>9. g[b[x]] = f[x] /\ SumFunctionOnSet(f, T) = SumFunctionOnSet(g, ImageOf(b, T))
    BY <1>2
  <2>10. T \cup {x} \in SUBSET S
    OBVIOUS
  <2> QED BY <2>1, <2>5, <2>7, <2>8, <2>9, <2>10
<1>3. S \in Good
  <2> HIDE DEF Good
  <2> QED BY <1>1, <1>2, SetInduction
<1> QED BY <1>3

\* The same along a one to one correspondence.
LEMMA SameSums ==
  ASSUME NEW S, IsFiniteSet(S), NEW T, NEW b, OneToOne(b, S, T),
         NEW f, NEW g, \A x \in S : f[x] \in Int /\ g[b[x]] = f[x]
  PROVE  SumFunctionOnSet(f, S) = SumFunctionOnSet(g, T)
<1>1. ImageOf(b, S) = T
  BY DEF ImageOf, OneToOne
<1> QED BY <1>1, SumOfImage DEF OneToOne

(* Terms that are zero may be left out.                                    *)
LEMMA SumWithoutZeros ==
  ASSUME NEW S, IsFiniteSet(S), NEW P \in SUBSET S, NEW f,
         \A x \in S : f[x] \in Int, \A x \in S \ P : f[x] = 0
  PROVE  SumFunctionOnSet(f, S) = SumFunctionOnSet(f, P)
<1> DEFINE Good == {T \in SUBSET S : SumFunctionOnSet(f, T) = SumFunctionOnSet(f, T \cap P)}
<1>1. {} \in Good
  <2>1. {} \cap P = {}
    OBVIOUS
  <2> QED BY <2>1
<1>2. ASSUME NEW T \in SUBSET S, NEW x \in S \ T, T \in Good
      PROVE  T \cup {x} \in Good
  <2>1. IsFiniteSet(T) /\ IsFiniteSet(T \cap P)
    BY FS_Subset
  <2>2. SumFunctionOnSet(f, T \cup {x}) = f[x] + SumFunctionOnSet(f, T)
    BY <2>1, SumWithOneMore
  <2>3. SumFunctionOnSet(f, T) = SumFunctionOnSet(f, T \cap P)
          /\ SumFunctionOnSet(f, T \cap P) \in Int
    BY <1>2, <2>1, SumIsInt
  <2>4. CASE x \in P
    <3>1. (T \cup {x}) \cap P = (T \cap P) \cup {x} /\ x \notin T \cap P
      BY <2>4
    <3>2. SumFunctionOnSet(f, (T \cap P) \cup {x}) = f[x] + SumFunctionOnSet(f, T \cap P)
      BY <2>1, <3>1, SumWithOneMore
    <3> QED BY <2>2, <2>3, <3>1, <3>2
  <2>5. CASE x \notin P
    <3>1. (T \cup {x}) \cap P = T \cap P /\ f[x] = 0
      BY <2>5
    <3>2. SumFunctionOnSet(f, T \cup {x}) = SumFunctionOnSet(f, (T \cup {x}) \cap P)
      <4> DEFINE more == T \cup {x}
                 U == more \cap P
                 V == T \cap P
      <4>1. U = V /\ f[x] = 0
        BY <3>1
      <4>2. SumFunctionOnSet(f, V) \in Int /\ SumFunctionOnSet(f, more)
              = f[x] + SumFunctionOnSet(f, V)
        BY <2>2, <2>3
      <4> HIDE DEF more, U, V
      <4>3. SumFunctionOnSet(f, more) = SumFunctionOnSet(f, U)
        BY <4>1, <4>2
      <4> QED BY <4>3 DEF more, U
    <3>3. T \cup {x} \in SUBSET S
      OBVIOUS
    <3> QED BY <3>2, <3>3
  <2> QED BY <2>4, <2>5
<1>3. S \in Good
  <2> HIDE DEF Good
  <2> QED BY <1>1, <1>2, SetInduction
<1>4. S \cap P = P
  OBVIOUS
<1> QED BY <1>3, <1>4

(* A sum of ones counts.                                                   *)
LEMMA SumOfOnes ==
  ASSUME NEW S, IsFiniteSet(S), NEW f, \A x \in S : f[x] = 1
  PROVE  SumFunctionOnSet(f, S) = Cardinality(S)
<1> DEFINE Good == {T \in SUBSET S : SumFunctionOnSet(f, T) = Cardinality(T)}
<1>1. {} \in Good
  BY SumOfNone, FS_EmptySet
<1>2. ASSUME NEW T \in SUBSET S, NEW x \in S \ T, T \in Good
      PROVE  T \cup {x} \in Good
  <2>1. IsFiniteSet(T) /\ Cardinality(T) \in Nat
    BY FS_Subset, FS_CardinalityType
  <2>2. SumFunctionOnSet(f, T \cup {x}) = f[x] + SumFunctionOnSet(f, T)
    BY <2>1, SumWithOneMore
  <2>3. Cardinality(T \cup {x}) = Cardinality(T) + 1
    BY <2>1, FS_AddElement
  <2> QED BY <1>2, <2>1, <2>2, <2>3
<1>3. S \in Good
  <2> HIDE DEF Good
  <2> QED BY <1>1, <1>2, SetInduction
<1> QED BY <1>3

-----------------------------------------------------------------------------
(* Rows and their joins.                                                   *)

IsFcn(r) == r = [c \in DOMAIN r |-> r[c]]

\* The row of a join, column by column.
LEMMA JoinedIs ==
  ASSUME NEW l, NEW r
  PROVE  /\ IsFcn(Joined(l, r))
         /\ DOMAIN Joined(l, r) = DOMAIN l \cup DOMAIN r
         /\ \A c \in DOMAIN l : Joined(l, r)[c] = l[c]
         /\ \A c \in DOMAIN r : c \notin DOMAIN l => Joined(l, r)[c] = r[c]
BY DEF Joined, IsFcn

\* A column of the left row.
LEMMA JoinedLeft ==
  ASSUME NEW l, NEW r, NEW c \in DOMAIN l
  PROVE  Joined(l, r)[c] = l[c]
BY DEF Joined

\* A column that only the right row has.
LEMMA JoinedRight ==
  ASSUME NEW l, NEW r, NEW c \in DOMAIN r, c \notin DOMAIN l
  PROVE  Joined(l, r)[c] = r[c]
BY DEF Joined

\* Rows with the same values in the same columns are the same.
LEMMA SameFcn ==
  ASSUME NEW x, NEW y, IsFcn(x), IsFcn(y), DOMAIN x = DOMAIN y,
         \A c \in DOMAIN x : x[c] = y[c]
  PROVE  x = y
BY DEF IsFcn

\* The columns that are kept.
LEMMA OnIs ==
  ASSUME NEW x, NEW C
  PROVE  IsFcn(On(x, C)) /\ DOMAIN On(x, C) = C /\ \A c \in C : On(x, C)[c] = x[c]
BY DEF On, IsFcn

\* The rows of a product.
LEMMA InCross ==
  ASSUME NEW R, NEW S, NEW x
  PROVE  x \in R \otimes S <=> \E l \in R, r \in S : x = Joined(l, r)
<1>1. ASSUME NEW l \in R, NEW r \in S, x = Joined(l, r) PROVE x \in Cross(R, S)
  <2>1. <<l, r>> \in R \X S /\ <<l, r>>[1] = l /\ <<l, r>>[2] = r
    OBVIOUS
  <2> QED BY <2>1, <1>1 DEF Cross
<1>2. ASSUME x \in Cross(R, S) PROVE \E l \in R, r \in S : x = Joined(l, r)
  <2>1. PICK p \in R \X S : x = Joined(p[1], p[2])
    BY <1>2 DEF Cross
  <2> QED BY <2>1
<1> QED BY <1>1, <1>2 DEF \otimes

\* The rows of a join.
LEMMA InMerge ==
  ASSUME NEW R, NEW S, NEW lk, NEW rk, NEW x
  PROVE  x \in Merge(R, S, lk, rk) <=>
         \E l \in R, r \in S : Match(l, r, lk, rk) /\ x = Joined(l, r)
<1>1. ASSUME NEW l \in R, NEW r \in S, Match(l, r, lk, rk), x = Joined(l, r)
      PROVE  x \in Merge(R, S, lk, rk)
  <2>1. <<l, r>> \in R \X S /\ <<l, r>>[1] = l /\ <<l, r>>[2] = r
    OBVIOUS
  <2>2. <<l, r>> \in {q \in R \X S : Match(q[1], q[2], lk, rk)}
    BY <2>1, <1>1
  <2> QED BY <2>1, <2>2, <1>1 DEF Merge
<1>2. ASSUME x \in Merge(R, S, lk, rk)
      PROVE  \E l \in R, r \in S : Match(l, r, lk, rk) /\ x = Joined(l, r)
  <2>1. PICK p \in {q \in R \X S : Match(q[1], q[2], lk, rk)} : x = Joined(p[1], p[2])
    BY <1>2 DEF Merge
  <2> QED BY <2>1
<1> QED BY <1>1, <1>2

\* A match on one column.
LEMMA MatchOne ==
  ASSUME NEW l, NEW r, NEW a, NEW b
  PROVE  Match(l, r, <<a>>, <<b>>) <=> l[a] = r[b]
<1>1. DOMAIN <<a>> = {1} /\ <<a>>[1] = a /\ <<b>>[1] = b
  OBVIOUS
<1> QED BY <1>1 DEF Match

\* A match on two.
LEMMA MatchTwo ==
  ASSUME NEW l, NEW r, NEW a, NEW b, NEW c, NEW d
  PROVE  Match(l, r, <<a, b>>, <<c, d>>) <=> l[a] = r[c] /\ l[b] = r[d]
<1>1. /\ DOMAIN <<a, b>> = {1, 2} /\ <<a, b>>[1] = a /\ <<a, b>>[2] = b
      /\ <<c, d>>[1] = c /\ <<c, d>>[2] = d
  OBVIOUS
<1> QED BY <1>1 DEF Match

-----------------------------------------------------------------------------
(* Rows of several tables.                                                 *)

Tables == {"nation", "region", "part", "supplier", "partsupp", "customer", "orders", "lineitem"}

\* No two tables share a column: a join hides nothing.
LEMMA ColumnsAreApart ==
  ASSUME NEW t \in Tables, NEW u \in Tables, t # u
  PROVE  Columns[t] \cap Columns[u] = {}
BY DEF Columns, Tables

Cols(T) == UNION {Columns[t] : t \in T}

(* The part of a row that is from the tables T.                            *)
Part(x, T) == On(x, DOMAIN x \cap Cols(T))

(* x is the row of a join of the tables T of d.                            *)
IsRow(d, T, x) ==
    /\ IsFcn(x)
    /\ DOMAIN x \subseteq Cols(T)
    /\ \A t \in T : Part(x, {t}) \in d[t]

AreRows(d, T, R) == \A x \in R : IsRow(d, T, x)

\* The columns of one table.
LEMMA ColsOfOne ==
  ASSUME NEW t
  PROVE  Cols({t}) = Columns[t]
BY DEF Cols

\* The columns of two groups of tables.
LEMMA ColsUnion ==
  ASSUME NEW T, NEW U
  PROVE  Cols(T \cup U) = Cols(T) \cup Cols(U)
BY DEF Cols

\* Groups without a common table have no common column.
LEMMA ColsApart ==
  ASSUME NEW T \in SUBSET Tables, NEW U \in SUBSET Tables, T \cap U = {}
  PROVE  Cols(T) \cap Cols(U) = {}
BY ColumnsAreApart DEF Cols

\* A table's columns are among its group's.
LEMMA ColsOfMember ==
  ASSUME NEW T, NEW t \in T
  PROVE  Columns[t] \subseteq Cols(T)
BY DEF Cols

\* A part of a part of a row.
LEMMA PartOfPart ==
  ASSUME NEW x, NEW T, NEW U, Cols(U) \subseteq Cols(T)
  PROVE  Part(Part(x, T), U) = Part(x, U)
BY DEF Part, On

\* A join's row, cut along its tables, gives back the rows it came from.
LEMMA JoinedParts ==
  ASSUME NEW l, NEW r, NEW T \in SUBSET Tables, NEW U \in SUBSET Tables, T \cap U = {},
         IsFcn(l), IsFcn(r), DOMAIN l \subseteq Cols(T), DOMAIN r \subseteq Cols(U)
  PROVE  Part(Joined(l, r), T) = l /\ Part(Joined(l, r), U) = r
<1> DEFINE x == Joined(l, r)
<1>1. Cols(T) \cap Cols(U) = {}
  BY ColsApart
<1>2. DOMAIN x = DOMAIN l \cup DOMAIN r
  BY JoinedIs
<1>3. DOMAIN x \cap Cols(T) = DOMAIN l /\ DOMAIN x \cap Cols(U) = DOMAIN r
  BY <1>1, <1>2
<1>4. \A c \in DOMAIN l : x[c] = l[c]
  BY JoinedIs
<1>5. \A c \in DOMAIN r : c \notin DOMAIN l
  BY <1>1
<1>6. \A c \in DOMAIN r : x[c] = r[c]
  BY <1>5, JoinedRight
<1> HIDE DEF x
<1>7. Part(x, T) = l
  BY <1>3, <1>4 DEF Part, On, IsFcn
<1>8. Part(x, U) = r
  BY <1>3, <1>6 DEF Part, On, IsFcn
<1> QED BY <1>7, <1>8 DEF x

\* And its parts joined give the row.
LEMMA PartsJoined ==
  ASSUME NEW x, NEW T, NEW U, IsFcn(x), DOMAIN x \subseteq Cols(T \cup U)
  PROVE  x = Joined(Part(x, T), Part(x, U))
BY ColsUnion DEF Joined, Part, On, IsFcn

\* A part of a row of tables is a row of fewer tables.
LEMMA PartIsRow ==
  ASSUME NEW d, NEW x, NEW U, NEW T \in SUBSET U, IsRow(d, U, x)
  PROVE  IsRow(d, T, Part(x, T))
<1> DEFINE y == Part(x, T)
<1>1. IsFcn(y) /\ DOMAIN y \subseteq Cols(T)
  BY DEF Part, On, IsFcn
<1>2. ASSUME NEW t \in T PROVE Part(y, {t}) \in d[t]
  <2>1. Cols({t}) \subseteq Cols(T)
    BY DEF Cols
  <2>2. Part(y, {t}) = Part(x, {t})
    BY <2>1, PartOfPart
  <2> QED BY <2>2 DEF IsRow
<1> QED BY <1>1, <1>2 DEF IsRow

\* The join of two rows of tables is a row of all of them.
LEMMA JoinedIsRow ==
  ASSUME NEW d, NEW T \in SUBSET Tables, NEW U \in SUBSET Tables, T \cap U = {},
         NEW l, NEW r, IsRow(d, T, l), IsRow(d, U, r)
  PROVE  IsRow(d, T \cup U, Joined(l, r))
<1> DEFINE x == Joined(l, r)
<1>1. IsFcn(x) /\ DOMAIN x = DOMAIN l \cup DOMAIN r
  BY JoinedIs
<1>2. Part(x, T) = l /\ Part(x, U) = r
  BY JoinedParts DEF IsRow
<1> HIDE DEF x
<1>3. DOMAIN x \subseteq Cols(T \cup U)
  BY <1>1, ColsUnion DEF IsRow
<1>4. ASSUME NEW t \in T PROVE Part(x, {t}) \in d[t]
  <2>1. Cols({t}) \subseteq Cols(T)
    BY DEF Cols
  <2>2. Part(l, {t}) = Part(x, {t})
    BY <2>1, <1>2, PartOfPart
  <2> QED BY <2>2 DEF IsRow
<1>5. ASSUME NEW t \in U PROVE Part(x, {t}) \in d[t]
  <2>1. Cols({t}) \subseteq Cols(U)
    BY DEF Cols
  <2>2. Part(r, {t}) = Part(x, {t})
    BY <2>1, <1>2, PartOfPart
  <2> QED BY <2>2 DEF IsRow
<1>6. IsRow(d, T \cup U, x)
  <2>1. \A t \in T \cup U : Part(x, {t}) \in d[t]
    BY <1>4, <1>5
  <2> QED BY <1>1, <1>3, <2>1 DEF IsRow
<1> QED BY <1>6 DEF x

(* The rows of a product.                                                  *)
LEMMA ProductIs ==
  ASSUME NEW d, NEW T \in SUBSET Tables, NEW U \in SUBSET Tables, T \cap U = {},
         NEW R, NEW S, AreRows(d, T, R), AreRows(d, U, S), NEW x
  PROVE  /\ x \in R \otimes S => IsRow(d, T \cup U, x) /\ Part(x, T) \in R /\ Part(x, U) \in S
         /\ IsRow(d, T \cup U, x) /\ Part(x, T) \in R /\ Part(x, U) \in S => x \in R \otimes S
<1>1. ASSUME x \in R \otimes S
      PROVE  IsRow(d, T \cup U, x) /\ Part(x, T) \in R /\ Part(x, U) \in S
  <2>1. PICK l \in R, r \in S : x = Joined(l, r)
    BY <1>1, InCross
  <2>2. IsRow(d, T, l) /\ IsRow(d, U, r)
    BY DEF AreRows
  <2>3. IsRow(d, T \cup U, x)
    BY <2>1, <2>2, JoinedIsRow
  <2>4. /\ IsFcn(l) /\ DOMAIN l \subseteq Cols(T)
        /\ IsFcn(r) /\ DOMAIN r \subseteq Cols(U)
    BY <2>2 DEF IsRow
  <2>5. Part(x, T) = l /\ Part(x, U) = r
    BY <2>1, <2>4, JoinedParts
  <2> QED BY <2>3, <2>5
<1>2. ASSUME IsRow(d, T \cup U, x), Part(x, T) \in R, Part(x, U) \in S
      PROVE  x \in R \otimes S
  <2>1. x = Joined(Part(x, T), Part(x, U))
    BY <1>2, PartsJoined DEF IsRow
  <2> QED BY <2>1, <1>2, InCross
<1> QED BY <1>1, <1>2

Has(R, c) == \A x \in R : c \in DOMAIN x

(* The joins of the queries: on one column, and on two.                    *)
MergeOn(R, S, a, b) == Merge(R, S, <<a>>, <<b>>)

MergeOnTwo(R, S, a, b, e, f) == Merge(R, S, <<a, e>>, <<b, f>>)

\* A join holds just those of them that agree on the key.
LEMMA MergeIs ==
  ASSUME NEW d, NEW T \in SUBSET Tables, NEW U \in SUBSET Tables, T \cap U = {},
         NEW R, NEW S, AreRows(d, T, R), AreRows(d, U, S), NEW a, NEW b, Has(R, a), Has(S, b),
         NEW x
  PROVE  /\ x \in MergeOn(R, S, a, b) =>
                IsRow(d, T \cup U, x) /\ Part(x, T) \in R /\ Part(x, U) \in S /\ x[a] = x[b]
         /\ IsRow(d, T \cup U, x) /\ Part(x, T) \in R /\ Part(x, U) \in S /\ x[a] = x[b] =>
                x \in MergeOn(R, S, a, b)
<1>1. ASSUME NEW l \in R, NEW r \in S
      PROVE  Joined(l, r)[a] = l[a] /\ Joined(l, r)[b] = r[b]
  <2>1. a \in DOMAIN l /\ b \in DOMAIN r
    BY DEF Has
  <2>2. DOMAIN l \subseteq Cols(T) /\ DOMAIN r \subseteq Cols(U)
    BY DEF AreRows, IsRow
  <2>3. b \notin DOMAIN l
    BY <2>1, <2>2, ColsApart
  <2> QED BY <2>1, <2>3, JoinedLeft, JoinedRight
<1>2. x \in MergeOn(R, S, a, b) <=> x \in R \otimes S /\ x[a] = x[b]
  <2>1. ASSUME NEW l \in R, NEW r \in S, x = Joined(l, r)
        PROVE  Match(l, r, <<a>>, <<b>>) <=> x[a] = x[b]
    BY <1>1, <2>1, MatchOne
  <2> QED BY <2>1, InMerge, InCross DEF MergeOn, MergeOnTwo
<1>3. x \in R \otimes S <=> IsRow(d, T \cup U, x) /\ Part(x, T) \in R /\ Part(x, U) \in S
  BY ProductIs
<1> QED BY <1>2, <1>3

\* The same with two columns in the key.
LEMMA MergeOnTwoIs ==
  ASSUME NEW d, NEW T \in SUBSET Tables, NEW U \in SUBSET Tables, T \cap U = {},
         NEW R, NEW S, AreRows(d, T, R), AreRows(d, U, S), NEW a, NEW b, Has(R, a), Has(S, b),
         NEW e, NEW f, Has(R, e), Has(S, f), NEW x
  PROVE  /\ x \in MergeOnTwo(R, S, a, b, e, f) =>
                /\ IsRow(d, T \cup U, x) /\ Part(x, T) \in R /\ Part(x, U) \in S
                /\ x[a] = x[b] /\ x[e] = x[f]
         /\ IsRow(d, T \cup U, x) /\ Part(x, T) \in R /\ Part(x, U) \in S
            /\ x[a] = x[b] /\ x[e] = x[f] => x \in MergeOnTwo(R, S, a, b, e, f)
<1>1. ASSUME NEW l \in R, NEW r \in S
      PROVE  /\ Joined(l, r)[a] = l[a] /\ Joined(l, r)[b] = r[b]
             /\ Joined(l, r)[e] = l[e] /\ Joined(l, r)[f] = r[f]
  <2>1. a \in DOMAIN l /\ b \in DOMAIN r /\ e \in DOMAIN l /\ f \in DOMAIN r
    BY DEF Has
  <2>2. DOMAIN l \subseteq Cols(T) /\ DOMAIN r \subseteq Cols(U)
    BY DEF AreRows, IsRow
  <2>3. b \notin DOMAIN l /\ f \notin DOMAIN l
    BY <2>1, <2>2, ColsApart
  <2> QED BY <2>1, <2>3, JoinedLeft, JoinedRight
<1>2. x \in MergeOnTwo(R, S, a, b, e, f) <=> x \in R \otimes S /\ x[a] = x[b] /\ x[e] = x[f]
  <2>1. ASSUME NEW l \in R, NEW r \in S, x = Joined(l, r)
        PROVE  Match(l, r, <<a, e>>, <<b, f>>) <=> x[a] = x[b] /\ x[e] = x[f]
    <3>1. Match(l, r, <<a, e>>, <<b, f>>) <=> l[a] = r[b] /\ l[e] = r[f]
      BY MatchTwo
    <3> QED BY <1>1, <2>1, <3>1
  <2> QED BY <2>1, InMerge, InCross DEF MergeOn, MergeOnTwo
<1>3. x \in R \otimes S <=> IsRow(d, T \cup U, x) /\ Part(x, T) \in R /\ Part(x, U) \in S
  BY ProductIs
<1> QED BY <1>2, <1>3

-----------------------------------------------------------------------------
(* Databases.                                                              *)

(* The rows of d have the columns that N names.                            *)
Fits(d, N) ==
    \A t \in DOMAIN N :
        /\ t \in Tables
        /\ \A r \in d[t] : IsFcn(r) /\ DOMAIN r \subseteq Columns[t] /\ N[t] \subseteq DOMAIN r

\* The rows of a table, seen as rows of one table.
LEMMA TableRows ==
  ASSUME NEW d, NEW N, Fits(d, N), NEW t \in DOMAIN N
  PROVE  /\ \A x : x \in d[t] <=> IsRow(d, {t}, x)
         /\ AreRows(d, {t}, d[t])
         /\ \A c \in N[t] : Has(d[t], c)
<1>1. ASSUME NEW x \in d[t] PROVE IsRow(d, {t}, x)
  <2>1. IsFcn(x) /\ DOMAIN x \subseteq Columns[t]
    BY DEF Fits
  <2>2. Part(x, {t}) = x
    BY <2>1, ColsOfOne DEF Part, On, IsFcn
  <2> QED BY <2>1, <2>2, ColsOfOne DEF IsRow
<1>2. ASSUME NEW x, IsRow(d, {t}, x) PROVE x \in d[t]
  <2>1. IsFcn(x) /\ DOMAIN x \subseteq Columns[t] /\ Part(x, {t}) \in d[t]
    BY <1>2, ColsOfOne DEF IsRow
  <2>2. Part(x, {t}) = x
    BY <2>1, ColsOfOne DEF Part, On, IsFcn
  <2> QED BY <2>1, <2>2
<1>3. \A c \in N[t] : Has(d[t], c)
  BY DEF Fits, Has
<1> QED BY <1>1, <1>2, <1>3 DEF AreRows

Among(T, U) == T \subseteq U

(* A table of T has the column c.                                          *)
Names(N, T, c) == \E t \in T : c \in N[t]

\* A named column has the same value in the part that holds its table.
LEMMA ColumnOfPart ==
  ASSUME NEW d, NEW N, Fits(d, N), NEW U, Among(U, DOMAIN N), NEW x, IsRow(d, U, x),
         NEW T, Among(T, U), NEW c, Names(N, T, c)
  PROVE  c \in DOMAIN x /\ Part(x, T)[c] = x[c]
<1>0. PICK t \in T : c \in N[t]
  BY DEF Names
<1>1. t \in U /\ t \in DOMAIN N
  BY DEF Among
<1>2. Part(x, {t}) \in d[t]
  BY <1>1 DEF IsRow
<1>3. N[t] \subseteq DOMAIN Part(x, {t})
  BY <1>1, <1>2 DEF Fits
<1>4. DOMAIN Part(x, {t}) = DOMAIN x \cap Columns[t]
  BY ColsOfOne DEF Part, On
<1>5. c \in DOMAIN x /\ c \in Cols(T)
  BY <1>0, <1>3, <1>4, ColsOfMember
<1> QED BY <1>5 DEF Part, On

\* A column named in a table.
LEMMA NamesOfTable ==
  ASSUME NEW N, NEW t, NEW c \in N[t]
  PROVE  Names(N, {t}, c)
BY DEF Names

\* A column named in the table that comes last to the group.
LEMMA NamesOfLast ==
  ASSUME NEW N, NEW T, NEW t, NEW c \in N[t]
  PROVE  Names(N, T \cup {t}, c)
BY DEF Names

\* A column named already.
LEMMA NamesOfMore ==
  ASSUME NEW N, NEW T, NEW t, NEW c, Names(N, T, c)
  PROVE  Names(N, T \cup {t}, c)
BY DEF Names

\* A frame has the columns that its tables name.
LEMMA HasColumn ==
  ASSUME NEW d, NEW N, Fits(d, N), NEW T, Among(T, DOMAIN N), NEW R, AreRows(d, T, R),
         NEW c, Names(N, T, c)
  PROVE  Has(R, c)
<1> SUFFICES ASSUME NEW y \in R PROVE c \in DOMAIN y
  BY DEF Has
<1>1. IsRow(d, T, y) /\ Among(T, T)
  BY DEF AreRows, Among
<1> QED BY <1>1, ColumnOfPart

\* The part of a row with all its tables is the row.
LEMMA WholeRow ==
  ASSUME NEW d, NEW U, NEW x, IsRow(d, U, x)
  PROVE  Part(x, U) = x
BY DEF IsRow, Part, On, IsFcn

(* A join in a query of the tables U: what its result has of a row.        *)
Keeps(d, N, x) == Fits(d, N) /\ IsRow(d, DOMAIN N, x)

Apart(T, V) == T \cap V = {}

\* The part of a wanted row for some of the tables is a row of these.
LEMMA PartKept ==
  ASSUME NEW d, NEW N, NEW x, Keeps(d, N, x), NEW T, Among(T, DOMAIN N)
  PROVE  IsRow(d, T, Part(x, T))
BY PartIsRow DEF Keeps, Among

\* And its columns are the row's.
LEMMA ColumnKept ==
  ASSUME NEW d, NEW N, NEW x, Keeps(d, N, x), NEW T, Among(T, DOMAIN N), NEW c, Names(N, T, c)
  PROVE  Part(x, T)[c] = x[c]
<1>1. Among(DOMAIN N, DOMAIN N) /\ Fits(d, N) /\ IsRow(d, DOMAIN N, x)
  BY DEF Among, Keeps
<1> QED BY <1>1, ColumnOfPart

\* A join of frames is a frame of the tables of both.
LEMMA MergeAreRows ==
  ASSUME NEW d, NEW N, Fits(d, N), NEW T, NEW V, Among(T, DOMAIN N), Among(V, DOMAIN N),
           Apart(T, V),
         NEW R, NEW S, AreRows(d, T, R), AreRows(d, V, S),
         NEW a, NEW b, Names(N, T, a), Names(N, V, b)
  PROVE  AreRows(d, T \cup V, MergeOn(R, S, a, b))
<1>1. T \in SUBSET Tables /\ V \in SUBSET Tables /\ T \cap V = {}
  BY DEF Fits, Among, Apart
<1>2. Has(R, a) /\ Has(S, b)
  BY HasColumn
<1>3. ASSUME NEW y \in MergeOn(R, S, a, b) PROVE IsRow(d, T \cup V, y)
  BY <1>1, <1>2, MergeIs
<1> QED BY <1>3 DEF AreRows

\* A wanted row is kept by a join when its parts are in the frames and agree on
\* the key.
LEMMA MergeKeeps ==
  ASSUME NEW d, NEW N, NEW x, Keeps(d, N, x),
         NEW T, NEW V, Among(T, DOMAIN N), Among(V, DOMAIN N), Apart(T, V),
         NEW R, NEW S, AreRows(d, T, R), AreRows(d, V, S),
         NEW a, NEW b, Names(N, T, a), Names(N, V, b)
  PROVE  /\ Part(x, T \cup V) \in MergeOn(R, S, a, b) =>
                Part(x, T) \in R /\ Part(x, V) \in S /\ x[a] = x[b]
         /\ Part(x, T) \in R /\ Part(x, V) \in S /\ x[a] = x[b] =>
                Part(x, T \cup V) \in MergeOn(R, S, a, b)
<1> DEFINE W == T \cup V
           M == MergeOn(R, S, a, b)
<1>1. T \in SUBSET Tables /\ V \in SUBSET Tables /\ T \cap V = {} /\ Fits(d, N)
  BY DEF Fits, Among, Apart, Keeps
<1>2. Has(R, a) /\ Has(S, b)
  BY <1>1, HasColumn
<1>3. ASSUME NEW y
      PROVE  y \in M <=> /\ IsRow(d, W, y) /\ Part(y, T) \in R /\ Part(y, V) \in S
                         /\ y[a] = y[b]
  BY <1>1, <1>2, MergeIs
<1>4. Among(W, DOMAIN N) /\ Names(N, W, a) /\ Names(N, W, b)
  BY DEF Among, Names
<1>5. Cols(T) \subseteq Cols(W) /\ Cols(V) \subseteq Cols(W)
  BY ColsUnion
<1> HIDE DEF M, W
<1>6. IsRow(d, W, Part(x, W))
  BY <1>4, PartKept
<1>7. Part(Part(x, W), T) = Part(x, T) /\ Part(Part(x, W), V) = Part(x, V)
  BY <1>5, PartOfPart
<1>8. Part(x, W)[a] = x[a] /\ Part(x, W)[b] = x[b]
  BY <1>4, ColumnKept
<1>9. Part(x, W) \in M <=> Part(x, T) \in R /\ Part(x, V) \in S /\ x[a] = x[b]
  BY <1>3, <1>6, <1>7, <1>8
<1> QED BY <1>9 DEF M, W

\* MergeAreRows with two columns in the key.
LEMMA MergeOnTwoAreRows ==
  ASSUME NEW d, NEW N, Fits(d, N), NEW T, NEW V, Among(T, DOMAIN N), Among(V, DOMAIN N),
           Apart(T, V),
         NEW R, NEW S, AreRows(d, T, R), AreRows(d, V, S),
         NEW a, NEW b, Names(N, T, a), Names(N, V, b),
         NEW e, NEW f, Names(N, T, e), Names(N, V, f)
  PROVE  AreRows(d, T \cup V, MergeOnTwo(R, S, a, b, e, f))
<1>1. T \in SUBSET Tables /\ V \in SUBSET Tables /\ T \cap V = {}
  BY DEF Fits, Among, Apart
<1>2. Has(R, a) /\ Has(S, b) /\ Has(R, e) /\ Has(S, f)
  BY HasColumn
<1>3. ASSUME NEW y \in MergeOnTwo(R, S, a, b, e, f) PROVE IsRow(d, T \cup V, y)
  BY <1>1, <1>2, MergeOnTwoIs
<1> QED BY <1>3 DEF AreRows

\* MergeKeeps with two columns in the key.
LEMMA MergeOnTwoKeeps ==
  ASSUME NEW d, NEW N, NEW x, Keeps(d, N, x),
         NEW T, NEW V, Among(T, DOMAIN N), Among(V, DOMAIN N), Apart(T, V),
         NEW R, NEW S, AreRows(d, T, R), AreRows(d, V, S),
         NEW a, NEW b, Names(N, T, a), Names(N, V, b),
         NEW e, NEW f, Names(N, T, e), Names(N, V, f)
  PROVE  /\ Part(x, T \cup V) \in MergeOnTwo(R, S, a, b, e, f) =>
                Part(x, T) \in R /\ Part(x, V) \in S /\ x[a] = x[b] /\ x[e] = x[f]
         /\ Part(x, T) \in R /\ Part(x, V) \in S /\ x[a] = x[b] /\ x[e] = x[f] =>
                Part(x, T \cup V) \in MergeOnTwo(R, S, a, b, e, f)
<1> DEFINE W == T \cup V
           M == MergeOnTwo(R, S, a, b, e, f)
<1>1. T \in SUBSET Tables /\ V \in SUBSET Tables /\ T \cap V = {} /\ Fits(d, N)
  BY DEF Fits, Among, Apart, Keeps
<1>2. Has(R, a) /\ Has(S, b) /\ Has(R, e) /\ Has(S, f)
  BY <1>1, HasColumn
<1>3. ASSUME NEW y
      PROVE  y \in M <=> /\ IsRow(d, W, y) /\ Part(y, T) \in R /\ Part(y, V) \in S
                         /\ y[a] = y[b] /\ y[e] = y[f]
  BY <1>1, <1>2, MergeOnTwoIs
<1>4. Among(W, DOMAIN N) /\ Names(N, W, a) /\ Names(N, W, b) /\ Names(N, W, e) /\ Names(N, W, f)
  BY DEF Among, Names
<1>5. Cols(T) \subseteq Cols(W) /\ Cols(V) \subseteq Cols(W)
  BY ColsUnion
<1> HIDE DEF M, W
<1>6. IsRow(d, W, Part(x, W))
  BY <1>4, PartKept
<1>7. Part(Part(x, W), T) = Part(x, T) /\ Part(Part(x, W), V) = Part(x, V)
  BY <1>5, PartOfPart
<1>8. Part(x, W)[a] = x[a] /\ Part(x, W)[b] = x[b] /\ Part(x, W)[e] = x[e] /\ Part(x, W)[f] = x[f]
  BY <1>4, ColumnKept
<1>9. Part(x, W) \in M <=> Part(x, T) \in R /\ Part(x, V) \in S /\ x[a] = x[b] /\ x[e] = x[f]
  BY <1>3, <1>6, <1>7, <1>8
<1> QED BY <1>9 DEF M, W

(* R has rows of the tables T of d, and it has all of them.                *)
Frame(d, N, T, R) == Fits(d, N) /\ Among(T, DOMAIN N) /\ AreRows(d, T, R)

Whole(d, N, T, R) == Frame(d, N, T, R) /\ \A x : IsRow(d, T, x) => x \in R

\* A table is the whole of its rows.
LEMMA WholeTable ==
  ASSUME NEW d, NEW N, Fits(d, N), NEW t \in DOMAIN N
  PROVE  Whole(d, N, {t}, d[t])
<1>1. Among({t}, DOMAIN N)
  BY DEF Among
<1> QED BY <1>1, TableRows DEF Whole, Frame

\* And a frame.
LEMMA FrameTable ==
  ASSUME NEW d, NEW N, Fits(d, N), NEW t \in DOMAIN N
  PROVE  Frame(d, N, {t}, d[t])
BY WholeTable, Zenon DEF Whole

\* The rows of a product of frames.
LEMMA ProductKeeps ==
  ASSUME NEW d, NEW N, Fits(d, N), NEW T, NEW V, Among(T, DOMAIN N), Among(V, DOMAIN N),
           Apart(T, V),
         NEW R, NEW S, AreRows(d, T, R), AreRows(d, V, S), NEW x
  PROVE  /\ x \in R \otimes S => IsRow(d, T \cup V, x) /\ Part(x, T) \in R /\ Part(x, V) \in S
         /\ IsRow(d, T \cup V, x) /\ Part(x, T) \in R /\ Part(x, V) \in S => x \in R \otimes S
<1>1. T \in SUBSET Tables /\ V \in SUBSET Tables /\ T \cap V = {}
  BY DEF Fits, Among, Apart
<1> QED BY <1>1, ProductIs

\* A product of whole frames is whole.
LEMMA WholeProduct ==
  ASSUME NEW d, NEW N, NEW T, NEW R, Whole(d, N, T, R), NEW t \in DOMAIN N, t \notin T
  PROVE  Whole(d, N, T \cup {t}, R \otimes d[t])
<1>1. Fits(d, N) /\ Among(T, DOMAIN N)
  BY DEF Whole, Frame
<1>2. Among({t}, DOMAIN N) /\ Apart(T, {t})
  BY <1>1 DEF Among, Apart
<1>3. AreRows(d, T, R) /\ AreRows(d, {t}, d[t])
  BY <1>1, TableRows DEF Whole, Frame
<1>4. ASSUME NEW x PROVE x \in R \otimes d[t] <=> IsRow(d, T \cup {t}, x)
  <2>1. x \in R \otimes d[t] <=> IsRow(d, T \cup {t}, x) /\ Part(x, T) \in R
          /\ Part(x, {t}) \in d[t]
    BY <1>1, <1>2, <1>3, ProductKeeps
  <2>2. IsRow(d, T \cup {t}, x) => IsRow(d, T, Part(x, T)) /\ IsRow(d, {t}, Part(x, {t}))
    BY PartIsRow
  <2>3. IsRow(d, T, Part(x, T)) => Part(x, T) \in R
    BY DEF Whole
  <2>4. IsRow(d, {t}, Part(x, {t})) => Part(x, {t}) \in d[t]
    BY <1>1, TableRows
  <2> QED BY <2>1, <2>2, <2>3, <2>4
<1>5. Among(T \cup {t}, DOMAIN N)
  BY <1>1 DEF Among
<1> QED BY <1>1, <1>4, <1>5 DEF Whole, Frame, AreRows

(* R and S can be joined on a and b.                                       *)
Joins(d, N, T, R, V, S, a, b) ==
    /\ Frame(d, N, T, R) /\ Frame(d, N, V, S) /\ Apart(T, V)
    /\ Names(N, T, a) /\ Names(N, V, b)

\* A join of frames is one.
LEMMA FrameMerge ==
  ASSUME NEW d, NEW N, NEW T, NEW R, NEW V, NEW S, NEW a, NEW b, Joins(d, N, T, R, V, S, a, b)
  PROVE  Frame(d, N, T \cup V, MergeOn(R, S, a, b))
<1>1. /\ Fits(d, N) /\ Among(T, DOMAIN N) /\ AreRows(d, T, R)
      /\ Among(V, DOMAIN N) /\ AreRows(d, V, S)
      /\ Apart(T, V) /\ Names(N, T, a) /\ Names(N, V, b)
  BY DEF Joins, Frame
<1>2. AreRows(d, T \cup V, MergeOn(R, S, a, b))
  BY <1>1, MergeAreRows
<1>3. Among(T \cup V, DOMAIN N)
  BY <1>1 DEF Among
<1> QED BY <1>1, <1>2, <1>3 DEF Frame

\* MergeKeeps, with the frames' conditions in one definition.
LEMMA KeptByMerge ==
  ASSUME NEW d, NEW N, NEW T, NEW R, NEW V, NEW S, NEW a, NEW b, Joins(d, N, T, R, V, S, a, b),
         NEW x, Keeps(d, N, x)
  PROVE  /\ Part(x, T \cup V) \in MergeOn(R, S, a, b) =>
                Part(x, T) \in R /\ Part(x, V) \in S /\ x[a] = x[b]
         /\ Part(x, T) \in R /\ Part(x, V) \in S /\ x[a] = x[b] =>
                Part(x, T \cup V) \in MergeOn(R, S, a, b)
<1>1. /\ Among(T, DOMAIN N) /\ AreRows(d, T, R)
      /\ Among(V, DOMAIN N) /\ AreRows(d, V, S)
      /\ Apart(T, V) /\ Names(N, T, a) /\ Names(N, V, b)
  BY DEF Joins, Frame
<1> QED BY <1>1, MergeKeeps

\* FrameMerge with two columns in the key.
LEMMA FrameMergeOnTwo ==
  ASSUME NEW d, NEW N, NEW T, NEW R, NEW V, NEW S, NEW a, NEW b, NEW e, NEW f,
         Joins(d, N, T, R, V, S, a, b), Joins(d, N, T, R, V, S, e, f)
  PROVE  Frame(d, N, T \cup V, MergeOnTwo(R, S, a, b, e, f))
<1>1. /\ Fits(d, N) /\ Among(T, DOMAIN N) /\ AreRows(d, T, R)
      /\ Among(V, DOMAIN N) /\ AreRows(d, V, S)
      /\ Apart(T, V) /\ Names(N, T, a) /\ Names(N, V, b) /\ Names(N, T, e) /\ Names(N, V, f)
  BY DEF Joins, Frame
<1>2. AreRows(d, T \cup V, MergeOnTwo(R, S, a, b, e, f))
  BY <1>1, MergeOnTwoAreRows
<1>3. Among(T \cup V, DOMAIN N)
  BY <1>1 DEF Among
<1> QED BY <1>1, <1>2, <1>3 DEF Frame

\* KeptByMerge with two columns in the key.
LEMMA KeptByMergeOnTwo ==
  ASSUME NEW d, NEW N, NEW T, NEW R, NEW V, NEW S, NEW a, NEW b, NEW e, NEW f,
         Joins(d, N, T, R, V, S, a, b), Joins(d, N, T, R, V, S, e, f), NEW x, Keeps(d, N, x)
  PROVE  /\ Part(x, T \cup V) \in MergeOnTwo(R, S, a, b, e, f) =>
                Part(x, T) \in R /\ Part(x, V) \in S /\ x[a] = x[b] /\ x[e] = x[f]
         /\ Part(x, T) \in R /\ Part(x, V) \in S /\ x[a] = x[b] /\ x[e] = x[f] =>
                Part(x, T \cup V) \in MergeOnTwo(R, S, a, b, e, f)
<1>1. /\ Among(T, DOMAIN N) /\ AreRows(d, T, R)
      /\ Among(V, DOMAIN N) /\ AreRows(d, V, S)
      /\ Apart(T, V) /\ Names(N, T, a) /\ Names(N, V, b) /\ Names(N, T, e) /\ Names(N, V, f)
  BY DEF Joins, Frame
<1> QED BY <1>1, MergeOnTwoKeeps

\* A wanted row's part is in its table.
LEMMA KeptInTable ==
  ASSUME NEW d, NEW N, NEW x, Keeps(d, N, x), NEW t \in DOMAIN N
  PROVE  Part(x, {t}) \in d[t]
BY DEF Keeps, IsRow

\* Every row of a frame of all the tables is a wanted row, and is its own part.
LEMMA KeptInAll ==
  ASSUME NEW d, NEW N, NEW T, NEW R, Frame(d, N, T, R), Among(DOMAIN N, T)
  PROVE  /\ \A x \in R : Keeps(d, N, x)
         /\ \A x : Keeps(d, N, x) => Part(x, T) = x
<1>1. T = DOMAIN N
  BY DEF Frame, Among
<1>2. Fits(d, N) /\ AreRows(d, DOMAIN N, R)
  BY <1>1 DEF Frame
<1>3. \A x \in R : Keeps(d, N, x)
  BY <1>2 DEF AreRows, Keeps
<1>4. ASSUME NEW x, Keeps(d, N, x) PROVE Part(x, T) = x
  BY <1>1, <1>4, WholeRow DEF Keeps
<1> QED BY <1>3, <1>4

\* The whole product of all the tables is just the wanted rows.
LEMMA KeptInWhole ==
  ASSUME NEW d, NEW N, NEW T, NEW R, Whole(d, N, T, R), Among(DOMAIN N, T)
  PROVE  \A x : x \in R <=> Keeps(d, N, x)
<1>1. T = DOMAIN N
  BY DEF Whole, Frame, Among
<1>2. \A x : x \in R => Keeps(d, N, x)
  BY KeptInAll DEF Whole
<1>3. \A x : IsRow(d, DOMAIN N, x) => x \in R
  BY <1>1 DEF Whole
<1> QED BY <1>2, <1>3 DEF Keeps

\* Some rows of a frame are a frame.
LEMMA FrameOfSome ==
  ASSUME NEW d, NEW N, NEW T, NEW R, Frame(d, N, T, R), NEW Q, \A x \in Q : x \in R
  PROVE  Frame(d, N, T, Q)
BY DEF Frame, AreRows

Price(r) == r.l_extendedprice

Quantity(r) == r.l_quantity

Revenue(r) == r.l_extendedprice * (100 - r.l_discount)

Charge(r) == Revenue(r) * (100 + r.l_tax)

Discount(r) == r.l_discount

(* The groups of R by the value of key, each with what agg makes of it.    *)
Grouped(R, key, agg) == {Joined(k, agg[{r \in R : key[r] = k}]) : k \in {key[r] : r \in R}}

GroupOf(R, key, r) == {s \in R : key[s] = key[r]}

\* The rows of a GROUP BY: one per group.
LEMMA InGrouped ==
  ASSUME NEW R, NEW key, NEW agg, NEW x
  PROVE  x \in Grouped(R, key, agg) <=> \E r \in R : x = Joined(key[r], agg[GroupOf(R, key, r)])
<1>1. ASSUME NEW r \in R PROVE {s \in R : key[s] = key[r]} = GroupOf(R, key, r)
  BY DEF GroupOf
<1>2. ASSUME NEW r \in R, x = Joined(key[r], agg[GroupOf(R, key, r)])
      PROVE  x \in Grouped(R, key, agg)
  <2>1. key[r] \in {key[s] : s \in R}
    OBVIOUS
  <2> QED BY <2>1, <1>2, <1>1 DEF Grouped
<1>3. ASSUME x \in Grouped(R, key, agg)
      PROVE \E r \in R : x = Joined(key[r], agg[GroupOf(R, key, r)])
  <2>1. PICK k \in {key[r] : r \in R} : x = Joined(k, agg[{r \in R : key[r] = k}])
    BY <1>3 DEF Grouped
  <2>2. PICK r \in R : k = key[r]
    BY <2>1
  <2>3. x = Joined(key[r], agg[{s \in R : key[s] = key[r]}])
    BY <2>1, <2>2
  <2> QED BY <2>3, <1>1
<1> QED BY <1>2, <1>3

(* One-to-one images of the rows with the same keys, and groups with the   *)
(* same aggregates, make the same groups.                                  *)
SameAggregates(R, b, agg, aggS) == \A g \in SUBSET R : aggS[ImageOf(b, g)] = agg[g]

\* Rows that correspond one to one, with the same keys and the same aggregates,
\* have the same groups.
LEMMA GroupsOfImage ==
  ASSUME NEW R, NEW S, NEW b, OneToOne(b, R, S), NEW key, NEW keyS, \A r \in R : keyS[b[r]]
           = key[r],
         NEW agg, NEW aggS, SameAggregates(R, b, agg, aggS)
  PROVE  Grouped(S, keyS, aggS) = Grouped(R, key, agg)
<1>1. ASSUME NEW r \in R
      PROVE  Joined(key[r], agg[GroupOf(R, key, r)])
               = Joined(keyS[b[r]], aggS[GroupOf(S, keyS, b[r])])
  <2> DEFINE g == GroupOf(R, key, r)
             h == GroupOf(S, keyS, b[r])
  <2>1. g \in SUBSET R
    BY DEF GroupOf
  <2>2. ASSUME NEW y PROVE y \in h <=> y \in ImageOf(b, g)
    <3>1. y \in h => \E s \in g : y = b[s]
      <4> SUFFICES ASSUME y \in h PROVE \E s \in g : y = b[s]
        OBVIOUS
      <4>1. y \in S /\ keyS[y] = keyS[b[r]]
        BY DEF GroupOf
      <4>2. PICK s \in R : b[s] = y
        BY <4>1 DEF OneToOne
      <4>3. key[s] = key[r]
        BY <4>1, <4>2
      <4>4. s \in g
        BY <4>3 DEF GroupOf
      <4> QED BY <4>4, <4>2
    <3>2. ASSUME NEW s \in g, y = b[s] PROVE y \in h
      <4>1. s \in R /\ key[s] = key[r]
        BY DEF GroupOf
      <4>2. y \in S /\ keyS[y] = keyS[b[r]]
        BY <4>1, <3>2 DEF OneToOne
      <4> QED BY <4>2 DEF GroupOf
    <3> HIDE DEF g, h
    <3> QED BY <3>1, <3>2 DEF ImageOf
  <2>3. h = ImageOf(b, g)
    <3> HIDE DEF g, h
    <3> QED BY <2>2
  <2>4. aggS[h] = agg[g]
    <3> HIDE DEF g, h
    <3> QED BY <2>1, <2>3 DEF SameAggregates
  <2> QED BY <2>4
<1>2. ASSUME NEW x PROVE x \in Grouped(S, keyS, aggS) <=> x \in Grouped(R, key, agg)
  <2>1. (\E s \in S : x = Joined(keyS[s], aggS[GroupOf(S, keyS, s)]))
        <=> \E r \in R : x = Joined(keyS[b[r]], aggS[GroupOf(S, keyS, b[r])])
    BY DEF OneToOne
  <2> QED BY <1>1, <2>1, InGrouped
<1> QED BY <1>2

Renamed(r, old, new) == Joined([c \in {new} |-> r[old]], On(r, DOMAIN r \ {old}))

\* A renamed row, column by column.
LEMMA RenamedIs ==
  ASSUME NEW r, NEW old \in DOMAIN r, NEW new, new \notin DOMAIN r
  PROVE  /\ IsFcn(Renamed(r, old, new))
         /\ DOMAIN Renamed(r, old, new) = (DOMAIN r \ {old}) \cup {new}
         /\ Renamed(r, old, new)[new] = r[old]
         /\ \A c \in DOMAIN r \ {old} : Renamed(r, old, new)[c] = r[c]
BY DEF Renamed, Joined, On, IsFcn

\* Renaming a key column renames it in the group's row.
LEMMA RenamedJoin ==
  ASSUME NEW k, NEW a, NEW old, NEW new, IsFcn(k), old \in DOMAIN k, new \notin DOMAIN k,
         old \notin DOMAIN a, new \notin DOMAIN a
  PROVE  Renamed(Joined(k, a), old, new) = Joined(Renamed(k, old, new), a)
BY DEF Renamed, Joined, On

\* Different keys stay different under a renaming.
LEMMA RenamedIsOneToOne ==
  ASSUME NEW k, NEW l, NEW old, NEW new, IsFcn(k), IsFcn(l), old \in DOMAIN k, old \in DOMAIN l,
         new \notin DOMAIN k, new \notin DOMAIN l, Renamed(k, old, new) = Renamed(l, old, new)
  PROVE  k = l
<1>1. /\ Renamed(k, old, new)[new] = k[old]
      /\ \A c \in DOMAIN k : c # old => Renamed(k, old, new)[c] = k[c]
  BY DEF Renamed, Joined, On
<1>2. /\ Renamed(l, old, new)[new] = l[old]
      /\ \A c \in DOMAIN l : c # old => Renamed(l, old, new)[c] = l[c]
  BY DEF Renamed, Joined, On
<1>3. /\ DOMAIN Renamed(k, old, new) = (DOMAIN k \ {old}) \cup {new}
      /\ DOMAIN Renamed(l, old, new) = (DOMAIN l \ {old}) \cup {new}
  BY DEF Renamed, Joined, On
<1>4. DOMAIN k = DOMAIN l
  <2>1. (DOMAIN k \ {old}) \cup {new} = (DOMAIN l \ {old}) \cup {new}
    BY <1>3
  <2>2. \A c : c \in DOMAIN k => c \in DOMAIN l
    BY <2>1
  <2>3. \A c : c \in DOMAIN l => c \in DOMAIN k
    BY <2>1
  <2> QED BY <2>2, <2>3
<1> DEFINE x == Renamed(k, old, new)
<1>5. /\ x[new] = k[old] /\ x[new] = l[old]
      /\ \A c \in DOMAIN k : c # old => x[c] = k[c] /\ x[c] = l[c]
  BY <1>1, <1>2, <1>4
<1> HIDE DEF x
<1>6. \A c \in DOMAIN k : k[c] = l[c]
  BY <1>5
<1> QED BY <1>4, <1>6, SameFcn

(* A column of the key may be renamed before or after.                     *)
Keyed(R, key, K) == \A r \in R : IsFcn(key[r]) /\ DOMAIN key[r] = K

Aggregated(R, agg, A) == \A g \in SUBSET R : DOMAIN agg[g] = A

KeyRenamed(R, key, key2, old, new) == \A r \in R : key2[r] = Renamed(key[r], old, new)

\* Renaming the key after grouping is grouping by the renamed key.
LEMMA RenamedGroups ==
  ASSUME NEW R, NEW key, NEW agg, NEW old, NEW new, old # new, NEW K, NEW A, old \in K,
           new \notin K,
         new \notin A, old \notin A, Keyed(R, key, K), Aggregated(R, agg, A),
         NEW key2, KeyRenamed(R, key, key2, old, new)
  PROVE  Rename(Grouped(R, key, agg), old, new) = Grouped(R, key2, agg)
<1>0. ASSUME NEW r \in R
      PROVE  IsFcn(key[r]) /\ DOMAIN key[r] = K /\ key2[r] = Renamed(key[r], old, new)
  BY DEF Keyed, KeyRenamed
<1>1. ASSUME NEW r \in R, NEW s \in R PROVE key2[r] = key2[s] <=> key[r] = key[s]
  BY <1>0, RenamedIsOneToOne
<1>2. ASSUME NEW r \in R PROVE GroupOf(R, key2, r) = GroupOf(R, key, r)
  BY <1>1 DEF GroupOf
<1>3. ASSUME NEW r \in R
      PROVE  Renamed(Joined(key[r], agg[GroupOf(R, key, r)]), old, new)
               = Joined(key2[r], agg[GroupOf(R, key, r)])
  <2>1. GroupOf(R, key, r) \in SUBSET R
    BY DEF GroupOf
  <2>2. DOMAIN agg[GroupOf(R, key, r)] = A
    BY <2>1 DEF Aggregated
  <2> QED BY <2>2, <1>0, RenamedJoin
<1>4. ASSUME NEW x PROVE x \in Rename(Grouped(R, key, agg), old, new)
               <=> x \in Grouped(R, key2, agg)
  <2>1. x \in Rename(Grouped(R, key, agg), old, new)
        <=> \E y \in Grouped(R, key, agg) : x = Renamed(y, old, new)
    BY DEF Rename, Renamed
  <2>2. x \in Rename(Grouped(R, key, agg), old, new)
        <=> \E r \in R : x = Renamed(Joined(key[r], agg[GroupOf(R, key, r)]), old, new)
    BY <2>1, InGrouped
  <2>3. x \in Grouped(R, key2, agg) <=> \E r \in R : x = Joined(key2[r], agg[GroupOf(R, key2, r)])
    BY InGrouped
  <2> QED BY <2>2, <2>3, <1>2, <1>3
<1> QED BY <1>4

(* GROUP BY the columns C.                                                 *)
KeyOn(R, C) == [r \in R |-> On(r, C)]

GroupedOn(R, C, agg) == {Joined(k, agg[{r \in R : On(r, C) = k}]) : k \in Project(R, C)}

\* GroupBy, with its aggregate as a function.
LEMMA GroupedOnIs ==
  ASSUME NEW R, NEW C, NEW agg
  PROVE  GroupedOn(R, C, agg) = Grouped(R, KeyOn(R, C), agg)
<1> DEFINE key == KeyOn(R, C)
<1>1. \A r \in R : key[r] = On(r, C)
  BY DEF KeyOn
<1> HIDE DEF key
<1>2. Project(R, C) = {key[r] : r \in R}
  BY <1>1 DEF Project
<1>3. ASSUME NEW k PROVE {r \in R : On(r, C) = k} = {r \in R : key[r] = k}
  BY <1>1
<1>4. ASSUME NEW x PROVE x \in Grouped(R, key, agg) <=> x \in GroupedOn(R, C, agg)
  <2>1. x \in Grouped(R, key, agg) <=>
          \E k \in {key[r] : r \in R} : x = Joined(k, agg[{r \in R : key[r] = k}])
    BY DEF Grouped
  <2>2. x \in GroupedOn(R, C, agg) <=>
          \E k \in {key[r] : r \in R} : x = Joined(k, agg[{r \in R : On(r, C) = k}])
    BY <1>2 DEF GroupedOn
  <2>3. \A k : Joined(k, agg[{r \in R : key[r] = k}]) = Joined(k, agg[{r \in R : On(r, C) = k}])
    <3> TAKE k
    <3>1. {r \in R : On(r, C) = k} = {r \in R : key[r] = k}
      BY <1>3
    <3> QED BY <3>1, Zenon
  <2> QED BY <2>1, <2>2, <2>3, Zenon
<1>5. Grouped(R, key, agg) = GroupedOn(R, C, agg)
  BY <1>4
<1> QED BY <1>5 DEF key

(* The columns that N names are never null in d, and the summed ones are   *)
(* numbers; d is finite.                                                   *)
Sound(d, N) ==
    /\ Fits(d, N)
    /\ \A t \in DOMAIN N : IsFiniteSet(d[t])
    /\ \A t \in DOMAIN N : \A r \in d[t] : \A c \in N[t] :
          r[c] # Null /\ (c \in Quantities => r[c] \in Int)

\* A named column of a wanted row is that of its part.
LEMMA ColumnOfTable ==
  ASSUME NEW d, NEW N, NEW x, Keeps(d, N, x), NEW t \in DOMAIN N, NEW c \in N[t]
  PROVE  c \in DOMAIN x /\ Part(x, {t}) \in d[t] /\ Part(x, {t})[c] = x[c]
<1>1. Among({t}, DOMAIN N) /\ Names(N, {t}, c)
  BY DEF Among, Names
<1>2. Part(x, {t}) \in d[t] /\ Part(x, {t})[c] = x[c]
  BY <1>1, KeptInTable, ColumnKept
<1>3. Fits(d, N) /\ IsRow(d, DOMAIN N, x) /\ Among(DOMAIN N, DOMAIN N) /\ Names(N, DOMAIN N, c)
  BY DEF Keeps, Among, Names
<1>4. c \in DOMAIN x
  BY <1>3, ColumnOfPart
<1> QED BY <1>2, <1>4

\* A quantity of a wanted row is a number.
LEMMA NumberKept ==
  ASSUME NEW d, NEW N, Sound(d, N), NEW x, Keeps(d, N, x), NEW t \in DOMAIN N, NEW c \in N[t]
  PROVE  c \in Quantities => x[c] \in Int
<1>1. Part(x, {t}) \in d[t] /\ Part(x, {t})[c] = x[c]
  BY ColumnOfTable
<1> DEFINE r == Part(x, {t})
<1>2. r \in d[t] /\ r[c] = x[c]
  BY <1>1
<1> HIDE DEF r
<1>3. r[c] # Null /\ (c \in Quantities => r[c] \in Int)
  BY <1>2 DEF Sound
<1> QED BY <1>2, <1>3

\* And its columns are not null.
LEMMA NotNullKept ==
  ASSUME NEW d, NEW N, Sound(d, N), NEW x, Keeps(d, N, x), NEW t \in DOMAIN N, NEW c \in N[t]
  PROVE  x[c] # Null
<1>1. Part(x, {t}) \in d[t] /\ Part(x, {t})[c] = x[c]
  BY ColumnOfTable
<1> DEFINE r == Part(x, {t})
<1>2. r \in d[t] /\ r[c] = x[c]
  BY <1>1
<1> HIDE DEF r
<1> QED BY <1>2 DEF Sound

\* An image of a finite set is finite.
LEMMA FiniteImage ==
  ASSUME NEW S, IsFiniteSet(S), NEW b
  PROVE  IsFiniteSet(ImageOf(b, S))
<1> DEFINE T == ImageOf(b, S)
           f == [x \in S |-> b[x]]
<1>1. f \in Surjection(S, T)
  BY DEF Surjection, ImageOf
<1> HIDE DEF f, T
<1>2. IsFiniteSet(T)
  BY <1>1, FS_Surjection
<1> QED BY <1>2 DEF T

\* And has its size when no two elements share theirs.
LEMMA SizeOfImage ==
  ASSUME NEW S, IsFiniteSet(S), NEW b, \A x, y \in S : b[x] = b[y] => x = y
  PROVE  Cardinality(ImageOf(b, S)) = Cardinality(S)
<1> DEFINE T == ImageOf(b, S)
           f == [x \in S |-> b[x]]
<1>1. f \in Bijection(S, T)
  BY DEF Bijection, Injection, IsInjective, Surjection, ImageOf
<1> HIDE DEF f, T
<1>2. ExistsBijection(S, T)
  BY <1>1 DEF ExistsBijection
<1>3. Cardinality(T) = Cardinality(S)
  BY <1>2, FS_Bijection
<1> QED BY <1>3 DEF T

\* Finite frames have a finite join.
LEMMA FiniteCross ==
  ASSUME NEW R, NEW S, IsFiniteSet(R), IsFiniteSet(S)
  PROVE  IsFiniteSet(R \otimes S)
<1>1. IsFiniteSet(R \X S)
  BY FS_Product
<1> DEFINE f == [p \in R \X S |-> Joined(p[1], p[2])]
<1>2. IsFiniteSet(ImageOf(f, R \X S))
  <2> HIDE DEF f
  <2> QED BY <1>1, FiniteImage
<1>3. R \otimes S = ImageOf(f, R \X S)
  BY DEF \otimes, Cross, ImageOf
<1> QED BY <1>2, <1>3

\* Finite frames have a finite join.
LEMMA FiniteMerge ==
  ASSUME NEW R, NEW S, NEW lk, NEW rk, IsFiniteSet(R), IsFiniteSet(S)
  PROVE  IsFiniteSet(Merge(R, S, lk, rk))
<1>1. IsFiniteSet(R \otimes S)
  BY FiniteCross
<1>2. \A x \in Merge(R, S, lk, rk) : x \in R \otimes S
  BY InMerge, InCross
<1>3. Merge(R, S, lk, rk) \subseteq R \otimes S
  BY <1>2
<1> QED BY <1>1, <1>3, FS_Subset

\* Finite frames have a finite join.
LEMMA FiniteMergeOn ==
  ASSUME NEW R, NEW S, IsFiniteSet(R), IsFiniteSet(S), NEW a, NEW b
  PROVE  IsFiniteSet(MergeOn(R, S, a, b))
BY FiniteMerge DEF MergeOn

\* Finite frames have a finite join.
LEMMA FiniteMergeOnTwo ==
  ASSUME NEW R, NEW S, IsFiniteSet(R), IsFiniteSet(S), NEW a, NEW b, NEW e, NEW f
  PROVE  IsFiniteSet(MergeOnTwo(R, S, a, b, e, f))
BY FiniteMerge DEF MergeOnTwo

\* Some of finitely many rows.
LEMMA FiniteKept ==
  ASSUME NEW R, IsFiniteSet(R), NEW S, \A x \in S : x \in R
  PROVE  IsFiniteSet(S)
<1>1. S \subseteq R
  OBVIOUS
<1> QED BY <1>1, FS_Subset

(* Sums of the values of a function.                                       *)
LEMMA SumFunctionIs ==
  ASSUME NEW g, NEW f, DOMAIN f = g
  PROVE  SumFunction(f) = SumFunctionOnSet(f, g)
BY DEF SumFunction

\* A total of integers is one.
LEMMA IntSum ==
  ASSUME NEW g, IsFiniteSet(g), NEW f, DOMAIN f = g, \A x \in g : f[x] \in Int
  PROVE  SumFunction(f) \in Int
BY SumIsInt DEF SumFunction

\* A total does not change with the names of the rows.
LEMMA TotalOfImage ==
  ASSUME NEW g, IsFiniteSet(g), NEW b, \A x, y \in g : b[x] = b[y] => x = y,
         NEW f, DOMAIN f = g, NEW h, DOMAIN h = ImageOf(b, g), \A x \in g : f[x] \in Int /\ h[b[x]]
           = f[x]
  PROVE  SumFunction(h) = SumFunction(f)
<1>1. SumFunctionOnSet(f, g) = SumFunctionOnSet(h, ImageOf(b, g))
  BY SumOfImage
<1> QED BY <1>1 DEF SumFunction

(* A column added to a row that does not have it.                          *)
LEMMA JoinedIsOneToOne ==
  ASSUME NEW r, NEW s, NEW m, NEW n, IsFcn(r), IsFcn(s), DOMAIN m = DOMAIN n,
         DOMAIN m \cap DOMAIN r = {}, DOMAIN m \cap DOMAIN s = {}, Joined(m, r) = Joined(n, s)
  PROVE  r = s
<1> DEFINE x == Joined(m, r)
<1>1. DOMAIN x = DOMAIN m \cup DOMAIN r /\ \A c \in DOMAIN r : x[c] = r[c]
  BY DEF Joined
<1>2. x = Joined(n, s)
  OBVIOUS
<1>3. DOMAIN x = DOMAIN n \cup DOMAIN s /\ \A c \in DOMAIN s : x[c] = s[c]
  BY <1>2 DEF Joined
<1> HIDE DEF x
<1>4. DOMAIN r = DOMAIN s
  BY <1>1, <1>3
<1>5. \A c \in DOMAIN r : r[c] = s[c]
  BY <1>1, <1>3, <1>4
<1> QED BY <1>4, <1>5, SameFcn

(* The answer with the sum of nothing as a data frame has it.              *)
Filled(answer, quotient) ==
    [c \in DOMAIN answer |-> IF answer[c] = Null THEN SumOfNothing(quotient)[c] ELSE answer[c]]

\* SUM over no rows is null in SQL and a zero in a data frame.
LEMMA FilledRevenue ==
  ASSUME NEW R, NEW s \in Int, R = {} => s = 0, NEW quotient
  PROVE  Filled([revenue |-> IF R = {} THEN Null ELSE s], quotient) = [revenue |-> s]
BY NullAssumption DEF Filled, SumOfNothing

\* SUM over no rows is null in SQL and a zero in a data frame.
LEMMA FilledYearly ==
  ASSUME NEW R, NEW s \in Int, R = {} => s = 0, NEW quotient
  PROVE  Filled([avg_yearly |-> IF R = {} THEN Null ELSE s], quotient) = [avg_yearly |-> s]
BY NullAssumption DEF Filled, SumOfNothing

\* The quotient of sums over no rows is null in SQL; what it is instead in a data
\* frame differs between polars and pandas.
LEMMA FilledPromo ==
  ASSUME NEW R, NEW s \in Int, NEW u \in Int, NEW quotient
  PROVE  Filled([promo_revenue |-> IF R = {} THEN Null ELSE <<100 * s, u>>], quotient)
           = [promo_revenue |-> IF R = {} THEN quotient ELSE <<100 * s, u>>]
<1> DEFINE p == <<100 * s, u>>
<1>1. p \in Int \X Int
  OBVIOUS
<1>2. p # Null
  BY <1>1, NullAssumption
<1> HIDE DEF p
<1>3. Filled([promo_revenue |-> IF R = {} THEN Null ELSE p], quotient)
        = [promo_revenue |-> IF R = {} THEN quotient ELSE p]
  BY <1>2 DEF Filled, SumOfNothing
<1> QED BY <1>3 DEF p

\* The total of no rows.
LEMMA SumOverNone ==
  ASSUME NEW f, DOMAIN f = {}
  PROVE  SumFunction(f) = 0
BY SumOfNone DEF SumFunction

\* The price of a lineitem is a number, and so is its revenue.
LEMMA RevenueIsInt ==
  ASSUME NEW d, NEW N, Sound(d, N), NEW x, Keeps(d, N, x), "lineitem" \in DOMAIN N,
         "l_extendedprice" \in N["lineitem"], "l_discount" \in N["lineitem"]
  PROVE  Revenue(x) \in Int /\ Price(x) \in Int
<1>1. "l_extendedprice" \in Quantities /\ "l_discount" \in Quantities
  BY DEF Quantities
<1>2. x.l_extendedprice \in Int
  BY <1>1, NumberKept
<1>3. x.l_discount \in Int
  BY <1>1, NumberKept
<1> QED BY <1>2, <1>3 DEF Revenue, Price

\* And so are their totals, which are zero for no rows.
LEMMA RevenueOfRows ==
  ASSUME NEW d, NEW N, Sound(d, N), NEW R, IsFiniteSet(R), \A x \in R : Keeps(d, N, x),
           "lineitem" \in DOMAIN N,
         "l_extendedprice" \in N["lineitem"], "l_discount" \in N["lineitem"]
  PROVE  /\ Total(R, Revenue) \in Int /\ (R = {} => Total(R, Revenue) = 0)
         /\ Total(R, Price) \in Int /\ (R = {} => Total(R, Price) = 0)
<1>1. \A x \in R : Revenue(x) \in Int /\ Price(x) \in Int
  BY RevenueIsInt
<1> DEFINE f == [x \in R |-> Revenue(x)]
           g == [x \in R |-> Price(x)]
<1>2. DOMAIN f = R /\ (\A x \in R : f[x] \in Int) /\ DOMAIN g = R /\ (\A x \in R : g[x] \in Int)
  BY <1>1
<1>3. Total(R, Revenue) = SumFunction(f) /\ Total(R, Price) = SumFunction(g)
  BY DEF Total
<1> HIDE DEF f, g
<1>4. SumFunction(f) \in Int /\ SumFunction(g) \in Int
  BY <1>2, IntSum
<1>5. R = {} => SumFunction(f) = 0 /\ SumFunction(g) = 0
  BY <1>2, SumOverNone
<1> QED BY <1>3, <1>4, <1>5

(* Rows of a table do not share their primary key.                         *)
KeysUnique(d) ==
    \A t \in DOMAIN d : \A r, s \in d[t] : On(r, PrimaryKey[t]) = On(s, PrimaryKey[t]) => r = s

(* A row has the rows that its foreign keys name.                          *)
ParentsExist(d) ==
    \A t \in DOMAIN d : \A r \in d[t] : \A k \in ForeignKeys \cup ImpliedKeys :
        k[1] = t /\ k[3] \in DOMAIN d => \E parent \in d[k[3]] : Match(r, parent, k[2], k[4])

FromUniverse ==
    /\ query \in DOMAIN Universe
    /\ DOMAIN db = DOMAIN Universe[query]
    /\ \A t \in DOMAIN db : db[t] \subseteq Universe[query][t] /\ IsFiniteSet(db[t])

DatabaseInv == FromUniverse /\ KeysUnique(db) /\ ParentsExist(db)

\* No rows break no key.
LEMMA DatabaseInit == Init => DatabaseInv
<1> SUFFICES ASSUME Init PROVE DatabaseInv
  OBVIOUS
<1>1. DOMAIN db = DOMAIN Universe[query] /\ \A t \in DOMAIN db : db[t] = {}
  BY DEF Init
<1>2. IsFiniteSet({})
  BY FS_EmptySet
<1>3. FromUniverse
  BY <1>1, <1>2 DEF Init, FromUniverse
<1> QED BY <1>1, <1>3 DEF DatabaseInv, KeysUnique, ParentsExist

\* A row is added under a new key and after its parents.
LEMMA DatabaseStep == DatabaseInv /\ [Next]_vars => DatabaseInv'
<1> SUFFICES ASSUME DatabaseInv, [Next]_vars PROVE DatabaseInv'
  OBVIOUS
<1>1. CASE UNCHANGED vars
  BY <1>1 DEF vars, DatabaseInv, FromUniverse, KeysUnique, ParentsExist
<1>2. ASSUME NEW t \in DOMAIN db, Insert(t) PROVE DatabaseInv'
  <2>1. PICK row \in Universe[query][t] :
          /\ \A other \in db[t] : On(other, PrimaryKey[t]) # On(row, PrimaryKey[t])
          /\ HasParents(t, row)
          /\ db' = [db EXCEPT ![t] = @ \cup {row}]
          /\ UNCHANGED query
    BY <1>2 DEF Insert
  <2>2. DOMAIN db' = DOMAIN db /\ db'[t] = db[t] \cup {row} /\ \A u \in DOMAIN db : u # t => db'[u]
          = db[u]
    BY <2>1
  <2>3. IsFiniteSet(db[t] \cup {row})
    BY FS_AddElement DEF DatabaseInv, FromUniverse
  <2>4. FromUniverse'
    BY <2>1, <2>2, <2>3 DEF DatabaseInv, FromUniverse
  <2>5. KeysUnique(db)'
    <3> SUFFICES ASSUME NEW u \in DOMAIN db, NEW r \in db'[u], NEW s \in db'[u],
                        On(r, PrimaryKey[u]) = On(s, PrimaryKey[u])
                 PROVE  r = s
      BY <2>2 DEF KeysUnique
    <3>1. CASE u # t
      BY <2>2, <3>1 DEF DatabaseInv, KeysUnique
    <3>2. CASE u = t
      <4>1. r \in db[t] \cup {row} /\ s \in db[t] \cup {row}
        BY <2>2, <3>2
      <4>2. \A x \in db[t] : On(x, PrimaryKey[t]) # On(row, PrimaryKey[t])
        BY <2>1
      <4>3. \A x, y \in db[t] : On(x, PrimaryKey[t]) = On(y, PrimaryKey[t]) => x = y
        BY DEF DatabaseInv, KeysUnique
      <4> QED BY <4>1, <4>2, <4>3, <3>2
    <3> QED BY <3>1, <3>2
  <2>6. ParentsExist(db)'
    <3> SUFFICES ASSUME NEW u \in DOMAIN db, NEW r \in db'[u],
                          NEW k \in ForeignKeys \cup ImpliedKeys,
                        k[1] = u, k[3] \in DOMAIN db
                 PROVE  \E parent \in db'[k[3]] : Match(r, parent, k[2], k[4])
      BY <2>2 DEF ParentsExist
    <3>1. \E parent \in db[k[3]] : Match(r, parent, k[2], k[4])
      <4>1. CASE r \in db[u]
        BY <4>1 DEF DatabaseInv, ParentsExist
      <4>2. CASE r \notin db[u]
        <5>1. u = t /\ r = row
          BY <2>2, <4>2
        <5> QED BY <2>1, <5>1 DEF HasParents
      <4> QED BY <4>1, <4>2
    <3>2. db[k[3]] \subseteq db'[k[3]]
      BY <2>2
    <3> QED BY <3>1, <3>2
  <2> QED BY <2>4, <2>5, <2>6 DEF DatabaseInv
<1> QED BY <1>1, <1>2 DEF Next

(* The database of a state is one that SchemaAssumption describes.         *)
LEMMA DatabaseIsSound == FromUniverse => query \in 1..22 /\ Sound(db, Reads[query]) /\ DOMAIN db
  = DOMAIN Reads[query]
<1> SUFFICES ASSUME FromUniverse
             PROVE  query \in 1..22 /\ Sound(db, Reads[query]) /\ DOMAIN db = DOMAIN Reads[query]
  OBVIOUS
<1> DEFINE N == Reads[query]
<1>1. query \in DOMAIN Universe /\ query \in 1..22
  BY UniverseAssumption DEF FromUniverse
<1>2. DOMAIN Universe[query] = DOMAIN N
  BY <1>1, SchemaAssumption
<1>3. ASSUME NEW t \in DOMAIN N, NEW r \in db[t]
      PROVE  IsRowOf(t, r) /\ N[t] \subseteq DOMAIN r
  <2>1. r \in Universe[query][t]
    BY <1>2 DEF FromUniverse
  <2> QED BY <1>1, <2>1, SchemaAssumption
<1>4. DOMAIN N \subseteq Tables
  BY <1>1 DEF Reads, Tables
<1> HIDE DEF N
<1>5. Fits(db, N)
  BY <1>3, <1>4 DEF Fits, IsRowOf, IsFcn
<1>6. \A t \in DOMAIN N : IsFiniteSet(db[t])
  BY <1>2 DEF FromUniverse
<1>7. ASSUME NEW t \in DOMAIN N, NEW r \in db[t], NEW c \in N[t]
      PROVE  r[c] # Null /\ (c \in Quantities => r[c] \in Int)
  <2>1. c \in DOMAIN r
    BY <1>3
  <2>2. /\ \A e \in DOMAIN r : r[e] # Null
        /\ \A e \in DOMAIN r \cap Quantities : r[e] \in Int
    BY <1>3 DEF IsRowOf
  <2> QED BY <2>1, <2>2
<1>8. Sound(db, N)
  BY <1>5, <1>6, <1>7 DEF Sound
<1> QED BY <1>1, <1>2, <1>8 DEF N, FromUniverse

(* In every state no two rows of a table share their primary key, and each *)
(* row has the parents that its foreign keys name: rows are added parents  *)
(* first, under a new key (src/tpch-dbgen/dss.ri).                         *)
THEOREM Databases == Spec => []DatabaseInv
<1>1. Init => DatabaseInv
  BY DatabaseInit
<1>2. DatabaseInv /\ [Next]_vars => DatabaseInv'
  BY DatabaseStep
<1> QED BY <1>1, <1>2, PTL DEF Spec

-----------------------------------------------------------------------------
(* q3: the revenue of the orders not shipped yet.                          *)

\* The columns that q3 reads.
LEMMA Reads3 ==
  /\ DOMAIN Reads[3] = {"customer", "orders", "lineitem"}
  /\ "c_custkey" \in Reads[3]["customer"] /\ "c_mktsegment" \in Reads[3]["customer"]
  /\ "o_orderkey" \in Reads[3]["orders"] /\ "o_custkey" \in Reads[3]["orders"]
       /\ "o_orderdate" \in Reads[3]["orders"] /\ "o_shippriority" \in Reads[3]["orders"]
  /\ "l_orderkey" \in Reads[3]["lineitem"] /\ "l_shipdate" \in Reads[3]["lineitem"]
       /\ "l_extendedprice" \in Reads[3]["lineitem"] /\ "l_discount" \in Reads[3]["lineitem"]
BY DEF Reads

\* The rows of the product that the SQL of q3 selects from.
LEMMA Product3 ==
  ASSUME NEW d, NEW N, N = Reads[3], Fits(d, N), NEW x
  PROVE  x \in d.customer \otimes d.orders \otimes d.lineitem <=> Keeps(d, N, x)
<1>N. DOMAIN N = {"customer", "orders", "lineitem"}
  BY Reads3
<1> DEFINE T1 == {"customer"}
           T2 == T1 \cup {"orders"}
           T3 == T2 \cup {"lineitem"}
<1>1. Whole(d, N, T1, d.customer)
  BY <1>N, WholeTable
<1>2. Whole(d, N, T2, d.customer \otimes d.orders)
  BY <1>N, <1>1, WholeProduct
<1>3. Whole(d, N, T3, d.customer \otimes d.orders \otimes d.lineitem)
  BY <1>N, <1>2, WholeProduct
<1>4. Among(DOMAIN N, T3)
  BY <1>N DEF Among
<1> QED BY <1>3, <1>4, KeptInWhole

Frame3(d) ==
    LET building == {c \in d.customer : c.c_mktsegment = "BUILDING"}
        placed == MergeOn(building, d.orders, "c_custkey", "o_custkey")
    IN  MergeOn(placed, d.lineitem, "o_orderkey", "l_orderkey")

\* The rows of the joins of q3, in terms of the tables.
LEMMA InFrame3 ==
  ASSUME NEW d, NEW N, N = Reads[3], Fits(d, N), NEW x
  PROVE  /\ x \in Frame3(d) =>
             /\ Keeps(d, N, x)
             /\ x.c_mktsegment = "BUILDING"
             /\ x.c_custkey = x.o_custkey
             /\ x.o_orderkey = x.l_orderkey
         /\ /\ Keeps(d, N, x)
            /\ x.c_mktsegment = "BUILDING"
            /\ x.c_custkey = x.o_custkey
            /\ x.o_orderkey = x.l_orderkey
            => x \in Frame3(d)
<1>N. DOMAIN N = {"customer", "orders", "lineitem"}
  BY Reads3
<1>C. /\ "c_custkey" \in N["customer"]
      /\ "o_custkey" \in N["orders"]
      /\ "o_orderkey" \in N["orders"]
      /\ "l_orderkey" \in N["lineitem"]
  BY Reads3
<1> DEFINE V1 == {"customer"}
           V2 == V1 \cup {"orders"}
           V3 == V2 \cup {"lineitem"}
           building == {c \in d.customer : c.c_mktsegment = "BUILDING"}
           placed == MergeOn(building, d.orders, "c_custkey", "o_custkey")
           lines == MergeOn(placed, d.lineitem, "o_orderkey", "l_orderkey")
<1>Lcustomer. Frame(d, N, {"customer"}, building)
  BY <1>N, FrameTable, FrameOfSome
<1>10. Joins(d, N, V1, building, {"orders"}, d.orders, "c_custkey", "o_custkey")
  BY <1>N, <1>C, <1>Lcustomer, FrameTable DEF Joins, Apart, Names
<1>11. Joins(d, N, V2, placed, {"lineitem"}, d.lineitem, "o_orderkey", "l_orderkey")
  BY <1>N, <1>C, <1>10, FrameMerge, FrameTable DEF Joins, Apart, Names
<1>12. Frame(d, N, V3, lines)
  BY <1>11, FrameMerge
<1>20. ASSUME Keeps(d, N, x)
      PROVE  Part(x, V3) \in lines <=>
                /\ Part(x, {"customer"}) \in building
                /\ x.c_custkey = x.o_custkey
                /\ x.o_orderkey = x.l_orderkey
  <2> HIDE DEF building
  <2>1. /\ Part(x, {"orders"}) \in d.orders
        /\ Part(x, {"lineitem"}) \in d.lineitem
    BY <1>20, <1>N, KeptInTable
  <2>2. Part(x, V2) \in placed <=> Part(x, V1) \in building /\ Part(x, {"orders"}) \in d.orders
          /\ x.c_custkey = x.o_custkey
    BY <1>20, <1>10, KeptByMerge
  <2>3. Part(x, V3) \in lines <=> Part(x, V2) \in placed /\ Part(x, {"lineitem"}) \in d.lineitem
          /\ x.o_orderkey = x.l_orderkey
    BY <1>20, <1>11, KeptByMerge
  <2> HIDE DEF V2, V3, building, placed, lines
  <2> QED BY <2>1, <2>2, <2>3
<1>21. (\A y \in lines : Keeps(d, N, y)) /\ (Keeps(d, N, x) => Part(x, V3) = x)
  <2>1. Among(DOMAIN N, V3)
    BY <1>N DEF Among
  <2> HIDE DEF V2, V3, building, placed, lines
  <2> QED BY <1>12, <2>1, KeptInAll
<1>L. ASSUME Keeps(d, N, x) PROVE Part(x, {"customer"}) \in building <=> x.c_mktsegment = "BUILDING"
  <2>1. Part(x, {"customer"}) \in d.customer
    BY <1>L, <1>N, KeptInTable
  <2>N. /\ Names(N, {"customer"}, "c_mktsegment")
    BY <1>N, Reads3 DEF Names
  <2>A. Among({"customer"}, DOMAIN N)
    BY <1>N DEF Among
  <2>2. Part(x, {"customer"}).c_mktsegment = x.c_mktsegment
    BY <1>L, <2>A, <2>N, ColumnKept
  <2> QED BY <2>1, <2>2
<1>22. Frame3(d) = lines
  BY DEF Frame3
<1> HIDE DEF V1, V2, V3, building, placed, lines
<1> QED BY <1>20, <1>21, <1>22, <1>L

Rows3(d) == {r \in Frame3(d) : r.o_orderdate < 19950315 /\ r.l_shipdate > 19950315}

Groups3(R, key) == GroupBy(R, {key, "o_orderdate", "o_shippriority"},
                                   LAMBDA g : [revenue |-> Total(g, Revenue)])

OtherAnswer3(R) == Top(Rename(Groups3(R, "o_orderkey"), "o_orderkey", "l_orderkey"),
        LAMBDA r : <<-r.revenue, r.o_orderdate>>, Cut[10])

Answer3(R) ==
    Top(Groups3(R, "l_orderkey"),
        LAMBDA r : <<-r.revenue, r.o_orderdate>>, Cut[10])

SqlRows3(d) == {r \in d.customer \otimes d.orders \otimes d.lineitem :
    /\ r.c_mktsegment = "BUILDING"
    /\ r.c_custkey = r.o_custkey
    /\ r.l_orderkey = r.o_orderkey
    /\ r.o_orderdate < 19950315
    /\ r.l_shipdate > 19950315}

\* The SQL of q3 selects the rows that the data frames filter.
LEMMA Same3 ==
  ASSUME NEW d, Fits(d, Reads[3])
  PROVE  SqlRows3(d) = Rows3(d)
<1> DEFINE N == Reads[3]
<1>1. ASSUME NEW r PROVE r \in SqlRows3(d) <=> r \in Rows3(d)
  <2>1. r \in d.customer \otimes d.orders \otimes d.lineitem <=> Keeps(d, N, r)
    BY Product3
  <2>2. r \in Frame3(d) <=>
          /\ Keeps(d, N, r)
          /\ r.c_mktsegment = "BUILDING"
          /\ r.c_custkey = r.o_custkey
          /\ r.o_orderkey = r.l_orderkey
    BY InFrame3
  <2> HIDE DEF N
  <2> QED BY <2>1, <2>2 DEF SqlRows3, Rows3
<1> QED BY <1>1

\* q3 of duckdb.
LEMMA Sql3 ==
  ASSUME NEW d
  PROVE  Sql!Q3(d) = Answer3(SqlRows3(d))
<1> USE DEF Sorted, Sql!Sorted, Top, Sql!Top, GroupBy, Sql!GroupBy, Project, Sql!Project, On,
           Sql!On, Joined, Sql!Joined, Total, Sql!Total, Mean, Sql!Mean, Alpha, Sql!Alpha,
           Before, Sql!Before, Cross, Sql!Cross, Revenue, Sql!Revenue, Quantity, Sql!Quantity,
           Price, Sql!Price, Charge, Sql!Charge, Discount, Sql!Discount, Match, Sql!Match, Merge,
           Sql!Merge, Cardinality, Sql!Cardinality, SumFunction, Sql!SumFunction,
           SumFunctionOnSet, Sql!SumFunctionOnSet, FoldFunctionOnSet, Sql!FoldFunctionOnSet,
           MapThenFoldSet, Sql!MapThenFoldSet, Rename, Sql!Rename, \otimes, Sql!\otimes
<1> QED BY SMT DEF Sql!Q3, Answer3, SqlRows3, Groups3

\* q3 of polars.
LEMMA Polars3 ==
  ASSUME NEW d
  PROVE  Polars!Q3(d) = OtherAnswer3(Rows3(d))
<1> USE DEF Sorted, Polars!Sorted, Top, Polars!Top, GroupBy, Polars!GroupBy, Project,
           Polars!Project, On, Polars!On, Joined, Polars!Joined, Total, Polars!Total, Mean,
           Polars!Mean, Alpha, Polars!Alpha, Before, Polars!Before, Cross, Polars!Cross, Revenue,
           Polars!Revenue, Quantity, Polars!Quantity, Price, Polars!Price, Charge, Polars!Charge,
           Discount, Polars!Discount, Match, Polars!Match, Merge, Polars!Merge, Cardinality,
           Polars!Cardinality, SumFunction, Polars!SumFunction, SumFunctionOnSet,
           Polars!SumFunctionOnSet, FoldFunctionOnSet, Polars!FoldFunctionOnSet, MapThenFoldSet,
           Polars!MapThenFoldSet, Rename, Polars!Rename, \otimes, Sql!\otimes, Polars!ClosedLeft
<1> QED BY SMT DEF Polars!Q3, OtherAnswer3, Rows3, Frame3, MergeOn, MergeOnTwo, Groups3

\* q3 of pandas.
LEMMA Pandas3 ==
  ASSUME NEW d
  PROVE  Pandas!Q3(d) = OtherAnswer3(Rows3(d))
<1> USE DEF Sorted, Pandas!Sorted, Top, Pandas!Top, GroupBy, Pandas!GroupBy, Project,
           Pandas!Project, On, Pandas!On, Joined, Pandas!Joined, Total, Pandas!Total, Mean,
           Pandas!Mean, Alpha, Pandas!Alpha, Before, Pandas!Before, Cross, Pandas!Cross, Revenue,
           Pandas!Revenue, Quantity, Pandas!Quantity, Price, Pandas!Price, Charge, Pandas!Charge,
           Discount, Pandas!Discount, Match, Pandas!Match, Merge, Pandas!Merge, Cardinality,
           Pandas!Cardinality, SumFunction, Pandas!SumFunction, SumFunctionOnSet,
           Pandas!SumFunctionOnSet, FoldFunctionOnSet, Pandas!FoldFunctionOnSet, MapThenFoldSet,
           Pandas!MapThenFoldSet, Rename, Pandas!Rename, \otimes, Sql!\otimes
<1> QED BY SMT DEF Pandas!Q3, OtherAnswer3, Rows3, Frame3, MergeOn, MergeOnTwo, Groups3

\* The data frames group by o_orderkey and rename; the SQL groups by
\* l_orderkey, which is the same.
LEMMA Renaming3 ==
  ASSUME NEW R, \A r \in R : r.o_orderkey = r.l_orderkey
  PROVE  Rename(Groups3(R, "o_orderkey"), "o_orderkey", "l_orderkey") = Groups3(R, "l_orderkey")
<1> DEFINE key(k) == [r \in R |-> On(r, {k, "o_orderdate", "o_shippriority"})]
           agg == [g \in SUBSET R |-> [revenue |-> Total(g, Revenue)]]
           old == key("o_orderkey")
           new == key("l_orderkey")
<1>1. ASSUME NEW k PROVE Groups3(R, k) = Grouped(R, key(k), agg)
  <2> DEFINE C == {k, "o_orderdate", "o_shippriority"}
  <2> HIDE DEF C
  <2>1. GroupBy(R, C, LAMBDA g : [revenue |-> Total(g, Revenue)]) = GroupedOn(R, C, agg)
    <3>1. ASSUME NEW j PROVE agg[{r \in R : On(r, C) = j}]
                   = [revenue |-> Total({r \in R : On(r, C) = j}, Revenue)]
      <4>1. {r \in R : On(r, C) = j} \in SUBSET R
        OBVIOUS
      <4> QED BY <4>1, Zenon
    <3> HIDE DEF agg
    <3>2. ASSUME NEW x PROVE x \in GroupBy(R, C, LAMBDA g : [revenue |-> Total(g, Revenue)])
                   <=> x \in GroupedOn(R, C, agg)
      BY <3>1, Zenon DEF GroupBy, GroupedOn
    <3> QED BY <3>2, Zenon
  <2>2. key(k) = KeyOn(R, C)
    BY DEF KeyOn, C
  <2> HIDE DEF key, agg
  <2> QED BY <2>1, <2>2, GroupedOnIs, Zenon DEF Groups3, C
<1>2. ASSUME NEW r \in R
      PROVE  /\ IsFcn(old[r]) /\ DOMAIN old[r] = {"o_orderkey", "o_orderdate", "o_shippriority"}
             /\ new[r] = Renamed(old[r], "o_orderkey", "l_orderkey")
  BY DEF IsFcn, On, Renamed, Joined
<1>3. Aggregated(R, agg, {"revenue"})
  BY DEF Aggregated
<1> HIDE DEF key, agg
<1>4. Rename(Grouped(R, old, agg), "o_orderkey", "l_orderkey") = Grouped(R, new, agg)
  <2> DEFINE K == {"o_orderkey", "o_orderdate", "o_shippriority"}
  <2>1. "o_orderkey" # "l_orderkey" /\ "o_orderkey" \in K /\ "l_orderkey" \notin K
    OBVIOUS
  <2>2. "o_orderkey" \notin {"revenue"} /\ "l_orderkey" \notin {"revenue"}
    OBVIOUS
  <2>3. Keyed(R, old, K)
    BY <1>2 DEF Keyed
  <2>4. KeyRenamed(R, old, new, "o_orderkey", "l_orderkey")
    BY <1>2 DEF KeyRenamed
  <2> HIDE DEF old, new, K
  <2> QED BY <1>3, <2>1, <2>2, <2>3, <2>4, RenamedGroups
<1> QED BY <1>1, <1>4

\* The three engines answer q3 alike.
LEMMA Answers3 ==
  ASSUME NEW d, Fits(d, Reads[3])
  PROVE  /\ Polars!Q3(d) = Sql!Q3(d)
         /\ Pandas!Q3(d) = Sql!Q3(d)
<1>1. \A r \in Rows3(d) : r.o_orderkey = r.l_orderkey
  BY InFrame3 DEF Rows3
<1>2. OtherAnswer3(Rows3(d)) = Answer3(Rows3(d))
  <2> DEFINE R == Rows3(d)
  <2> HIDE DEF R
  <2>1. Rename(Groups3(R, "o_orderkey"), "o_orderkey", "l_orderkey") = Groups3(R, "l_orderkey")
    BY <1>1, Renaming3 DEF R
  <2> QED BY <2>1, Zenon DEF OtherAnswer3, Answer3, R
<1> QED BY <1>2, Sql3, Polars3, Pandas3, Same3

-----------------------------------------------------------------------------
(* q5: the revenue of local suppliers.                                     *)

\* The columns that q5 reads.
LEMMA Reads5 ==
  /\ DOMAIN Reads[5] = {"region", "nation", "customer", "orders", "supplier", "lineitem"}
  /\ "r_regionkey" \in Reads[5]["region"] /\ "r_name" \in Reads[5]["region"]
  /\ "n_nationkey" \in Reads[5]["nation"] /\ "n_regionkey" \in Reads[5]["nation"]
       /\ "n_name" \in Reads[5]["nation"]
  /\ "c_custkey" \in Reads[5]["customer"] /\ "c_nationkey" \in Reads[5]["customer"]
  /\ "o_orderkey" \in Reads[5]["orders"] /\ "o_custkey" \in Reads[5]["orders"]
       /\ "o_orderdate" \in Reads[5]["orders"]
  /\ "s_suppkey" \in Reads[5]["supplier"] /\ "s_nationkey" \in Reads[5]["supplier"]
  /\ "l_suppkey" \in Reads[5]["lineitem"] /\ "l_orderkey" \in Reads[5]["lineitem"]
       /\ "l_extendedprice" \in Reads[5]["lineitem"] /\ "l_discount" \in Reads[5]["lineitem"]
BY DEF Reads

\* The rows of the product that the SQL of q5 selects from.
LEMMA Product5 ==
  ASSUME NEW d, NEW N, N = Reads[5], Fits(d, N), NEW x
  PROVE  x \in d.customer \otimes d.orders \otimes d.lineitem \otimes d.supplier \otimes d.nation
           \otimes d.region <=> Keeps(d, N, x)
<1>N. DOMAIN N = {"region", "nation", "customer", "orders", "supplier", "lineitem"}
  BY Reads5
<1> DEFINE T1 == {"customer"}
           T2 == T1 \cup {"orders"}
           T3 == T2 \cup {"lineitem"}
           T4 == T3 \cup {"supplier"}
           T5 == T4 \cup {"nation"}
           T6 == T5 \cup {"region"}
<1>1. Whole(d, N, T1, d.customer)
  BY <1>N, WholeTable
<1>2. Whole(d, N, T2, d.customer \otimes d.orders)
  BY <1>N, <1>1, WholeProduct
<1>3. Whole(d, N, T3, d.customer \otimes d.orders \otimes d.lineitem)
  BY <1>N, <1>2, WholeProduct
<1>4. Whole(d, N, T4, d.customer \otimes d.orders \otimes d.lineitem \otimes d.supplier)
  BY <1>N, <1>3, WholeProduct
<1>5. Whole(d, N, T5, d.customer \otimes d.orders \otimes d.lineitem \otimes d.supplier
        \otimes d.nation)
  BY <1>N, <1>4, WholeProduct
<1>6. Whole(d, N, T6, d.customer \otimes d.orders \otimes d.lineitem \otimes d.supplier
        \otimes d.nation \otimes d.region)
  BY <1>N, <1>5, WholeProduct
<1>7. Among(DOMAIN N, T6)
  BY <1>N DEF Among
<1> QED BY <1>6, <1>7, KeptInWhole

Frame5(d) ==
    LET nations == MergeOn(d.region, d.nation, "r_regionkey", "n_regionkey")
        customers == MergeOn(nations, d.customer, "n_nationkey", "c_nationkey")
        placed == MergeOn(customers, d.orders, "c_custkey", "o_custkey")
        lines == MergeOn(placed, d.lineitem, "o_orderkey", "l_orderkey")
    IN  MergeOnTwo(lines, d.supplier, "l_suppkey", "s_suppkey", "n_nationkey", "s_nationkey")

\* The rows of the joins of q5, in terms of the tables.
LEMMA InFrame5 ==
  ASSUME NEW d, NEW N, N = Reads[5], Fits(d, N), NEW x
  PROVE  /\ x \in Frame5(d) =>
             /\ Keeps(d, N, x)
             /\ x.r_regionkey = x.n_regionkey
             /\ x.n_nationkey = x.c_nationkey
             /\ x.c_custkey = x.o_custkey
             /\ x.o_orderkey = x.l_orderkey
             /\ x.l_suppkey = x.s_suppkey /\ x.n_nationkey = x.s_nationkey
         /\ /\ Keeps(d, N, x)
            /\ x.r_regionkey = x.n_regionkey
            /\ x.n_nationkey = x.c_nationkey
            /\ x.c_custkey = x.o_custkey
            /\ x.o_orderkey = x.l_orderkey
            /\ x.l_suppkey = x.s_suppkey /\ x.n_nationkey = x.s_nationkey
            => x \in Frame5(d)
<1>N. DOMAIN N = {"region", "nation", "customer", "orders", "supplier", "lineitem"}
  BY Reads5
<1>C. /\ "r_regionkey" \in N["region"]
      /\ "n_regionkey" \in N["nation"]
      /\ "n_nationkey" \in N["nation"]
      /\ "c_nationkey" \in N["customer"]
      /\ "c_custkey" \in N["customer"]
      /\ "o_custkey" \in N["orders"]
      /\ "o_orderkey" \in N["orders"]
      /\ "l_orderkey" \in N["lineitem"]
      /\ "l_suppkey" \in N["lineitem"]
      /\ "s_suppkey" \in N["supplier"]
      /\ "s_nationkey" \in N["supplier"]
  BY Reads5
<1> DEFINE V1 == {"region"}
           V2 == V1 \cup {"nation"}
           V3 == V2 \cup {"customer"}
           V4 == V3 \cup {"orders"}
           V5 == V4 \cup {"lineitem"}
           V6 == V5 \cup {"supplier"}
           nations == MergeOn(d.region, d.nation, "r_regionkey", "n_regionkey")
           customers == MergeOn(nations, d.customer, "n_nationkey", "c_nationkey")
           placed == MergeOn(customers, d.orders, "c_custkey", "o_custkey")
           lines == MergeOn(placed, d.lineitem, "o_orderkey", "l_orderkey")
           all == MergeOnTwo(lines, d.supplier, "l_suppkey", "s_suppkey", "n_nationkey",
             "s_nationkey")
<1>10. Joins(d, N, V1, d.region, {"nation"}, d.nation, "r_regionkey", "n_regionkey")
  BY <1>N, <1>C, FrameTable DEF Joins, Apart, Names
<1>11. Joins(d, N, V2, nations, {"customer"}, d.customer, "n_nationkey", "c_nationkey")
  BY <1>N, <1>C, <1>10, FrameMerge, FrameTable DEF Joins, Apart, Names
<1>12. Joins(d, N, V3, customers, {"orders"}, d.orders, "c_custkey", "o_custkey")
  BY <1>N, <1>C, <1>11, FrameMerge, FrameTable DEF Joins, Apart, Names
<1>13. Joins(d, N, V4, placed, {"lineitem"}, d.lineitem, "o_orderkey", "l_orderkey")
  BY <1>N, <1>C, <1>12, FrameMerge, FrameTable DEF Joins, Apart, Names
<1>14. /\ Joins(d, N, V5, lines, {"supplier"}, d.supplier, "l_suppkey", "s_suppkey")
       /\ Joins(d, N, V5, lines, {"supplier"}, d.supplier, "n_nationkey", "s_nationkey")
  BY <1>N, <1>C, <1>13, FrameMerge, FrameTable DEF Joins, Apart, Names
<1>15. Frame(d, N, V6, all)
  BY <1>14, FrameMergeOnTwo
<1>20. ASSUME Keeps(d, N, x)
      PROVE  Part(x, V6) \in all <=>
                /\ x.r_regionkey = x.n_regionkey
                /\ x.n_nationkey = x.c_nationkey
                /\ x.c_custkey = x.o_custkey
                /\ x.o_orderkey = x.l_orderkey
                /\ x.l_suppkey = x.s_suppkey /\ x.n_nationkey = x.s_nationkey
  <2>1. /\ Part(x, {"region"}) \in d.region
        /\ Part(x, {"nation"}) \in d.nation
        /\ Part(x, {"customer"}) \in d.customer
        /\ Part(x, {"orders"}) \in d.orders
        /\ Part(x, {"lineitem"}) \in d.lineitem
        /\ Part(x, {"supplier"}) \in d.supplier
    BY <1>20, <1>N, KeptInTable
  <2>2. Part(x, V2) \in nations <=> Part(x, V1) \in d.region /\ Part(x, {"nation"}) \in d.nation
          /\ x.r_regionkey = x.n_regionkey
    BY <1>20, <1>10, KeptByMerge
  <2>3. Part(x, V3) \in customers <=> Part(x, V2) \in nations
          /\ Part(x, {"customer"}) \in d.customer /\ x.n_nationkey = x.c_nationkey
    BY <1>20, <1>11, KeptByMerge
  <2>4. Part(x, V4) \in placed <=> Part(x, V3) \in customers /\ Part(x, {"orders"}) \in d.orders
          /\ x.c_custkey = x.o_custkey
    BY <1>20, <1>12, KeptByMerge
  <2>5. Part(x, V5) \in lines <=> Part(x, V4) \in placed /\ Part(x, {"lineitem"}) \in d.lineitem
          /\ x.o_orderkey = x.l_orderkey
    BY <1>20, <1>13, KeptByMerge
  <2>6. Part(x, V6) \in all <=> Part(x, V5) \in lines /\ Part(x, {"supplier"}) \in d.supplier
          /\ x.l_suppkey = x.s_suppkey /\ x.n_nationkey = x.s_nationkey
    BY <1>20, <1>14, KeptByMergeOnTwo
  <2> HIDE DEF V2, V3, V4, V5, V6, nations, customers, placed, lines, all
  <2> QED BY <2>1, <2>2, <2>3, <2>4, <2>5, <2>6
<1>21. (\A y \in all : Keeps(d, N, y)) /\ (Keeps(d, N, x) => Part(x, V6) = x)
  <2>1. Among(DOMAIN N, V6)
    BY <1>N DEF Among
  <2> HIDE DEF V2, V3, V4, V5, V6, nations, customers, placed, lines, all
  <2> QED BY <1>15, <2>1, KeptInAll
<1>22. Frame5(d) = all
  BY DEF Frame5
<1> HIDE DEF V1, V2, V3, V4, V5, V6, nations, customers, placed, lines, all
<1> QED BY <1>20, <1>21, <1>22

Rows5(d) == {r \in Frame5(d) : r.r_name = "ASIA" /\ r.o_orderdate >= 19940101
  /\ r.o_orderdate < 19950101}

Answer5(R) ==
    Sorted(GroupBy(R, {"n_name"}, LAMBDA g : [revenue |-> Total(g, Revenue)]),
           LAMBDA r : <<-r.revenue>>)

SqlRows5(d) == {r \in d.customer \otimes d.orders \otimes d.lineitem \otimes d.supplier
  \otimes d.nation \otimes d.region :
                     /\ r.c_custkey = r.o_custkey
                     /\ r.l_orderkey = r.o_orderkey
                     /\ r.l_suppkey = r.s_suppkey
                     /\ r.c_nationkey = r.s_nationkey
                     /\ r.s_nationkey = r.n_nationkey
                     /\ r.n_regionkey = r.r_regionkey
                     /\ r.r_name = "ASIA"
                     /\ r.o_orderdate >= 19940101
                     /\ r.o_orderdate < 19950101}

\* The SQL of q5 selects the rows that the data frames filter.
LEMMA Same5 ==
  ASSUME NEW d, Fits(d, Reads[5])
  PROVE  SqlRows5(d) = Rows5(d)
<1> DEFINE N == Reads[5]
<1>1. ASSUME NEW r PROVE r \in SqlRows5(d) <=> r \in Rows5(d)
  <2>1. r \in d.customer \otimes d.orders \otimes d.lineitem \otimes d.supplier \otimes d.nation
          \otimes d.region
        <=> Keeps(d, N, r)
    BY Product5
  <2>2. r \in Frame5(d) <=> /\ Keeps(d, N, r)
                     /\ r.r_regionkey = r.n_regionkey
                     /\ r.n_nationkey = r.c_nationkey
                     /\ r.c_custkey = r.o_custkey
                     /\ r.o_orderkey = r.l_orderkey
                     /\ r.l_suppkey = r.s_suppkey /\ r.n_nationkey = r.s_nationkey
    BY InFrame5
  <2> HIDE DEF N
  <2> QED BY <2>1, <2>2 DEF SqlRows5, Rows5
<1> QED BY <1>1

\* The three engines answer q5 alike.
LEMMA Answers5 ==
  ASSUME NEW d, Fits(d, Reads[5])
  PROVE  Sql!Q5(d) = Answer5(Rows5(d)) /\ Polars!Q5(d) = Answer5(Rows5(d)) /\ Pandas!Q5(d)
           = Answer5(Rows5(d))
<1> USE DEF Sql!Sorted, Sorted, Sql!GroupBy, GroupBy, Sql!Project, Project,
       Sql!On, On, Sql!Joined, Joined, Sql!Total, Total, Sql!Alpha, Alpha,
       Sql!Before, Before, Sql!\otimes, \otimes, Sql!Cross, Cross, Sql!Revenue, Revenue,
       Cardinality, Sql!Cardinality, SumFunction, Sql!SumFunction,
       SumFunctionOnSet, Sql!SumFunctionOnSet, FoldFunctionOnSet, Sql!FoldFunctionOnSet,
       MapThenFoldSet, Sql!MapThenFoldSet,
  Polars!Sorted, Pandas!Sorted, Polars!GroupBy, Pandas!GroupBy, Polars!Project, Pandas!Project,
  Polars!On, Pandas!On,
  Polars!Joined, Pandas!Joined, Polars!Total, Pandas!Total, Polars!Before, Pandas!Before,
  Polars!Revenue, Pandas!Revenue,
  Polars!Cardinality, Pandas!Cardinality, Polars!SumFunction, Pandas!SumFunction,
  Polars!SumFunctionOnSet, Pandas!SumFunctionOnSet,
  Polars!FoldFunctionOnSet, Pandas!FoldFunctionOnSet, Polars!MapThenFoldSet, Pandas!MapThenFoldSet,
  Polars!Merge, Pandas!Merge, Merge, Polars!Match, Pandas!Match, Match, Polars!ClosedLeft
<1>1. Sql!Q5(d) = Answer5(SqlRows5(d))
  BY SMT DEF Sql!Q5, Answer5, SqlRows5
<1>2. Polars!Q5(d) = Answer5(Rows5(d))
  BY SMT DEF Polars!Q5, Answer5, Rows5, Frame5, MergeOn, MergeOnTwo
<1>3. Pandas!Q5(d) = Answer5(Rows5(d))
  BY SMT DEF Pandas!Q5, Answer5, Rows5, Frame5, MergeOn, MergeOnTwo
<1> QED BY <1>1, <1>2, <1>3, Same5

-----------------------------------------------------------------------------
(* q10: the customers who sent back.                                       *)

\* The columns that q10 reads.
LEMMA Reads10 ==
  /\ DOMAIN Reads[10] = {"nation", "customer", "orders", "lineitem"}
  /\ "n_nationkey" \in Reads[10]["nation"] /\ "n_name" \in Reads[10]["nation"]
  /\ "c_custkey" \in Reads[10]["customer"] /\ "c_nationkey" \in Reads[10]["customer"]
       /\ "c_name" \in Reads[10]["customer"] /\ "c_acctbal" \in Reads[10]["customer"]
  /\ "o_orderkey" \in Reads[10]["orders"] /\ "o_custkey" \in Reads[10]["orders"]
       /\ "o_orderdate" \in Reads[10]["orders"]
  /\ "l_orderkey" \in Reads[10]["lineitem"] /\ "l_returnflag" \in Reads[10]["lineitem"]
       /\ "l_extendedprice" \in Reads[10]["lineitem"] /\ "l_discount" \in Reads[10]["lineitem"]
BY DEF Reads

\* The rows of the product that the SQL of q10 selects from.
LEMMA Product10 ==
  ASSUME NEW d, NEW N, N = Reads[10], Fits(d, N), NEW x
  PROVE  x \in d.customer \otimes d.orders \otimes d.lineitem \otimes d.nation <=> Keeps(d, N, x)
<1>N. DOMAIN N = {"nation", "customer", "orders", "lineitem"}
  BY Reads10
<1> DEFINE T1 == {"customer"}
           T2 == T1 \cup {"orders"}
           T3 == T2 \cup {"lineitem"}
           T4 == T3 \cup {"nation"}
<1>1. Whole(d, N, T1, d.customer)
  BY <1>N, WholeTable
<1>2. Whole(d, N, T2, d.customer \otimes d.orders)
  BY <1>N, <1>1, WholeProduct
<1>3. Whole(d, N, T3, d.customer \otimes d.orders \otimes d.lineitem)
  BY <1>N, <1>2, WholeProduct
<1>4. Whole(d, N, T4, d.customer \otimes d.orders \otimes d.lineitem \otimes d.nation)
  BY <1>N, <1>3, WholeProduct
<1>5. Among(DOMAIN N, T4)
  BY <1>N DEF Among
<1> QED BY <1>4, <1>5, KeptInWhole

Frame10(d) ==
    LET placed == MergeOn(d.customer, d.orders, "c_custkey", "o_custkey")
        lines == MergeOn(placed, d.lineitem, "o_orderkey", "l_orderkey")
    IN  MergeOn(lines, d.nation, "c_nationkey", "n_nationkey")

\* The rows of the joins of q10, in terms of the tables.
LEMMA InFrame10 ==
  ASSUME NEW d, NEW N, N = Reads[10], Fits(d, N), NEW x
  PROVE  /\ x \in Frame10(d) =>
             /\ Keeps(d, N, x)
             /\ x.c_custkey = x.o_custkey
             /\ x.o_orderkey = x.l_orderkey
             /\ x.c_nationkey = x.n_nationkey
         /\ /\ Keeps(d, N, x)
            /\ x.c_custkey = x.o_custkey
            /\ x.o_orderkey = x.l_orderkey
            /\ x.c_nationkey = x.n_nationkey
            => x \in Frame10(d)
<1>N. DOMAIN N = {"nation", "customer", "orders", "lineitem"}
  BY Reads10
<1>C. /\ "c_custkey" \in N["customer"]
      /\ "o_custkey" \in N["orders"]
      /\ "o_orderkey" \in N["orders"]
      /\ "l_orderkey" \in N["lineitem"]
      /\ "c_nationkey" \in N["customer"]
      /\ "n_nationkey" \in N["nation"]
  BY Reads10
<1> DEFINE V1 == {"customer"}
           V2 == V1 \cup {"orders"}
           V3 == V2 \cup {"lineitem"}
           V4 == V3 \cup {"nation"}
           placed == MergeOn(d.customer, d.orders, "c_custkey", "o_custkey")
           lines == MergeOn(placed, d.lineitem, "o_orderkey", "l_orderkey")
           all == MergeOn(lines, d.nation, "c_nationkey", "n_nationkey")
<1>10. Joins(d, N, V1, d.customer, {"orders"}, d.orders, "c_custkey", "o_custkey")
  BY <1>N, <1>C, FrameTable DEF Joins, Apart, Names
<1>11. Joins(d, N, V2, placed, {"lineitem"}, d.lineitem, "o_orderkey", "l_orderkey")
  BY <1>N, <1>C, <1>10, FrameMerge, FrameTable DEF Joins, Apart, Names
<1>12. Joins(d, N, V3, lines, {"nation"}, d.nation, "c_nationkey", "n_nationkey")
  BY <1>N, <1>C, <1>11, FrameMerge, FrameTable DEF Joins, Apart, Names
<1>13. Frame(d, N, V4, all)
  BY <1>12, FrameMerge
<1>20. ASSUME Keeps(d, N, x)
      PROVE  Part(x, V4) \in all <=>
                /\ x.c_custkey = x.o_custkey
                /\ x.o_orderkey = x.l_orderkey
                /\ x.c_nationkey = x.n_nationkey
  <2>1. /\ Part(x, {"customer"}) \in d.customer
        /\ Part(x, {"orders"}) \in d.orders
        /\ Part(x, {"lineitem"}) \in d.lineitem
        /\ Part(x, {"nation"}) \in d.nation
    BY <1>20, <1>N, KeptInTable
  <2>2. Part(x, V2) \in placed <=> Part(x, V1) \in d.customer /\ Part(x, {"orders"}) \in d.orders
          /\ x.c_custkey = x.o_custkey
    BY <1>20, <1>10, KeptByMerge
  <2>3. Part(x, V3) \in lines <=> Part(x, V2) \in placed /\ Part(x, {"lineitem"}) \in d.lineitem
          /\ x.o_orderkey = x.l_orderkey
    BY <1>20, <1>11, KeptByMerge
  <2>4. Part(x, V4) \in all <=> Part(x, V3) \in lines /\ Part(x, {"nation"}) \in d.nation
          /\ x.c_nationkey = x.n_nationkey
    BY <1>20, <1>12, KeptByMerge
  <2> HIDE DEF V2, V3, V4, placed, lines, all
  <2> QED BY <2>1, <2>2, <2>3, <2>4
<1>21. (\A y \in all : Keeps(d, N, y)) /\ (Keeps(d, N, x) => Part(x, V4) = x)
  <2>1. Among(DOMAIN N, V4)
    BY <1>N DEF Among
  <2> HIDE DEF V2, V3, V4, placed, lines, all
  <2> QED BY <1>13, <2>1, KeptInAll
<1>22. Frame10(d) = all
  BY DEF Frame10
<1> HIDE DEF V1, V2, V3, V4, placed, lines, all
<1> QED BY <1>20, <1>21, <1>22

Rows10(d) == {r \in Frame10(d) : r.o_orderdate >= 19931001 /\ r.o_orderdate < 19940101
  /\ r.l_returnflag = "R"}

Answer10(R) ==
    Top(GroupBy(R, {"c_custkey", "c_name", "c_acctbal", "n_name"},
                LAMBDA g : [revenue |-> Total(g, Revenue)]),
        LAMBDA r : <<-r.revenue>>, Cut[20])

SqlRows10(d) == {r \in d.customer \otimes d.orders \otimes d.lineitem \otimes d.nation :
    /\ r.c_custkey = r.o_custkey
    /\ r.l_orderkey = r.o_orderkey
    /\ r.o_orderdate >= 19931001
    /\ r.o_orderdate < 19940101
    /\ r.l_returnflag = "R"
    /\ r.c_nationkey = r.n_nationkey}

\* The SQL of q10 selects the rows that the data frames filter.
LEMMA Same10 ==
  ASSUME NEW d, Fits(d, Reads[10])
  PROVE  SqlRows10(d) = Rows10(d)
<1> DEFINE N == Reads[10]
<1>1. ASSUME NEW r PROVE r \in SqlRows10(d) <=> r \in Rows10(d)
  <2>1. r \in d.customer \otimes d.orders \otimes d.lineitem \otimes d.nation <=> Keeps(d, N, r)
    BY Product10
  <2>2. r \in Frame10(d) <=>
          /\ Keeps(d, N, r)
          /\ r.c_custkey = r.o_custkey
          /\ r.o_orderkey = r.l_orderkey
          /\ r.c_nationkey = r.n_nationkey
    BY InFrame10
  <2> HIDE DEF N
  <2> QED BY <2>1, <2>2 DEF SqlRows10, Rows10
<1> QED BY <1>1

\* q10 of duckdb.
LEMMA Sql10 ==
  ASSUME NEW d
  PROVE  Sql!Q10(d) = Answer10(SqlRows10(d))
<1> USE DEF Sorted, Sql!Sorted, Top, Sql!Top, GroupBy, Sql!GroupBy, Project, Sql!Project, On,
           Sql!On, Joined, Sql!Joined, Total, Sql!Total, Mean, Sql!Mean, Alpha, Sql!Alpha,
           Before, Sql!Before, Cross, Sql!Cross, Revenue, Sql!Revenue, Quantity, Sql!Quantity,
           Price, Sql!Price, Charge, Sql!Charge, Discount, Sql!Discount, Match, Sql!Match, Merge,
           Sql!Merge, Cardinality, Sql!Cardinality, SumFunction, Sql!SumFunction,
           SumFunctionOnSet, Sql!SumFunctionOnSet, FoldFunctionOnSet, Sql!FoldFunctionOnSet,
           MapThenFoldSet, Sql!MapThenFoldSet, \otimes, Sql!\otimes
<1> QED BY SMT DEF Sql!Q10, Answer10, SqlRows10

\* q10 of polars.
LEMMA Polars10 ==
  ASSUME NEW d
  PROVE  Polars!Q10(d) = Answer10(Rows10(d))
<1> USE DEF Sorted, Polars!Sorted, Top, Polars!Top, GroupBy, Polars!GroupBy, Project,
           Polars!Project, On, Polars!On, Joined, Polars!Joined, Total, Polars!Total, Mean,
           Polars!Mean, Alpha, Polars!Alpha, Before, Polars!Before, Cross, Polars!Cross, Revenue,
           Polars!Revenue, Quantity, Polars!Quantity, Price, Polars!Price, Charge, Polars!Charge,
           Discount, Polars!Discount, Match, Polars!Match, Merge, Polars!Merge, Cardinality,
           Polars!Cardinality, SumFunction, Polars!SumFunction, SumFunctionOnSet,
           Polars!SumFunctionOnSet, FoldFunctionOnSet, Polars!FoldFunctionOnSet, MapThenFoldSet,
           Polars!MapThenFoldSet, \otimes, Sql!\otimes, Polars!ClosedLeft
<1> QED BY SMT DEF Polars!Q10, Answer10, Rows10, Frame10, MergeOn, MergeOnTwo

\* q10 of pandas.
LEMMA Pandas10 ==
  ASSUME NEW d
  PROVE  Pandas!Q10(d) = Answer10(Rows10(d))
<1> USE DEF Sorted, Pandas!Sorted, Top, Pandas!Top, GroupBy, Pandas!GroupBy, Project,
           Pandas!Project, On, Pandas!On, Joined, Pandas!Joined, Total, Pandas!Total, Mean,
           Pandas!Mean, Alpha, Pandas!Alpha, Before, Pandas!Before, Cross, Pandas!Cross, Revenue,
           Pandas!Revenue, Quantity, Pandas!Quantity, Price, Pandas!Price, Charge, Pandas!Charge,
           Discount, Pandas!Discount, Match, Pandas!Match, Merge, Pandas!Merge, Cardinality,
           Pandas!Cardinality, SumFunction, Pandas!SumFunction, SumFunctionOnSet,
           Pandas!SumFunctionOnSet, FoldFunctionOnSet, Pandas!FoldFunctionOnSet, MapThenFoldSet,
           Pandas!MapThenFoldSet, \otimes, Sql!\otimes
<1> QED BY SMT DEF Pandas!Q10, Answer10, Rows10, Frame10, MergeOn, MergeOnTwo

-----------------------------------------------------------------------------
(* q14: the share of promotions.                                           *)

\* The columns that q14 reads.
LEMMA Reads14 ==
  /\ DOMAIN Reads[14] = {"part", "lineitem"}
  /\ "p_partkey" \in Reads[14]["part"] /\ "p_type" \in Reads[14]["part"]
  /\ "l_partkey" \in Reads[14]["lineitem"] /\ "l_shipdate" \in Reads[14]["lineitem"]
       /\ "l_extendedprice" \in Reads[14]["lineitem"] /\ "l_discount" \in Reads[14]["lineitem"]
BY DEF Reads

\* The rows of the product that the SQL of q14 selects from.
LEMMA Product14 ==
  ASSUME NEW d, NEW N, N = Reads[14], Fits(d, N), NEW x
  PROVE  x \in d.lineitem \otimes d.part <=> Keeps(d, N, x)
<1>N. DOMAIN N = {"part", "lineitem"}
  BY Reads14
<1> DEFINE T1 == {"lineitem"}
           T2 == T1 \cup {"part"}
<1>1. Whole(d, N, T1, d.lineitem)
  BY <1>N, WholeTable
<1>2. Whole(d, N, T2, d.lineitem \otimes d.part)
  BY <1>N, <1>1, WholeProduct
<1>3. Among(DOMAIN N, T2)
  BY <1>N DEF Among
<1> QED BY <1>2, <1>3, KeptInWhole

Frame14(d) ==
    MergeOn(d.lineitem, d.part, "l_partkey", "p_partkey")

\* The rows of the joins of q14, in terms of the tables.
LEMMA InFrame14 ==
  ASSUME NEW d, NEW N, N = Reads[14], Fits(d, N), NEW x
  PROVE  /\ x \in Frame14(d) =>
             /\ Keeps(d, N, x)
             /\ x.l_partkey = x.p_partkey
         /\ /\ Keeps(d, N, x)
            /\ x.l_partkey = x.p_partkey
            => x \in Frame14(d)
<1>N. DOMAIN N = {"part", "lineitem"}
  BY Reads14
<1>C. /\ "l_partkey" \in N["lineitem"]
      /\ "p_partkey" \in N["part"]
  BY Reads14
<1> DEFINE V1 == {"lineitem"}
           V2 == V1 \cup {"part"}
           parts == MergeOn(d.lineitem, d.part, "l_partkey", "p_partkey")
<1>10. Joins(d, N, V1, d.lineitem, {"part"}, d.part, "l_partkey", "p_partkey")
  BY <1>N, <1>C, FrameTable DEF Joins, Apart, Names
<1>11. Frame(d, N, V2, parts)
  BY <1>10, FrameMerge
<1>20. ASSUME Keeps(d, N, x)
      PROVE  Part(x, V2) \in parts <=>
                /\ x.l_partkey = x.p_partkey
  <2>1. /\ Part(x, {"lineitem"}) \in d.lineitem
        /\ Part(x, {"part"}) \in d.part
    BY <1>20, <1>N, KeptInTable
  <2>2. Part(x, V2) \in parts <=> Part(x, V1) \in d.lineitem /\ Part(x, {"part"}) \in d.part
          /\ x.l_partkey = x.p_partkey
    BY <1>20, <1>10, KeptByMerge
  <2> HIDE DEF V2, parts
  <2> QED BY <2>1, <2>2
<1>21. (\A y \in parts : Keeps(d, N, y)) /\ (Keeps(d, N, x) => Part(x, V2) = x)
  <2>1. Among(DOMAIN N, V2)
    BY <1>N DEF Among
  <2> HIDE DEF V2, parts
  <2> QED BY <1>11, <2>1, KeptInAll
<1>22. Frame14(d) = parts
  BY DEF Frame14
<1> HIDE DEF V1, V2, parts
<1> QED BY <1>20, <1>21, <1>22

Promo(r) == IF StartsWith(r.p_type, <<"PROMO">>) THEN Revenue(r) ELSE 0

Rows14(d) == {r \in Frame14(d) : r.l_shipdate >= 19950901 /\ r.l_shipdate < 19951001}

SqlAnswer14(R) == [promo_revenue |-> IF R
  = {} THEN Null ELSE <<100 * Total(R, Promo), Total(R, Revenue)>>]

Answer14(R) ==
    [promo_revenue |-> <<100 * Total(R, Promo), Total(R, Revenue)>>]

PandasAnswer14(R) ==
    [promo_revenue |-> IF R = {} THEN Pandas!ZeroDivisionError
                       ELSE <<100 * Total(R, Promo), Total(R, Revenue)>>]

SqlRows14(d) == {r \in d.lineitem \otimes d.part :
    /\ r.l_partkey = r.p_partkey
    /\ r.l_shipdate >= 19950901
    /\ r.l_shipdate < 19951001}

\* The SQL of q14 selects the rows that the data frames filter.
LEMMA Same14 ==
  ASSUME NEW d, Fits(d, Reads[14])
  PROVE  SqlRows14(d) = Rows14(d)
<1> DEFINE N == Reads[14]
<1>1. ASSUME NEW r PROVE r \in SqlRows14(d) <=> r \in Rows14(d)
  <2>1. r \in d.lineitem \otimes d.part <=> Keeps(d, N, r)
    BY Product14
  <2>2. r \in Frame14(d) <=>
          /\ Keeps(d, N, r)
          /\ r.l_partkey = r.p_partkey
    BY InFrame14
  <2> HIDE DEF N
  <2> QED BY <2>1, <2>2 DEF SqlRows14, Rows14
<1> QED BY <1>1

\* q14 of duckdb.
LEMMA Sql14 ==
  ASSUME NEW d
  PROVE  Sql!Q14(d) = SqlAnswer14(SqlRows14(d))
<1> USE DEF Sorted, Sql!Sorted, Top, Sql!Top, GroupBy, Sql!GroupBy, Project, Sql!Project, On,
           Sql!On, Joined, Sql!Joined, Total, Sql!Total, Mean, Sql!Mean, Alpha, Sql!Alpha,
           Before, Sql!Before, Cross, Sql!Cross, Revenue, Sql!Revenue, Quantity, Sql!Quantity,
           Price, Sql!Price, Charge, Sql!Charge, Discount, Sql!Discount, Match, Sql!Match, Merge,
           Sql!Merge, Cardinality, Sql!Cardinality, SumFunction, Sql!SumFunction,
           SumFunctionOnSet, Sql!SumFunctionOnSet, FoldFunctionOnSet, Sql!FoldFunctionOnSet,
           MapThenFoldSet, Sql!MapThenFoldSet, StartsWith, Sql!StartsWith, IsPrefix,
           Sql!IsPrefix, \otimes, Sql!\otimes
<1> QED BY SMT DEF Sql!Q14, SqlAnswer14, SqlRows14, Promo

\* q14 of polars.
LEMMA Polars14 ==
  ASSUME NEW d
  PROVE  Polars!Q14(d) = Answer14(Rows14(d))
<1> USE DEF Sorted, Polars!Sorted, Top, Polars!Top, GroupBy, Polars!GroupBy, Project,
           Polars!Project, On, Polars!On, Joined, Polars!Joined, Total, Polars!Total, Mean,
           Polars!Mean, Alpha, Polars!Alpha, Before, Polars!Before, Cross, Polars!Cross, Revenue,
           Polars!Revenue, Quantity, Polars!Quantity, Price, Polars!Price, Charge, Polars!Charge,
           Discount, Polars!Discount, Match, Polars!Match, Merge, Polars!Merge, Cardinality,
           Polars!Cardinality, SumFunction, Polars!SumFunction, SumFunctionOnSet,
           Polars!SumFunctionOnSet, FoldFunctionOnSet, Polars!FoldFunctionOnSet, MapThenFoldSet,
           Polars!MapThenFoldSet, StartsWith, Polars!StartsWith, IsPrefix, Polars!IsPrefix,
           \otimes, Sql!\otimes, Polars!ClosedLeft
<1> QED BY SMT DEF Polars!Q14, Answer14, Rows14, Frame14, MergeOn, MergeOnTwo, Promo

\* q14 of pandas.
LEMMA Pandas14 ==
  ASSUME NEW d
  PROVE  Pandas!Q14(d) = PandasAnswer14(Rows14(d))
<1> USE DEF Sorted, Pandas!Sorted, Top, Pandas!Top, GroupBy, Pandas!GroupBy, Project,
           Pandas!Project, On, Pandas!On, Joined, Pandas!Joined, Total, Pandas!Total, Mean,
           Pandas!Mean, Alpha, Pandas!Alpha, Before, Pandas!Before, Cross, Pandas!Cross, Revenue,
           Pandas!Revenue, Quantity, Pandas!Quantity, Price, Pandas!Price, Charge, Pandas!Charge,
           Discount, Pandas!Discount, Match, Pandas!Match, Merge, Pandas!Merge, Cardinality,
           Pandas!Cardinality, SumFunction, Pandas!SumFunction, SumFunctionOnSet,
           Pandas!SumFunctionOnSet, FoldFunctionOnSet, Pandas!FoldFunctionOnSet, MapThenFoldSet,
           Pandas!MapThenFoldSet, StartsWith, Pandas!StartsWith, IsPrefix, Pandas!IsPrefix,
           \otimes, Sql!\otimes
<1> QED BY SMT DEF Pandas!Q14, PandasAnswer14, Rows14, Frame14, MergeOn, MergeOnTwo, Promo

-----------------------------------------------------------------------------
(* q19: the discounted revenue of three kinds of parts.                    *)

\* The columns that q19 reads.
LEMMA Reads19 ==
  /\ DOMAIN Reads[19] = {"part", "lineitem"}
  /\ "p_partkey" \in Reads[19]["part"] /\ "p_brand" \in Reads[19]["part"]
       /\ "p_container" \in Reads[19]["part"] /\ "p_size" \in Reads[19]["part"]
  /\ "l_partkey" \in Reads[19]["lineitem"] /\ "l_quantity" \in Reads[19]["lineitem"]
       /\ "l_shipmode" \in Reads[19]["lineitem"] /\ "l_shipinstruct" \in Reads[19]["lineitem"]
       /\ "l_extendedprice" \in Reads[19]["lineitem"] /\ "l_discount" \in Reads[19]["lineitem"]
BY DEF Reads

\* The rows of the product that the SQL of q19 selects from.
LEMMA Product19 ==
  ASSUME NEW d, NEW N, N = Reads[19], Fits(d, N), NEW x
  PROVE  x \in d.lineitem \otimes d.part <=> Keeps(d, N, x)
<1>N. DOMAIN N = {"part", "lineitem"}
  BY Reads19
<1> DEFINE T1 == {"lineitem"}
           T2 == T1 \cup {"part"}
<1>1. Whole(d, N, T1, d.lineitem)
  BY <1>N, WholeTable
<1>2. Whole(d, N, T2, d.lineitem \otimes d.part)
  BY <1>N, <1>1, WholeProduct
<1>3. Among(DOMAIN N, T2)
  BY <1>N DEF Among
<1> QED BY <1>2, <1>3, KeptInWhole

Frame19(d) ==
    MergeOn(d.part, d.lineitem, "p_partkey", "l_partkey")

\* The rows of the joins of q19, in terms of the tables.
LEMMA InFrame19 ==
  ASSUME NEW d, NEW N, N = Reads[19], Fits(d, N), NEW x
  PROVE  /\ x \in Frame19(d) =>
             /\ Keeps(d, N, x)
             /\ x.p_partkey = x.l_partkey
         /\ /\ Keeps(d, N, x)
            /\ x.p_partkey = x.l_partkey
            => x \in Frame19(d)
<1>N. DOMAIN N = {"part", "lineitem"}
  BY Reads19
<1>C. /\ "p_partkey" \in N["part"]
      /\ "l_partkey" \in N["lineitem"]
  BY Reads19
<1> DEFINE V1 == {"part"}
           V2 == V1 \cup {"lineitem"}
           lines == MergeOn(d.part, d.lineitem, "p_partkey", "l_partkey")
<1>10. Joins(d, N, V1, d.part, {"lineitem"}, d.lineitem, "p_partkey", "l_partkey")
  BY <1>N, <1>C, FrameTable DEF Joins, Apart, Names
<1>11. Frame(d, N, V2, lines)
  BY <1>10, FrameMerge
<1>20. ASSUME Keeps(d, N, x)
      PROVE  Part(x, V2) \in lines <=>
                /\ x.p_partkey = x.l_partkey
  <2>1. /\ Part(x, {"part"}) \in d.part
        /\ Part(x, {"lineitem"}) \in d.lineitem
    BY <1>20, <1>N, KeptInTable
  <2>2. Part(x, V2) \in lines <=> Part(x, V1) \in d.part /\ Part(x, {"lineitem"}) \in d.lineitem
          /\ x.p_partkey = x.l_partkey
    BY <1>20, <1>10, KeptByMerge
  <2> HIDE DEF V2, lines
  <2> QED BY <2>1, <2>2
<1>21. (\A y \in lines : Keeps(d, N, y)) /\ (Keeps(d, N, x) => Part(x, V2) = x)
  <2>1. Among(DOMAIN N, V2)
    BY <1>N DEF Among
  <2> HIDE DEF V2, lines
  <2> QED BY <1>11, <2>1, KeptInAll
<1>22. Frame19(d) = lines
  BY DEF Frame19
<1> HIDE DEF V1, V2, lines
<1> QED BY <1>20, <1>21, <1>22

Wanted(r) ==
    /\ r.l_shipmode \in {"AIR", "AIR REG"}
    /\ r.l_shipinstruct = "DELIVER IN PERSON"
    /\ \/ /\ r.p_brand = "Brand#12" /\ r.p_container \in {"SM CASE", "SM BOX", "SM PACK", "SM PKG"}
          /\ Between(r.l_quantity, 1, 11) /\ Between(r.p_size, 1, 5)
       \/ /\ r.p_brand = "Brand#23" /\ r.p_container \in {"MED BAG", "MED BOX", "MED PKG",
               "MED PACK"}
          /\ Between(r.l_quantity, 10, 20) /\ Between(r.p_size, 1, 10)
       \/ /\ r.p_brand = "Brand#34" /\ r.p_container \in {"LG CASE", "LG BOX", "LG PACK", "LG PKG"}
          /\ Between(r.l_quantity, 20, 30) /\ Between(r.p_size, 1, 15)

SqlAnswer19(R) == [revenue |-> IF R = {} THEN Null ELSE Total(R, Revenue)]

Chosen19(r) ==
    /\ \/ /\ r.p_partkey = r.l_partkey
          /\ r.p_brand = "Brand#12"
          /\ r.p_container \in {"SM CASE", "SM BOX", "SM PACK", "SM PKG"}
          /\ r.l_quantity >= 1 /\ r.l_quantity <= 1 + 10
          /\ Between(r.p_size, 1, 5)
          /\ r.l_shipmode \in {"AIR", "AIR REG"}
          /\ r.l_shipinstruct = "DELIVER IN PERSON"
       \/ /\ r.p_partkey = r.l_partkey
          /\ r.p_brand = "Brand#23"
          /\ r.p_container \in {"MED BAG", "MED BOX", "MED PKG", "MED PACK"}
          /\ r.l_quantity >= 10 /\ r.l_quantity <= 10 + 10
          /\ Between(r.p_size, 1, 10)
          /\ r.l_shipmode \in {"AIR", "AIR REG"}
          /\ r.l_shipinstruct = "DELIVER IN PERSON"
       \/ /\ r.p_partkey = r.l_partkey
          /\ r.p_brand = "Brand#34"
          /\ r.p_container \in {"LG CASE", "LG BOX", "LG PACK", "LG PKG"}
          /\ r.l_quantity >= 20 /\ r.l_quantity <= 20 + 10
          /\ Between(r.p_size, 1, 15)
          /\ r.l_shipmode \in {"AIR", "AIR REG"}
          /\ r.l_shipinstruct = "DELIVER IN PERSON"

Rows19(d) == {r \in Frame19(d) : Wanted(r)}

Answer19(R) ==
    [revenue |-> Total(R, Revenue)]

SqlRows19(d) == {r \in d.lineitem \otimes d.part :
    /\ Chosen19(r)}

\* The SQL of q19 selects the rows that the data frames filter.
LEMMA Same19 ==
  ASSUME NEW d, Fits(d, Reads[19])
  PROVE  SqlRows19(d) = Rows19(d)
<1> DEFINE N == Reads[19]
<1>1. ASSUME NEW r PROVE r \in SqlRows19(d) <=> r \in Rows19(d)
  <2>1. r \in d.lineitem \otimes d.part <=> Keeps(d, N, r)
    BY Product19
  <2>2. r \in Frame19(d) <=>
          /\ Keeps(d, N, r)
          /\ r.p_partkey = r.l_partkey
    BY InFrame19
  <2> HIDE DEF N
  <2>3. Chosen19(r) <=> r.p_partkey = r.l_partkey /\ Wanted(r)
    BY 1 + 10 = 11, 10 + 10 = 20, 20 + 10 = 30 DEF Chosen19, Wanted, Between
  <2> QED BY <2>1, <2>2, <2>3 DEF SqlRows19, Rows19
<1> QED BY <1>1

\* q19 of duckdb.
LEMMA Sql19 ==
  ASSUME NEW d
  PROVE  Sql!Q19(d) = SqlAnswer19(SqlRows19(d))
<1> USE DEF Sorted, Sql!Sorted, Top, Sql!Top, GroupBy, Sql!GroupBy, Project, Sql!Project, On,
           Sql!On, Joined, Sql!Joined, Total, Sql!Total, Mean, Sql!Mean, Alpha, Sql!Alpha,
           Before, Sql!Before, Cross, Sql!Cross, Revenue, Sql!Revenue, Quantity, Sql!Quantity,
           Price, Sql!Price, Charge, Sql!Charge, Discount, Sql!Discount, Match, Sql!Match, Merge,
           Sql!Merge, Cardinality, Sql!Cardinality, SumFunction, Sql!SumFunction,
           SumFunctionOnSet, Sql!SumFunctionOnSet, FoldFunctionOnSet, Sql!FoldFunctionOnSet,
           MapThenFoldSet, Sql!MapThenFoldSet, Between, Sql!Between, SqlSum, Sql!SqlSum, \otimes,
           Sql!\otimes
<1> QED BY SMT DEF Sql!Q19, SqlAnswer19, SqlRows19, Wanted, Chosen19

\* q19 of polars.
LEMMA Polars19 ==
  ASSUME NEW d
  PROVE  Polars!Q19(d) = Answer19(Rows19(d))
<1> USE DEF Sorted, Polars!Sorted, Top, Polars!Top, GroupBy, Polars!GroupBy, Project,
           Polars!Project, On, Polars!On, Joined, Polars!Joined, Total, Polars!Total, Mean,
           Polars!Mean, Alpha, Polars!Alpha, Before, Polars!Before, Cross, Polars!Cross, Revenue,
           Polars!Revenue, Quantity, Polars!Quantity, Price, Polars!Price, Charge, Polars!Charge,
           Discount, Polars!Discount, Match, Polars!Match, Merge, Polars!Merge, Cardinality,
           Polars!Cardinality, SumFunction, Polars!SumFunction, SumFunctionOnSet,
           Polars!SumFunctionOnSet, FoldFunctionOnSet, Polars!FoldFunctionOnSet, MapThenFoldSet,
           Polars!MapThenFoldSet, Between, Polars!Between, SqlSum, Polars!SqlSum, \otimes,
           Sql!\otimes, Polars!ClosedLeft
<1> QED BY SMT DEF Polars!Q19, Answer19, Rows19, Frame19, MergeOn, MergeOnTwo, Wanted, Chosen19

\* q19 of pandas.
LEMMA Pandas19 ==
  ASSUME NEW d
  PROVE  Pandas!Q19(d) = Answer19(Rows19(d))
<1> USE DEF Sorted, Pandas!Sorted, Top, Pandas!Top, GroupBy, Pandas!GroupBy, Project,
           Pandas!Project, On, Pandas!On, Joined, Pandas!Joined, Total, Pandas!Total, Mean,
           Pandas!Mean, Alpha, Pandas!Alpha, Before, Pandas!Before, Cross, Pandas!Cross, Revenue,
           Pandas!Revenue, Quantity, Pandas!Quantity, Price, Pandas!Price, Charge, Pandas!Charge,
           Discount, Pandas!Discount, Match, Pandas!Match, Merge, Pandas!Merge, Cardinality,
           Pandas!Cardinality, SumFunction, Pandas!SumFunction, SumFunctionOnSet,
           Pandas!SumFunctionOnSet, FoldFunctionOnSet, Pandas!FoldFunctionOnSet, MapThenFoldSet,
           Pandas!MapThenFoldSet, Between, Pandas!Between, SqlSum, Pandas!SqlSum, \otimes,
           Sql!\otimes
<1> QED BY SMT DEF Pandas!Q19, Answer19, Rows19, Frame19, MergeOn, MergeOnTwo, Wanted, Chosen19

\* The joined rows of q14 are finitely many.
LEMMA FiniteFrame14 ==
  ASSUME NEW d, Sound(d, Reads[14])
  PROVE  IsFiniteSet(Rows14(d)) /\ \A x \in Rows14(d) : Keeps(d, Reads[14], x)
<1>1. IsFiniteSet(d.lineitem) /\ IsFiniteSet(d.part)
  BY Reads14 DEF Sound
<1>2. IsFiniteSet(Frame14(d))
  BY <1>1, FiniteMergeOn DEF Frame14
<1>3. \A x \in Rows14(d) : x \in Frame14(d)
  BY DEF Rows14
<1>4. \A x \in Frame14(d) : Keeps(d, Reads[14], x)
  BY InFrame14 DEF Sound
<1> QED BY <1>2, <1>3, <1>4, FiniteKept

\* The three engines answer q14 alike.
LEMMA Answers14 ==
  ASSUME NEW d, Sound(d, Reads[14])
  PROVE  /\ Polars!Q14(d) = Filled(Sql!Q14(d), NaN)
         /\ Pandas!Q14(d) = Filled(Sql!Q14(d), Pandas!ZeroDivisionError)
<1> DEFINE R == Rows14(d)
           f == [x \in R |-> Promo(x)]
<1>1. "lineitem" \in DOMAIN Reads[14] /\ "l_extendedprice" \in Reads[14]["lineitem"]
      /\ "l_discount" \in Reads[14]["lineitem"]
  BY Reads14
<1>2. IsFiniteSet(R) /\ \A x \in R : Keeps(d, Reads[14], x)
  BY FiniteFrame14
<1>3. SqlRows14(d) = R
  BY Same14 DEF Sound
<1> HIDE DEF R
<1>4. Total(R, Revenue) \in Int /\ (R = {} => Total(R, Revenue) = 0)
  BY <1>1, <1>2, RevenueOfRows
<1>5. \A x \in R : Revenue(x) \in Int
  BY <1>1, <1>2, RevenueIsInt
<1>6. DOMAIN f = R /\ \A x \in R : f[x] \in Int
  BY <1>5 DEF Promo
<1>7. Total(R, Promo) = SumFunction(f)
  BY DEF Total
<1> HIDE DEF f
<1>8. Total(R, Promo) \in Int /\ (R = {} => Total(R, Promo) = 0)
  BY <1>2, <1>6, <1>7, IntSum, SumOverNone
<1>9. Filled(SqlAnswer14(R), NaN) = Answer14(R)
  <2>1. Filled(SqlAnswer14(R), NaN) = [promo_revenue |->
          IF R = {} THEN NaN ELSE <<100 * Total(R, Promo), Total(R, Revenue)>>]
    BY <1>4, <1>8, FilledPromo DEF SqlAnswer14
  <2>2. R = {} => <<100 * Total(R, Promo), Total(R, Revenue)>> = NaN
    BY <1>4, <1>8 DEF NaN
  <2> QED BY <2>1, <2>2 DEF Answer14
<1>10. Filled(SqlAnswer14(R), Pandas!ZeroDivisionError) = PandasAnswer14(R)
  BY <1>4, <1>8, FilledPromo DEF SqlAnswer14, PandasAnswer14
<1> QED BY <1>3, <1>9, <1>10, Sql14, Polars14, Pandas14 DEF R

\* The joined rows of q19 are finitely many.
LEMMA FiniteFrame19 ==
  ASSUME NEW d, Sound(d, Reads[19])
  PROVE  IsFiniteSet(Rows19(d)) /\ \A x \in Rows19(d) : Keeps(d, Reads[19], x)
<1>1. IsFiniteSet(d.lineitem) /\ IsFiniteSet(d.part)
  BY Reads19 DEF Sound
<1>2. IsFiniteSet(Frame19(d))
  BY <1>1, FiniteMergeOn DEF Frame19
<1>3. \A x \in Rows19(d) : x \in Frame19(d)
  BY DEF Rows19
<1>4. \A x \in Frame19(d) : Keeps(d, Reads[19], x)
  BY InFrame19 DEF Sound
<1> QED BY <1>2, <1>3, <1>4, FiniteKept

\* The three engines answer q19 alike.
LEMMA Answers19 ==
  ASSUME NEW d, Sound(d, Reads[19])
  PROVE  /\ Polars!Q19(d) = Filled(Sql!Q19(d), NaN)
         /\ Pandas!Q19(d) = Filled(Sql!Q19(d), Pandas!ZeroDivisionError)
<1> DEFINE R == Rows19(d)
<1>1. "lineitem" \in DOMAIN Reads[19] /\ "l_extendedprice" \in Reads[19]["lineitem"]
      /\ "l_discount" \in Reads[19]["lineitem"]
  BY Reads19
<1>2. IsFiniteSet(R) /\ \A x \in R : Keeps(d, Reads[19], x)
  BY FiniteFrame19
<1>3. SqlRows19(d) = R
  BY Same19 DEF Sound
<1> HIDE DEF R
<1>4. Total(R, Revenue) \in Int /\ (R = {} => Total(R, Revenue) = 0)
  BY <1>1, <1>2, RevenueOfRows
<1>9. \A quotient : Filled(SqlAnswer19(R), quotient) = Answer19(R)
  BY <1>4, FilledRevenue DEF SqlAnswer19, Answer19
<1> QED BY <1>3, <1>9, Sql19, Polars19, Pandas19 DEF R

-----------------------------------------------------------------------------
(* q6: the revenue of discounts not given.                                 *)

Rows6(d) == {r \in d.lineitem : /\ r.l_shipdate >= 19940101
                                     /\ r.l_shipdate < 19950101
                                     /\ 5 <= r.l_discount /\ r.l_discount <= 7
                                     /\ r.l_quantity < 24}

Discounted(r) == r.l_extendedprice * r.l_discount

\* The sum of the filtered rows; over none it is null in SQL and zero in the
\* frames.
LEMMA Engines6 ==
  ASSUME NEW d
  PROVE  /\ Sql!Q6(d) = [revenue |-> IF Rows6(d) = {} THEN Null ELSE Total(Rows6(d), Discounted)]
         /\ Polars!Q6(d) = [revenue |-> Total(Rows6(d), Discounted)]
         /\ Pandas!Q6(d) = [revenue |-> Total(Rows6(d), Discounted)]
<1> USE DEF Sorted, Sql!Sorted, Polars!Sorted, Pandas!Sorted, Top, Sql!Top, Polars!Top,
           Pandas!Top, GroupBy, Sql!GroupBy, Polars!GroupBy, Pandas!GroupBy, Project,
           Sql!Project, Polars!Project, Pandas!Project, On, Sql!On, Polars!On, Pandas!On, Joined,
           Sql!Joined, Polars!Joined, Pandas!Joined, Total, Sql!Total, Polars!Total,
           Pandas!Total, Mean, Sql!Mean, Polars!Mean, Pandas!Mean, Alpha, Sql!Alpha,
           Polars!Alpha, Pandas!Alpha, Before, Sql!Before, Polars!Before, Pandas!Before, Cross,
           Sql!Cross, Polars!Cross, Pandas!Cross, Revenue, Sql!Revenue, Polars!Revenue,
           Pandas!Revenue, Quantity, Sql!Quantity, Polars!Quantity, Pandas!Quantity, Price,
           Sql!Price, Polars!Price, Pandas!Price, Charge, Sql!Charge, Polars!Charge,
           Pandas!Charge, Discount, Sql!Discount, Polars!Discount, Pandas!Discount, Match,
           Sql!Match, Polars!Match, Pandas!Match, Merge, Sql!Merge, Polars!Merge, Pandas!Merge,
           Cardinality, Sql!Cardinality, Polars!Cardinality, Pandas!Cardinality, SumFunction,
           Sql!SumFunction, Polars!SumFunction, Pandas!SumFunction, SumFunctionOnSet,
           Sql!SumFunctionOnSet, Polars!SumFunctionOnSet, Pandas!SumFunctionOnSet,
           FoldFunctionOnSet, Sql!FoldFunctionOnSet, Polars!FoldFunctionOnSet,
           Pandas!FoldFunctionOnSet, MapThenFoldSet, Sql!MapThenFoldSet, Polars!MapThenFoldSet,
           Pandas!MapThenFoldSet, SqlSum, Sql!SqlSum, Polars!SqlSum, Pandas!SqlSum, Between,
           Sql!Between, Polars!Between, Pandas!Between, \otimes, Sql!\otimes, Polars!ClosedLeft
<1>0. 6 - 1 = 5 /\ 6 + 1 = 7
  OBVIOUS
<1>1. Sql!Q6(d) = [revenue |-> IF Rows6(d) = {} THEN Null ELSE Total(Rows6(d), Discounted)]
  BY <1>0, SMT DEF Sql!Q6, Rows6, Discounted
<1>2. Polars!Q6(d) = [revenue |-> Total(Rows6(d), Discounted)]
  BY SMT DEF Polars!Q6, Rows6, Discounted
<1>3. Pandas!Q6(d) = [revenue |-> Total(Rows6(d), Discounted)]
  BY SMT DEF Pandas!Q6, Rows6, Discounted
<1> QED BY <1>1, <1>2, <1>3

\* The three engines answer q6 alike.
LEMMA Answers6 ==
  ASSUME NEW d, Sound(d, Reads[6])
  PROVE  /\ Polars!Q6(d) = Filled(Sql!Q6(d), NaN)
         /\ Pandas!Q6(d) = Filled(Sql!Q6(d), Pandas!ZeroDivisionError)
<1> DEFINE R == Rows6(d)
           f == [x \in R |-> Discounted(x)]
<1>1. /\ "lineitem" \in DOMAIN Reads[6] /\ "l_extendedprice" \in Reads[6]["lineitem"]
      /\ "l_discount" \in Reads[6]["lineitem"]
      /\ "l_extendedprice" \in Quantities /\ "l_discount" \in Quantities
  BY DEF Reads, Quantities
<1>2. IsFiniteSet(d.lineitem) /\ \A r \in d.lineitem : r.l_extendedprice \in Int
        /\ r.l_discount \in Int
  BY <1>1 DEF Sound
<1>3. IsFiniteSet(R) /\ \A x \in R : Discounted(x) \in Int
  BY <1>2, FiniteKept DEF Rows6, Discounted
<1>4. DOMAIN f = R /\ Total(R, Discounted) = SumFunction(f) /\ \A x \in R : f[x] \in Int
  BY <1>3 DEF Total
<1> HIDE DEF f, R
<1>5. Total(R, Discounted) \in Int /\ (R = {} => Total(R, Discounted) = 0)
  BY <1>3, <1>4, IntSum, SumOverNone
<1>6. \A quotient : Filled([revenue |-> IF R = {} THEN Null ELSE Total(R, Discounted)], quotient)
        = [revenue |-> Total(R, Discounted)]
  BY <1>5, FilledRevenue
<1> QED BY <1>6, Engines6 DEF R

-----------------------------------------------------------------------------
(* q1: the prices and counts of what was shipped, by flag and status.      *)

\* The three engines answer q1 alike.
LEMMA Answers1 ==
  ASSUME NEW d
  PROVE  Polars!Q1(d) = Sql!Q1(d) /\ Pandas!Q1(d) = Sql!Q1(d)
<1> USE DEF Sorted, Sql!Sorted, Polars!Sorted, Pandas!Sorted, Top, Sql!Top, Polars!Top,
           Pandas!Top, GroupBy, Sql!GroupBy, Polars!GroupBy, Pandas!GroupBy, Project,
           Sql!Project, Polars!Project, Pandas!Project, On, Sql!On, Polars!On, Pandas!On, Joined,
           Sql!Joined, Polars!Joined, Pandas!Joined, Total, Sql!Total, Polars!Total,
           Pandas!Total, Mean, Sql!Mean, Polars!Mean, Pandas!Mean, Alpha, Sql!Alpha,
           Polars!Alpha, Pandas!Alpha, Before, Sql!Before, Polars!Before, Pandas!Before, Cross,
           Sql!Cross, Polars!Cross, Pandas!Cross, Revenue, Sql!Revenue, Polars!Revenue,
           Pandas!Revenue, Quantity, Sql!Quantity, Polars!Quantity, Pandas!Quantity, Price,
           Sql!Price, Polars!Price, Pandas!Price, Charge, Sql!Charge, Polars!Charge,
           Pandas!Charge, Discount, Sql!Discount, Polars!Discount, Pandas!Discount, Match,
           Sql!Match, Polars!Match, Pandas!Match, Merge, Sql!Merge, Polars!Merge, Pandas!Merge,
           Cardinality, Sql!Cardinality, Polars!Cardinality, Pandas!Cardinality, SumFunction,
           Sql!SumFunction, Polars!SumFunction, Pandas!SumFunction, SumFunctionOnSet,
           Sql!SumFunctionOnSet, Polars!SumFunctionOnSet, Pandas!SumFunctionOnSet,
           FoldFunctionOnSet, Sql!FoldFunctionOnSet, Polars!FoldFunctionOnSet,
           Pandas!FoldFunctionOnSet, MapThenFoldSet, Sql!MapThenFoldSet, Polars!MapThenFoldSet,
           Pandas!MapThenFoldSet, \otimes, Sql!\otimes, Polars!ClosedLeft
<1>1. Polars!Q1(d) = Sql!Q1(d)
  BY SMT DEF Polars!Q1, Sql!Q1
<1>2. Pandas!Q1(d) = Sql!Q1(d)
  BY SMT DEF Pandas!Q1, Sql!Q1
<1> QED BY <1>1, <1>2

-----------------------------------------------------------------------------
(* q11: the stock that matters.                                            *)

\* The columns that q11 reads.
LEMMA Reads11 ==
  /\ DOMAIN Reads[11] = {"nation", "supplier", "partsupp"}
  /\ "n_nationkey" \in Reads[11]["nation"] /\ "n_name" \in Reads[11]["nation"]
  /\ "s_suppkey" \in Reads[11]["supplier"] /\ "s_nationkey" \in Reads[11]["supplier"]
  /\ "ps_partkey" \in Reads[11]["partsupp"] /\ "ps_suppkey" \in Reads[11]["partsupp"]
       /\ "ps_supplycost" \in Reads[11]["partsupp"] /\ "ps_availqty" \in Reads[11]["partsupp"]
BY DEF Reads

\* The rows of the product that the SQL of q11 selects from.
LEMMA Product11 ==
  ASSUME NEW d, NEW N, N = Reads[11], Fits(d, N), NEW x
  PROVE  x \in d.partsupp \otimes d.supplier \otimes d.nation <=> Keeps(d, N, x)
<1>N. DOMAIN N = {"nation", "supplier", "partsupp"}
  BY Reads11
<1> DEFINE T1 == {"partsupp"}
           T2 == T1 \cup {"supplier"}
           T3 == T2 \cup {"nation"}
<1>1. Whole(d, N, T1, d.partsupp)
  BY <1>N, WholeTable
<1>2. Whole(d, N, T2, d.partsupp \otimes d.supplier)
  BY <1>N, <1>1, WholeProduct
<1>3. Whole(d, N, T3, d.partsupp \otimes d.supplier \otimes d.nation)
  BY <1>N, <1>2, WholeProduct
<1>4. Among(DOMAIN N, T3)
  BY <1>N DEF Among
<1> QED BY <1>3, <1>4, KeptInWhole

Frame11(d) ==
    LET suppliers == MergeOn(d.partsupp, d.supplier, "ps_suppkey", "s_suppkey")
    IN  MergeOn(suppliers, d.nation, "s_nationkey", "n_nationkey")

\* The rows of the joins of q11, in terms of the tables.
LEMMA InFrame11 ==
  ASSUME NEW d, NEW N, N = Reads[11], Fits(d, N), NEW x
  PROVE  /\ x \in Frame11(d) =>
             /\ Keeps(d, N, x)
             /\ x.ps_suppkey = x.s_suppkey
             /\ x.s_nationkey = x.n_nationkey
         /\ /\ Keeps(d, N, x)
            /\ x.ps_suppkey = x.s_suppkey
            /\ x.s_nationkey = x.n_nationkey
            => x \in Frame11(d)
<1>N. DOMAIN N = {"nation", "supplier", "partsupp"}
  BY Reads11
<1>C. /\ "ps_suppkey" \in N["partsupp"]
      /\ "s_suppkey" \in N["supplier"]
      /\ "s_nationkey" \in N["supplier"]
      /\ "n_nationkey" \in N["nation"]
  BY Reads11
<1> DEFINE V1 == {"partsupp"}
           V2 == V1 \cup {"supplier"}
           V3 == V2 \cup {"nation"}
           suppliers == MergeOn(d.partsupp, d.supplier, "ps_suppkey", "s_suppkey")
           all == MergeOn(suppliers, d.nation, "s_nationkey", "n_nationkey")
<1>10. Joins(d, N, V1, d.partsupp, {"supplier"}, d.supplier, "ps_suppkey", "s_suppkey")
  BY <1>N, <1>C, FrameTable DEF Joins, Apart, Names
<1>11. Joins(d, N, V2, suppliers, {"nation"}, d.nation, "s_nationkey", "n_nationkey")
  BY <1>N, <1>C, <1>10, FrameMerge, FrameTable DEF Joins, Apart, Names
<1>12. Frame(d, N, V3, all)
  BY <1>11, FrameMerge
<1>20. ASSUME Keeps(d, N, x)
      PROVE  Part(x, V3) \in all <=>
                /\ x.ps_suppkey = x.s_suppkey
                /\ x.s_nationkey = x.n_nationkey
  <2>1. /\ Part(x, {"partsupp"}) \in d.partsupp
        /\ Part(x, {"supplier"}) \in d.supplier
        /\ Part(x, {"nation"}) \in d.nation
    BY <1>20, <1>N, KeptInTable
  <2>2. Part(x, V2) \in suppliers <=> Part(x, V1) \in d.partsupp
          /\ Part(x, {"supplier"}) \in d.supplier /\ x.ps_suppkey = x.s_suppkey
    BY <1>20, <1>10, KeptByMerge
  <2>3. Part(x, V3) \in all <=> Part(x, V2) \in suppliers /\ Part(x, {"nation"}) \in d.nation
          /\ x.s_nationkey = x.n_nationkey
    BY <1>20, <1>11, KeptByMerge
  <2> HIDE DEF V2, V3, suppliers, all
  <2> QED BY <2>1, <2>2, <2>3
<1>21. (\A y \in all : Keeps(d, N, y)) /\ (Keeps(d, N, x) => Part(x, V3) = x)
  <2>1. Among(DOMAIN N, V3)
    BY <1>N DEF Among
  <2> HIDE DEF V2, V3, suppliers, all
  <2> QED BY <1>12, <2>1, KeptInAll
<1>22. Frame11(d) = all
  BY DEF Frame11
<1> HIDE DEF V1, V2, V3, suppliers, all
<1> QED BY <1>20, <1>21, <1>22

Cost(r) == r.ps_supplycost * r.ps_availqty

Parts11(R) == GroupBy(R, {"ps_partkey"}, LAMBDA g : [value |-> Total(g, Cost)])

PandasAnswer11(R) ==
    LET threshold == <<Total(R, Cost), Divisor * ScaleFactor>>
    IN  Sorted({p \in Parts11(R) : p.value * threshold[2] > threshold[1]},
               LAMBDA r : <<-r.value>>)

PolarsAnswer11(R) ==
    LET q2 == {[tmp |-> <<Total(R, Cost), Divisor * ScaleFactor>>]}
        rows == {r \in Cross(Parts11(R), q2) : r.value * r.tmp[2] > r.tmp[1]}
    IN  Sorted(Project(rows, {"ps_partkey", "value"}), LAMBDA r : <<-r.value>>)

Rows11(d) == {r \in Frame11(d) : r.n_name = "GERMANY"}

Answer11(R) ==
    Sorted({p \in Parts11(R) : p.value * Divisor * ScaleFactor > Total(R, Cost)},
               LAMBDA r : <<-r.value>>)

SqlRows11(d) == {r \in d.partsupp \otimes d.supplier \otimes d.nation :
    /\ r.ps_suppkey = r.s_suppkey
    /\ r.s_nationkey = r.n_nationkey
    /\ r.n_name = "GERMANY"}

\* The SQL of q11 selects the rows that the data frames filter.
LEMMA Same11 ==
  ASSUME NEW d, Fits(d, Reads[11])
  PROVE  SqlRows11(d) = Rows11(d)
<1> DEFINE N == Reads[11]
<1>1. ASSUME NEW r PROVE r \in SqlRows11(d) <=> r \in Rows11(d)
  <2>1. r \in d.partsupp \otimes d.supplier \otimes d.nation <=> Keeps(d, N, r)
    BY Product11
  <2>2. r \in Frame11(d) <=>
          /\ Keeps(d, N, r)
          /\ r.ps_suppkey = r.s_suppkey
          /\ r.s_nationkey = r.n_nationkey
    BY InFrame11
  <2> HIDE DEF N
  <2> QED BY <2>1, <2>2 DEF SqlRows11, Rows11
<1> QED BY <1>1

\* q11 of duckdb.
LEMMA Sql11 ==
  ASSUME NEW d
  PROVE  Sql!Q11(d) = Answer11(SqlRows11(d))
<1> USE DEF Sorted, Sql!Sorted, Top, Sql!Top, GroupBy, Sql!GroupBy, Project, Sql!Project, On,
           Sql!On, Joined, Sql!Joined, Total, Sql!Total, Mean, Sql!Mean, Alpha, Sql!Alpha,
           Before, Sql!Before, Cross, Sql!Cross, Revenue, Sql!Revenue, Quantity, Sql!Quantity,
           Price, Sql!Price, Charge, Sql!Charge, Discount, Sql!Discount, Match, Sql!Match, Merge,
           Sql!Merge, Cardinality, Sql!Cardinality, SumFunction, Sql!SumFunction,
           SumFunctionOnSet, Sql!SumFunctionOnSet, FoldFunctionOnSet, Sql!FoldFunctionOnSet,
           MapThenFoldSet, Sql!MapThenFoldSet, \otimes, Sql!\otimes
<1> QED BY SMT DEF Sql!Q11, Answer11, SqlRows11, Parts11, Cost

\* q11 of polars.
LEMMA Polars11 ==
  ASSUME NEW d
  PROVE  Polars!Q11(d) = PolarsAnswer11(Rows11(d))
<1> USE DEF Sorted, Polars!Sorted, Top, Polars!Top, GroupBy, Polars!GroupBy, Project,
           Polars!Project, On, Polars!On, Joined, Polars!Joined, Total, Polars!Total, Mean,
           Polars!Mean, Alpha, Polars!Alpha, Before, Polars!Before, Cross, Polars!Cross, Revenue,
           Polars!Revenue, Quantity, Polars!Quantity, Price, Polars!Price, Charge, Polars!Charge,
           Discount, Polars!Discount, Match, Polars!Match, Merge, Polars!Merge, Cardinality,
           Polars!Cardinality, SumFunction, Polars!SumFunction, SumFunctionOnSet,
           Polars!SumFunctionOnSet, FoldFunctionOnSet, Polars!FoldFunctionOnSet, MapThenFoldSet,
           Polars!MapThenFoldSet, \otimes, Sql!\otimes, Polars!ClosedLeft
<1> QED BY SMT DEF Polars!Q11, PolarsAnswer11, Rows11, Frame11, MergeOn, MergeOnTwo, Parts11, Cost

\* q11 of pandas.
LEMMA Pandas11 ==
  ASSUME NEW d
  PROVE  Pandas!Q11(d) = PandasAnswer11(Rows11(d))
<1> USE DEF Sorted, Pandas!Sorted, Top, Pandas!Top, GroupBy, Pandas!GroupBy, Project,
           Pandas!Project, On, Pandas!On, Joined, Pandas!Joined, Total, Pandas!Total, Mean,
           Pandas!Mean, Alpha, Pandas!Alpha, Before, Pandas!Before, Cross, Pandas!Cross, Revenue,
           Pandas!Revenue, Quantity, Pandas!Quantity, Price, Pandas!Price, Charge, Pandas!Charge,
           Discount, Pandas!Discount, Match, Pandas!Match, Merge, Pandas!Merge, Cardinality,
           Pandas!Cardinality, SumFunction, Pandas!SumFunction, SumFunctionOnSet,
           Pandas!SumFunctionOnSet, FoldFunctionOnSet, Pandas!FoldFunctionOnSet, MapThenFoldSet,
           Pandas!MapThenFoldSet, \otimes, Sql!\otimes
<1> QED BY SMT DEF Pandas!Q11, PandasAnswer11, Rows11, Frame11, MergeOn, MergeOnTwo, Parts11, Cost

\* The value of an offer is a number.
LEMMA CostIsInt ==
  ASSUME NEW d, NEW N, Sound(d, N), NEW x, Keeps(d, N, x), "partsupp" \in DOMAIN N,
         "ps_supplycost" \in N["partsupp"], "ps_availqty" \in N["partsupp"]
  PROVE  Cost(x) \in Int
<1>1. "ps_supplycost" \in Quantities /\ "ps_availqty" \in Quantities
  BY DEF Quantities
<1>2. x.ps_supplycost \in Int
  BY <1>1, NumberKept
<1>3. x.ps_availqty \in Int
  BY <1>1, NumberKept
<1> QED BY <1>2, <1>3 DEF Cost

\* And so is the total of offers.
LEMMA TotalCost ==
  ASSUME NEW R, IsFiniteSet(R), \A x \in R : Cost(x) \in Int, NEW S \in SUBSET R
  PROVE  Total(S, Cost) \in Int
<1> DEFINE f == [x \in S |-> Cost(x)]
<1>1. DOMAIN f = S /\ Total(S, Cost) = SumFunction(f) /\ \A x \in S : f[x] \in Int
  BY DEF Total
<1>2. IsFiniteSet(S)
  BY FS_Subset
<1> HIDE DEF f
<1> QED BY <1>1, <1>2, IntSum

\* The rows of the groups by part.
LEMMA PartsOf ==
  ASSUME NEW R, IsFiniteSet(R), \A x \in R : Cost(x) \in Int, NEW p \in Parts11(R)
  PROVE  IsFcn(p) /\ DOMAIN p = {"ps_partkey", "value"} /\ p.value \in Int
<1>1. PICK k \in Project(R, {"ps_partkey"}) :
        p = Joined(k, [value |-> Total({r \in R : On(r, {"ps_partkey"}) = k}, Cost)])
  BY Zenon DEF Parts11, GroupBy
<1> DEFINE g == {r \in R : On(r, {"ps_partkey"}) = k}
           a == [value |-> Total(g, Cost)]
<1>2. g \in SUBSET R
  OBVIOUS
<1>3. DOMAIN k = {"ps_partkey"}
  BY DEF Project, On
<1> HIDE DEF g
<1>4. Total(g, Cost) \in Int
  BY <1>2, TotalCost
<1>5. DOMAIN a = {"value"} /\ a.value \in Int
  BY <1>4
<1>6. p = Joined(k, a)
  BY <1>1 DEF g
<1> HIDE DEF a
<1> QED BY <1>3, <1>5, <1>6 DEF Joined, IsFcn

\* The fraction may be divided out on either side.
LEMMA Threshold ==
  ASSUME NEW v \in Int, NEW t \in Int
  PROVE  v * Divisor * ScaleFactor > t <=> v * (Divisor * ScaleFactor) > t
BY UniverseAssumption

\* The three engines answer q11 alike.
LEMMA Answers11 ==
  ASSUME NEW d, Sound(d, Reads[11])
  PROVE  /\ Polars!Q11(d) = Sql!Q11(d)
         /\ Pandas!Q11(d) = Sql!Q11(d)
<1> DEFINE R == Rows11(d)
           P == Parts11(R)
           total == Total(R, Cost)
           want == {p \in P : p.value * Divisor * ScaleFactor > total}
<1>1. /\ "partsupp" \in DOMAIN Reads[11] /\ "ps_supplycost" \in Reads[11]["partsupp"]
      /\ "ps_availqty" \in Reads[11]["partsupp"]
  BY Reads11
<1>2. IsFiniteSet(Frame11(d))
  <2>1. IsFiniteSet(d.partsupp) /\ IsFiniteSet(d.supplier) /\ IsFiniteSet(d.nation)
    BY Reads11 DEF Sound
  <2> QED BY <2>1, FiniteMergeOn DEF Frame11
<1>3. IsFiniteSet(R) /\ \A x \in R : Cost(x) \in Int
  <2>1. \A x \in R : x \in Frame11(d)
    BY DEF Rows11
  <2>2. \A x \in Frame11(d) : Keeps(d, Reads[11], x)
    BY InFrame11 DEF Sound
  <2>3. \A x \in R : Keeps(d, Reads[11], x)
    BY <2>1, <2>2
  <2> HIDE DEF R
  <2> QED BY <1>1, <1>2, <2>1, <2>3, FiniteKept, CostIsInt
<1>4. SqlRows11(d) = R
  BY Same11 DEF Sound
<1> HIDE DEF R
<1>5. total \in Int
  BY <1>3, TotalCost
<1>6. ASSUME NEW p \in P PROVE IsFcn(p) /\ DOMAIN p = {"ps_partkey", "value"} /\ p.value \in Int
  BY <1>3, PartsOf
<1> HIDE DEF total, P
<1>7. {p \in P : p.value * <<total, Divisor * ScaleFactor>>[2] > <<total,
        Divisor * ScaleFactor>>[1]} = want
  BY <1>5, <1>6, Threshold
<1>8. PandasAnswer11(R) = Answer11(R)
  BY <1>7, Zenon DEF PandasAnswer11, Answer11, P, total
<1> DEFINE q2 == {[tmp |-> <<total, Divisor * ScaleFactor>>]}
           rows == {r \in Cross(P, q2) : r.value * r.tmp[2] > r.tmp[1]}
<1>9. ASSUME NEW x PROVE x \in Project(rows, {"ps_partkey", "value"}) <=> x \in want
  <2> DEFINE t == [tmp |-> <<total, Divisor * ScaleFactor>>]
  <2>1. ASSUME NEW p \in P
        PROVE  /\ Joined(p, t).value = p.value /\ Joined(p, t).tmp = <<total, Divisor * ScaleFactor>>
               /\ On(Joined(p, t), {"ps_partkey", "value"}) = p
    BY <1>6 DEF Joined, On, IsFcn
  <2>2. ASSUME NEW y PROVE y \in Cross(P, q2) <=> \E p \in P : y = Joined(p, t)
    BY InCross DEF \otimes
  <2>3. ASSUME NEW p \in P
        PROVE  Joined(p, t).value * Joined(p, t).tmp[2] > Joined(p, t).tmp[1]
               <=> p.value * Divisor * ScaleFactor > total
    BY <1>5, <1>6, <2>1, Threshold
  <2> HIDE DEF t, q2
  <2>4. x \in Project(rows, {"ps_partkey", "value"}) <=>
          \E p \in P : /\ Joined(p, t).value * Joined(p, t).tmp[2] > Joined(p, t).tmp[1]
                        /\ x = On(Joined(p, t), {"ps_partkey", "value"})
    BY <2>2 DEF Project
  <2> QED BY <2>1, <2>3, <2>4
<1>10. Project(rows, {"ps_partkey", "value"}) = want
  BY <1>9
<1>11. PolarsAnswer11(R) = Answer11(R)
  BY <1>10, Zenon DEF PolarsAnswer11, Answer11, P, total
<1> QED BY <1>4, <1>8, <1>11, Sql11, Polars11, Pandas11 DEF R

-----------------------------------------------------------------------------
(* q12: late lineitems by shipping mode.                                   *)

\* The columns that q12 reads.
LEMMA Reads12 ==
  /\ DOMAIN Reads[12] = {"orders", "lineitem"}
  /\ "o_orderkey" \in Reads[12]["orders"] /\ "o_orderpriority" \in Reads[12]["orders"]
  /\ "l_orderkey" \in Reads[12]["lineitem"] /\ "l_shipmode" \in Reads[12]["lineitem"]
       /\ "l_shipdate" \in Reads[12]["lineitem"] /\ "l_commitdate" \in Reads[12]["lineitem"]
       /\ "l_receiptdate" \in Reads[12]["lineitem"]
BY DEF Reads

\* The rows of the product that the SQL of q12 selects from.
LEMMA Product12 ==
  ASSUME NEW d, NEW N, N = Reads[12], Fits(d, N), NEW x
  PROVE  x \in d.orders \otimes d.lineitem <=> Keeps(d, N, x)
<1>N. DOMAIN N = {"orders", "lineitem"}
  BY Reads12
<1> DEFINE T1 == {"orders"}
           T2 == T1 \cup {"lineitem"}
<1>1. Whole(d, N, T1, d.orders)
  BY <1>N, WholeTable
<1>2. Whole(d, N, T2, d.orders \otimes d.lineitem)
  BY <1>N, <1>1, WholeProduct
<1>3. Among(DOMAIN N, T2)
  BY <1>N DEF Among
<1> QED BY <1>2, <1>3, KeptInWhole

Frame12(d) ==
    MergeOn(d.orders, d.lineitem, "o_orderkey", "l_orderkey")

\* The rows of the joins of q12, in terms of the tables.
LEMMA InFrame12 ==
  ASSUME NEW d, NEW N, N = Reads[12], Fits(d, N), NEW x
  PROVE  /\ x \in Frame12(d) =>
             /\ Keeps(d, N, x)
             /\ x.o_orderkey = x.l_orderkey
         /\ /\ Keeps(d, N, x)
            /\ x.o_orderkey = x.l_orderkey
            => x \in Frame12(d)
<1>N. DOMAIN N = {"orders", "lineitem"}
  BY Reads12
<1>C. /\ "o_orderkey" \in N["orders"]
      /\ "l_orderkey" \in N["lineitem"]
  BY Reads12
<1> DEFINE V1 == {"orders"}
           V2 == V1 \cup {"lineitem"}
           lines == MergeOn(d.orders, d.lineitem, "o_orderkey", "l_orderkey")
<1>10. Joins(d, N, V1, d.orders, {"lineitem"}, d.lineitem, "o_orderkey", "l_orderkey")
  BY <1>N, <1>C, FrameTable DEF Joins, Apart, Names
<1>11. Frame(d, N, V2, lines)
  BY <1>10, FrameMerge
<1>20. ASSUME Keeps(d, N, x)
      PROVE  Part(x, V2) \in lines <=>
                /\ x.o_orderkey = x.l_orderkey
  <2>1. /\ Part(x, {"orders"}) \in d.orders
        /\ Part(x, {"lineitem"}) \in d.lineitem
    BY <1>20, <1>N, KeptInTable
  <2>2. Part(x, V2) \in lines <=> Part(x, V1) \in d.orders /\ Part(x, {"lineitem"}) \in d.lineitem
          /\ x.o_orderkey = x.l_orderkey
    BY <1>20, <1>10, KeptByMerge
  <2> HIDE DEF V2, lines
  <2> QED BY <2>1, <2>2
<1>21. (\A y \in lines : Keeps(d, N, y)) /\ (Keeps(d, N, x) => Part(x, V2) = x)
  <2>1. Among(DOMAIN N, V2)
    BY <1>N DEF Among
  <2> HIDE DEF V2, lines
  <2> QED BY <1>11, <2>1, KeptInAll
<1>22. Frame12(d) = lines
  BY DEF Frame12
<1> HIDE DEF V1, V2, lines
<1> QED BY <1>20, <1>21, <1>22

Urgent(r) == r.o_orderpriority \in {"1-URGENT", "2-HIGH"}

High(r) == IF r.o_orderpriority = "1-URGENT" \/ r.o_orderpriority = "2-HIGH" THEN 1 ELSE 0

Low(r) == IF r.o_orderpriority # "1-URGENT" /\ r.o_orderpriority # "2-HIGH" THEN 1 ELSE 0

PandasAnswer12(R) ==
    Sorted(GroupBy(R, {"l_shipmode"},
                       LAMBDA g : [high_line_count |-> Cardinality({r \in g : Urgent(r)}),
                                   low_line_count |-> Cardinality({r \in g : ~Urgent(r)})]),
               LAMBDA r : <<Alpha(r.l_shipmode)>>)

Counted(R) == WithColumns(R, LAMBDA r : [line_count |-> Urgent(r)])

PolarsAnswer12(R) ==
    Sorted(GroupBy(Counted(R), {"l_shipmode"},
                       LAMBDA g : [high_line_count |-> Cardinality({r \in g : r.line_count}),
                                   low_line_count |-> Cardinality({r \in g : ~r.line_count})]),
               LAMBDA r : <<Alpha(r.l_shipmode)>>)

Rows12(d) == {r \in Frame12(d) : /\ r.l_shipmode \in {"MAIL", "SHIP"}
                /\ r.l_commitdate < r.l_receiptdate
                /\ r.l_shipdate < r.l_commitdate
                /\ r.l_receiptdate >= 19940101 /\ r.l_receiptdate < 19950101}

Answer12(R) ==
    Sorted(GroupBy(R, {"l_shipmode"}, LAMBDA g : [high_line_count |-> Total(g, High),
                                            low_line_count |-> Total(g, Low)]),
               LAMBDA r : <<Alpha(r.l_shipmode)>>)

SqlRows12(d) == {r \in d.orders \otimes d.lineitem :
    /\ r.o_orderkey = r.l_orderkey
    /\ r.l_shipmode \in {"MAIL", "SHIP"}
    /\ r.l_commitdate < r.l_receiptdate
    /\ r.l_shipdate < r.l_commitdate
    /\ r.l_receiptdate >= 19940101
    /\ r.l_receiptdate < 19950101}

\* The SQL of q12 selects the rows that the data frames filter.
LEMMA Same12 ==
  ASSUME NEW d, Fits(d, Reads[12])
  PROVE  SqlRows12(d) = Rows12(d)
<1> DEFINE N == Reads[12]
<1>1. ASSUME NEW r PROVE r \in SqlRows12(d) <=> r \in Rows12(d)
  <2>1. r \in d.orders \otimes d.lineitem <=> Keeps(d, N, r)
    BY Product12
  <2>2. r \in Frame12(d) <=>
          /\ Keeps(d, N, r)
          /\ r.o_orderkey = r.l_orderkey
    BY InFrame12
  <2> HIDE DEF N
  <2> QED BY <2>1, <2>2 DEF SqlRows12, Rows12
<1> QED BY <1>1

\* q12 of duckdb.
LEMMA Sql12 ==
  ASSUME NEW d
  PROVE  Sql!Q12(d) = Answer12(SqlRows12(d))
<1> USE DEF Sorted, Sql!Sorted, Top, Sql!Top, GroupBy, Sql!GroupBy, Project, Sql!Project, On,
           Sql!On, Joined, Sql!Joined, Total, Sql!Total, Mean, Sql!Mean, Alpha, Sql!Alpha,
           Before, Sql!Before, Cross, Sql!Cross, Revenue, Sql!Revenue, Quantity, Sql!Quantity,
           Price, Sql!Price, Charge, Sql!Charge, Discount, Sql!Discount, Match, Sql!Match, Merge,
           Sql!Merge, Cardinality, Sql!Cardinality, SumFunction, Sql!SumFunction,
           SumFunctionOnSet, Sql!SumFunctionOnSet, FoldFunctionOnSet, Sql!FoldFunctionOnSet,
           MapThenFoldSet, Sql!MapThenFoldSet, WithColumns, Sql!WithColumns, \otimes, Sql!\otimes
<1> QED BY SMT DEF Sql!Q12, Answer12, SqlRows12, Urgent, High, Low, Counted

\* q12 of polars.
LEMMA Polars12 ==
  ASSUME NEW d
  PROVE  Polars!Q12(d) = PolarsAnswer12(Rows12(d))
<1> USE DEF Sorted, Polars!Sorted, Top, Polars!Top, GroupBy, Polars!GroupBy, Project,
           Polars!Project, On, Polars!On, Joined, Polars!Joined, Total, Polars!Total, Mean,
           Polars!Mean, Alpha, Polars!Alpha, Before, Polars!Before, Cross, Polars!Cross, Revenue,
           Polars!Revenue, Quantity, Polars!Quantity, Price, Polars!Price, Charge, Polars!Charge,
           Discount, Polars!Discount, Match, Polars!Match, Merge, Polars!Merge, Cardinality,
           Polars!Cardinality, SumFunction, Polars!SumFunction, SumFunctionOnSet,
           Polars!SumFunctionOnSet, FoldFunctionOnSet, Polars!FoldFunctionOnSet, MapThenFoldSet,
           Polars!MapThenFoldSet, WithColumns, Polars!WithColumns, \otimes, Sql!\otimes,
           Polars!ClosedLeft
<1> QED BY SMT DEF Polars!Q12, PolarsAnswer12, Rows12, Frame12, MergeOn, MergeOnTwo, Urgent, High,
           Low, Counted

\* q12 of pandas.
LEMMA Pandas12 ==
  ASSUME NEW d
  PROVE  Pandas!Q12(d) = PandasAnswer12(Rows12(d))
<1> USE DEF Sorted, Pandas!Sorted, Top, Pandas!Top, GroupBy, Pandas!GroupBy, Project,
           Pandas!Project, On, Pandas!On, Joined, Pandas!Joined, Total, Pandas!Total, Mean,
           Pandas!Mean, Alpha, Pandas!Alpha, Before, Pandas!Before, Cross, Pandas!Cross, Revenue,
           Pandas!Revenue, Quantity, Pandas!Quantity, Price, Pandas!Price, Charge, Pandas!Charge,
           Discount, Pandas!Discount, Match, Pandas!Match, Merge, Pandas!Merge, Cardinality,
           Pandas!Cardinality, SumFunction, Pandas!SumFunction, SumFunctionOnSet,
           Pandas!SumFunctionOnSet, FoldFunctionOnSet, Pandas!FoldFunctionOnSet, MapThenFoldSet,
           Pandas!MapThenFoldSet, WithColumns, Pandas!WithColumns, \otimes, Sql!\otimes
<1> QED BY SMT DEF Pandas!Q12, PandasAnswer12, Rows12, Frame12, MergeOn, MergeOnTwo, Urgent, High,
           Low, Counted

(* A sum of ones and zeros counts the ones.                                *)
LEMMA SumOfFlags ==
  ASSUME NEW g, IsFiniteSet(g), NEW P \in SUBSET g, NEW f, DOMAIN f = g,
         \A x \in P : f[x] = 1, \A x \in g \ P : f[x] = 0
  PROVE  SumFunction(f) = Cardinality(P)
<1>1. \A x \in g : f[x] \in Int
  OBVIOUS
<1>2. SumFunctionOnSet(f, g) = SumFunctionOnSet(f, P)
  BY <1>1, SumWithoutZeros
<1>3. IsFiniteSet(P)
  BY FS_Subset
<1>4. SumFunctionOnSet(f, P) = Cardinality(P)
  BY <1>3, SumOfOnes
<1> QED BY <1>2, <1>4 DEF SumFunction

\* The sums of the flags count the urgent orders and the others.
LEMMA CountUrgent ==
  ASSUME NEW g, IsFiniteSet(g)
  PROVE  /\ Total(g, High) = Cardinality({r \in g : Urgent(r)})
         /\ Total(g, Low) = Cardinality({r \in g : ~Urgent(r)})
<1> DEFINE P == {r \in g : Urgent(r)}
           Q == {r \in g : ~Urgent(r)}
           f == [r \in g |-> High(r)]
           h == [r \in g |-> Low(r)]
<1>1. /\ P \in SUBSET g /\ DOMAIN f = g
      /\ \A x \in P : f[x] = 1
      /\ \A x \in g \ P : f[x] = 0
  BY DEF High, Urgent
<1>2. /\ Q \in SUBSET g /\ DOMAIN h = g
      /\ \A x \in Q : h[x] = 1
      /\ \A x \in g \ Q : h[x] = 0
  BY DEF Low, Urgent
<1>3. Total(g, High) = SumFunction(f) /\ Total(g, Low) = SumFunction(h)
  BY DEF Total
<1> HIDE DEF f, h, P, Q
<1>4. SumFunction(f) = Cardinality(P)
  BY <1>1, SumOfFlags
<1>5. SumFunction(h) = Cardinality(Q)
  BY <1>2, SumOfFlags
<1> QED BY <1>3, <1>4, <1>5 DEF P, Q

Groups12(R) ==
    GroupedOn(R, {"l_shipmode"}, [g \in SUBSET R |-> [high_line_count |-> Cardinality({r \in g :
      Urgent(r)}),
                                   low_line_count |-> Cardinality({r \in g : ~Urgent(r)})]])

\* The counts as the engine writes them are those of Groups12.
LEMMA SqlGroups12 ==
  ASSUME NEW R, IsFiniteSet(R)
  PROVE  Answer12(R) = Sorted(Groups12(R), LAMBDA r : <<Alpha(r.l_shipmode)>>)
<1> DEFINE C == {"l_shipmode"}
           agg == [g \in SUBSET R |-> [high_line_count |-> Cardinality({r \in g : Urgent(r)}),
                                   low_line_count |-> Cardinality({r \in g : ~Urgent(r)})]]
<1>1. ASSUME NEW j
      PROVE  agg[{r \in R : On(r, C) = j}] =
                [high_line_count |-> Total({r \in R : On(r, C) = j}, High),
                                            low_line_count |-> Total({r \in R : On(r, C) = j}, Low)]
  <2> DEFINE g == {r \in R : On(r, C) = j}
  <2>1. g \in SUBSET R
    OBVIOUS
  <2> HIDE DEF g
  <2>2. IsFiniteSet(g)
    BY <2>1, FS_Subset
  <2>3. agg[g] = [high_line_count |-> Total(g, High), low_line_count |-> Total(g, Low)]
    BY <2>1, <2>2, CountUrgent
  <2> QED BY <2>3 DEF g
<1> HIDE DEF agg, C
<1>2. ASSUME NEW x
      PROVE  x \in GroupBy(R, C, LAMBDA g : [high_line_count |-> Total(g, High),
                                            low_line_count |-> Total(g, Low)])
             <=> x \in GroupedOn(R, C, agg)
  BY <1>1, Zenon DEF GroupBy, GroupedOn
<1>3. GroupBy(R, C, LAMBDA g : [high_line_count |-> Total(g, High),
                                            low_line_count |-> Total(g, Low)])
                                              = GroupedOn(R, C, agg)
  BY <1>2, Zenon
<1> QED BY <1>3, Zenon DEF Answer12, Groups12, C, agg

\* The counts as the engine writes them are those of Groups12.
LEMMA PandasGroups12 ==
  ASSUME NEW R
  PROVE  PandasAnswer12(R) = Sorted(Groups12(R), LAMBDA r : <<Alpha(r.l_shipmode)>>)
<1> DEFINE C == {"l_shipmode"}
           agg == [g \in SUBSET R |-> [high_line_count |-> Cardinality({r \in g : Urgent(r)}),
                                   low_line_count |-> Cardinality({r \in g : ~Urgent(r)})]]
<1>1. ASSUME NEW j
      PROVE  agg[{r \in R : On(r, C) = j}] =
                [high_line_count |-> Cardinality({r \in {s \in R : On(s, C) = j} : Urgent(r)}),
                 low_line_count |-> Cardinality({r \in {s \in R : On(s, C) = j} : ~Urgent(r)})]
  <2>1. {r \in R : On(r, C) = j} \in SUBSET R
    OBVIOUS
  <2> QED BY <2>1, Zenon
<1> HIDE DEF agg, C
<1>2. ASSUME NEW x
      PROVE  x \in GroupBy(R, C, LAMBDA g : [high_line_count |-> Cardinality({r \in g : Urgent(r)}),
                                   low_line_count |-> Cardinality({r \in g : ~Urgent(r)})])
             <=> x \in GroupedOn(R, C, agg)
  BY <1>1, Zenon DEF GroupBy, GroupedOn
<1>3. GroupBy(R, C, LAMBDA g : [high_line_count |-> Cardinality({r \in g : Urgent(r)}),
                                   low_line_count |-> Cardinality({r \in g : ~Urgent(r)})])
                                     = GroupedOn(R, C, agg)
  BY <1>2, Zenon
<1> QED BY <1>3, Zenon DEF PandasAnswer12, Groups12, C, agg

\* The counts as the engine writes them are those of Groups12.
LEMMA PolarsGroups12 ==
  ASSUME NEW R, IsFiniteSet(R), \A r \in R : IsFcn(r) /\ "line_count" \notin DOMAIN r
           /\ "l_shipmode" \in DOMAIN r
  PROVE  PolarsAnswer12(R) = Sorted(Groups12(R), LAMBDA r : <<Alpha(r.l_shipmode)>>)
<1> DEFINE C == {"l_shipmode"}
           S == Counted(R)
           b == [r \in R |-> Joined([line_count |-> Urgent(r)], r)]
           agg == [g \in SUBSET R |-> [high_line_count |-> Cardinality({r \in g : Urgent(r)}),
                                   low_line_count |-> Cardinality({r \in g : ~Urgent(r)})]]
           aggS == [g \in SUBSET S |-> [high_line_count |-> Cardinality({r \in g : r.line_count}),
                                   low_line_count |-> Cardinality({r \in g : ~r.line_count})]]
<1>1. S = {b[r] : r \in R}
  BY DEF Counted, WithColumns
<1>2. ASSUME NEW r \in R
      PROVE  /\ b[r].line_count = Urgent(r)
             /\ On(b[r], C) = On(r, C)
  BY DEF Joined, On
<1>3. ASSUME NEW r \in R, NEW s \in R, b[r] = b[s] PROVE r = s
  <2>1. Joined([line_count |-> Urgent(r)], r) = Joined([line_count |-> Urgent(s)], s)
    BY <1>3
  <2>2. DOMAIN [line_count |-> Urgent(r)] = {"line_count"} /\ DOMAIN [line_count |-> Urgent(s)]
          = {"line_count"}
    OBVIOUS
  <2> DEFINE m == [line_count |-> Urgent(r)]
             n == [line_count |-> Urgent(s)]
  <2>3. DOMAIN m = DOMAIN n /\ DOMAIN m \cap DOMAIN r = {} /\ DOMAIN m \cap DOMAIN s = {}
    BY <2>2
  <2>4. Joined(m, r) = Joined(n, s)
    BY <2>1
  <2> HIDE DEF m, n, b
  <2> QED BY <2>3, <2>4, JoinedIsOneToOne
<1> HIDE DEF b, S
<1>4. OneToOne(b, R, S)
  BY <1>1, <1>3 DEF OneToOne
<1>5. ASSUME NEW g \in SUBSET R PROVE aggS[ImageOf(b, g)] = agg[g]
  <2>1. IsFiniteSet(g)
    BY FS_Subset
  <2> DEFINE P == {r \in g : Urgent(r)}
             Q == {r \in g : ~Urgent(r)}
             T == ImageOf(b, g)
  <2>2. IsFiniteSet(P) /\ IsFiniteSet(Q)
    <3>1. P \subseteq g /\ Q \subseteq g
      OBVIOUS
    <3> HIDE DEF P, Q
    <3> QED BY <2>1, <3>1, FS_Subset
  <2>3. {y \in T : y.line_count} = ImageOf(b, P)
    BY <1>2 DEF ImageOf
  <2>4. {y \in T : ~y.line_count} = ImageOf(b, Q)
    BY <1>2 DEF ImageOf
  <2>5. Cardinality(ImageOf(b, P)) = Cardinality(P) /\ Cardinality(ImageOf(b, Q)) = Cardinality(Q)
    <3>1. (\A x, y \in P : b[x] = b[y] => x = y) /\ (\A x, y \in Q : b[x] = b[y] => x = y)
      BY <1>3
    <3> HIDE DEF P, Q
    <3> QED BY <2>2, <3>1, SizeOfImage
  <2>6. T \in SUBSET S
    BY <1>1 DEF ImageOf
  <2>7. aggS[T] = [high_line_count |-> Cardinality({r \in T : r.line_count}),
                   low_line_count |-> Cardinality({r \in T : ~r.line_count})]
    <3> HIDE DEF T
    <3> QED BY <2>6, Zenon
  <2>8. agg[g] = [high_line_count |-> Cardinality(P), low_line_count |-> Cardinality(Q)]
    OBVIOUS
  <2> HIDE DEF T, P, Q, agg, aggS
  <2>9. aggS[T] = [high_line_count |-> Cardinality(P), low_line_count |-> Cardinality(Q)]
    BY <2>3, <2>4, <2>5, <2>7, Zenon
  <2>10. aggS[T] = agg[g]
    BY <2>8, <2>9, Zenon
  <2> QED BY <2>10 DEF T
<1>6. SameAggregates(R, b, agg, aggS)
  BY <1>5 DEF SameAggregates
<1>7. \A r \in R : KeyOn(S, C)[b[r]] = KeyOn(R, C)[r]
  BY <1>1, <1>2 DEF KeyOn
<1> DEFINE key == KeyOn(R, C)
           keyS == KeyOn(S, C)
<1>8. Grouped(S, keyS, aggS) = Grouped(R, key, agg)
  <2> HIDE DEF key, keyS, agg, aggS
  <2>1. \A r \in R : keyS[b[r]] = key[r]
    BY <1>7 DEF key, keyS
  <2> QED BY <1>4, <1>6, <2>1, GroupsOfImage
<1>9. GroupedOn(S, C, aggS) = GroupedOn(R, C, agg)
  BY <1>8, GroupedOnIs
<1>10. ASSUME NEW j
      PROVE  aggS[{r \in S : On(r, C) = j}] =
                [high_line_count |-> Cardinality({r \in {s \in S : On(s, C) = j} : r.line_count}),
                 low_line_count |-> Cardinality({r \in {s \in S : On(s, C) = j} : ~r.line_count})]
  <2>1. {r \in S : On(r, C) = j} \in SUBSET S
    OBVIOUS
  <2> QED BY <2>1, Zenon
<1> HIDE DEF aggS, C
<1>11. ASSUME NEW x
      PROVE  x \in GroupBy(S, C, LAMBDA g : [high_line_count |-> Cardinality({r \in g :
               r.line_count}),
                                   low_line_count |-> Cardinality({r \in g : ~r.line_count})])
             <=> x \in GroupedOn(S, C, aggS)
  BY <1>10, Zenon DEF GroupBy, GroupedOn
<1>12. GroupBy(S, C, LAMBDA g : [high_line_count |-> Cardinality({r \in g : r.line_count}),
                                   low_line_count |-> Cardinality({r \in g : ~r.line_count})])
                                     = GroupedOn(S, C, aggS)
  BY <1>11, Zenon
<1> QED BY <1>9, <1>12, Zenon DEF PolarsAnswer12, Groups12, C, S

\* The three engines answer q12 alike.
LEMMA Answers12 ==
  ASSUME NEW d, Sound(d, Reads[12])
  PROVE  /\ Polars!Q12(d) = Sql!Q12(d)
         /\ Pandas!Q12(d) = Sql!Q12(d)
<1> DEFINE R == Rows12(d)
<1>1. IsFiniteSet(Frame12(d))
  <2>1. IsFiniteSet(d.orders) /\ IsFiniteSet(d.lineitem)
    BY Reads12 DEF Sound
  <2> QED BY <2>1, FiniteMergeOn DEF Frame12
<1>2. \A x \in R : x \in Frame12(d)
  BY DEF Rows12
<1>3. \A x \in R : Keeps(d, Reads[12], x)
  BY <1>2, InFrame12 DEF Sound
<1>4. ASSUME NEW r \in R PROVE IsFcn(r) /\ "line_count" \notin DOMAIN r /\ "l_shipmode" \in DOMAIN r
  <2>1. IsRow(d, DOMAIN Reads[12], r) /\ "lineitem" \in DOMAIN Reads[12]
          /\ "l_shipmode" \in Reads[12]["lineitem"]
    BY <1>3, Reads12 DEF Keeps
  <2>2. "l_shipmode" \in DOMAIN r
    BY <1>3, <2>1, ColumnOfTable
  <2>3. "line_count" \notin Cols(DOMAIN Reads[12])
    BY Reads12 DEF Cols, Columns
  <2> QED BY <2>1, <2>2, <2>3 DEF IsRow
<1>5. SqlRows12(d) = R
  BY Same12 DEF Sound
<1> HIDE DEF R
<1>6. IsFiniteSet(R)
  BY <1>1, <1>2, FiniteKept
<1>7. PolarsAnswer12(R) = Answer12(R) /\ PandasAnswer12(R) = Answer12(R)
  BY <1>4, <1>6, SqlGroups12, PandasGroups12, PolarsGroups12, Zenon
<1> QED BY <1>5, <1>7, Sql12, Polars12, Pandas12 DEF R

-----------------------------------------------------------------------------
(* q9: the profit by nation and year.                                      *)

\* The columns that q9 reads.
LEMMA Reads9 ==
  /\ DOMAIN Reads[9] = {"nation", "part", "partsupp", "orders", "supplier", "lineitem"}
  /\ "n_nationkey" \in Reads[9]["nation"] /\ "n_name" \in Reads[9]["nation"]
  /\ "p_partkey" \in Reads[9]["part"] /\ "p_name" \in Reads[9]["part"]
  /\ "ps_partkey" \in Reads[9]["partsupp"] /\ "ps_suppkey" \in Reads[9]["partsupp"]
       /\ "ps_supplycost" \in Reads[9]["partsupp"]
  /\ "o_orderkey" \in Reads[9]["orders"] /\ "o_orderdate" \in Reads[9]["orders"]
  /\ "s_suppkey" \in Reads[9]["supplier"] /\ "s_nationkey" \in Reads[9]["supplier"]
  /\ "l_orderkey" \in Reads[9]["lineitem"] /\ "l_partkey" \in Reads[9]["lineitem"]
       /\ "l_suppkey" \in Reads[9]["lineitem"] /\ "l_quantity" \in Reads[9]["lineitem"]
       /\ "l_extendedprice" \in Reads[9]["lineitem"] /\ "l_discount" \in Reads[9]["lineitem"]
BY DEF Reads

\* The rows of the product that the SQL of q9 selects from.
LEMMA Product9 ==
  ASSUME NEW d, NEW N, N = Reads[9], Fits(d, N), NEW x
  PROVE  x \in d.part \otimes d.supplier \otimes d.lineitem \otimes d.partsupp \otimes d.orders
           \otimes d.nation <=> Keeps(d, N, x)
<1>N. DOMAIN N = {"nation", "part", "partsupp", "orders", "supplier", "lineitem"}
  BY Reads9
<1> DEFINE T1 == {"part"}
           T2 == T1 \cup {"supplier"}
           T3 == T2 \cup {"lineitem"}
           T4 == T3 \cup {"partsupp"}
           T5 == T4 \cup {"orders"}
           T6 == T5 \cup {"nation"}
<1>1. Whole(d, N, T1, d.part)
  BY <1>N, WholeTable
<1>2. Whole(d, N, T2, d.part \otimes d.supplier)
  BY <1>N, <1>1, WholeProduct
<1>3. Whole(d, N, T3, d.part \otimes d.supplier \otimes d.lineitem)
  BY <1>N, <1>2, WholeProduct
<1>4. Whole(d, N, T4, d.part \otimes d.supplier \otimes d.lineitem \otimes d.partsupp)
  BY <1>N, <1>3, WholeProduct
<1>5. Whole(d, N, T5, d.part \otimes d.supplier \otimes d.lineitem \otimes d.partsupp
        \otimes d.orders)
  BY <1>N, <1>4, WholeProduct
<1>6. Whole(d, N, T6, d.part \otimes d.supplier \otimes d.lineitem \otimes d.partsupp
        \otimes d.orders \otimes d.nation)
  BY <1>N, <1>5, WholeProduct
<1>7. Among(DOMAIN N, T6)
  BY <1>N DEF Among
<1> QED BY <1>6, <1>7, KeptInWhole

Frame9(d) ==
    LET offers == MergeOn(d.part, d.partsupp, "p_partkey", "ps_partkey")
        suppliers == MergeOn(offers, d.supplier, "ps_suppkey", "s_suppkey")
        lines == MergeOnTwo(suppliers, d.lineitem, "p_partkey", "l_partkey", "ps_suppkey",
          "l_suppkey")
        placed == MergeOn(lines, d.orders, "l_orderkey", "o_orderkey")
    IN  MergeOn(placed, d.nation, "s_nationkey", "n_nationkey")

\* The rows of the joins of q9, in terms of the tables.
LEMMA InFrame9 ==
  ASSUME NEW d, NEW N, N = Reads[9], Fits(d, N), NEW x
  PROVE  /\ x \in Frame9(d) =>
             /\ Keeps(d, N, x)
             /\ x.p_partkey = x.ps_partkey
             /\ x.ps_suppkey = x.s_suppkey
             /\ x.p_partkey = x.l_partkey /\ x.ps_suppkey = x.l_suppkey
             /\ x.l_orderkey = x.o_orderkey
             /\ x.s_nationkey = x.n_nationkey
         /\ /\ Keeps(d, N, x)
            /\ x.p_partkey = x.ps_partkey
            /\ x.ps_suppkey = x.s_suppkey
            /\ x.p_partkey = x.l_partkey /\ x.ps_suppkey = x.l_suppkey
            /\ x.l_orderkey = x.o_orderkey
            /\ x.s_nationkey = x.n_nationkey
            => x \in Frame9(d)
<1>N. DOMAIN N = {"nation", "part", "partsupp", "orders", "supplier", "lineitem"}
  BY Reads9
<1>C. /\ "p_partkey" \in N["part"]
      /\ "ps_partkey" \in N["partsupp"]
      /\ "ps_suppkey" \in N["partsupp"]
      /\ "s_suppkey" \in N["supplier"]
      /\ "l_partkey" \in N["lineitem"]
      /\ "l_suppkey" \in N["lineitem"]
      /\ "l_orderkey" \in N["lineitem"]
      /\ "o_orderkey" \in N["orders"]
      /\ "s_nationkey" \in N["supplier"]
      /\ "n_nationkey" \in N["nation"]
  BY Reads9
<1> DEFINE V1 == {"part"}
           V2 == V1 \cup {"partsupp"}
           V3 == V2 \cup {"supplier"}
           V4 == V3 \cup {"lineitem"}
           V5 == V4 \cup {"orders"}
           V6 == V5 \cup {"nation"}
           offers == MergeOn(d.part, d.partsupp, "p_partkey", "ps_partkey")
           suppliers == MergeOn(offers, d.supplier, "ps_suppkey", "s_suppkey")
           lines == MergeOnTwo(suppliers, d.lineitem, "p_partkey", "l_partkey", "ps_suppkey",
             "l_suppkey")
           placed == MergeOn(lines, d.orders, "l_orderkey", "o_orderkey")
           all == MergeOn(placed, d.nation, "s_nationkey", "n_nationkey")
<1>10. Joins(d, N, V1, d.part, {"partsupp"}, d.partsupp, "p_partkey", "ps_partkey")
  BY <1>N, <1>C, FrameTable DEF Joins, Apart, Names
<1>11. Joins(d, N, V2, offers, {"supplier"}, d.supplier, "ps_suppkey", "s_suppkey")
  BY <1>N, <1>C, <1>10, FrameMerge, FrameTable DEF Joins, Apart, Names
<1>12. /\ Joins(d, N, V3, suppliers, {"lineitem"}, d.lineitem, "p_partkey", "l_partkey")
       /\ Joins(d, N, V3, suppliers, {"lineitem"}, d.lineitem, "ps_suppkey", "l_suppkey")
  BY <1>N, <1>C, <1>11, FrameMerge, FrameTable DEF Joins, Apart, Names
<1>13. Joins(d, N, V4, lines, {"orders"}, d.orders, "l_orderkey", "o_orderkey")
  BY <1>N, <1>C, <1>12, FrameMergeOnTwo, FrameTable DEF Joins, Apart, Names
<1>14. Joins(d, N, V5, placed, {"nation"}, d.nation, "s_nationkey", "n_nationkey")
  BY <1>N, <1>C, <1>13, FrameMerge, FrameTable DEF Joins, Apart, Names
<1>15. Frame(d, N, V6, all)
  BY <1>14, FrameMerge
<1>20. ASSUME Keeps(d, N, x)
      PROVE  Part(x, V6) \in all <=>
                /\ x.p_partkey = x.ps_partkey
                /\ x.ps_suppkey = x.s_suppkey
                /\ x.p_partkey = x.l_partkey /\ x.ps_suppkey = x.l_suppkey
                /\ x.l_orderkey = x.o_orderkey
                /\ x.s_nationkey = x.n_nationkey
  <2>1. /\ Part(x, {"part"}) \in d.part
        /\ Part(x, {"partsupp"}) \in d.partsupp
        /\ Part(x, {"supplier"}) \in d.supplier
        /\ Part(x, {"lineitem"}) \in d.lineitem
        /\ Part(x, {"orders"}) \in d.orders
        /\ Part(x, {"nation"}) \in d.nation
    BY <1>20, <1>N, KeptInTable
  <2>2. Part(x, V2) \in offers <=> Part(x, V1) \in d.part /\ Part(x, {"partsupp"}) \in d.partsupp
          /\ x.p_partkey = x.ps_partkey
    BY <1>20, <1>10, KeptByMerge
  <2>3. Part(x, V3) \in suppliers <=> Part(x, V2) \in offers /\ Part(x, {"supplier"}) \in d.supplier
          /\ x.ps_suppkey = x.s_suppkey
    BY <1>20, <1>11, KeptByMerge
  <2>4. Part(x, V4) \in lines <=> Part(x, V3) \in suppliers /\ Part(x, {"lineitem"}) \in d.lineitem
          /\ x.p_partkey = x.l_partkey /\ x.ps_suppkey = x.l_suppkey
    BY <1>20, <1>12, KeptByMergeOnTwo
  <2>5. Part(x, V5) \in placed <=> Part(x, V4) \in lines /\ Part(x, {"orders"}) \in d.orders
          /\ x.l_orderkey = x.o_orderkey
    BY <1>20, <1>13, KeptByMerge
  <2>6. Part(x, V6) \in all <=> Part(x, V5) \in placed /\ Part(x, {"nation"}) \in d.nation
          /\ x.s_nationkey = x.n_nationkey
    BY <1>20, <1>14, KeptByMerge
  <2> HIDE DEF V2, V3, V4, V5, V6, offers, suppliers, lines, placed, all
  <2> QED BY <2>1, <2>2, <2>3, <2>4, <2>5, <2>6
<1>21. (\A y \in all : Keeps(d, N, y)) /\ (Keeps(d, N, x) => Part(x, V6) = x)
  <2>1. Among(DOMAIN N, V6)
    BY <1>N DEF Among
  <2> HIDE DEF V2, V3, V4, V5, V6, offers, suppliers, lines, placed, all
  <2> QED BY <1>15, <2>1, KeptInAll
<1>22. Frame9(d) = all
  BY DEF Frame9
<1> HIDE DEF V1, V2, V3, V4, V5, V6, offers, suppliers, lines, placed, all
<1> QED BY <1>20, <1>21, <1>22

Amount(r) == Revenue(r) - 100 * r.ps_supplycost * r.l_quantity

Profit9(R) == WithColumns(R, LAMBDA r : [nation |-> r.n_name, o_year |-> Year(r.o_orderdate)])

Years9(R) == Rename(WithColumns(R, LAMBDA r : [o_year |-> Year(r.o_orderdate)]), "n_name", "nation")

PandasAnswer9(R) ==
    Sorted(GroupBy(Years9(R), {"nation", "o_year"}, LAMBDA g : [sum_profit |-> Total(g, Amount)]),
               LAMBDA r : <<Alpha(r.nation), -r.o_year>>)

Rows9(d) == {r \in Frame9(d) : Mentions(r.p_name, "green")}

Answer9(R) ==
    Sorted(GroupBy(Profit9(R), {"nation", "o_year"}, LAMBDA g : [sum_profit |-> Total(g, Amount)]),
               LAMBDA r : <<Alpha(r.nation), -r.o_year>>)

SqlRows9(d) == {r \in d.part \otimes d.supplier \otimes d.lineitem \otimes d.partsupp
  \otimes d.orders \otimes d.nation :
    /\ r.s_suppkey = r.l_suppkey
    /\ r.ps_suppkey = r.l_suppkey
    /\ r.ps_partkey = r.l_partkey
    /\ r.p_partkey = r.l_partkey
    /\ r.o_orderkey = r.l_orderkey
    /\ r.s_nationkey = r.n_nationkey
    /\ Mentions(r.p_name, "green")}

\* The SQL of q9 selects the rows that the data frames filter.
LEMMA Same9 ==
  ASSUME NEW d, Fits(d, Reads[9])
  PROVE  SqlRows9(d) = Rows9(d)
<1> DEFINE N == Reads[9]
<1>1. ASSUME NEW r PROVE r \in SqlRows9(d) <=> r \in Rows9(d)
  <2>1. r \in d.part \otimes d.supplier \otimes d.lineitem \otimes d.partsupp \otimes d.orders
          \otimes d.nation <=> Keeps(d, N, r)
    BY Product9
  <2>2. r \in Frame9(d) <=>
          /\ Keeps(d, N, r)
          /\ r.p_partkey = r.ps_partkey
          /\ r.ps_suppkey = r.s_suppkey
          /\ r.p_partkey = r.l_partkey
          /\ r.ps_suppkey = r.l_suppkey
          /\ r.l_orderkey = r.o_orderkey
          /\ r.s_nationkey = r.n_nationkey
    BY InFrame9
  <2> HIDE DEF N
  <2> QED BY <2>1, <2>2 DEF SqlRows9, Rows9
<1> QED BY <1>1

\* q9 of duckdb.
LEMMA Sql9 ==
  ASSUME NEW d
  PROVE  Sql!Q9(d) = Answer9(SqlRows9(d))
<1> USE DEF Sorted, Sql!Sorted, Top, Sql!Top, GroupBy, Sql!GroupBy, Project, Sql!Project, On,
           Sql!On, Joined, Sql!Joined, Total, Sql!Total, Mean, Sql!Mean, Alpha, Sql!Alpha,
           Before, Sql!Before, Cross, Sql!Cross, Revenue, Sql!Revenue, Quantity, Sql!Quantity,
           Price, Sql!Price, Charge, Sql!Charge, Discount, Sql!Discount, Match, Sql!Match, Merge,
           Sql!Merge, Cardinality, Sql!Cardinality, SumFunction, Sql!SumFunction,
           SumFunctionOnSet, Sql!SumFunctionOnSet, FoldFunctionOnSet, Sql!FoldFunctionOnSet,
           MapThenFoldSet, Sql!MapThenFoldSet, WithColumns, Sql!WithColumns, Rename, Sql!Rename,
           Year, Sql!Year, Mentions, Sql!Mentions, \otimes, Sql!\otimes
<1> QED BY SMT DEF Sql!Q9, Answer9, SqlRows9, Amount, Profit9, Years9

\* q9 of polars.
LEMMA Polars9 ==
  ASSUME NEW d
  PROVE  Polars!Q9(d) = Answer9(Rows9(d))
<1> USE DEF Sorted, Polars!Sorted, Top, Polars!Top, GroupBy, Polars!GroupBy, Project,
           Polars!Project, On, Polars!On, Joined, Polars!Joined, Total, Polars!Total, Mean,
           Polars!Mean, Alpha, Polars!Alpha, Before, Polars!Before, Cross, Polars!Cross, Revenue,
           Polars!Revenue, Quantity, Polars!Quantity, Price, Polars!Price, Charge, Polars!Charge,
           Discount, Polars!Discount, Match, Polars!Match, Merge, Polars!Merge, Cardinality,
           Polars!Cardinality, SumFunction, Polars!SumFunction, SumFunctionOnSet,
           Polars!SumFunctionOnSet, FoldFunctionOnSet, Polars!FoldFunctionOnSet, MapThenFoldSet,
           Polars!MapThenFoldSet, WithColumns, Polars!WithColumns, Rename, Polars!Rename, Year,
           Polars!Year, Mentions, Polars!Mentions, \otimes, Sql!\otimes, Polars!ClosedLeft
<1> QED BY SMT DEF Polars!Q9, Answer9, Rows9, Frame9, MergeOn, MergeOnTwo, Amount, Profit9, Years9

PandasRows9(d) ==
    LET offers == Pandas!Merge(d.part, d.partsupp, <<"p_partkey">>, <<"ps_partkey">>)
        suppliers == Pandas!Merge(offers, d.supplier, <<"ps_suppkey">>, <<"s_suppkey">>)
        lines == Pandas!Merge(suppliers, d.lineitem, <<"p_partkey", "ps_suppkey">>,
                              <<"l_partkey", "l_suppkey">>)
        placed == Pandas!Merge(lines, d.orders, <<"l_orderkey">>, <<"o_orderkey">>)
    IN  {r \in Pandas!Merge(placed, d.nation, <<"s_nationkey">>, <<"n_nationkey">>) :
            Pandas!Mentions(r.p_name, "green")}

PandasYears9(R) ==
    Pandas!Rename(Pandas!WithColumns(R, LAMBDA r : [o_year |-> Pandas!Year(r.o_orderdate)]),
                  "n_name", "nation")

PandasAmount(r) == Pandas!Revenue(r) - 100 * r.ps_supplycost * r.l_quantity

PandasGroups9(R) ==
    Pandas!GroupBy(R, {"nation", "o_year"},
                   LAMBDA g : [sum_profit |-> Pandas!Total(g, PandasAmount)])

PandasSorted9(R) == Pandas!Sorted(R, LAMBDA r : <<Pandas!Alpha(r.nation), -r.o_year>>)

ProfitGroups9(R) ==
    GroupBy(R, {"nation", "o_year"}, LAMBDA g : [sum_profit |-> Total(g, Amount)])

Sorted9(R) == Sorted(R, LAMBDA r : <<Alpha(r.nation), -r.o_year>>)

\* q9 of pandas.
LEMMA Pandas9 ==
  ASSUME NEW d
  PROVE  Pandas!Q9(d) = PandasAnswer9(Rows9(d))
<1>1. Pandas!Q9(d) = PandasSorted9(PandasGroups9(PandasYears9(PandasRows9(d))))
  BY Zenon DEF Pandas!Q9, PandasSorted9, PandasGroups9, PandasYears9, PandasRows9, PandasAmount
<1>2. PandasRows9(d) = Rows9(d)
  BY SMT DEF PandasRows9, Rows9, Frame9, MergeOn, MergeOnTwo, Merge, Pandas!Merge, Match,
     Pandas!Match, Joined, Pandas!Joined, Mentions, Pandas!Mentions
<1>3. \A R : PandasYears9(R) = Years9(R)
  BY SMT DEF PandasYears9, Years9, Rename, Pandas!Rename, WithColumns, Pandas!WithColumns,
     Joined, Pandas!Joined, On, Pandas!On, Year, Pandas!Year
<1>4. \A R : PandasGroups9(R) = ProfitGroups9(R)
  BY SMT DEF PandasGroups9, ProfitGroups9, GroupBy, Pandas!GroupBy, Project, Pandas!Project,
     On, Pandas!On, Joined, Pandas!Joined, Total, Pandas!Total, SumFunction,
     Pandas!SumFunction, SumFunctionOnSet, Pandas!SumFunctionOnSet, FoldFunctionOnSet,
     Pandas!FoldFunctionOnSet, MapThenFoldSet, Pandas!MapThenFoldSet, PandasAmount, Amount,
     Revenue, Pandas!Revenue
<1>5. \A R : PandasSorted9(R) = Sorted9(R)
  BY SMT DEF PandasSorted9, Sorted9, Sorted, Pandas!Sorted, Top, Pandas!Top, Before,
     Pandas!Before, Cardinality, Pandas!Cardinality, Alpha, Pandas!Alpha
<1>6. PandasAnswer9(Rows9(d)) = Sorted9(ProfitGroups9(Years9(Rows9(d))))
  BY Zenon DEF PandasAnswer9, Sorted9, ProfitGroups9
<1> QED BY <1>1, <1>2, <1>3, <1>4, <1>5, <1>6

(* The groups of S, an image of R, are those of R.                         *)
Group9Ok(R, b, key) ==
    \A r \in R : Amount(r) \in Int /\ Amount(b[r]) = Amount(r) /\ On(b[r], {"nation", "o_year"})
      = key[r]

Groups9(R, key) == Grouped(R, key, [g \in SUBSET R |-> [sum_profit |-> Total(g, Amount)]])

\* Rows with columns added have the groups of the rows they were added to.
LEMMA GroupsOfImage9 ==
  ASSUME NEW R, IsFiniteSet(R), NEW S, NEW b, OneToOne(b, R, S), NEW key, Group9Ok(R, b, key)
  PROVE  GroupBy(S, {"nation", "o_year"}, LAMBDA g : [sum_profit |-> Total(g, Amount)])
           = Groups9(R, key)
<1> DEFINE C == {"nation", "o_year"}
           agg == [g \in SUBSET R |-> [sum_profit |-> Total(g, Amount)]]
           aggS == [g \in SUBSET S |-> [sum_profit |-> Total(g, Amount)]]
           keyS == KeyOn(S, C)
<1>1. ASSUME NEW g \in SUBSET R PROVE aggS[ImageOf(b, g)] = agg[g]
  <2> DEFINE T == ImageOf(b, g)
             v == [r \in g |-> Amount(r)]
             w == [r \in T |-> Amount(r)]
  <2>1. IsFiniteSet(g)
    BY FS_Subset
  <2>2. \A x, y \in g : b[x] = b[y] => x = y
    BY DEF OneToOne
  <2>3. DOMAIN v = g /\ DOMAIN w = ImageOf(b, g)
    OBVIOUS
  <2>4. \A x \in g : v[x] \in Int /\ w[b[x]] = v[x]
    BY DEF ImageOf, Group9Ok
  <2>5. T \in SUBSET S
    BY DEF ImageOf, OneToOne
  <2>6. Total(g, Amount) = SumFunction(v) /\ Total(T, Amount) = SumFunction(w)
    BY DEF Total
  <2> HIDE DEF v, w
  <2>7. SumFunction(w) = SumFunction(v)
    BY <2>1, <2>2, <2>3, <2>4, TotalOfImage
  <2>8. aggS[T] = [sum_profit |-> Total(T, Amount)] /\ agg[g] = [sum_profit |-> Total(g, Amount)]
    <3> HIDE DEF T
    <3> QED BY <2>5, Zenon
  <2>9. aggS[T] = agg[g]
    <3> HIDE DEF T, aggS, agg
    <3> QED BY <2>6, <2>7, <2>8, Zenon
  <2> QED BY <2>9
<1>2. \A r \in R : keyS[b[r]] = key[r]
  BY DEF KeyOn, OneToOne, Group9Ok
<1>3. ASSUME NEW j PROVE aggS[{r \in S : On(r, C) = j}]
               = [sum_profit |-> Total({r \in S : On(r, C) = j}, Amount)]
  <2>1. {r \in S : On(r, C) = j} \in SUBSET S
    OBVIOUS
  <2> QED BY <2>1, Zenon
<1> HIDE DEF agg, aggS, keyS, C
<1>4. SameAggregates(R, b, agg, aggS)
  BY <1>1 DEF SameAggregates
<1>5. Grouped(S, keyS, aggS) = Grouped(R, key, agg)
  BY <1>2, <1>4, GroupsOfImage
<1>6. ASSUME NEW x
      PROVE  x \in GroupBy(S, C, LAMBDA g : [sum_profit |-> Total(g, Amount)])
               <=> x \in GroupedOn(S, C, aggS)
  BY <1>3, Zenon DEF GroupBy, GroupedOn
<1>7. GroupBy(S, C, LAMBDA g : [sum_profit |-> Total(g, Amount)]) = GroupedOn(S, C, aggS)
  BY <1>6, Zenon
<1>8. GroupedOn(S, C, aggS) = Grouped(S, keyS, aggS)
  BY GroupedOnIs, Zenon DEF keyS
<1> QED BY <1>5, <1>7, <1>8, Zenon DEF Groups9, C, agg

(* A column that no table has.                                             *)
IsNew(c) == c \notin Cols(Tables)

\* A column of no table is in no row of tables.
LEMMA NewColumn ==
  ASSUME NEW d, NEW N, NEW x, Keeps(d, N, x), NEW c, IsNew(c)
  PROVE  c \notin DOMAIN x
<1>1. DOMAIN N \subseteq Tables /\ DOMAIN x \subseteq Cols(DOMAIN N)
  BY DEF Keeps, IsRow, Fits
<1>2. Cols(DOMAIN N) \subseteq Cols(Tables)
  BY <1>1 DEF Cols
<1> QED BY <1>1, <1>2 DEF IsNew

\* The columns that q9 adds are new.
LEMMA NewColumns == IsNew("nation") /\ IsNew("o_year") /\ IsNew("l_year")
BY DEF IsNew, Cols, Tables, Columns

\* The joined rows are finitely many rows of the tables.
LEMMA Rows9Are ==
  ASSUME NEW d, Sound(d, Reads[9])
  PROVE  /\ IsFiniteSet(Rows9(d))
         /\ \A x \in Rows9(d) : Keeps(d, Reads[9], x)
<1>1. \A x \in Rows9(d) : x \in Frame9(d)
  BY DEF Rows9
<1>2. \A x \in Frame9(d) : Keeps(d, Reads[9], x)
  BY InFrame9 DEF Sound
<1>3. IsFiniteSet(Frame9(d))
  <2>1. /\ IsFiniteSet(d.part) /\ IsFiniteSet(d.partsupp) /\ IsFiniteSet(d.supplier)
        /\ IsFiniteSet(d.lineitem) /\ IsFiniteSet(d.orders) /\ IsFiniteSet(d.nation)
    BY Reads9 DEF Sound
  <2> QED BY <2>1, FiniteMergeOn, FiniteMergeOnTwo DEF Frame9
<1> QED BY <1>1, <1>2, <1>3, FiniteKept

\* And have the columns that q9 reads.
LEMMA Columns9 ==
  ASSUME NEW d, Sound(d, Reads[9]), NEW x, Keeps(d, Reads[9], x)
  PROVE  /\ Amount(x) \in Int
         /\ {"l_extendedprice", "l_discount", "l_quantity", "ps_supplycost", "n_name",
              "o_orderdate"} \subseteq DOMAIN x
         /\ IsFcn(x) /\ "nation" \notin DOMAIN x /\ "o_year" \notin DOMAIN x
<1> DEFINE N == Reads[9]
<1>N. /\ "lineitem" \in DOMAIN N /\ "partsupp" \in DOMAIN N /\ "nation" \in DOMAIN N
           /\ "orders" \in DOMAIN N
      /\ "l_extendedprice" \in N["lineitem"] /\ "l_discount" \in N["lineitem"]
           /\ "l_quantity" \in N["lineitem"]
      /\ "ps_supplycost" \in N["partsupp"] /\ "n_name" \in N["nation"]
           /\ "o_orderdate" \in N["orders"]
  BY Reads9
<1> HIDE DEF N
<1>1. Revenue(x) \in Int
  BY <1>N, RevenueIsInt DEF N
<1>2. "l_quantity" \in Quantities /\ "ps_supplycost" \in Quantities
  BY DEF Quantities
<1>3. x["l_quantity"] \in Int
  BY <1>N, <1>2, NumberKept DEF N
<1>4. x["ps_supplycost"] \in Int
  BY <1>N, <1>2, NumberKept DEF N
<1>5. Amount(x) \in Int
  BY <1>1, <1>3, <1>4 DEF Amount
<1>6. "l_extendedprice" \in DOMAIN x /\ "l_discount" \in DOMAIN x /\ "l_quantity" \in DOMAIN x
  BY <1>N, ColumnOfTable, Zenon DEF N
<1>7. "ps_supplycost" \in DOMAIN x /\ "n_name" \in DOMAIN x /\ "o_orderdate" \in DOMAIN x
  BY <1>N, ColumnOfTable, Zenon DEF N
<1>8. "nation" \notin DOMAIN x /\ "o_year" \notin DOMAIN x
  BY NewColumn, NewColumns
<1>9. IsFcn(x)
  BY DEF Keeps, IsRow
<1> QED BY <1>5, <1>6, <1>7, <1>8, <1>9

Key9(R) == [r \in R |-> [nation |-> r.n_name, o_year |-> Year(r.o_orderdate)]]

\* The SQL groups rows that carry the amount and the year.
LEMMA Profits9 ==
  ASSUME NEW d, Sound(d, Reads[9]), NEW R, IsFiniteSet(R), \A x \in R : Keeps(d, Reads[9], x)
  PROVE  GroupBy(Profit9(R), {"nation", "o_year"}, LAMBDA g : [sum_profit |-> Total(g, Amount)])
           = Groups9(R, Key9(R))
<1> DEFINE m(r) == [nation |-> r.n_name, o_year |-> Year(r.o_orderdate)]
           b == [r \in R |-> Joined(m(r), r)]
           S == Profit9(R)
<1>1. ASSUME NEW r \in R
      PROVE  /\ DOMAIN m(r) = {"nation", "o_year"} /\ DOMAIN m(r) \cap DOMAIN r = {}
             /\ IsFcn(m(r)) /\ IsFcn(r)
  BY Columns9 DEF IsFcn
<1>2. OneToOne(b, R, S)
  <2>1. \A r \in R : b[r] \in S
    BY DEF Profit9, WithColumns
  <2>2. \A y \in S : \E r \in R : b[r] = y
    BY DEF Profit9, WithColumns
  <2>3. ASSUME NEW r \in R, NEW s \in R, b[r] = b[s] PROVE r = s
    <3> HIDE DEF m
    <3>1. Joined(m(r), r) = Joined(m(s), s)
      BY <2>3
    <3> QED BY <3>1, <1>1, JoinedIsOneToOne
  <2> QED BY <2>1, <2>2, <2>3 DEF OneToOne
<1>3. Group9Ok(R, b, Key9(R))
  <2>1. ASSUME NEW r \in R
        PROVE  /\ Amount(r) \in Int /\ Amount(b[r]) = Amount(r)
               /\ On(b[r], {"nation", "o_year"}) = Key9(R)[r]
    <3>1. Amount(r) \in Int /\ {"l_extendedprice", "l_discount", "l_quantity",
            "ps_supplycost"} \subseteq DOMAIN r
      BY Columns9
    <3>2. \A c \in DOMAIN r : b[r][c] = r[c]
      BY <1>1, JoinedRight
    <3>3. Amount(b[r]) = Amount(r)
      BY <3>1, <3>2 DEF Amount, Revenue
    <3>4. On(b[r], {"nation", "o_year"}) = m(r)
      BY <1>1 DEF On, Joined
    <3> QED BY <3>1, <3>3, <3>4 DEF Key9
  <2> QED BY <2>1 DEF Group9Ok
<1> HIDE DEF b, S
<1>4. GroupBy(S, {"nation", "o_year"}, LAMBDA g : [sum_profit |-> Total(g, Amount)])
        = Groups9(R, Key9(R))
  BY <1>2, <1>3, GroupsOfImage9, Zenon
<1> QED BY <1>4, Zenon DEF S

\* The frames group rows that carry the year.
LEMMA Years9Groups ==
  ASSUME NEW d, Sound(d, Reads[9]), NEW R, IsFiniteSet(R), \A x \in R : Keeps(d, Reads[9], x)
  PROVE  GroupBy(Years9(R), {"nation", "o_year"}, LAMBDA g : [sum_profit |-> Total(g, Amount)])
           = Groups9(R, Key9(R))
<1> DEFINE m(r) == [o_year |-> Year(r.o_orderdate)]
           a == [r \in R |-> Joined(m(r), r)]
           b == [r \in R |-> Renamed(a[r], "n_name", "nation")]
           S == Years9(R)
<1>1. ASSUME NEW r \in R
      PROVE  /\ DOMAIN m(r) = {"o_year"} /\ DOMAIN m(r) \cap DOMAIN r = {}
             /\ m(r)["o_year"] = Year(r.o_orderdate)
             /\ IsFcn(m(r)) /\ IsFcn(r)
  BY Columns9 DEF IsFcn
<1>2. ASSUME NEW r \in R
      PROVE  /\ IsFcn(a[r]) /\ DOMAIN a[r] = {"o_year"} \cup DOMAIN r
             /\ a[r]["o_year"] = Year(r.o_orderdate) /\ \A c \in DOMAIN r : a[r][c] = r[c]
  <2>1. a[r] = Joined(m(r), r) /\ "o_year" \notin DOMAIN r
    BY Columns9
  <2> HIDE DEF m, a
  <2> QED BY <1>1, <2>1 DEF Joined, IsFcn
<1> HIDE DEF a
<1>3. ASSUME NEW r \in R
      PROVE  /\ "n_name" \in DOMAIN a[r] /\ "nation" \notin DOMAIN a[r]
             /\ b[r]["nation"] = r["n_name"] /\ b[r]["o_year"] = Year(r.o_orderdate)
             /\ \A c \in DOMAIN r \ {"n_name"} : b[r][c] = r[c]
  <2>1. "n_name" \in DOMAIN r /\ "nation" \notin DOMAIN r
    BY Columns9
  <2>2. "n_name" \in DOMAIN a[r] /\ "nation" \notin DOMAIN a[r]
    BY <1>2, <2>1
  <2>3. /\ Renamed(a[r], "n_name", "nation")["nation"] = a[r]["n_name"]
        /\ \A c \in DOMAIN a[r] \ {"n_name"} : Renamed(a[r], "n_name", "nation")[c] = a[r][c]
    <3> DEFINE z == a[r]
    <3>1. "n_name" \in DOMAIN z /\ "nation" \notin DOMAIN z
      BY <2>2
    <3> HIDE DEF z
    <3>2. /\ Renamed(z, "n_name", "nation")["nation"] = z["n_name"]
          /\ \A c \in DOMAIN z \ {"n_name"} : Renamed(z, "n_name", "nation")[c] = z[c]
      BY <3>1 DEF Renamed, Joined, On
    <3> QED BY <3>2 DEF z
  <2>4. b[r] = Renamed(a[r], "n_name", "nation")
    OBVIOUS
  <2> QED BY <1>2, <2>1, <2>2, <2>3, <2>4
<1>4. OneToOne(b, R, S)
  <2>0. \A x : x \in S <=> \E r \in R : x = Renamed(a[r], "n_name", "nation")
    <3>1. \A x : x \in WithColumns(R, m) <=> \E r \in R : x = a[r]
      BY DEF WithColumns, a
    <3>2. S = Rename(WithColumns(R, m), "n_name", "nation")
      BY Zenon DEF Years9
    <3> HIDE DEF S, m
    <3>3. \A x : x \in S <=> \E y \in WithColumns(R, m) : x = Renamed(y, "n_name", "nation")
      BY <3>2 DEF Rename, Renamed
    <3> QED BY <3>1, <3>3
  <2>1. \A r \in R : b[r] \in S
    BY <2>0
  <2>2. \A y \in S : \E r \in R : b[r] = y
    BY <2>0
  <2>3. ASSUME NEW r \in R, NEW s \in R, b[r] = b[s] PROVE r = s
    <3>1. a[r] = a[s]
      BY <2>3, <1>2, <1>3, RenamedIsOneToOne
    <3>2. Joined(m(r), r) = Joined(m(s), s)
      BY <3>1 DEF a
    <3> HIDE DEF m
    <3> QED BY <3>2, <1>1, JoinedIsOneToOne
  <2> QED BY <2>1, <2>2, <2>3 DEF OneToOne
<1> HIDE DEF b
<1>5. Group9Ok(R, b, Key9(R))
  <2>1. ASSUME NEW r \in R
        PROVE  /\ Amount(r) \in Int /\ Amount(b[r]) = Amount(r)
               /\ On(b[r], {"nation", "o_year"}) = Key9(R)[r]
    <3>1. Amount(r) \in Int /\ {"l_extendedprice", "l_discount", "l_quantity",
            "ps_supplycost"} \subseteq DOMAIN r
      BY Columns9
    <3>3. Amount(b[r]) = Amount(r)
      BY <3>1, <1>3 DEF Amount, Revenue
    <3>4. On(b[r], {"nation", "o_year"}) = [nation |-> r["n_name"], o_year |-> Year(r.o_orderdate)]
      <4>1. b[r]["nation"] = r["n_name"] /\ b[r]["o_year"] = Year(r.o_orderdate)
        BY <1>3
      <4> QED BY <4>1 DEF On
    <3> QED BY <3>1, <3>3, <3>4 DEF Key9
  <2> QED BY <2>1 DEF Group9Ok
<1> HIDE DEF S
<1>6. GroupBy(S, {"nation", "o_year"}, LAMBDA g : [sum_profit |-> Total(g, Amount)])
        = Groups9(R, Key9(R))
  BY <1>4, <1>5, GroupsOfImage9, Zenon
<1> QED BY <1>6, Zenon DEF S

\* The three engines answer q9 alike.
LEMMA Answers9 ==
  ASSUME NEW d, Sound(d, Reads[9])
  PROVE  /\ Polars!Q9(d) = Sql!Q9(d)
         /\ Pandas!Q9(d) = Sql!Q9(d)
<1> DEFINE R == Rows9(d)
<1>1. SqlRows9(d) = R
  BY Same9 DEF Sound
<1>2. GroupBy(Profit9(R), {"nation", "o_year"}, LAMBDA g : [sum_profit |-> Total(g, Amount)])
        = GroupBy(Years9(R), {"nation", "o_year"}, LAMBDA g : [sum_profit |-> Total(g, Amount)])
  <2> HIDE DEF R
  <2> QED BY Rows9Are, Profits9, Years9Groups, Zenon DEF R
<1>3. Answer9(R) = PandasAnswer9(R)
  <2> HIDE DEF R
  <2> QED BY <1>2, Zenon DEF Answer9, PandasAnswer9
<1> QED BY <1>1, <1>3, Sql9, Polars9, Pandas9

-----------------------------------------------------------------------------
(* q13: the customers by the number of their orders.                       *)

Open13(d) == {o \in d.orders : ~MentionsInOrder(o.o_comment, "special", "requests")}

Joined13(d, cols) == LeftMerge(d.customer, Open13(d), <<"c_custkey">>, <<"o_custkey">>, cols)

Counts13(J) == GroupBy(J, {"c_custkey"}, LAMBDA g : [c_count |-> Count(g, "o_orderkey")])

Answer13(K) ==
    Sorted(GroupBy(K, {"c_count"}, LAMBDA g : [custdist |-> Cardinality(g)]),
           LAMBDA r : <<-r.custdist, -r.c_count>>)

(* The number of orders of a customer, of those that count.                *)
Placed13(d, k) ==
    {r \in MergeOn(d.customer, Open13(d), "c_custkey", "o_custkey") :
        On(r, {"c_custkey"}) = k /\ r["o_orderkey"] # Null}

IsCount13(d, x) ==
    \E k \in Project(d.customer, {"c_custkey"}) : x
      = Joined(k, [c_count |-> Cardinality(Placed13(d, k))])

\* q13 of duckdb.
LEMMA Sql13 ==
  ASSUME NEW d
  PROVE  Sql!Q13(d) = Answer13(Counts13(Joined13(d, {"o_orderkey", "o_custkey", "o_comment"})))
<1>1. Sql!LeftMerge(d.customer, {o \in d.orders :
        ~Sql!MentionsInOrder(o.o_comment, "special", "requests")},
                    <<"c_custkey">>, <<"o_custkey">>, {"o_orderkey", "o_custkey", "o_comment"})
        = Joined13(d, {"o_orderkey", "o_custkey", "o_comment"})
  BY SMT DEF LeftMerge, Sql!LeftMerge, Merge, Sql!Merge, SemiMerge, Sql!SemiMerge, Match, Sql!Match,
     Joined, Sql!Joined, MentionsInOrder, Sql!MentionsInOrder, Joined13, Open13
<1>2. ASSUME NEW J
      PROVE  Sql!GroupBy(J, {"c_custkey"}, LAMBDA g : [c_count |-> Sql!Count(g, "o_orderkey")])
               = Counts13(J)
  BY SMT DEF GroupBy, Sql!GroupBy, Project, Sql!Project, On, Sql!On, Joined, Sql!Joined, Count,
     Sql!Count, Cardinality, Sql!Cardinality, Counts13
<1>3. ASSUME NEW K
      PROVE  Sql!Sorted(Sql!GroupBy(K, {"c_count"}, LAMBDA g : [custdist |-> Sql!Cardinality(g)]),
                  LAMBDA r : <<-r.custdist, -r.c_count>>) = Answer13(K)
  BY SMT DEF Sorted, Sql!Sorted, Before, Sql!Before, GroupBy, Sql!GroupBy, Project, Sql!Project, On,
     Sql!On, Joined, Sql!Joined, Cardinality, Sql!Cardinality, Answer13
<1> QED BY <1>1, <1>2, <1>3, Zenon DEF Sql!Q13

\* q13 of polars.
LEMMA Polars13 ==
  ASSUME NEW d
  PROVE  Polars!Q13(d) = Answer13(Counts13(Joined13(d, {"o_orderkey", "o_comment"})))
<1>1. Polars!LeftMerge(d.customer, {o \in d.orders :
        ~Polars!MentionsInOrder(o.o_comment, "special", "requests")},
                    <<"c_custkey">>, <<"o_custkey">>, {"o_orderkey", "o_comment"})
        = Joined13(d, {"o_orderkey", "o_comment"})
  BY SMT DEF LeftMerge, Polars!LeftMerge, Merge, Polars!Merge, SemiMerge, Polars!SemiMerge, Match,
     Polars!Match, Joined, Polars!Joined, MentionsInOrder, Polars!MentionsInOrder, Joined13, Open13
<1>2. ASSUME NEW J
      PROVE  Polars!GroupBy(J, {"c_custkey"}, LAMBDA g :
               [c_count |-> Polars!Count(g, "o_orderkey")]) = Counts13(J)
  BY SMT DEF GroupBy, Polars!GroupBy, Project, Polars!Project, On, Polars!On, Joined, Polars!Joined,
     Count, Polars!Count, Cardinality, Polars!Cardinality, Counts13
<1>3. ASSUME NEW K
      PROVE  Polars!Sorted(Polars!GroupBy(K, {"c_count"}, LAMBDA g :
               [custdist |-> Polars!Cardinality(g)]),
                  LAMBDA r : <<-r.custdist, -r.c_count>>) = Answer13(K)
  BY SMT DEF Sorted, Polars!Sorted, Before, Polars!Before, GroupBy, Polars!GroupBy, Project,
     Polars!Project, On, Polars!On, Joined, Polars!Joined, Cardinality, Polars!Cardinality, Answer13
<1> QED BY <1>1, <1>2, <1>3, Zenon DEF Polars!Q13

\* q13 of pandas.
LEMMA Pandas13 ==
  ASSUME NEW d
  PROVE  Pandas!Q13(d) = Answer13(Counts13(Joined13(d, {"o_orderkey", "o_custkey", "o_comment"})))
<1>1. Pandas!LeftMerge(d.customer, {o \in d.orders :
        ~Pandas!MentionsInOrder(o.o_comment, "special", "requests")},
                    <<"c_custkey">>, <<"o_custkey">>, {"o_orderkey", "o_custkey", "o_comment"})
        = Joined13(d, {"o_orderkey", "o_custkey", "o_comment"})
  BY SMT DEF LeftMerge, Pandas!LeftMerge, Merge, Pandas!Merge, SemiMerge, Pandas!SemiMerge, Match,
     Pandas!Match, Joined, Pandas!Joined, MentionsInOrder, Pandas!MentionsInOrder, Joined13, Open13
<1>2. ASSUME NEW J
      PROVE  Pandas!GroupBy(J, {"c_custkey"}, LAMBDA g :
               [c_count |-> Pandas!Count(g, "o_orderkey")]) = Counts13(J)
  BY SMT DEF GroupBy, Pandas!GroupBy, Project, Pandas!Project, On, Pandas!On, Joined, Pandas!Joined,
     Count, Pandas!Count, Cardinality, Pandas!Cardinality, Counts13
<1>3. ASSUME NEW K
      PROVE  Pandas!Sorted(Pandas!GroupBy(K, {"c_count"}, LAMBDA g :
               [custdist |-> Pandas!Cardinality(g)]),
                  LAMBDA r : <<-r.custdist, -r.c_count>>) = Answer13(K)
  BY SMT DEF Sorted, Pandas!Sorted, Before, Pandas!Before, GroupBy, Pandas!GroupBy, Project,
     Pandas!Project, On, Pandas!On, Joined, Pandas!Joined, Cardinality, Pandas!Cardinality, Answer13
<1> QED BY <1>1, <1>2, <1>3, Zenon DEF Pandas!Q13

\* Counting the rows of the outer join counts each customer's orders, or none.
LEMMA Counts13Are ==
  ASSUME NEW d, Fits(d, Reads[13]), NEW cols, "o_orderkey" \in cols, "c_custkey" \notin cols, NEW x
  PROVE  /\ x \in Counts13(Joined13(d, cols)) => IsCount13(d, x)
         /\ IsCount13(d, x) => x \in Counts13(Joined13(d, cols))
<1> DEFINE C == {"c_custkey"}
           O == Open13(d)
           M == MergeOn(d.customer, O, "c_custkey", "o_custkey")
           U == d.customer \ SemiMerge(d.customer, O, <<"c_custkey">>, <<"o_custkey">>)
           null == [c \in cols |-> Null]
           J == Joined13(d, cols)
<1>0. DOMAIN null = cols /\ null["o_orderkey"] = Null
  OBVIOUS
<1>N. /\ DOMAIN Reads[13] = {"customer", "orders"} /\ "c_custkey" \in Reads[13]["customer"]
  BY DEF Reads
<1>1. \A l \in d.customer : "c_custkey" \in DOMAIN l /\ "o_orderkey" \notin DOMAIN l
  BY <1>N DEF Fits, Columns
<1>2. J = M \cup {Joined(l, null) : l \in U}
  BY DEF Joined13, LeftMerge, MergeOn
<1>3. \A y : y \in M <=> \E l \in d.customer, o \in O :
        Match(l, o, <<"c_custkey">>, <<"o_custkey">>) /\ y = Joined(l, o)
  BY InMerge DEF MergeOn
<1>4. \A l \in d.customer : l \in U <=> ~\E o \in O : Match(l, o, <<"c_custkey">>, <<"o_custkey">>)
  BY DEF SemiMerge
<1>5. \A l \in U : l \in d.customer
  OBVIOUS
<1> HIDE DEF O, M, U, null, J
<1>6. ASSUME NEW l \in d.customer, NEW o
      PROVE  On(Joined(l, o), C) = On(l, C)
  BY <1>1, JoinedLeft DEF On
<1>7. \A k : k \in Project(J, C) <=> k \in Project(d.customer, C)
  <2>1. \A k : k \in Project(J, C) <=> \E r \in J : k = On(r, C)
    BY DEF Project
  <2>2. \A k : k \in Project(d.customer, C) <=> \E r \in d.customer : k = On(r, C)
    BY DEF Project
  <2>3. ASSUME NEW r \in J PROVE \E l \in d.customer : On(r, C) = On(l, C)
    BY <1>2, <1>3, <1>5, <1>6
  <2>4. ASSUME NEW l \in d.customer PROVE \E r \in J : On(r, C) = On(l, C)
    <3>1. CASE l \in U
      BY <1>2, <1>6, <3>1
    <3>2. CASE l \notin U
      BY <1>2, <1>3, <1>4, <1>6, <3>2
    <3> QED BY <3>1, <3>2
  <2> QED BY <2>1, <2>2, <2>3, <2>4
<1>8. ASSUME NEW r \in J, r["o_orderkey"] # Null PROVE r \in M
  <2>1. SUFFICES ASSUME NEW l \in U, r = Joined(l, null) PROVE FALSE
    BY <1>2
  <2>2. "o_orderkey" \notin DOMAIN l /\ "o_orderkey" \in DOMAIN null
    BY <1>0, <1>1, <1>5
  <2>3. r["o_orderkey"] = Null
    BY <2>1, <2>2, <1>0, JoinedRight
  <2> QED BY <2>3, <1>8
<1>9. ASSUME NEW k
      PROVE  Count({r \in J : On(r, C) = k}, "o_orderkey")
               = Cardinality({r \in M : On(r, C) = k /\ r["o_orderkey"] # Null})
  <2>1. {r \in {r \in J : On(r, C) = k} : r["o_orderkey"] # Null}
          = {r \in M : On(r, C) = k /\ r["o_orderkey"] # Null}
    <3>1. \A r \in M : r \in J
      BY <1>2
    <3> QED BY <1>8, <3>1
  <2> QED BY <2>1 DEF Count
<1> DEFINE a(k) == [c_count |-> Cardinality({r \in M : On(r, C) = k /\ r["o_orderkey"] # Null})]
<1>10. x \in Counts13(J) <=> \E k \in Project(J, C) : x
         = Joined(k, [c_count |-> Count({r \in J : On(r, C) = k}, "o_orderkey")])
  BY Zenon DEF Counts13, GroupBy, C
<1>11. x \in Counts13(J) <=> \E k \in Project(J, C) : x = Joined(k, a(k))
  BY <1>9, <1>10
<1> HIDE DEF a
<1>12. x \in Counts13(J) <=> \E k \in Project(d.customer, C) : x = Joined(k, a(k))
  BY <1>7, <1>11, Zenon
<1> QED BY <1>12, Zenon DEF a, J, M, O, C, IsCount13, Placed13

\* The three engines answer q13 alike.
LEMMA Answers13 ==
  ASSUME NEW d, Fits(d, Reads[13])
  PROVE  /\ Polars!Q13(d) = Sql!Q13(d)
         /\ Pandas!Q13(d) = Sql!Q13(d)
<1> DEFINE J == Joined13(d, {"o_orderkey", "o_custkey", "o_comment"})
           K == Joined13(d, {"o_orderkey", "o_comment"})
<1>1. \A x : x \in Counts13(J) <=> x \in Counts13(K)
  <2>1. \A x : x \in Counts13(J) <=> IsCount13(d, x)
    BY Counts13Are
  <2>2. \A x : x \in Counts13(K) <=> IsCount13(d, x)
    BY Counts13Are
  <2> HIDE DEF J, K
  <2> QED BY <2>1, <2>2, Zenon
<1>2. Counts13(J) = Counts13(K)
  BY <1>1, Zenon
<1> HIDE DEF J, K
<1> QED BY <1>2, Sql13, Polars13, Pandas13 DEF J, K

-----------------------------------------------------------------------------
(* q18: the customers of large orders.                                     *)

\* The columns that q18 reads.
LEMMA Reads18 ==
  /\ DOMAIN Reads[18] = {"customer", "orders", "lineitem"}
  /\ "c_custkey" \in Reads[18]["customer"] /\ "c_name" \in Reads[18]["customer"]
  /\ "o_orderkey" \in Reads[18]["orders"] /\ "o_custkey" \in Reads[18]["orders"]
       /\ "o_orderdate" \in Reads[18]["orders"] /\ "o_totalprice" \in Reads[18]["orders"]
  /\ "l_orderkey" \in Reads[18]["lineitem"] /\ "l_quantity" \in Reads[18]["lineitem"]
BY DEF Reads

\* The rows of the product that the SQL of q18 selects from.
LEMMA Product18 ==
  ASSUME NEW d, NEW N, N = Reads[18], Fits(d, N), NEW x
  PROVE  x \in d.customer \otimes d.orders \otimes d.lineitem <=> Keeps(d, N, x)
<1>N. DOMAIN N = {"customer", "orders", "lineitem"}
  BY Reads18
<1> DEFINE T1 == {"customer"}
           T2 == T1 \cup {"orders"}
           T3 == T2 \cup {"lineitem"}
<1>1. Whole(d, N, T1, d.customer)
  BY <1>N, WholeTable
<1>2. Whole(d, N, T2, d.customer \otimes d.orders)
  BY <1>N, <1>1, WholeProduct
<1>3. Whole(d, N, T3, d.customer \otimes d.orders \otimes d.lineitem)
  BY <1>N, <1>2, WholeProduct
<1>4. Among(DOMAIN N, T3)
  BY <1>N DEF Among
<1> QED BY <1>3, <1>4, KeptInWhole

Frame18(d) ==
    LET lines == MergeOn(d.orders, d.lineitem, "o_orderkey", "l_orderkey")
    IN  MergeOn(lines, d.customer, "o_custkey", "c_custkey")

\* The rows of the joins of q18, in terms of the tables.
LEMMA InFrame18 ==
  ASSUME NEW d, NEW N, N = Reads[18], Fits(d, N), NEW x
  PROVE  /\ x \in Frame18(d) =>
             /\ Keeps(d, N, x)
             /\ x.o_orderkey = x.l_orderkey
             /\ x.o_custkey = x.c_custkey
         /\ /\ Keeps(d, N, x)
            /\ x.o_orderkey = x.l_orderkey
            /\ x.o_custkey = x.c_custkey
            => x \in Frame18(d)
<1>N. DOMAIN N = {"customer", "orders", "lineitem"}
  BY Reads18
<1>C. /\ "o_orderkey" \in N["orders"]
      /\ "l_orderkey" \in N["lineitem"]
      /\ "o_custkey" \in N["orders"]
      /\ "c_custkey" \in N["customer"]
  BY Reads18
<1> DEFINE V1 == {"orders"}
           V2 == V1 \cup {"lineitem"}
           V3 == V2 \cup {"customer"}
           lines == MergeOn(d.orders, d.lineitem, "o_orderkey", "l_orderkey")
           all == MergeOn(lines, d.customer, "o_custkey", "c_custkey")
<1>10. Joins(d, N, V1, d.orders, {"lineitem"}, d.lineitem, "o_orderkey", "l_orderkey")
  BY <1>N, <1>C, FrameTable DEF Joins, Apart, Names
<1>11. Joins(d, N, V2, lines, {"customer"}, d.customer, "o_custkey", "c_custkey")
  BY <1>N, <1>C, <1>10, FrameMerge, FrameTable DEF Joins, Apart, Names
<1>12. Frame(d, N, V3, all)
  BY <1>11, FrameMerge
<1>20. ASSUME Keeps(d, N, x)
      PROVE  Part(x, V3) \in all <=>
                /\ x.o_orderkey = x.l_orderkey
                /\ x.o_custkey = x.c_custkey
  <2>1. /\ Part(x, {"orders"}) \in d.orders
        /\ Part(x, {"lineitem"}) \in d.lineitem
        /\ Part(x, {"customer"}) \in d.customer
    BY <1>20, <1>N, KeptInTable
  <2>2. Part(x, V2) \in lines <=> Part(x, V1) \in d.orders /\ Part(x, {"lineitem"}) \in d.lineitem
          /\ x.o_orderkey = x.l_orderkey
    BY <1>20, <1>10, KeptByMerge
  <2>3. Part(x, V3) \in all <=> Part(x, V2) \in lines /\ Part(x, {"customer"}) \in d.customer
          /\ x.o_custkey = x.c_custkey
    BY <1>20, <1>11, KeptByMerge
  <2> HIDE DEF V2, V3, lines, all
  <2> QED BY <2>1, <2>2, <2>3
<1>21. (\A y \in all : Keeps(d, N, y)) /\ (Keeps(d, N, x) => Part(x, V3) = x)
  <2>1. Among(DOMAIN N, V3)
    BY <1>N DEF Among
  <2> HIDE DEF V2, V3, lines, all
  <2> QED BY <1>12, <2>1, KeptInAll
<1>22. Frame18(d) = all
  BY DEF Frame18
<1> HIDE DEF V1, V2, V3, lines, all
<1> QED BY <1>20, <1>21, <1>22

(* A join of the rows that pass a test is the rows of the join that do.    *)
LEMMA MergeOfChosen ==
  ASSUME NEW R, NEW S, NEW a, NEW b, NEW c, NEW V, Has(R, c)
  PROVE  MergeOn({l \in R : l[c] \in V}, S, a, b) = {x \in MergeOn(R, S, a, b) : x[c] \in V}
<1>1. ASSUME NEW x
      PROVE  x \in MergeOn({l \in R : l[c] \in V}, S, a, b)
               <=> x \in MergeOn(R, S, a, b) /\ x[c] \in V
  <2>1. x \in MergeOn({l \in R : l[c] \in V}, S, a, b)
          <=> \E l \in {k \in R : k[c] \in V}, r \in S : Match(l, r, <<a>>, <<b>>) /\ x
            = Joined(l, r)
    BY InMerge DEF MergeOn
  <2>2. x \in MergeOn(R, S, a, b) <=> \E l \in R, r \in S : Match(l, r, <<a>>, <<b>>) /\ x
          = Joined(l, r)
    BY InMerge DEF MergeOn
  <2>3. \A l \in R, r \in S : Joined(l, r)[c] = l[c]
    BY JoinedLeft DEF Has
  <2> QED BY <2>1, <2>2, <2>3
<1> QED BY <1>1

Columns18 == {"c_name", "c_custkey", "o_orderkey", "o_orderdate", "o_totalprice"}

FrameColumns18 == {"c_name", "o_custkey", "o_orderkey", "o_orderdate", "o_totalprice"}

Sums18(d) == GroupBy(d.lineitem, {"l_orderkey"}, LAMBDA g : [sum_quantity |-> Total(g, Quantity)])

SqlSums18(d) == GroupBy(d.lineitem, {"l_orderkey"}, LAMBDA g : [sum |-> Total(g, Quantity)])

Big18(d) == {o \in Sums18(d) : o.sum_quantity > 300}

SqlLarge18(d) == {k.l_orderkey : k \in {s \in SqlSums18(d) : s.sum > 300}}

Groups18(R, C) == GroupBy(R, C, LAMBDA g : [col6 |-> Total(g, Quantity)])

Answer18(G) ==
    Top(Rename(G, "o_orderdate", "o_orderdat"), LAMBDA r : <<-r.o_totalprice, r.o_orderdat>>,
      Cut[100])

SqlRows18(d) == {r \in d.customer \otimes d.orders \otimes d.lineitem :
    /\ r.o_orderkey \in SqlLarge18(d)
    /\ r.c_custkey = r.o_custkey
    /\ r.o_orderkey = r.l_orderkey}

OrdersJoined18(d, O) ==
    MergeOn(MergeOn(O, d.lineitem, "o_orderkey", "l_orderkey"), d.customer, "o_custkey",
      "c_custkey")

PolarsLarge18(d) == SemiMerge(d.orders, Big18(d), <<"o_orderkey">>, <<"l_orderkey">>)

PandasLarge18(d) == MergeOn(d.orders, Project(Big18(d), {"l_orderkey"}), "o_orderkey", "l_orderkey")

\* q18 of duckdb.
LEMMA Sql18 ==
  ASSUME NEW d
  PROVE  Sql!Q18(d) = Answer18(Groups18(SqlRows18(d), Columns18))
<1>1. {k.l_orderkey : k \in {s \in Sql!GroupBy(d.lineitem, {"l_orderkey"}, LAMBDA g :
        [sum |-> Sql!Total(g, Sql!Quantity)]) : s.sum > 300}}
        = SqlLarge18(d)
  BY SMT DEF GroupBy, Sql!GroupBy, Project, Sql!Project, On, Sql!On, Joined, Sql!Joined, Quantity,
         Sql!Quantity, Total, Sql!Total, SumFunction, Sql!SumFunction, SumFunctionOnSet,
         Sql!SumFunctionOnSet, FoldFunctionOnSet, Sql!FoldFunctionOnSet, MapThenFoldSet,
         Sql!MapThenFoldSet, SqlLarge18, SqlSums18
<1>2. ASSUME NEW V
      PROVE  {r \in Sql!\otimes(Sql!\otimes(d.customer, d.orders), d.lineitem) :
                /\ r.o_orderkey \in V
                /\ r.c_custkey = r.o_custkey
                /\ r.o_orderkey = r.l_orderkey}
             = {r \in d.customer \otimes d.orders \otimes d.lineitem :
                /\ r.o_orderkey \in V
                /\ r.c_custkey = r.o_custkey
                /\ r.o_orderkey = r.l_orderkey}
  BY SMT DEF Cross, Sql!Cross, Joined, Sql!Joined, \otimes, Sql!\otimes
<1>3. ASSUME NEW R, NEW C
      PROVE  Sql!GroupBy(R, C, LAMBDA g : [col6 |-> Sql!Total(g, Sql!Quantity)]) = Groups18(R, C)
  BY SMT DEF GroupBy, Sql!GroupBy, Project, Sql!Project, On, Sql!On, Joined, Sql!Joined, Quantity,
         Sql!Quantity, Total, Sql!Total, SumFunction, Sql!SumFunction, SumFunctionOnSet,
         Sql!SumFunctionOnSet, FoldFunctionOnSet, Sql!FoldFunctionOnSet, MapThenFoldSet,
         Sql!MapThenFoldSet, Groups18
<1>4. ASSUME NEW G PROVE Sql!Top(Sql!Rename(G, "o_orderdate", "o_orderdat"), LAMBDA r :
               <<-r.o_totalprice, r.o_orderdat>>, Cut[100]) = Answer18(G)
  BY SMT DEF Top, Sql!Top, Sorted, Sql!Sorted, Before, Sql!Before, Cardinality, Sql!Cardinality,
         Rename, Sql!Rename, Joined, Sql!Joined, On, Sql!On, Answer18
<1>5. SqlRows18(d) = {r \in d.customer \otimes d.orders \otimes d.lineitem :
                /\ r.o_orderkey \in SqlLarge18(d)
                /\ r.c_custkey = r.o_custkey
                /\ r.o_orderkey = r.l_orderkey}
  BY Zenon DEF SqlRows18
<1> QED BY <1>1, <1>2, <1>3, <1>4, <1>5, Zenon DEF Sql!Q18, Columns18

\* q18 of polars.
LEMMA Polars18 ==
  ASSUME NEW d
  PROVE  Polars!Q18(d) = Answer18(Rename(Groups18(OrdersJoined18(d, PolarsLarge18(d)),
           FrameColumns18), "o_custkey", "c_custkey"))
<1> DEFINE O == PolarsLarge18(d)
           R == OrdersJoined18(d, O)
           C == {"c_name", "o_custkey", "o_orderkey", "o_orderdate", "o_totalprice"}
           G == Groups18(R, C)
<1>1. {o \in Polars!GroupBy(d.lineitem, {"l_orderkey"}, LAMBDA g :
        [sum_quantity |-> Polars!Total(g, Polars!Quantity)]) : o.sum_quantity > 300}
        = Big18(d)
  BY SMT DEF GroupBy, Polars!GroupBy, Project, Polars!Project, On, Polars!On, Joined,
         Polars!Joined, Quantity, Polars!Quantity, Total, Polars!Total, SumFunction,
         Polars!SumFunction, SumFunctionOnSet, Polars!SumFunctionOnSet, FoldFunctionOnSet,
         Polars!FoldFunctionOnSet, MapThenFoldSet, Polars!MapThenFoldSet, Big18, Sums18
<1>2. Polars!SemiMerge(d.orders, Big18(d), <<"o_orderkey">>, <<"l_orderkey">>) = O
  BY SMT DEF SemiMerge, Polars!SemiMerge, Merge, Polars!Merge, Match, Polars!Match, Joined,
         Polars!Joined, Project, Polars!Project, On, Polars!On, PolarsLarge18, MergeOn
<1> HIDE DEF O
<1>3. Polars!Merge(Polars!Merge(O, d.lineitem, <<"o_orderkey">>, <<"l_orderkey">>), d.customer,
        <<"o_custkey">>, <<"c_custkey">>) = R
  BY SMT DEF Merge, Polars!Merge, Match, Polars!Match, Joined, Polars!Joined, OrdersJoined18,
         MergeOn
<1> HIDE DEF R
<1>4. Polars!GroupBy(R, C, LAMBDA g : [col6 |-> Polars!Total(g, Polars!Quantity)]) = G
  BY SMT DEF GroupBy, Polars!GroupBy, Project, Polars!Project, On, Polars!On, Joined,
         Polars!Joined, Quantity, Polars!Quantity, Total, Polars!Total, SumFunction,
         Polars!SumFunction, SumFunctionOnSet, Polars!SumFunctionOnSet, FoldFunctionOnSet,
         Polars!FoldFunctionOnSet, MapThenFoldSet, Polars!MapThenFoldSet, Groups18
<1> HIDE DEF G
<1>5. Polars!Rename(G, "o_custkey", "c_custkey") = Rename(G, "o_custkey", "c_custkey")
  BY SMT DEF Rename, Polars!Rename, Joined, Polars!Joined, On, Polars!On
<1>6. ASSUME NEW H PROVE Polars!Top(Polars!Rename(H, "o_orderdate", "o_orderdat"), LAMBDA r :
               <<-r.o_totalprice, r.o_orderdat>>, Cut[100]) = Answer18(H)
  BY SMT DEF Top, Polars!Top, Sorted, Polars!Sorted, Before, Polars!Before, Alpha, Polars!Alpha,
         Cardinality, Polars!Cardinality, Rename, Polars!Rename, Joined, Polars!Joined, On,
         Polars!On, Answer18
<1>7. Polars!Top(Polars!Rename(Polars!Rename(G, "o_custkey", "c_custkey"), "o_orderdate",
        "o_orderdat"), LAMBDA r : <<-r.o_totalprice, r.o_orderdat>>, Cut[100])
        = Answer18(Rename(G, "o_custkey", "c_custkey"))
  BY <1>5, <1>6, Zenon
<1>8. Polars!Q18(d) = Answer18(Rename(G, "o_custkey", "c_custkey"))
  BY <1>1, <1>2, <1>3, <1>4, <1>7, Zenon DEF Polars!Q18
<1> QED BY <1>8, Zenon DEF FrameColumns18, G, R, O

\* q18 of pandas.
LEMMA Pandas18 ==
  ASSUME NEW d
  PROVE  Pandas!Q18(d) = Answer18(Rename(Groups18(OrdersJoined18(d, PandasLarge18(d)),
           FrameColumns18), "o_custkey", "c_custkey"))
<1> DEFINE O == PandasLarge18(d)
           R == OrdersJoined18(d, O)
           C == {"c_name", "o_custkey", "o_orderkey", "o_orderdate", "o_totalprice"}
           G == Groups18(R, C)
<1>1. {o \in Pandas!GroupBy(d.lineitem, {"l_orderkey"}, LAMBDA g :
        [sum_quantity |-> Pandas!Total(g, Pandas!Quantity)]) : o.sum_quantity > 300}
        = Big18(d)
  BY SMT DEF GroupBy, Pandas!GroupBy, Project, Pandas!Project, On, Pandas!On, Joined,
         Pandas!Joined, Quantity, Pandas!Quantity, Total, Pandas!Total, SumFunction,
         Pandas!SumFunction, SumFunctionOnSet, Pandas!SumFunctionOnSet, FoldFunctionOnSet,
         Pandas!FoldFunctionOnSet, MapThenFoldSet, Pandas!MapThenFoldSet, Big18, Sums18
<1>2. Pandas!Merge(d.orders, Pandas!Project(Big18(d), {"l_orderkey"}), <<"o_orderkey">>,
        <<"l_orderkey">>) = O
  BY SMT DEF SemiMerge, Pandas!SemiMerge, Merge, Pandas!Merge, Match, Pandas!Match, Joined,
         Pandas!Joined, Project, Pandas!Project, On, Pandas!On, PandasLarge18, MergeOn
<1> HIDE DEF O
<1>3. Pandas!Merge(Pandas!Merge(O, d.lineitem, <<"o_orderkey">>, <<"l_orderkey">>), d.customer,
        <<"o_custkey">>, <<"c_custkey">>) = R
  BY SMT DEF Merge, Pandas!Merge, Match, Pandas!Match, Joined, Pandas!Joined, OrdersJoined18,
         MergeOn
<1> HIDE DEF R
<1>4. Pandas!GroupBy(R, C, LAMBDA g : [col6 |-> Pandas!Total(g, Pandas!Quantity)]) = G
  BY SMT DEF GroupBy, Pandas!GroupBy, Project, Pandas!Project, On, Pandas!On, Joined,
         Pandas!Joined, Quantity, Pandas!Quantity, Total, Pandas!Total, SumFunction,
         Pandas!SumFunction, SumFunctionOnSet, Pandas!SumFunctionOnSet, FoldFunctionOnSet,
         Pandas!FoldFunctionOnSet, MapThenFoldSet, Pandas!MapThenFoldSet, Groups18
<1> HIDE DEF G
<1>5. Pandas!Rename(G, "o_custkey", "c_custkey") = Rename(G, "o_custkey", "c_custkey")
  BY SMT DEF Rename, Pandas!Rename, Joined, Pandas!Joined, On, Pandas!On
<1>6. ASSUME NEW H PROVE Pandas!Top(Pandas!Rename(H, "o_orderdate", "o_orderdat"), LAMBDA r :
               <<-r.o_totalprice, r.o_orderdat>>, Cut[100]) = Answer18(H)
  BY SMT DEF Top, Pandas!Top, Sorted, Pandas!Sorted, Before, Pandas!Before, Alpha, Pandas!Alpha,
         Cardinality, Pandas!Cardinality, Rename, Pandas!Rename, Joined, Pandas!Joined, On,
         Pandas!On, Answer18
<1>7. Pandas!Top(Pandas!Rename(Pandas!Rename(G, "o_custkey", "c_custkey"), "o_orderdate",
        "o_orderdat"), LAMBDA r : <<-r.o_totalprice, r.o_orderdat>>, Cut[100])
        = Answer18(Rename(G, "o_custkey", "c_custkey"))
  BY <1>5, <1>6, Zenon
<1>8. Pandas!Q18(d) = Answer18(Rename(G, "o_custkey", "c_custkey"))
  BY <1>1, <1>2, <1>3, <1>4, <1>7, Zenon DEF Pandas!Q18
<1> QED BY <1>8, Zenon DEF FrameColumns18, G, R, O

(* The orders of the lineitems with a large sum, in each form.             *)
SumOf18(d, k) == Total({l \in d.lineitem : On(l, {"l_orderkey"}) = k}, Quantity)

Over300(n) == n > 300

IsLarge18(d, v) == \E k \in Project(d.lineitem, {"l_orderkey"}) : k["l_orderkey"] = v
  /\ Over300(SumOf18(d, k))

\* The sums of the quantities of each order.
LEMMA InSums18 ==
  ASSUME NEW d, NEW x
  PROVE  /\ x \in Sums18(d) <=> \E k \in Project(d.lineitem, {"l_orderkey"}) : x = Joined(k, [sum_quantity |-> SumOf18(d, k)])
         /\ x \in SqlSums18(d) <=> \E k \in Project(d.lineitem, {"l_orderkey"}) : x
              = Joined(k, [sum |-> SumOf18(d, k)])
BY Zenon DEF Sums18, SqlSums18, GroupBy, SumOf18

\* The large orders, by their sums.
LEMMA LargeKeys18 ==
  ASSUME NEW d, NEW v
  PROVE  /\ (\E o \in Big18(d) : o["l_orderkey"] = v) <=> IsLarge18(d, v)
         /\ v \in SqlLarge18(d) <=> IsLarge18(d, v)
         /\ \A o \in Big18(d) : "l_orderkey" \in DOMAIN o
<1>1. ASSUME NEW k \in Project(d.lineitem, {"l_orderkey"}), NEW n
      PROVE  /\ Joined(k, [sum_quantity |-> n])["l_orderkey"] = k["l_orderkey"]
             /\ Joined(k, [sum_quantity |-> n])["sum_quantity"] = n
             /\ Joined(k, [sum |-> n])["l_orderkey"] = k["l_orderkey"]
             /\ Joined(k, [sum |-> n])["sum"] = n
             /\ "l_orderkey" \in DOMAIN Joined(k, [sum_quantity |-> n])
  BY DEF Project, On, Joined
<1>2. \A o : o \in Big18(d) <=> o \in Sums18(d) /\ Over300(o.sum_quantity)
  BY DEF Big18, Over300
<1>3. v \in SqlLarge18(d) <=> \E s \in SqlSums18(d) : Over300(s.sum) /\ v = s.l_orderkey
  BY DEF SqlLarge18, Over300
<1>4. (\E o \in Big18(d) : o["l_orderkey"] = v) <=> IsLarge18(d, v)
  <2>1. ASSUME NEW o \in Big18(d), o["l_orderkey"] = v PROVE IsLarge18(d, v)
    <3>1. PICK k \in Project(d.lineitem, {"l_orderkey"}) : o
            = Joined(k, [sum_quantity |-> SumOf18(d, k)])
      BY <1>2, InSums18
    <3> QED BY <3>1, <2>1, <1>1, <1>2 DEF IsLarge18
  <2>2. ASSUME IsLarge18(d, v) PROVE \E o \in Big18(d) : o["l_orderkey"] = v
    <3>1. PICK k \in Project(d.lineitem, {"l_orderkey"}) : k["l_orderkey"] = v
            /\ Over300(SumOf18(d, k))
      BY <2>2 DEF IsLarge18
    <3>2. Joined(k, [sum_quantity |-> SumOf18(d, k)]) \in Sums18(d)
      BY InSums18
    <3> DEFINE o == Joined(k, [sum_quantity |-> SumOf18(d, k)])
    <3>3. o["l_orderkey"] = k["l_orderkey"] /\ o["sum_quantity"] = SumOf18(d, k)
      BY <1>1
    <3> HIDE DEF o
    <3> QED BY <3>1, <3>2, <3>3, <1>2 DEF o
  <2> QED BY <2>1, <2>2
<1>5. v \in SqlLarge18(d) <=> IsLarge18(d, v)
  <2>1. ASSUME NEW o \in SqlSums18(d), Over300(o.sum), v = o.l_orderkey PROVE IsLarge18(d, v)
    <3>1. PICK k \in Project(d.lineitem, {"l_orderkey"}) : o = Joined(k, [sum |-> SumOf18(d, k)])
      BY InSums18
    <3> QED BY <3>1, <2>1, <1>1 DEF IsLarge18
  <2>2. ASSUME IsLarge18(d, v) PROVE \E o \in SqlSums18(d) : Over300(o.sum) /\ v = o.l_orderkey
    <3>1. PICK k \in Project(d.lineitem, {"l_orderkey"}) : k["l_orderkey"] = v
            /\ Over300(SumOf18(d, k))
      BY <2>2 DEF IsLarge18
    <3>2. Joined(k, [sum |-> SumOf18(d, k)]) \in SqlSums18(d)
      BY InSums18
    <3> QED BY <3>1, <3>2, <1>1
  <2> QED BY <2>1, <2>2, <1>3
<1>6. ASSUME NEW o \in Big18(d) PROVE "l_orderkey" \in DOMAIN o
  <2>1. PICK k \in Project(d.lineitem, {"l_orderkey"}) : o
          = Joined(k, [sum_quantity |-> SumOf18(d, k)])
    BY <1>2, InSums18
  <2> QED BY <2>1, <1>1
<1> QED BY <1>4, <1>5, <1>6

LargeOrders18(d) == {o \in d.orders : o["o_orderkey"] \in SqlLarge18(d)}

\* The engine's large orders are the orders with such a key.
LEMMA PolarsLarge18Is ==
  ASSUME NEW d
  PROVE  PolarsLarge18(d) = LargeOrders18(d)
<1>1. ASSUME NEW o \in d.orders
      PROVE  (\E r \in Big18(d) : Match(o, r, <<"o_orderkey">>, <<"l_orderkey">>))
               <=> o["o_orderkey"] \in SqlLarge18(d)
  <2>1. \A r : Match(o, r, <<"o_orderkey">>, <<"l_orderkey">>) <=> o["o_orderkey"] = r["l_orderkey"]
    BY MatchOne
  <2> QED BY <2>1, LargeKeys18
<1> QED BY <1>1 DEF PolarsLarge18, LargeOrders18, SemiMerge

(* With the column l_orderkey already in the orders the join is the same.  *)
LEMMA PandasLarge18Is ==
  ASSUME NEW d, Fits(d, Reads[18])
  PROVE  MergeOn(PandasLarge18(d), d.lineitem, "o_orderkey", "l_orderkey")
           = MergeOn(LargeOrders18(d), d.lineitem, "o_orderkey", "l_orderkey")
<1> DEFINE P == PandasLarge18(d)
           L == LargeOrders18(d)
           named(v) == [l_orderkey |-> v]
<1>N. "orders" \in DOMAIN Reads[18] /\ "lineitem" \in DOMAIN Reads[18]
      /\ "o_orderkey" \in Reads[18]["orders"] /\ "l_orderkey" \in Reads[18]["lineitem"]
  BY Reads18
<1>1. ASSUME NEW o \in d.orders
      PROVE  IsFcn(o) /\ "o_orderkey" \in DOMAIN o /\ "l_orderkey" \notin DOMAIN o
  <2>1. "l_orderkey" \notin Columns["orders"]
    BY DEF Columns
  <2> QED BY <1>N, <2>1 DEF Fits
<1>2. ASSUME NEW l \in d.lineitem PROVE "l_orderkey" \in DOMAIN l
  BY <1>N DEF Fits
<1>3. \A p : p \in Project(Big18(d), {"l_orderkey"}) <=> \E v \in SqlLarge18(d) : p = named(v)
  <2>1. \A p : p \in Project(Big18(d), {"l_orderkey"}) <=> \E b \in Big18(d) : p
          = On(b, {"l_orderkey"})
    BY DEF Project
  <2>2. \A b : On(b, {"l_orderkey"}) = named(b["l_orderkey"])
    BY DEF On
  <2>3. \A v : v \in SqlLarge18(d) <=> \E b \in Big18(d) : b["l_orderkey"] = v
    BY LargeKeys18
  <2> HIDE DEF named
  <2> QED BY <2>1, <2>2, <2>3
<1>4. \A v : named(v)["l_orderkey"] = v /\ DOMAIN named(v) = {"l_orderkey"}
  OBVIOUS
<1> HIDE DEF named
<1>5. \A p : p \in P <=> \E o \in L : p = Joined(o, named(o["o_orderkey"]))
  <2>1. \A p : p \in P <=> \E o \in d.orders, n \in Project(Big18(d), {"l_orderkey"}) :
                              Match(o, n, <<"o_orderkey">>, <<"l_orderkey">>) /\ p = Joined(o, n)
    BY InMerge DEF PandasLarge18, MergeOn
  <2>2. \A o, n : Match(o, n, <<"o_orderkey">>, <<"l_orderkey">>) <=> o["o_orderkey"]
          = n["l_orderkey"]
    BY MatchOne
  <2>3. \A o : o \in L <=> o \in d.orders /\ o["o_orderkey"] \in SqlLarge18(d)
    BY DEF LargeOrders18
  <2> HIDE DEF P, L
  <2> QED BY <2>1, <2>2, <2>3, <1>3, <1>4
<1>6. ASSUME NEW o \in d.orders, NEW l \in d.lineitem
      PROVE  LET p == Joined(o, named(o["o_orderkey"]))
             IN  /\ p["o_orderkey"] = o["o_orderkey"]
                 /\ o["o_orderkey"] = l["l_orderkey"] => Joined(p, l) = Joined(o, l)
  <2> DEFINE p == Joined(o, named(o["o_orderkey"]))
  <2>1. /\ IsFcn(p) /\ DOMAIN p = DOMAIN o \cup {"l_orderkey"}
        /\ p["l_orderkey"] = o["o_orderkey"] /\ \A c \in DOMAIN o : p[c] = o[c]
    BY <1>1, <1>4 DEF Joined, IsFcn
  <2> HIDE DEF p
  <2>2. ASSUME o["o_orderkey"] = l["l_orderkey"] PROVE Joined(p, l) = Joined(o, l)
    <3>1. DOMAIN Joined(p, l) = DOMAIN Joined(o, l)
      BY <1>2, <2>1 DEF Joined
    <3>2. ASSUME NEW c \in DOMAIN Joined(o, l) PROVE Joined(p, l)[c] = Joined(o, l)[c]
      <4>1. c \in DOMAIN o \cup DOMAIN l
        BY DEF Joined
      <4>2. CASE c \in DOMAIN o
        BY <4>1, <4>2, <2>1 DEF Joined
      <4>3. CASE c \notin DOMAIN o /\ c = "l_orderkey"
        BY <4>1, <4>3, <2>1, <2>2, <1>1, <1>2 DEF Joined
      <4>4. CASE c \notin DOMAIN o /\ c # "l_orderkey"
        BY <4>1, <4>4, <2>1 DEF Joined
      <4> QED BY <4>2, <4>3, <4>4
    <3>3. IsFcn(Joined(p, l)) /\ IsFcn(Joined(o, l))
      BY JoinedIs
    <3> QED BY <3>1, <3>2, <3>3, SameFcn
  <2>3. p["o_orderkey"] = o["o_orderkey"]
    BY <1>1, <2>1
  <2> QED BY <2>2, <2>3 DEF p
<1>7. ASSUME NEW x
      PROVE  x \in MergeOn(P, d.lineitem, "o_orderkey", "l_orderkey")
               <=> x \in MergeOn(L, d.lineitem, "o_orderkey", "l_orderkey")
  <2>1. \A R : x \in MergeOn(R, d.lineitem, "o_orderkey", "l_orderkey")
                 <=> \E o \in R, l \in d.lineitem : o["o_orderkey"] = l["l_orderkey"] /\ x
                   = Joined(o, l)
    <3>1. \A o, l : Match(o, l, <<"o_orderkey">>, <<"l_orderkey">>) <=> o["o_orderkey"]
            = l["l_orderkey"]
      BY MatchOne
    <3> QED BY <3>1, InMerge DEF MergeOn
  <2>2. \A o \in L : o \in d.orders
    BY DEF LargeOrders18
  <2> HIDE DEF P, L
  <2> QED BY <2>1, <2>2, <1>5, <1>6
<1> HIDE DEF P, L
<1>8. MergeOn(P, d.lineitem, "o_orderkey", "l_orderkey")
        = MergeOn(L, d.lineitem, "o_orderkey", "l_orderkey")
  BY <1>7
<1> QED BY <1>8 DEF P, L

Rows18(d) == {r \in Frame18(d) : r["o_orderkey"] \in SqlLarge18(d)}

\* Joining the large orders with the tables gives the wanted rows.
LEMMA JoinedRows18 ==
  ASSUME NEW d, Fits(d, Reads[18])
  PROVE  OrdersJoined18(d, LargeOrders18(d)) = Rows18(d)
<1> DEFINE M == MergeOn(d.orders, d.lineitem, "o_orderkey", "l_orderkey")
<1>1. Has(d.orders, "o_orderkey")
  BY Reads18 DEF Fits, Has
<1>2. Has(M, "o_orderkey")
  <2>1. \A x : x \in M <=> \E o \in d.orders, l \in d.lineitem :
          Match(o, l, <<"o_orderkey">>, <<"l_orderkey">>) /\ x = Joined(o, l)
    BY InMerge DEF MergeOn
  <2>2. ASSUME NEW o \in d.orders, NEW l PROVE "o_orderkey" \in DOMAIN Joined(o, l)
    BY <1>1 DEF Has, Joined
  <2> HIDE DEF M
  <2> QED BY <2>1, <2>2 DEF Has
<1>3. MergeOn(LargeOrders18(d), d.lineitem, "o_orderkey", "l_orderkey")
        = {x \in M : x["o_orderkey"] \in SqlLarge18(d)}
  <2>1. MergeOn({o \in d.orders : o["o_orderkey"] \in SqlLarge18(d)}, d.lineitem, "o_orderkey",
          "l_orderkey")
          = {x \in MergeOn(d.orders, d.lineitem, "o_orderkey", "l_orderkey") :
            x["o_orderkey"] \in SqlLarge18(d)}
    <3> DEFINE T == d.orders
               V == SqlLarge18(d)
               U == d.lineitem
    <3>1. Has(T, "o_orderkey")
      BY <1>1
    <3> HIDE DEF T, U, V, M
    <3>2. MergeOn({o \in T : o["o_orderkey"] \in V}, U, "o_orderkey", "l_orderkey")
            = {x \in MergeOn(T, U, "o_orderkey", "l_orderkey") : x["o_orderkey"] \in V}
      BY <3>1, MergeOfChosen
    <3> QED BY <3>2 DEF T, U, V
  <2> QED BY <2>1, Zenon DEF LargeOrders18, M
<1> HIDE DEF M
<1>4. MergeOn({x \in M : x["o_orderkey"] \in SqlLarge18(d)}, d.customer, "o_custkey", "c_custkey")
        = {x \in MergeOn(M, d.customer, "o_custkey", "c_custkey") :
          x["o_orderkey"] \in SqlLarge18(d)}
  BY <1>2, MergeOfChosen
<1> QED BY <1>3, <1>4, Zenon DEF OrdersJoined18, Rows18, Frame18, M

\* The SQL of q18 selects the rows that the data frames filter.
LEMMA Same18 ==
  ASSUME NEW d, Fits(d, Reads[18])
  PROVE  SqlRows18(d) = Rows18(d)
<1> DEFINE N == Reads[18]
<1>1. ASSUME NEW r PROVE r \in SqlRows18(d) <=> r \in Rows18(d)
  <2>1. r \in d.customer \otimes d.orders \otimes d.lineitem <=> Keeps(d, N, r)
    BY Product18
  <2>2. r \in Frame18(d) <=> Keeps(d, N, r) /\ r.o_orderkey = r.l_orderkey /\ r.o_custkey
          = r.c_custkey
    BY InFrame18
  <2> HIDE DEF N
  <2> QED BY <2>1, <2>2 DEF SqlRows18, Rows18
<1> QED BY <1>1

(* The columns of the group are those of SQL under another name.           *)
Agg18(R) == [g \in SUBSET R |-> [col6 |-> Total(g, Quantity)]]

\* The groups of q18.
LEMMA Groups18Are ==
  ASSUME NEW R, NEW C
  PROVE  Groups18(R, C) = Grouped(R, KeyOn(R, C), Agg18(R))
<1> DEFINE agg == Agg18(R)
<1>1. ASSUME NEW j PROVE agg[{r \in R : On(r, C) = j}]
               = [col6 |-> Total({r \in R : On(r, C) = j}, Quantity)]
  <2>1. {r \in R : On(r, C) = j} \in SUBSET R
    OBVIOUS
  <2> QED BY <2>1, Zenon DEF Agg18
<1> HIDE DEF agg
<1>2. ASSUME NEW x PROVE x \in Groups18(R, C) <=> x \in GroupedOn(R, C, agg)
  BY <1>1, Zenon DEF Groups18, GroupBy, GroupedOn
<1>3. Groups18(R, C) = GroupedOn(R, C, agg)
  BY <1>2, Zenon
<1> QED BY <1>3, GroupedOnIs, Zenon DEF agg

\* The data frames group by o_custkey and rename it.
LEMMA Renamed18 ==
  ASSUME NEW R, \A r \in R : r["c_custkey"] = r["o_custkey"]
  PROVE  Rename(Groups18(R, FrameColumns18), "o_custkey", "c_custkey") = Groups18(R, Columns18)
<1> DEFINE K == FrameColumns18
           key == KeyOn(R, K)
           key2 == KeyOn(R, Columns18)
           agg == Agg18(R)
           A == {"col6"}
<1>1. /\ "o_custkey" \in K /\ "c_custkey" \notin K /\ "c_custkey" \notin A /\ "o_custkey" \notin A
  BY DEF FrameColumns18
<1>2. Columns18 = (K \ {"o_custkey"}) \cup {"c_custkey"}
  BY DEF FrameColumns18, Columns18
<1>3. Keyed(R, key, K)
  BY OnIs DEF Keyed, KeyOn
<1>4. Aggregated(R, agg, A)
  BY DEF Aggregated, Agg18
<1> HIDE DEF K, agg, A
<1>5. KeyRenamed(R, key, key2, "o_custkey", "c_custkey")
  <2>1. ASSUME NEW r \in R PROVE On(r, Columns18) = Renamed(On(r, K), "o_custkey", "c_custkey")
    BY <1>1, <1>2 DEF Renamed, Joined, On
  <2> QED BY <2>1 DEF KeyRenamed, KeyOn
<1> HIDE DEF key, key2
<1>6. Rename(Grouped(R, key, agg), "o_custkey", "c_custkey") = Grouped(R, key2, agg)
  BY <1>1, <1>3, <1>4, <1>5, RenamedGroups
<1> QED BY <1>6, Groups18Are, Zenon DEF K, key, key2, agg

\* The three engines answer q18 alike.
LEMMA Answers18 ==
  ASSUME NEW d, Fits(d, Reads[18])
  PROVE  /\ Polars!Q18(d) = Sql!Q18(d)
         /\ Pandas!Q18(d) = Sql!Q18(d)
<1>1. \A r \in Rows18(d) : r["c_custkey"] = r["o_custkey"]
  BY InFrame18 DEF Rows18
<1>2. OrdersJoined18(d, PolarsLarge18(d)) = Rows18(d) /\ OrdersJoined18(d, PandasLarge18(d))
        = Rows18(d)
  <2>1. OrdersJoined18(d, PolarsLarge18(d)) = Rows18(d)
    BY PolarsLarge18Is, JoinedRows18
  <2>2. OrdersJoined18(d, PandasLarge18(d)) = OrdersJoined18(d, LargeOrders18(d))
    BY PandasLarge18Is, Zenon DEF OrdersJoined18
  <2> QED BY <2>1, <2>2, JoinedRows18
<1>3. Rename(Groups18(Rows18(d), FrameColumns18), "o_custkey", "c_custkey")
        = Groups18(Rows18(d), Columns18)
  BY <1>1, Renamed18
<1> QED BY <1>2, <1>3, Same18, Sql18, Polars18, Pandas18

-----------------------------------------------------------------------------
(* q15: the supplier with the most revenue.                                *)

Lines15(d) == {r \in d.lineitem : r.l_shipdate >= 19960101 /\ r.l_shipdate < 19960401}

Totals15(d) == GroupBy(Lines15(d), {"l_suppkey"}, LAMBDA g : [total_revenue |-> Total(g, Revenue)])

Selected15(G) == Select(G, [supplier_no |-> "l_suppkey", total_revenue |-> "total_revenue"])

Renamed15(G) == Rename(G, "l_suppkey", "supplier_no")

MaxOf15(V) == Max({v.total_revenue : v \in V})

Joined15(d, V) == MergeOn(d.supplier, V, "s_suppkey", "supplier_no")

Best15(J, m) == {r \in J : r.total_revenue = m}

SqlBest15(d, V) == {r \in d.supplier \otimes V : r.s_suppkey = r.supplier_no /\ r.total_revenue
  = MaxOf15(V)}

Answer15(B) == Sorted(Project(B, {"s_suppkey", "s_name", "total_revenue"}), LAMBDA r :
  <<r.s_suppkey>>)

\* q15 of duckdb.
LEMMA Sql15 ==
  ASSUME NEW d
  PROVE  Sql!Q15(d) = Answer15(SqlBest15(d, Selected15(Totals15(d))))
BY SMTT(60) DEF Sorted, Sql!Sorted, Before, Sql!Before, Alpha, Sql!Alpha, Cardinality,
       Sql!Cardinality, GroupBy, Sql!GroupBy, Project, Sql!Project, On, Sql!On, Joined, Sql!Joined,
       Revenue, Sql!Revenue, Total, Sql!Total, SumFunction, Sql!SumFunction, SumFunctionOnSet,
       Sql!SumFunctionOnSet, FoldFunctionOnSet, Sql!FoldFunctionOnSet, MapThenFoldSet,
       Sql!MapThenFoldSet, Cross, Sql!Cross, Max, Sql!Max, Select, Sql!Select, \otimes,
       Sql!\otimes, Answer15, SqlBest15, MaxOf15,
      Selected15, Totals15, Lines15, Sql!Q15

\* q15 of polars.
LEMMA Polars15 ==
  ASSUME NEW d
  PROVE  LET J == Joined15(d, Selected15(Totals15(d))) IN Polars!Q15(d)
               = Answer15(Best15(J, MaxOf15(J)))
BY SMTT(60) DEF Sorted, Polars!Sorted, Before, Polars!Before, Alpha, Polars!Alpha, Cardinality,
       Polars!Cardinality, GroupBy, Polars!GroupBy, Project, Polars!Project, On, Polars!On, Joined,
       Polars!Joined, Revenue, Polars!Revenue, Total, Polars!Total, SumFunction,
       Polars!SumFunction, SumFunctionOnSet, Polars!SumFunctionOnSet, FoldFunctionOnSet,
       Polars!FoldFunctionOnSet, MapThenFoldSet, Polars!MapThenFoldSet, Merge, Polars!Merge, Match,
       Polars!Match, Max, Polars!Max, Select, Polars!Select, Answer15, Best15, MaxOf15, Joined15,
       MergeOn,
      Selected15, Totals15, Lines15, Polars!Q15, Polars!ClosedLeft

\* q15 of pandas.
LEMMA Pandas15 ==
  ASSUME NEW d
  PROVE  LET V == Renamed15(Totals15(d)) IN Pandas!Q15(d)
               = Answer15(Best15(Joined15(d, V), MaxOf15(V)))
BY SMTT(60) DEF Sorted, Pandas!Sorted, Before, Pandas!Before, Alpha, Pandas!Alpha, Cardinality,
       Pandas!Cardinality, GroupBy, Pandas!GroupBy, Project, Pandas!Project, On, Pandas!On, Joined,
       Pandas!Joined, Revenue, Pandas!Revenue, Total, Pandas!Total, SumFunction,
       Pandas!SumFunction, SumFunctionOnSet, Pandas!SumFunctionOnSet, FoldFunctionOnSet,
       Pandas!FoldFunctionOnSet, MapThenFoldSet, Pandas!MapThenFoldSet, Merge, Pandas!Merge, Match,
       Pandas!Match, Max, Pandas!Max, Rename, Pandas!Rename, Answer15, Best15, MaxOf15, Joined15,
       MergeOn,
      Renamed15, Totals15, Lines15, Pandas!Q15

RevenueOf15(d, k) == Total({l \in Lines15(d) : On(l, {"l_suppkey"}) = k}, Revenue)

Supplied15(k, n) == [supplier_no |-> k["l_suppkey"], total_revenue |-> n]

(* Both ways to name the column give the same rows.                        *)
LEMMA InTotals15 ==
  ASSUME NEW d, NEW x
  PROVE  /\ x \in Selected15(Totals15(d)) <=> \E k \in Project(Lines15(d), {"l_suppkey"}) : x = Supplied15(k, RevenueOf15(d, k))
         /\ x \in Renamed15(Totals15(d)) <=> \E k \in Project(Lines15(d), {"l_suppkey"}) : x
              = Supplied15(k, RevenueOf15(d, k))
<1> DEFINE as == [supplier_no |-> "l_suppkey", total_revenue |-> "total_revenue"]
           row(k) == Joined(k, [total_revenue |-> RevenueOf15(d, k)])
           sel(r) == [c \in DOMAIN as |-> r[as[c]]]
           ren(r) == Joined([c \in {"supplier_no"} |-> r["l_suppkey"]],
             On(r, DOMAIN r \ {"l_suppkey"}))
<1>1. \A y : y \in Totals15(d) <=> \E k \in Project(Lines15(d), {"l_suppkey"}) : y = row(k)
  BY Zenon DEF Totals15, GroupBy, RevenueOf15
<1>2. ASSUME NEW k \in Project(Lines15(d), {"l_suppkey"})
      PROVE  /\ IsFcn(row(k)) /\ DOMAIN row(k) = {"l_suppkey", "total_revenue"}
             /\ row(k)["l_suppkey"] = k["l_suppkey"] /\ row(k)["total_revenue"] = RevenueOf15(d, k)
  <2>1. DOMAIN k = {"l_suppkey"}
    BY DEF Project, On
  <2> QED BY <2>1 DEF Joined, IsFcn
<1> HIDE DEF row
<1>3. ASSUME NEW k \in Project(Lines15(d), {"l_suppkey"})
      PROVE  sel(row(k)) = Supplied15(k, RevenueOf15(d, k)) /\ ren(row(k))
               = Supplied15(k, RevenueOf15(d, k))
  <2> DEFINE r == row(k)
             n == RevenueOf15(d, k)
  <2>1. /\ IsFcn(r) /\ DOMAIN r = {"l_suppkey", "total_revenue"}
        /\ r["l_suppkey"] = k["l_suppkey"] /\ r["total_revenue"] = n
    BY <1>2
  <2> HIDE DEF r, n
  <2>2. sel(r) = Supplied15(k, n)
    BY <2>1 DEF Supplied15
  <2>3. ren(r) = Supplied15(k, n)
    <3>1. DOMAIN ren(r) = {"supplier_no", "total_revenue"}
      BY <2>1 DEF Joined, On
    <3>2. ren(r)["supplier_no"] = k["l_suppkey"] /\ ren(r)["total_revenue"] = n
      BY <2>1 DEF Joined, On
    <3>3. IsFcn(ren(r))
      BY JoinedIs
    <3>4. IsFcn(Supplied15(k, n)) /\ DOMAIN Supplied15(k, n) = {"supplier_no", "total_revenue"}
          /\ Supplied15(k, n)["supplier_no"] = k["l_suppkey"] /\ Supplied15(k, n)["total_revenue"]
               = n
      BY DEF Supplied15, IsFcn
    <3> HIDE DEF ren
    <3> QED BY <3>1, <3>2, <3>3, <3>4, SameFcn
  <2> QED BY <2>2, <2>3 DEF r, n
<1>4. \A y : y \in Selected15(Totals15(d)) <=> \E r \in Totals15(d) : y = sel(r)
  BY DEF Selected15, Select
<1>5. \A y : y \in Renamed15(Totals15(d)) <=> \E r \in Totals15(d) : y = ren(r)
  BY DEF Renamed15, Rename
<1> HIDE DEF sel, ren
<1> QED BY <1>1, <1>3, <1>4, <1>5

(* Every lineitem has its supplier.                                        *)
HasSupplier(d) == \A l \in d.lineitem : \E s \in d.supplier : s["s_suppkey"] = l["l_suppkey"]

\* The SQL's product with a condition is the frames' join.
LEMMA Joined15Is ==
  ASSUME NEW d, Fits(d, Reads[15]), NEW x
  PROVE  /\ x \in Joined15(d, Selected15(Totals15(d))) <=>
                x \in d.supplier \otimes Selected15(Totals15(d)) /\ x["s_suppkey"]
                  = x["supplier_no"]
         /\ x \in Joined15(d, Selected15(Totals15(d))) =>
                \E s \in d.supplier, v \in Selected15(Totals15(d)) :
                    x = Joined(s, v) /\ x["total_revenue"] = v["total_revenue"]
<1> DEFINE V == Selected15(Totals15(d))
<1>1. ASSUME NEW s \in d.supplier
      PROVE  "s_suppkey" \in DOMAIN s /\ "supplier_no" \notin DOMAIN s
               /\ "total_revenue" \notin DOMAIN s
  <2>1. "supplier" \in DOMAIN Reads[15] /\ "s_suppkey" \in Reads[15]["supplier"]
    BY DEF Reads
  <2>2. "supplier_no" \notin Columns["supplier"] /\ "total_revenue" \notin Columns["supplier"]
    BY DEF Columns
  <2> QED BY <2>1, <2>2 DEF Fits
<1>2. ASSUME NEW v \in V PROVE "supplier_no" \in DOMAIN v /\ "total_revenue" \in DOMAIN v
  BY InTotals15 DEF Supplied15
<1> HIDE DEF V
<1>3. ASSUME NEW s \in d.supplier, NEW v \in V
      PROVE  /\ Joined(s, v)["s_suppkey"] = s["s_suppkey"] /\ Joined(s, v)["supplier_no"] = v["supplier_no"]
             /\ Joined(s, v)["total_revenue"] = v["total_revenue"]
             /\ Match(s, v, <<"s_suppkey">>, <<"supplier_no">>) <=> s["s_suppkey"]
                  = v["supplier_no"]
  <2>1. Match(s, v, <<"s_suppkey">>, <<"supplier_no">>) <=> s["s_suppkey"] = v["supplier_no"]
    BY MatchOne
  <2> QED BY <1>1, <1>2, <2>1, JoinedLeft, JoinedRight
<1>4. x \in Joined15(d, V) <=> \E s \in d.supplier, v \in V :
        Match(s, v, <<"s_suppkey">>, <<"supplier_no">>) /\ x = Joined(s, v)
  BY InMerge DEF Joined15, MergeOn
<1>5. x \in d.supplier \otimes V <=> \E s \in d.supplier, v \in V : x = Joined(s, v)
  BY InCross
<1>6. x \in Joined15(d, V) <=> x \in d.supplier \otimes V /\ x["s_suppkey"] = x["supplier_no"]
  BY <1>3, <1>4, <1>5
<1>7. x \in Joined15(d, V) => \E s \in d.supplier, v \in V : x = Joined(s, v) /\ x["total_revenue"]
        = v["total_revenue"]
  BY <1>3, <1>4
<1> QED BY <1>6, <1>7 DEF V

\* A supplier's total survives the join, so that the maximum may be taken
\* before it or after it.
LEMMA SameMax15 ==
  ASSUME NEW d, Fits(d, Reads[15]), HasSupplier(d)
  PROVE  LET V == Selected15(Totals15(d)) IN MaxOf15(Joined15(d, V)) = MaxOf15(V)
<1> DEFINE V == Selected15(Totals15(d))
           J == Joined15(d, V)
<1>1. \A x \in J : \E v \in V : x["total_revenue"] = v["total_revenue"]
  BY Joined15Is
<1>2. ASSUME NEW v \in V PROVE \E x \in J : x["total_revenue"] = v["total_revenue"]
  <2>1. PICK k \in Project(Lines15(d), {"l_suppkey"}) : v = Supplied15(k, RevenueOf15(d, k))
    BY InTotals15
  <2>2. PICK l \in d.lineitem : k = On(l, {"l_suppkey"})
    BY DEF Project, Lines15
  <2>3. v["supplier_no"] = l["l_suppkey"] /\ "total_revenue" \in DOMAIN v
    BY <2>1, <2>2 DEF Supplied15, On
  <2>4. PICK s \in d.supplier : s["s_suppkey"] = l["l_suppkey"]
    BY DEF HasSupplier
  <2>5. Match(s, v, <<"s_suppkey">>, <<"supplier_no">>)
    BY <2>3, <2>4, MatchOne
  <2> HIDE DEF V
  <2>6. Joined(s, v) \in J
    BY <2>5, InMerge DEF Joined15, MergeOn
  <2>7. "total_revenue" \notin DOMAIN s
    <3>1. "supplier" \in DOMAIN Reads[15] /\ "total_revenue" \notin Columns["supplier"]
      BY DEF Reads, Columns
    <3> QED BY <3>1 DEF Fits
  <2> QED BY <2>3, <2>6, <2>7, JoinedRight
<1> HIDE DEF V, J
<1>3. {x.total_revenue : x \in J} = {v.total_revenue : v \in V}
  BY <1>1, <1>2
<1> QED BY <1>3, Zenon DEF MaxOf15, J, V

\* The three engines answer q15 alike.
LEMMA Answers15 ==
  ASSUME NEW d, Fits(d, Reads[15]), HasSupplier(d)
  PROVE  /\ Polars!Q15(d) = Sql!Q15(d)
         /\ Pandas!Q15(d) = Sql!Q15(d)
<1> DEFINE V == Selected15(Totals15(d))
           J == Joined15(d, V)
           W == Renamed15(Totals15(d))
<1>1. V = W
  <2>1. \A x : x \in V <=> x \in W
    BY InTotals15
  <2> HIDE DEF V, W
  <2> QED BY <2>1
<1>2. MaxOf15(J) = MaxOf15(V)
  BY SameMax15
<1>3. \A x : x \in J <=> x \in d.supplier \otimes V /\ x["s_suppkey"] = x["supplier_no"]
  BY Joined15Is
<1>4. Polars!Q15(d) = Answer15(Best15(J, MaxOf15(J)))
  BY Polars15
<1>5. Pandas!Q15(d) = Answer15(Best15(Joined15(d, W), MaxOf15(W)))
  BY Pandas15
<1>6. Sql!Q15(d) = Answer15(SqlBest15(d, V))
  BY Sql15
<1> HIDE DEF V, W
<1>7. Pandas!Q15(d) = Answer15(Best15(J, MaxOf15(V)))
  BY <1>1, <1>5
<1> HIDE DEF J
<1>8. SqlBest15(d, V) = Best15(J, MaxOf15(V))
  BY <1>3 DEF SqlBest15, Best15
<1> QED BY <1>2, <1>4, <1>6, <1>7, <1>8

-----------------------------------------------------------------------------
(* q20: the suppliers with an excess of forest parts.                      *)

Shipped20(d) == {l \in d.lineitem : l.l_shipdate >= 19940101 /\ l.l_shipdate < 19950101}

ShippedOf20(d, ps) ==
    {l \in d.lineitem : /\ l.l_partkey = ps.ps_partkey
                        /\ l.l_suppkey = ps.ps_suppkey
                        /\ l.l_shipdate >= 19940101
                        /\ l.l_shipdate < 19950101}

Forest20(d) == {p \in d.part : StartsWith(p.p_name, <<"forest">>)}

Canada20(d) == {n \in d.nation : n.n_name = "CANADA"}

SqlExcess20(d) ==
    {ps \in d.partsupp : /\ ps.ps_partkey \in {p.p_partkey : p \in Forest20(d)}
                         /\ ShippedOf20(d, ps) # {}
                         /\ 2 * ps.ps_availqty > Total(ShippedOf20(d, ps), Quantity)}

SqlRows20(d) ==
    {r \in d.supplier \otimes d.nation : /\ r.s_suppkey \in {ps.ps_suppkey : ps \in SqlExcess20(d)}
                                         /\ r.s_nationkey = r.n_nationkey
                                         /\ r.n_name = "CANADA"}

Sums20(d) == GroupBy(Shipped20(d), {"l_partkey", "l_suppkey"},
                     LAMBDA g : [sum_quantity |-> <<Total(g, Quantity), 2>>])

Offers20(d) == MergeOn(Project(Forest20(d), {"p_partkey"}), d.partsupp, "p_partkey", "ps_partkey")

Counted20(d) == MergeOnTwo(Offers20(d), Sums20(d), "ps_suppkey", "l_suppkey", "p_partkey",
  "l_partkey")

Excess20(d) == {r \in Counted20(d) : r.ps_availqty * r.sum_quantity[2] > r.sum_quantity[1]}

Suppliers20(d) == Project(Excess20(d), {"ps_suppkey"})

PolarsRows20(d) == MergeOn(Suppliers20(d),
  MergeOn(d.supplier, Canada20(d), "s_nationkey", "n_nationkey"),
                           "ps_suppkey", "s_suppkey")

PandasRows20(d) == MergeOn(MergeOn(Suppliers20(d), d.supplier, "ps_suppkey", "s_suppkey"),
  Canada20(d),
                           "s_nationkey", "n_nationkey")

Answer20(R) == Sorted(Project(R, {"s_name"}), LAMBDA r : <<Alpha(r.s_name)>>)

\* q20 of duckdb.
LEMMA Sql20 ==
  ASSUME NEW d
  PROVE  Sql!Q20(d) = Answer20(SqlRows20(d))
BY SMTT(60) DEF Sorted, Sql!Sorted, Before, Sql!Before, Alpha, Sql!Alpha, Cardinality,
       Sql!Cardinality, Project, Sql!Project, On, Sql!On, Quantity, Sql!Quantity, Total, Sql!Total,
       SumFunction, Sql!SumFunction, SumFunctionOnSet, Sql!SumFunctionOnSet, FoldFunctionOnSet,
       Sql!FoldFunctionOnSet, MapThenFoldSet, Sql!MapThenFoldSet, Cross, Sql!Cross, Joined,
       Sql!Joined, StartsWith, Sql!StartsWith, IsPrefix, Sql!IsPrefix, \otimes, Sql!\otimes,
       Answer20, SqlRows20,
      SqlExcess20, Forest20, ShippedOf20, Sql!Q20

\* q20 of polars.
LEMMA Polars20 ==
  ASSUME NEW d
  PROVE  Polars!Q20(d) = Answer20(PolarsRows20(d))
BY SMTT(60) DEF Sorted, Polars!Sorted, Before, Polars!Before, Alpha, Polars!Alpha, Cardinality,
       Polars!Cardinality, GroupBy, Polars!GroupBy, Project, Polars!Project, On, Polars!On, Joined,
       Polars!Joined, Quantity, Polars!Quantity, Total, Polars!Total, SumFunction,
       Polars!SumFunction, SumFunctionOnSet, Polars!SumFunctionOnSet, FoldFunctionOnSet,
       Polars!FoldFunctionOnSet, MapThenFoldSet, Polars!MapThenFoldSet, Merge, Polars!Merge, Match,
       Polars!Match, StartsWith, Polars!StartsWith, IsPrefix, Polars!IsPrefix, MergeOn, MergeOnTwo,
       Answer20, PolarsRows20,
      Suppliers20, Excess20, Counted20, Offers20, Sums20, Canada20, Forest20, Shipped20,
      Polars!ClosedLeft, Polars!Q20

\* q20 of pandas.
LEMMA Pandas20 ==
  ASSUME NEW d
  PROVE  Pandas!Q20(d) = Answer20(PandasRows20(d))
BY SMTT(60) DEF Sorted, Pandas!Sorted, Before, Pandas!Before, Alpha, Pandas!Alpha, Cardinality,
       Pandas!Cardinality, GroupBy, Pandas!GroupBy, Project, Pandas!Project, On, Pandas!On, Joined,
       Pandas!Joined, Quantity, Pandas!Quantity, Total, Pandas!Total, SumFunction,
       Pandas!SumFunction, SumFunctionOnSet, Pandas!SumFunctionOnSet, FoldFunctionOnSet,
       Pandas!FoldFunctionOnSet, MapThenFoldSet, Pandas!MapThenFoldSet, Merge, Pandas!Merge, Match,
       Pandas!Match, StartsWith, Pandas!StartsWith, IsPrefix, Pandas!IsPrefix, MergeOn, MergeOnTwo,
       Answer20, PandasRows20,
      Suppliers20, Excess20, Counted20, Offers20, Sums20, Canada20, Forest20, Shipped20, Pandas!Q20

(* A supplier of too much of a forest part.                                *)
Offered20(d, ps) ==
    /\ \E p \in Forest20(d) : p["p_partkey"] = ps["ps_partkey"]
    /\ ShippedOf20(d, ps) # {}
    /\ ps["ps_availqty"] * 2 > Total(ShippedOf20(d, ps), Quantity)

Fields20(d) ==
    /\ \A ps \in d.partsupp : /\ {"ps_partkey", "ps_suppkey", "ps_availqty"} \subseteq DOMAIN ps
                              /\ "sum_quantity" \notin DOMAIN ps
    /\ \A s \in d.supplier : /\ {"s_suppkey", "s_nationkey", "s_name"} \subseteq DOMAIN s
                             /\ "n_nationkey" \notin DOMAIN s /\ "n_name" \notin DOMAIN s
                             /\ "ps_suppkey" \notin DOMAIN s
    /\ \A n \in d.nation : {"n_nationkey", "n_name"} \subseteq DOMAIN n

\* The tables have the columns that q20 reads.
LEMMA Fields20Are ==
  ASSUME NEW d, Fits(d, Reads[20])
  PROVE  Fields20(d)
<1>1. /\ {"nation", "supplier", "partsupp"} \subseteq DOMAIN Reads[20]
      /\ Reads[20]["partsupp"] = {"ps_partkey", "ps_suppkey", "ps_availqty"}
      /\ Reads[20]["supplier"] = {"s_suppkey", "s_nationkey", "s_name"}
      /\ Reads[20]["nation"] = {"n_nationkey", "n_name"}
  BY DEF Reads
<1>2. /\ "sum_quantity" \notin Columns["partsupp"]
      /\ "n_nationkey" \notin Columns["supplier"] /\ "n_name" \notin Columns["supplier"]
      /\ "ps_suppkey" \notin Columns["supplier"]
  BY DEF Columns
<1> QED BY <1>1, <1>2 DEF Fits, Fields20

Counts20(d, k) == {l \in Shipped20(d) : On(l, {"l_partkey", "l_suppkey"}) = k}

Sum20(d, k) == Joined(k, [sum_quantity |-> <<Total(Counts20(d, k), Quantity), 2>>])

\* The sums of a part and supplier.
LEMMA InSums20 ==
  ASSUME NEW d, NEW x
  PROVE  x \in Sums20(d) <=>
         \E k \in Project(Shipped20(d), {"l_partkey", "l_suppkey"}) : x = Sum20(d, k)
BY Zenon DEF Sums20, GroupBy, Sum20, Counts20

\* One of them.
LEMMA Sum20Is ==
  ASSUME NEW d, NEW k \in Project(Shipped20(d), {"l_partkey", "l_suppkey"})
  PROVE  /\ DOMAIN Sum20(d, k) = {"l_partkey", "l_suppkey", "sum_quantity"}
         /\ Sum20(d, k)["l_partkey"] = k["l_partkey"] /\ Sum20(d, k)["l_suppkey"] = k["l_suppkey"]
         /\ Sum20(d, k)["sum_quantity"] = <<Total(Counts20(d, k), Quantity), 2>>
         /\ \A ps : k["l_partkey"] = ps["ps_partkey"] /\ k["l_suppkey"] = ps["ps_suppkey"] =>
                ShippedOf20(d, ps) = Counts20(d, k) /\ ShippedOf20(d, ps) # {}
<1>1. PICK m \in Shipped20(d) : k = On(m, {"l_partkey", "l_suppkey"})
  BY DEF Project
<1>2. DOMAIN k = {"l_partkey", "l_suppkey"} /\ k["l_partkey"] = m["l_partkey"] /\ k["l_suppkey"]
        = m["l_suppkey"]
      /\ IsFcn(k)
  BY <1>1 DEF On, IsFcn
<1>3. DEFINE q == [sum_quantity |-> <<Total(Counts20(d, k), Quantity), 2>>]
<1>4. DOMAIN q = {"sum_quantity"} /\ q["sum_quantity"] = <<Total(Counts20(d, k), Quantity), 2>>
  OBVIOUS
<1>5. Sum20(d, k) = Joined(k, q)
  BY DEF Sum20
<1> HIDE DEF q
<1>6. \A l : On(l, {"l_partkey", "l_suppkey"}) = k <=> l["l_partkey"] = k["l_partkey"]
        /\ l["l_suppkey"] = k["l_suppkey"]
  BY <1>2 DEF On, IsFcn
<1>7. ASSUME NEW ps, k["l_partkey"] = ps["ps_partkey"], k["l_suppkey"] = ps["ps_suppkey"]
      PROVE  ShippedOf20(d, ps) = Counts20(d, k) /\ ShippedOf20(d, ps) # {}
  <2>1. \A l : l \in ShippedOf20(d, ps) <=> l \in Counts20(d, k)
    BY <1>6, <1>7 DEF ShippedOf20, Counts20, Shipped20
  <2>2. m \in Counts20(d, k)
    BY <1>1 DEF Counts20
  <2>3. ShippedOf20(d, ps) = Counts20(d, k)
    BY <2>1
  <2> QED BY <2>2, <2>3
<1>8. DOMAIN Sum20(d, k) = {"l_partkey", "l_suppkey", "sum_quantity"}
  BY <1>2, <1>4, <1>5 DEF Joined
<1>9. Sum20(d, k)["l_partkey"] = k["l_partkey"] /\ Sum20(d, k)["l_suppkey"] = k["l_suppkey"]
      /\ Sum20(d, k)["sum_quantity"] = q["sum_quantity"]
  BY <1>2, <1>4, <1>5, JoinedLeft, JoinedRight
<1> QED BY <1>4, <1>7, <1>8, <1>9

Offer20(d, y, p, ps, k) ==
    /\ p \in Forest20(d) /\ ps \in d.partsupp
    /\ k \in Project(Shipped20(d), {"l_partkey", "l_suppkey"})
    /\ p["p_partkey"] = ps["ps_partkey"]
    /\ k["l_partkey"] = ps["ps_partkey"] /\ k["l_suppkey"] = ps["ps_suppkey"]
    /\ ps["ps_availqty"] * 2 > Total(Counts20(d, k), Quantity)
    /\ y = ps["ps_suppkey"]

\* The suppliers with an excess, in terms of offers.
LEMMA InExcess20 ==
  ASSUME NEW d, Fields20(d), NEW y
  PROVE  (\E x \in Excess20(d) : y = x["ps_suppkey"]) <=> \E p, ps, k : Offer20(d, y, p, ps, k)
<1> DEFINE j(p, ps) == Joined(On(p, {"p_partkey"}), ps)
<1>1. ASSUME NEW p \in Forest20(d), NEW ps \in d.partsupp
      PROVE  /\ DOMAIN j(p, ps) = {"p_partkey"} \cup DOMAIN ps
             /\ j(p, ps)["p_partkey"] = p["p_partkey"]
             /\ j(p, ps)["ps_suppkey"] = ps["ps_suppkey"]
             /\ j(p, ps)["ps_availqty"] = ps["ps_availqty"]
             /\ Match(On(p, {"p_partkey"}), ps, <<"p_partkey">>, <<"ps_partkey">>)
                  <=> p["p_partkey"] = ps["ps_partkey"]
  <2> DEFINE o == On(p, {"p_partkey"})
  <2>1. DOMAIN o = {"p_partkey"} /\ o["p_partkey"] = p["p_partkey"]
    BY DEF On
  <2> HIDE DEF o
  <2>2. Match(o, ps, <<"p_partkey">>, <<"ps_partkey">>) <=> p["p_partkey"] = ps["ps_partkey"]
    BY <2>1, MatchOne
  <2>3. {"ps_partkey", "ps_suppkey", "ps_availqty"} \subseteq DOMAIN ps
    BY DEF Fields20
  <2>4. /\ DOMAIN Joined(o, ps) = {"p_partkey"} \cup DOMAIN ps
        /\ Joined(o, ps)["p_partkey"] = p["p_partkey"]
        /\ Joined(o, ps)["ps_suppkey"] = ps["ps_suppkey"]
        /\ Joined(o, ps)["ps_availqty"] = ps["ps_availqty"]
    BY <2>1, <2>3 DEF Joined
  <2> QED BY <2>2, <2>4 DEF o
<1>2. \A x : x \in Offers20(d) <=> \E p \in Forest20(d), ps \in d.partsupp :
                 p["p_partkey"] = ps["ps_partkey"] /\ x = j(p, ps)
  <2>1. \A x : x \in Offers20(d) <=> \E o \in Project(Forest20(d), {"p_partkey"}),
          ps \in d.partsupp :
                 Match(o, ps, <<"p_partkey">>, <<"ps_partkey">>) /\ x = Joined(o, ps)
    BY InMerge DEF Offers20, MergeOn
  <2>2. \A o : o \in Project(Forest20(d), {"p_partkey"}) <=> \E p \in Forest20(d) : o
          = On(p, {"p_partkey"})
    BY DEF Project
  <2>3. \A x : x \in Offers20(d) <=> \E p \in Forest20(d), ps \in d.partsupp :
                 Match(On(p, {"p_partkey"}), ps, <<"p_partkey">>, <<"ps_partkey">>) /\ x = j(p, ps)
    BY <2>1, <2>2
  <2>4. \A p \in Forest20(d), ps \in d.partsupp :
            Match(On(p, {"p_partkey"}), ps, <<"p_partkey">>, <<"ps_partkey">>) <=> p["p_partkey"]
              = ps["ps_partkey"]
    BY <1>1
  <2> HIDE DEF j
  <2> QED BY <2>3, <2>4
<1> DEFINE t(p, ps, k) == Joined(j(p, ps), Sum20(d, k))
           K == Project(Shipped20(d), {"l_partkey", "l_suppkey"})
           m(p, ps, k) == Match(j(p, ps), Sum20(d, k), <<"ps_suppkey", "p_partkey">>,
             <<"l_suppkey", "l_partkey">>)
<1>3. ASSUME NEW p \in Forest20(d), NEW ps \in d.partsupp, NEW k \in K
      PROVE  /\ t(p, ps, k)["ps_suppkey"] = ps["ps_suppkey"]
             /\ t(p, ps, k)["ps_availqty"] = ps["ps_availqty"]
             /\ t(p, ps, k)["sum_quantity"] = <<Total(Counts20(d, k), Quantity), 2>>
             /\ m(p, ps, k) <=> ps["ps_suppkey"] = k["l_suppkey"] /\ p["p_partkey"] = k["l_partkey"]
  <2> DEFINE a == j(p, ps)
             b == Sum20(d, k)
  <2>1. /\ DOMAIN a = {"p_partkey"} \cup DOMAIN ps
        /\ a["p_partkey"] = p["p_partkey"]
        /\ a["ps_suppkey"] = ps["ps_suppkey"]
        /\ a["ps_availqty"] = ps["ps_availqty"]
    BY <1>1
  <2>2. /\ DOMAIN b = {"l_partkey", "l_suppkey", "sum_quantity"}
        /\ b["l_partkey"] = k["l_partkey"] /\ b["l_suppkey"] = k["l_suppkey"]
        /\ b["sum_quantity"] = <<Total(Counts20(d, k), Quantity), 2>>
    BY Sum20Is
  <2>3. {"ps_partkey", "ps_suppkey", "ps_availqty"} \subseteq DOMAIN ps
          /\ "sum_quantity" \notin DOMAIN ps
    BY DEF Fields20
  <2> HIDE DEF a, b
  <2>4. Match(a, b, <<"ps_suppkey", "p_partkey">>, <<"l_suppkey", "l_partkey">>)
           <=> a["ps_suppkey"] = b["l_suppkey"] /\ a["p_partkey"] = b["l_partkey"]
    BY MatchTwo
  <2>5. /\ Joined(a, b)["ps_suppkey"] = a["ps_suppkey"]
        /\ Joined(a, b)["ps_availqty"] = a["ps_availqty"]
        /\ Joined(a, b)["sum_quantity"] = b["sum_quantity"]
    BY <2>1, <2>2, <2>3, JoinedLeft, JoinedRight
  <2> QED BY <2>1, <2>2, <2>4, <2>5 DEF a, b
<1>4. \A x : x \in Counted20(d) <=> \E p \in Forest20(d), ps \in d.partsupp, k \in K :
                 p["p_partkey"] = ps["ps_partkey"] /\ m(p, ps, k) /\ x = t(p, ps, k)
  <2> HIDE DEF j
  <2>1. \A x : x \in Counted20(d) <=> \E o \in Offers20(d), s \in Sums20(d) :
                 Match(o, s, <<"ps_suppkey", "p_partkey">>, <<"l_suppkey", "l_partkey">>) /\ x
                   = Joined(o, s)
    BY InMerge DEF Counted20, MergeOnTwo
  <2> QED BY <1>2, <2>1, InSums20
<1> HIDE DEF t, m, j, K
<1> DEFINE ok(p, ps, k) == /\ p["p_partkey"] = ps["ps_partkey"]
                           /\ ps["ps_suppkey"] = k["l_suppkey"] /\ p["p_partkey"] = k["l_partkey"]
                           /\ ps["ps_availqty"] * 2 > Total(Counts20(d, k), Quantity)
<1>5. \A x : x \in Excess20(d) <=> \E p \in Forest20(d), ps \in d.partsupp, k \in K : ok(p, ps, k)
        /\ x = t(p, ps, k)
  BY <1>3, <1>4 DEF Excess20
<1>6. (\E x \in Excess20(d) : y = x["ps_suppkey"]) <=>
      \E p \in Forest20(d), ps \in d.partsupp, k \in K : ok(p, ps, k) /\ y = ps["ps_suppkey"]
  BY <1>3, <1>5
<1> QED BY <1>6, Zenon DEF Offer20, K

\* The same as a condition on a row of PARTSUPP.
LEMMA Offered20Is ==
  ASSUME NEW d, Fields20(d), NEW y
  PROVE  (\E x \in Excess20(d) : y = x["ps_suppkey"]) <=> \E ps \in d.partsupp : Offered20(d, ps)
           /\ y = ps["ps_suppkey"]
<1>1. ASSUME NEW p, NEW ps, NEW k, Offer20(d, y, p, ps, k)
      PROVE  ps \in d.partsupp /\ Offered20(d, ps) /\ y = ps["ps_suppkey"]
  <2>1. ShippedOf20(d, ps) = Counts20(d, k) /\ ShippedOf20(d, ps) # {}
    BY <1>1, Sum20Is DEF Offer20
  <2> QED BY <1>1, <2>1 DEF Offer20, Offered20
<1>2. ASSUME NEW ps \in d.partsupp, Offered20(d, ps), y = ps["ps_suppkey"]
      PROVE  \E p, k : Offer20(d, y, p, ps, k)
  <2>1. PICK p \in Forest20(d) : p["p_partkey"] = ps["ps_partkey"]
    BY <1>2 DEF Offered20
  <2>2. PICK l \in ShippedOf20(d, ps) : TRUE
    BY <1>2 DEF Offered20
  <2> DEFINE k == On(l, {"l_partkey", "l_suppkey"})
  <2>3. k["l_partkey"] = ps["ps_partkey"] /\ k["l_suppkey"] = ps["ps_suppkey"]
    BY <2>2 DEF On, ShippedOf20
  <2>4. k \in Project(Shipped20(d), {"l_partkey", "l_suppkey"})
    BY <2>2 DEF Project, Shipped20, ShippedOf20
  <2> HIDE DEF k
  <2>5. ShippedOf20(d, ps) = Counts20(d, k)
    BY <2>3, <2>4, Sum20Is
  <2>6. Offer20(d, y, p, ps, k)
    BY <1>2, <2>1, <2>3, <2>4, <2>5 DEF Offer20, Offered20
  <2> QED BY <2>6
<1> QED BY <1>1, <1>2, InExcess20

Countable20(d) == \A ps \in d.partsupp : ps["ps_availqty"] \in Int

Supplies20(d, y, ps, s, n) ==
    /\ ps \in d.partsupp /\ Offered20(d, ps) /\ s \in d.supplier /\ n \in Canada20(d)
    /\ ps["ps_suppkey"] = s["s_suppkey"] /\ s["s_nationkey"] = n["n_nationkey"]
    /\ y = [c \in {"s_name"} |-> s["s_name"]]

\* The columns of a supplier joined with its nation.
LEMMA Joined20 ==
  ASSUME NEW d, Fields20(d), NEW s \in d.supplier, NEW n \in d.nation
  PROVE  /\ Joined(s, n)["s_suppkey"] = s["s_suppkey"] /\ Joined(s, n)["s_nationkey"] = s["s_nationkey"]
         /\ Joined(s, n)["s_name"] = s["s_name"] /\ Joined(s, n)["n_nationkey"] = n["n_nationkey"]
         /\ Joined(s, n)["n_name"] = n["n_name"]
         /\ DOMAIN Joined(s, n) = DOMAIN s \cup DOMAIN n
<1>1. /\ {"s_suppkey", "s_nationkey", "s_name"} \subseteq DOMAIN s
      /\ "n_nationkey" \notin DOMAIN s /\ "n_name" \notin DOMAIN s
      /\ {"n_nationkey", "n_name"} \subseteq DOMAIN n
  BY DEF Fields20
<1> QED BY <1>1 DEF Joined

\* The names that the SQL selects.
LEMMA InSql20 ==
  ASSUME NEW d, Fields20(d), Countable20(d), NEW y
  PROVE  y \in Project(SqlRows20(d), {"s_name"}) <=> \E ps, s, n : Supplies20(d, y, ps, s, n)
<1>1. \A k : k \in {ps.ps_suppkey : ps \in SqlExcess20(d)} <=>
             \E ps \in d.partsupp : Offered20(d, ps) /\ k = ps["ps_suppkey"]
  <2>1. \A ps \in d.partsupp : ps \in SqlExcess20(d) <=> Offered20(d, ps)
    <3> SUFFICES ASSUME NEW ps \in d.partsupp PROVE ps \in SqlExcess20(d) <=> Offered20(d, ps)
      OBVIOUS
    <3> DEFINE a == ps["ps_availqty"]
    <3>1. a * 2 = 2 * a
      <4>1. a \in Int
        BY DEF Countable20
      <4> HIDE DEF a
      <4> QED BY <4>1
    <3>2. ps.ps_partkey \in {p.p_partkey : p \in Forest20(d)} <=> \E p \in Forest20(d) :
            p["p_partkey"] = ps["ps_partkey"]
      OBVIOUS
    <3> QED BY <3>1, <3>2, Zenon DEF SqlExcess20, Offered20
  <2>2. \A ps \in SqlExcess20(d) : ps \in d.partsupp
    BY DEF SqlExcess20
  <2> QED BY <2>1, <2>2
<1> DEFINE E == {ps.ps_suppkey : ps \in SqlExcess20(d)}
<1> HIDE DEF E
<1>2. \A x : x \in SqlRows20(d) <=> \E s \in d.supplier, n \in d.nation :
                 /\ x = Joined(s, n) /\ s["s_suppkey"] \in E /\ s["s_nationkey"] = n["n_nationkey"]
                 /\ n["n_name"] = "CANADA"
  <2>1. \A x : x \in d.supplier \otimes d.nation <=> \E s \in d.supplier, n \in d.nation : x
          = Joined(s, n)
    BY InCross
  <2>2. \A x : x \in SqlRows20(d) <=> x \in d.supplier \otimes d.nation /\ x["s_suppkey"] \in E
                 /\ x["s_nationkey"] = x["n_nationkey"] /\ x["n_name"] = "CANADA"
    BY DEF SqlRows20, E
  <2>3. \A s \in d.supplier, n \in d.nation :
            /\ Joined(s, n)["s_suppkey"] = s["s_suppkey"] /\ Joined(s, n)["s_nationkey"]
                 = s["s_nationkey"]
            /\ Joined(s, n)["n_nationkey"] = n["n_nationkey"] /\ Joined(s, n)["n_name"]
                 = n["n_name"]
    BY Joined20
  <2> QED BY <2>1, <2>2, <2>3
<1>3. y \in Project(SqlRows20(d), {"s_name"}) <=> \E x \in SqlRows20(d) : y
        = [c \in {"s_name"} |-> x["s_name"]]
  BY DEF Project, On
<1>4. y \in Project(SqlRows20(d), {"s_name"}) <=> \E s \in d.supplier, n \in d.nation :
                 /\ y = [c \in {"s_name"} |-> s["s_name"]] /\ s["s_suppkey"] \in E
                      /\ s["s_nationkey"] = n["n_nationkey"]
                 /\ n["n_name"] = "CANADA"
  <2>1. \A s \in d.supplier, n \in d.nation : Joined(s, n)["s_name"] = s["s_name"]
    BY Joined20
  <2> DEFINE o(z) == [c \in {"s_name"} |-> z]
  <2>2. y \in Project(SqlRows20(d), {"s_name"}) <=> \E x \in SqlRows20(d) : y = o(x["s_name"])
    BY <1>3
  <2>3. y \in Project(SqlRows20(d), {"s_name"}) <=> \E s \in d.supplier, n \in d.nation :
                 /\ y = o(s["s_name"]) /\ s["s_suppkey"] \in E /\ s["s_nationkey"]
                      = n["n_nationkey"]
                 /\ n["n_name"] = "CANADA"
    <3> HIDE DEF o
    <3> QED BY <1>2, <2>1, <2>2
  <2> QED BY <2>3
<1>5. \A k : k \in E <=> \E ps \in d.partsupp : Offered20(d, ps) /\ k = ps["ps_suppkey"]
  BY <1>1 DEF E
<1> QED BY <1>4, <1>5 DEF Supplies20, Canada20

\* The suppliers that the frames keep once each.
LEMMA InSuppliers20 ==
  ASSUME NEW d, Fields20(d), NEW x
  PROVE  x \in Suppliers20(d) <=> \E ps \in d.partsupp : Offered20(d, ps) /\ x
           = [c \in {"ps_suppkey"} |-> ps["ps_suppkey"]]
<1>1. x \in Suppliers20(d) <=> \E r \in Excess20(d) : x = [c \in {"ps_suppkey"} |-> r["ps_suppkey"]]
  BY DEF Suppliers20, Project, On
<1>2. \A y : (\E r \in Excess20(d) : y = r["ps_suppkey"]) <=> \E ps \in d.partsupp :
        Offered20(d, ps) /\ y = ps["ps_suppkey"]
  BY Offered20Is
<1> DEFINE o(y) == [c \in {"ps_suppkey"} |-> y]
<1>3. x \in Suppliers20(d) <=> \E y : (\E r \in Excess20(d) : y = r["ps_suppkey"]) /\ x = o(y)
  BY <1>1
<1>4. (\E ps \in d.partsupp : Offered20(d, ps) /\ x
        = [c \in {"ps_suppkey"} |-> ps["ps_suppkey"]]) <=>
      \E y : (\E ps \in d.partsupp : Offered20(d, ps) /\ y = ps["ps_suppkey"]) /\ x = o(y)
  OBVIOUS
<1> HIDE DEF o
<1> QED BY <1>2, <1>3, <1>4

\* The names that the frame shows.
LEMMA InPolars20 ==
  ASSUME NEW d, Fields20(d), NEW y
  PROVE  y \in Project(PolarsRows20(d), {"s_name"}) <=> \E ps, s, n : Supplies20(d, y, ps, s, n)
<1> DEFINE o(ps) == [c \in {"ps_suppkey"} |-> ps["ps_suppkey"]]
           S == MergeOn(d.supplier, Canada20(d), "s_nationkey", "n_nationkey")
<1>1. \A x : x \in S <=> \E s \in d.supplier, n \in Canada20(d) : s["s_nationkey"]
        = n["n_nationkey"] /\ x = Joined(s, n)
  <2>1. \A x : x \in S <=> \E s \in d.supplier, n \in Canada20(d) :
          Match(s, n, <<"s_nationkey">>, <<"n_nationkey">>) /\ x = Joined(s, n)
    BY InMerge DEF MergeOn
  <2>2. \A s, n : Match(s, n, <<"s_nationkey">>, <<"n_nationkey">>) <=> s["s_nationkey"]
          = n["n_nationkey"]
    BY MatchOne
  <2> HIDE DEF S
  <2> QED BY <2>1, <2>2
<1>2. ASSUME NEW ps, NEW s \in d.supplier, NEW n \in d.nation
      PROVE  /\ Joined(o(ps), Joined(s, n))["s_name"] = s["s_name"]
             /\ Match(o(ps), Joined(s, n), <<"ps_suppkey">>, <<"s_suppkey">>) <=> ps["ps_suppkey"]
                  = s["s_suppkey"]
  <2> DEFINE j == Joined(s, n)
             p == o(ps)
  <2>1. j["s_suppkey"] = s["s_suppkey"] /\ j["s_name"] = s["s_name"] /\ "s_name" \in DOMAIN j
    <3>1. "s_name" \in DOMAIN s
      BY DEF Fields20
    <3>2. j["s_suppkey"] = s["s_suppkey"] /\ j["s_name"] = s["s_name"] /\ DOMAIN j
            = DOMAIN s \cup DOMAIN n
      BY Joined20
    <3> HIDE DEF j
    <3> QED BY <3>1, <3>2
  <2>2. DOMAIN p = {"ps_suppkey"} /\ p["ps_suppkey"] = ps["ps_suppkey"]
    OBVIOUS
  <2> HIDE DEF j, p
  <2>3. Joined(p, j)["s_name"] = j["s_name"]
    BY <2>1, <2>2, JoinedRight
  <2>4. Match(p, j, <<"ps_suppkey">>, <<"s_suppkey">>) <=> p["ps_suppkey"] = j["s_suppkey"]
    BY MatchOne
  <2> QED BY <2>1, <2>2, <2>3, <2>4 DEF j, p
<1>3. \A n \in Canada20(d) : n \in d.nation
  BY DEF Canada20
<1> HIDE DEF S
<1>4. \A x : x \in PolarsRows20(d) <=> \E p \in Suppliers20(d), j \in S :
        Match(p, j, <<"ps_suppkey">>, <<"s_suppkey">>) /\ x = Joined(p, j)
  BY InMerge DEF PolarsRows20, MergeOn, S
<1>5. \A p : p \in Suppliers20(d) <=> \E ps \in d.partsupp : Offered20(d, ps) /\ p = o(ps)
  BY InSuppliers20
<1>6. y \in Project(PolarsRows20(d), {"s_name"}) <=> \E x \in PolarsRows20(d) : y
        = [c \in {"s_name"} |-> x["s_name"]]
  BY DEF Project, On
<1> HIDE DEF o
<1>7. y \in Project(PolarsRows20(d), {"s_name"}) <=>
        \E ps \in d.partsupp, s \in d.supplier, n \in Canada20(d) :
            /\ Offered20(d, ps) /\ s["s_nationkey"] = n["n_nationkey"]
            /\ ps["ps_suppkey"] = s["s_suppkey"] /\ y = [c \in {"s_name"} |-> s["s_name"]]
  BY <1>1, <1>2, <1>3, <1>4, <1>5, <1>6
<1> QED BY <1>7 DEF Supplies20

\* The names that the frame shows.
LEMMA InPandas20 ==
  ASSUME NEW d, Fields20(d), NEW y
  PROVE  y \in Project(PandasRows20(d), {"s_name"}) <=> \E ps, s, n : Supplies20(d, y, ps, s, n)
<1> DEFINE o(ps) == [c \in {"ps_suppkey"} |-> ps["ps_suppkey"]]
           j(ps, s) == Joined(o(ps), s)
           S == MergeOn(Suppliers20(d), d.supplier, "ps_suppkey", "s_suppkey")
<1>1. ASSUME NEW ps, NEW s \in d.supplier, NEW n \in d.nation
      PROVE  /\ Joined(j(ps, s), n)["s_name"] = s["s_name"]
             /\ Match(o(ps), s, <<"ps_suppkey">>, <<"s_suppkey">>) <=> ps["ps_suppkey"]
                  = s["s_suppkey"]
             /\ Match(j(ps, s), n, <<"s_nationkey">>, <<"n_nationkey">>) <=> s["s_nationkey"]
                  = n["n_nationkey"]
  <2> DEFINE p == o(ps)
             q == Joined(p, s)
  <2>1. DOMAIN p = {"ps_suppkey"} /\ p["ps_suppkey"] = ps["ps_suppkey"]
    OBVIOUS
  <2>2. "s_nationkey" \in DOMAIN s /\ "s_name" \in DOMAIN s
    BY DEF Fields20
  <2> HIDE DEF p
  <2>3. q["s_name"] = s["s_name"] /\ q["s_nationkey"] = s["s_nationkey"] /\ "s_name" \in DOMAIN q
    BY <2>1, <2>2 DEF Joined
  <2>4. Match(p, s, <<"ps_suppkey">>, <<"s_suppkey">>) <=> p["ps_suppkey"] = s["s_suppkey"]
    BY MatchOne
  <2> HIDE DEF q
  <2>5. Match(q, n, <<"s_nationkey">>, <<"n_nationkey">>) <=> q["s_nationkey"] = n["n_nationkey"]
    BY MatchOne
  <2>6. Joined(q, n)["s_name"] = q["s_name"]
    BY <2>3, JoinedLeft
  <2> QED BY <2>1, <2>3, <2>4, <2>5, <2>6 DEF p, q
<1>2. \A n \in Canada20(d) : n \in d.nation
  BY DEF Canada20
<1>3. \A x : x \in S <=> \E p \in Suppliers20(d), s \in d.supplier :
        Match(p, s, <<"ps_suppkey">>, <<"s_suppkey">>) /\ x = Joined(p, s)
  BY InMerge DEF MergeOn
<1> HIDE DEF S
<1>4. \A x : x \in PandasRows20(d) <=> \E q \in S, n \in Canada20(d) :
        Match(q, n, <<"s_nationkey">>, <<"n_nationkey">>) /\ x = Joined(q, n)
  BY InMerge DEF PandasRows20, MergeOn, S
<1>5. \A p : p \in Suppliers20(d) <=> \E ps \in d.partsupp : Offered20(d, ps) /\ p = o(ps)
  BY InSuppliers20
<1>6. y \in Project(PandasRows20(d), {"s_name"}) <=> \E x \in PandasRows20(d) : y
        = [c \in {"s_name"} |-> x["s_name"]]
  BY DEF Project, On
<1> HIDE DEF o
<1>7. \A x : x \in S <=> \E ps \in d.partsupp, s \in d.supplier : Offered20(d, ps)
        /\ Match(o(ps), s, <<"ps_suppkey">>, <<"s_suppkey">>) /\ x = j(ps, s)
  BY <1>3, <1>5
<1> HIDE DEF j
<1>8. y \in Project(PandasRows20(d), {"s_name"}) <=>
        \E ps \in d.partsupp, s \in d.supplier, n \in Canada20(d) :
            /\ Offered20(d, ps) /\ s["s_nationkey"] = n["n_nationkey"]
            /\ ps["ps_suppkey"] = s["s_suppkey"] /\ y = [c \in {"s_name"} |-> s["s_name"]]
  BY <1>1, <1>2, <1>4, <1>6, <1>7
<1> QED BY <1>8 DEF Supplies20

\* The three engines answer q20 alike.
LEMMA Answers20 ==
  ASSUME NEW d, Sound(d, Reads[20])
  PROVE  /\ Polars!Q20(d) = Sql!Q20(d)
         /\ Pandas!Q20(d) = Sql!Q20(d)
<1>1. Fields20(d) /\ Countable20(d)
  <2>1. Fields20(d)
    BY Fields20Are DEF Sound
  <2>2. "partsupp" \in DOMAIN Reads[20] /\ "ps_availqty" \in Reads[20]["partsupp"]
          /\ "ps_availqty" \in Quantities
    BY DEF Reads, Quantities
  <2> QED BY <2>1, <2>2 DEF Sound, Countable20
<1>2. \A y : y \in Project(PolarsRows20(d), {"s_name"}) <=> y \in Project(SqlRows20(d), {"s_name"})
  BY <1>1, InSql20, InPolars20
<1>3. \A y : y \in Project(PandasRows20(d), {"s_name"}) <=> y \in Project(SqlRows20(d), {"s_name"})
  BY <1>1, InSql20, InPandas20
<1>4. Project(PolarsRows20(d), {"s_name"}) = Project(SqlRows20(d), {"s_name"})
      /\ Project(PandasRows20(d), {"s_name"}) = Project(SqlRows20(d), {"s_name"})
  BY <1>2, <1>3
<1>5. Answer20(PolarsRows20(d)) = Answer20(SqlRows20(d)) /\ Answer20(PandasRows20(d))
        = Answer20(SqlRows20(d))
  BY <1>4, Zenon DEF Answer20
<1> QED BY <1>5, Sql20, Polars20, Pandas20

-----------------------------------------------------------------------------
(* q4: the orders of a quarter with a late lineitem, by priority.          *)

Wanted4(o) == o.o_orderdate >= 19930701 /\ o.o_orderdate < 19931001

Late4(l) == l.l_commitdate < l.l_receiptdate

Rows4(d) ==
    {o \in d.orders : /\ o.o_orderdate >= 19930701
                      /\ o.o_orderdate < 19931001
                      /\ \E l \in d.lineitem : /\ l.l_orderkey = o.o_orderkey
                                               /\ l.l_commitdate < l.l_receiptdate}

PolarsRows4(d) ==
    {o \in SemiMerge(d.orders, {l \in d.lineitem : l.l_commitdate < l.l_receiptdate},
      <<"o_orderkey">>, <<"l_orderkey">>) :
        o.o_orderdate >= 19930701 /\ o.o_orderdate < 19931001}

Frame4(d) ==
    {r \in MergeOn(d.lineitem, d.orders, "l_orderkey", "o_orderkey") :
        /\ r.o_orderdate >= 19930701 /\ r.o_orderdate < 19931001
        /\ r.l_commitdate < r.l_receiptdate}

Unique4(F) == GroupBy(F, {"o_orderpriority", "l_orderkey"}, LAMBDA g :
  On(CHOOSE r \in g : TRUE, {"o_orderkey"}))

Groups4(R) == GroupBy(R, {"o_orderpriority"}, LAMBDA g : [order_count |-> Cardinality(g)])

Counts4(R) == GroupBy(R, {"o_orderpriority"}, LAMBDA g : [order_count |-> Count(g, "o_orderkey")])

Answer4(G) == Sorted(G, LAMBDA r : <<Alpha(r.o_orderpriority)>>)

\* q4 of duckdb.
LEMMA Sql4 ==
  ASSUME NEW d
  PROVE  Sql!Q4(d) = Answer4(Groups4(Rows4(d)))
BY SMTT(60) DEF Sorted, Sql!Sorted, Before, Sql!Before, Alpha, Sql!Alpha, Cardinality,
       Sql!Cardinality, GroupBy, Sql!GroupBy, Project, Sql!Project, On, Sql!On, Joined, Sql!Joined,
       Answer4, Groups4, Rows4, Sql!Q4

\* q4 of polars.
LEMMA Polars4 ==
  ASSUME NEW d
  PROVE  Polars!Q4(d) = Answer4(Groups4(PolarsRows4(d)))
BY SMTT(60) DEF Sorted, Polars!Sorted, Before, Polars!Before, Alpha, Polars!Alpha, Cardinality,
       Polars!Cardinality, GroupBy, Polars!GroupBy, Project, Polars!Project, On, Polars!On, Joined,
       Polars!Joined, SemiMerge, Polars!SemiMerge, Match, Polars!Match, Answer4, Groups4,
       PolarsRows4, Polars!ClosedLeft, Polars!Q4

\* q4 of pandas.
LEMMA Pandas4 ==
  ASSUME NEW d
  PROVE  Pandas!Q4(d) = Answer4(Counts4(Unique4(Frame4(d))))
BY SMTT(60) DEF Sorted, Pandas!Sorted, Before, Pandas!Before, Alpha, Pandas!Alpha, Cardinality,
       Pandas!Cardinality, GroupBy, Pandas!GroupBy, Project, Pandas!Project, On, Pandas!On, Joined,
       Pandas!Joined, Merge, Pandas!Merge, Match, Pandas!Match, Count, Pandas!Count, MergeOn,
       Answer4, Counts4, Unique4, Frame4, Pandas!Q4

(* The row that stands for an order where its lineitems were.              *)
Once4(o) == [c \in {"o_orderpriority", "l_orderkey", "o_orderkey"} |->
                IF c = "o_orderpriority" THEN o["o_orderpriority"] ELSE o["o_orderkey"]]

Fields4(d) ==
    /\ \A o \in d.orders : /\ {"o_orderkey", "o_orderdate", "o_orderpriority"} \subseteq DOMAIN o
                           /\ o["o_orderkey"] # Null
    /\ \A l \in d.lineitem : /\ {"l_orderkey", "l_commitdate", "l_receiptdate"} \subseteq DOMAIN l
                             /\ {"o_orderkey", "o_orderdate", "o_orderpriority"} \cap DOMAIN l = {}

OrdersDiffer(d) == \A o, p \in d.orders : o["o_orderkey"] = p["o_orderkey"] => o = p

\* The tables have the columns that q4 reads.
LEMMA Fields4Are ==
  ASSUME NEW d, Sound(d, Reads[4])
  PROVE  Fields4(d)
<1>1. /\ "orders" \in DOMAIN Reads[4] /\ "lineitem" \in DOMAIN Reads[4]
      /\ Reads[4]["orders"] = {"o_orderkey", "o_orderdate", "o_orderpriority"}
      /\ Reads[4]["lineitem"] = {"l_orderkey", "l_commitdate", "l_receiptdate"}
  BY DEF Reads
<1>2. {"o_orderkey", "o_orderdate", "o_orderpriority"} \cap Columns["lineitem"] = {}
  BY DEF Columns
<1> QED BY <1>1, <1>2 DEF Sound, Fits, Fields4

\* polars filters the rows that pandas and the SQL filter.
LEMMA PolarsRows4Are ==
  ASSUME NEW d
  PROVE  PolarsRows4(d) = Rows4(d)
<1>1. ASSUME NEW o, NEW l
      PROVE  Match(o, l, <<"o_orderkey">>, <<"l_orderkey">>) <=> o["o_orderkey"] = l["l_orderkey"]
  BY MatchOne
<1>2. ASSUME NEW o PROVE o \in PolarsRows4(d) <=> o \in Rows4(d)
  BY <1>1 DEF PolarsRows4, Rows4, SemiMerge
<1> QED BY <1>2

\* The columns of an order joined with a lineitem.
LEMMA Joined4 ==
  ASSUME NEW d, Fields4(d), NEW l \in d.lineitem, NEW o \in d.orders
  PROVE  /\ Joined(l, o)["o_orderkey"] = o["o_orderkey"] /\ Joined(l, o)["o_orderdate"] = o["o_orderdate"]
         /\ Joined(l, o)["o_orderpriority"] = o["o_orderpriority"]
         /\ Joined(l, o)["l_orderkey"] = l["l_orderkey"] /\ Joined(l, o)["l_commitdate"]
              = l["l_commitdate"]
         /\ Joined(l, o)["l_receiptdate"] = l["l_receiptdate"]
<1>1. /\ {"o_orderkey", "o_orderdate", "o_orderpriority"} \subseteq DOMAIN o
      /\ {"l_orderkey", "l_commitdate", "l_receiptdate"} \subseteq DOMAIN l
      /\ {"o_orderkey", "o_orderdate", "o_orderpriority"} \cap DOMAIN l = {}
  BY DEF Fields4
<1> QED BY <1>1 DEF Joined

Stands4(r, o) == /\ r["o_orderpriority"] = o["o_orderpriority"]
                 /\ r["o_orderkey"] = o["o_orderkey"] /\ r["l_orderkey"] = o["o_orderkey"]

\* The rows of the joins of q4, in terms of the tables.
LEMMA InFrame4 ==
  ASSUME NEW d, Fields4(d)
  PROVE  /\ \A r \in Frame4(d) : \E o \in Rows4(d) : Stands4(r, o)
         /\ \A o \in Rows4(d) : \E r \in Frame4(d) : Stands4(r, o)
<1>1. \A r : r \in MergeOn(d.lineitem, d.orders, "l_orderkey", "o_orderkey") <=>
        \E l \in d.lineitem, o \in d.orders : l["l_orderkey"] = o["o_orderkey"] /\ r = Joined(l, o)
  <2>1. \A r : r \in MergeOn(d.lineitem, d.orders, "l_orderkey", "o_orderkey") <=>
          \E l \in d.lineitem, o \in d.orders : Match(l, o, <<"l_orderkey">>, <<"o_orderkey">>) /\ r
            = Joined(l, o)
    BY InMerge DEF MergeOn
  <2>2. \A x, y : Match(x, y, <<"l_orderkey">>, <<"o_orderkey">>) <=> x["l_orderkey"]
          = y["o_orderkey"]
    BY DEF Match
  <2> QED BY <2>1, <2>2
<1>2. \A r : r \in Frame4(d) <=>
        /\ r \in MergeOn(d.lineitem, d.orders, "l_orderkey", "o_orderkey")
        /\ Wanted4(r) /\ Late4(r)
  BY DEF Frame4, Wanted4, Late4
<1>3. \A o : o \in Rows4(d) <=> /\ o \in d.orders /\ Wanted4(o)
                                /\ \E l \in d.lineitem : l["l_orderkey"] = o["o_orderkey"]
                                     /\ Late4(l)
  BY DEF Rows4, Wanted4, Late4
<1>4. ASSUME NEW l \in d.lineitem, NEW o \in d.orders
      PROVE  /\ Wanted4(Joined(l, o)) <=> Wanted4(o)
             /\ Late4(Joined(l, o)) <=> Late4(l)
             /\ l["l_orderkey"] = o["o_orderkey"] => Stands4(Joined(l, o), o)
  BY Joined4 DEF Wanted4, Late4, Stands4
<1> QED BY <1>1, <1>2, <1>3, <1>4

\* An order with several late lineitems is left once.
LEMMA InUnique4 ==
  ASSUME NEW d, Fields4(d), NEW x
  PROVE  x \in Unique4(Frame4(d)) <=> \E o \in Rows4(d) : x = Once4(o)
<1> DEFINE C == {"o_orderpriority", "l_orderkey"}
           F == Frame4(d)
           G(k) == {r \in F : On(r, C) = k}
           first(k) == CHOOSE r \in G(k) : TRUE
<1>1. x \in Unique4(F) <=> \E k \in Project(F, C) : x = Joined(k, On(first(k), {"o_orderkey"}))
  BY Zenon DEF Unique4, GroupBy
<1>2. ASSUME NEW r \in F, NEW o \in Rows4(d), Stands4(r, o)
      PROVE  Joined(On(r, C), On(first(On(r, C)), {"o_orderkey"})) = Once4(o)
  <2> DEFINE k == On(r, C)
             f == first(k)
             u == On(f, {"o_orderkey"})
  <2>1. f \in F /\ On(f, C) = k
    <3>1. r \in G(k)
      OBVIOUS
    <3> HIDE DEF k, F
    <3> QED BY <3>1
  <2>2. DOMAIN k = C /\ k["o_orderpriority"] = r["o_orderpriority"] /\ k["l_orderkey"]
          = r["l_orderkey"]
        /\ IsFcn(k)
    BY DEF On, IsFcn
  <2> HIDE DEF f
  <2>3. f["o_orderkey"] = f["l_orderkey"]
    BY <2>1, InFrame4 DEF Stands4
  <2>4. f["l_orderkey"] = k["l_orderkey"]
    <3>1. On(f, C)["l_orderkey"] = f["l_orderkey"]
      BY DEF On
    <3> QED BY <2>1, <3>1
  <2>5. DOMAIN u = {"o_orderkey"} /\ u["o_orderkey"] = f["o_orderkey"]
    BY DEF On
  <2> HIDE DEF u, k
  <2>6. Joined(k, u) = Once4(o)
    <3>1. DOMAIN Joined(k, u) = {"o_orderpriority", "l_orderkey", "o_orderkey"}
      BY <2>2, <2>5 DEF Joined
    <3>2. /\ Joined(k, u)["o_orderpriority"] = o["o_orderpriority"]
          /\ Joined(k, u)["l_orderkey"] = o["o_orderkey"]
          /\ Joined(k, u)["o_orderkey"] = o["o_orderkey"]
      BY <1>2, <2>2, <2>3, <2>4, <2>5 DEF Joined, Stands4
    <3>3. IsFcn(Joined(k, u)) /\ IsFcn(Once4(o))
      BY JoinedIs DEF Once4, IsFcn
    <3>4. /\ DOMAIN Once4(o) = {"o_orderpriority", "l_orderkey", "o_orderkey"}
          /\ Once4(o)["o_orderpriority"] = o["o_orderpriority"]
          /\ Once4(o)["l_orderkey"] = o["o_orderkey"] /\ Once4(o)["o_orderkey"] = o["o_orderkey"]
      BY DEF Once4
    <3> QED BY <3>1, <3>2, <3>3, <3>4, SameFcn
  <2> QED BY <2>6 DEF u, k, f
<1>3. \A k : k \in Project(F, C) <=> \E r \in F : k = On(r, C)
  BY DEF Project
<1>4. /\ \A r \in F : \E o \in Rows4(d) : Stands4(r, o)
      /\ \A o \in Rows4(d) : \E r \in F : Stands4(r, o)
  BY InFrame4
<1> HIDE DEF first, F, C
<1> QED BY <1>1, <1>2, <1>3, <1>4 DEF F

Card4(R) == [g \in SUBSET R |-> [order_count |-> Cardinality(g)]]

Count4(R) == [g \in SUBSET R |-> [order_count |-> Count(g, "o_orderkey")]]

\* The groups of q4.
LEMMA Groups4Are ==
  ASSUME NEW R
  PROVE  /\ Groups4(R) = Grouped(R, KeyOn(R, {"o_orderpriority"}), Card4(R))
         /\ Counts4(R) = Grouped(R, KeyOn(R, {"o_orderpriority"}), Count4(R))
<1> DEFINE C == {"o_orderpriority"}
<1>1. ASSUME NEW j PROVE /\ Card4(R)[{r \in R : On(r, C) = j}] = [order_count |-> Cardinality({r \in R : On(r, C) = j})]
                         /\ Count4(R)[{r \in R : On(r, C) = j}]
                              = [order_count |-> Count({r \in R : On(r, C) = j}, "o_orderkey")]
  <2>1. {r \in R : On(r, C) = j} \in SUBSET R
    OBVIOUS
  <2> QED BY <2>1, Zenon DEF Card4, Count4
<1>2. ASSUME NEW x PROVE x \in Groups4(R) <=> x \in GroupedOn(R, C, Card4(R))
  BY <1>1, Zenon DEF Groups4, GroupBy, GroupedOn
<1>3. ASSUME NEW x PROVE x \in Counts4(R) <=> x \in GroupedOn(R, C, Count4(R))
  BY <1>1, Zenon DEF Counts4, GroupBy, GroupedOn
<1>4. Groups4(R) = GroupedOn(R, C, Card4(R)) /\ Counts4(R) = GroupedOn(R, C, Count4(R))
  BY <1>2, <1>3, Zenon
<1> QED BY <1>4, GroupedOnIs, Zenon

\* Counting the orders that are left once is counting the orders.
LEMMA Same4 ==
  ASSUME NEW d, Fields4(d), OrdersDiffer(d), IsFiniteSet(d.orders)
  PROVE  Counts4(Unique4(Frame4(d))) = Groups4(Rows4(d))
<1> DEFINE R == Rows4(d)
           U == Unique4(Frame4(d))
           b == [o \in R |-> Once4(o)]
           C == {"o_orderpriority"}
<1>1. \A o \in R : o \in d.orders /\ o["o_orderkey"] # Null
  BY DEF Rows4, Fields4
<1>2. IsFiniteSet(R)
  BY <1>1, FiniteKept
<1>3. \A o : /\ Once4(o)["o_orderpriority"] = o["o_orderpriority"] /\ Once4(o)["o_orderkey"] = o["o_orderkey"]
  BY DEF Once4
<1>4. \A x : x \in U <=> \E o \in R : x = Once4(o)
  BY InUnique4
<1> HIDE DEF R, U
<1>5. OneToOne(b, R, U)
  <2>1. ASSUME NEW o \in R, NEW p \in R, Once4(o) = Once4(p) PROVE o = p
    BY <1>1, <1>3, <2>1 DEF OrdersDiffer
  <2> QED BY <1>4, <2>1 DEF OneToOne
<1>6. ASSUME NEW o \in R PROVE KeyOn(U, C)[b[o]] = KeyOn(R, C)[o]
  <2>1. b[o] \in U /\ b[o] = Once4(o)
    BY <1>4
  <2>2. On(Once4(o), C) = On(o, C)
    BY <1>3 DEF On
  <2> HIDE DEF b
  <2> QED BY <2>1, <2>2 DEF KeyOn
<1>7. ASSUME NEW g \in SUBSET R
      PROVE  Count4(U)[ImageOf(b, g)] = Card4(R)[g]
  <2>1. IsFiniteSet(g)
    BY <1>2, FS_Subset
  <2>2. \A x, y \in g : b[x] = b[y] => x = y
    BY <1>5 DEF OneToOne
  <2>3. \A x \in g : b[x]["o_orderkey"] # Null /\ b[x] \in U
    BY <1>1, <1>3, <1>4
  <2> HIDE DEF b
  <2>4. Cardinality(ImageOf(b, g)) = Cardinality(g)
    BY <2>1, <2>2, SizeOfImage
  <2>5. {r \in ImageOf(b, g) : r["o_orderkey"] # Null} = ImageOf(b, g)
    BY <2>3 DEF ImageOf
  <2>6. ImageOf(b, g) \in SUBSET U
    BY <2>3 DEF ImageOf
  <2>7. Count(ImageOf(b, g), "o_orderkey") = Cardinality(g)
    BY <2>4, <2>5, Zenon DEF Count
  <2> QED BY <2>6, <2>7, Zenon DEF Count4, Card4
<1>8. Grouped(U, KeyOn(U, C), Count4(U)) = Grouped(R, KeyOn(R, C), Card4(R))
  <2>1. SameAggregates(R, b, Card4(R), Count4(U))
    BY <1>7 DEF SameAggregates
  <2> HIDE DEF b, C
  <2> QED BY <1>5, <1>6, <2>1, GroupsOfImage
<1> QED BY <1>8, Groups4Are, Zenon DEF U, R

\* The three engines answer q4 alike.
LEMMA Answers4 ==
  ASSUME NEW d, Sound(d, Reads[4]), OrdersDiffer(d)
  PROVE  /\ Polars!Q4(d) = Sql!Q4(d)
         /\ Pandas!Q4(d) = Sql!Q4(d)
<1>1. IsFiniteSet(d.orders)
  <2>1. "orders" \in DOMAIN Reads[4]
    BY DEF Reads
  <2> QED BY <2>1 DEF Sound
<1>2. Counts4(Unique4(Frame4(d))) = Groups4(Rows4(d))
  BY <1>1, Same4, Fields4Are
<1>3. PolarsRows4(d) = Rows4(d)
  BY PolarsRows4Are
<1> QED BY <1>2, <1>3, Sql4, Polars4, Pandas4

Lacks(R, o) == \A r \in R : o \notin DOMAIN r

NeverNull(S, o) == \A s \in S : o \in DOMAIN s /\ s[o] # Null

(* The rows of a left join that found nothing.                             *)
LEMMA Unmatched ==
  ASSUME NEW R, NEW S, NEW a, NEW b, NEW cols, NEW o \in cols, Lacks(R, o), NeverNull(S, o), NEW x
  PROVE  x \in LeftMerge(R, S, <<a>>, <<b>>, cols) /\ x[o] = Null <=>
         \E r \in R : (\A s \in S : r[a] # s[b]) /\ x = Joined(r, [c \in cols |-> Null])
<1> DEFINE n == [c \in cols |-> Null]
<1>1. DOMAIN n = cols /\ n[o] = Null
  OBVIOUS
<1> HIDE DEF n
<1>2. \A r \in R : Joined(r, n)[o] = Null
  BY <1>1, JoinedRight DEF Lacks
<1>3. \A r \in R, s \in S : Joined(r, s)[o] # Null
  BY JoinedRight DEF Lacks, NeverNull
<1>4. \A r, s : Match(r, s, <<a>>, <<b>>) <=> r[a] = s[b]
  BY DEF Match
<1>5. x \in Merge(R, S, <<a>>, <<b>>) => x[o] # Null
  BY <1>3, InMerge
<1>6. \A r : r \in R \ SemiMerge(R, S, <<a>>, <<b>>) <=> r \in R /\ \A s \in S : r[a] # s[b]
  BY <1>4 DEF SemiMerge
<1>7. x \in LeftMerge(R, S, <<a>>, <<b>>, cols) <=>
        \/ x \in Merge(R, S, <<a>>, <<b>>)
        \/ \E r \in R \ SemiMerge(R, S, <<a>>, <<b>>) : x = Joined(r, n)
  BY DEF LeftMerge, n
<1> QED BY <1>2, <1>5, <1>6, <1>7 DEF n

\* The left row of a join is told by its own columns.
LEMMA JoinedKeepsLeft ==
  ASSUME NEW r, NEW s, NEW n, IsFcn(r), IsFcn(s), DOMAIN n \cap DOMAIN r = {},
           DOMAIN n \cap DOMAIN s = {},
         Joined(r, n) = Joined(s, n)
  PROVE  r = s
<1>1. DOMAIN r \cup DOMAIN n = DOMAIN s \cup DOMAIN n
  BY JoinedIs, Zenon
<1>2. DOMAIN r = DOMAIN s
  BY <1>1
<1>3. \A c \in DOMAIN r : r[c] = s[c]
  BY <1>2, JoinedLeft
<1> QED BY <1>2, <1>3, SameFcn

-----------------------------------------------------------------------------
(* q22: the customers without orders.                                      *)

Codes22 == {13, 31, 23, 29, 30, 18, 17}

Chosen22(d) == {c \in d.customer : c.c_phone[1] \in Codes22}

Positive22(R) == {c \in R : c.c_acctbal > 0}

Balance22(c) == c.c_acctbal

Coded22(R) == WithColumns(R, LAMBDA c : [cntrycode |-> c.c_phone[1]])

Rows22(d) ==
    {c \in Chosen22(d) : /\ Positive22(Chosen22(d)) # {}
                         /\ c.c_acctbal * Cardinality(Positive22(Chosen22(d))) > Total(Positive22(Chosen22(d)), Balance22)
                         /\ ~ \E o \in d.orders : o.o_custkey = c.c_custkey}

Frame22(d) == {c \in Coded22(d.customer) : c.cntrycode \in Codes22}

Placed22(d) == Project(d.orders, {"o_custkey"})

Copied22(d) == Select(Placed22(d), [o_custkey |-> "o_custkey", c_custkey |-> "o_custkey"])

Without22(d, S, b) == {c \in LeftMerge(Frame22(d), S, <<"c_custkey">>, <<b>>, {"o_custkey"}) :
  c.o_custkey = Null}

Mean22(d) == Mean(Positive22(Frame22(d)), Balance22)

PolarsRows22(d) ==
    {c \in Cross(Without22(d, Copied22(d), "c_custkey"), {[avg_acctbal |-> Mean22(d)]}) :
        Positive22(Frame22(d)) # {} /\ c.c_acctbal * c.avg_acctbal[2] > c.avg_acctbal[1]}

PandasRows22(d) ==
    {c \in LeftMerge(Frame22(d), Placed22(d), <<"c_custkey">>, <<"o_custkey">>, {"o_custkey"}) :
        /\ c.o_custkey = Null
        /\ Positive22(Frame22(d)) # {} /\ c.c_acctbal * Mean22(d)[2] > Mean22(d)[1]}

Groups22(R) == GroupBy(R, {"cntrycode"}, LAMBDA g :
  [numcust |-> Cardinality(g), totacctbal |-> Total(g, Balance22)])

Counts22(R) == GroupBy(R, {"cntrycode"}, LAMBDA g :
  [numcust |-> Count(g, "c_acctbal"), totacctbal |-> Total(g, Balance22)])

Answer22(G) == Sorted(G, LAMBDA r : <<r.cntrycode>>)

\* q22 of duckdb.
LEMMA Sql22 ==
  ASSUME NEW d
  PROVE  Sql!Q22(d) = Answer22(Groups22(Coded22(Rows22(d))))
BY Zenon DEF Sorted, Sql!Sorted, Before, Sql!Before, Alpha, Sql!Alpha, Cardinality,
       Sql!Cardinality, GroupBy, Sql!GroupBy, Project, Sql!Project, On, Sql!On, Joined, Sql!Joined,
       Total, Sql!Total, SumFunction, Sql!SumFunction, SumFunctionOnSet, Sql!SumFunctionOnSet,
       FoldFunctionOnSet, Sql!FoldFunctionOnSet, MapThenFoldSet, Sql!MapThenFoldSet, WithColumns,
       Sql!WithColumns, Answer22, Groups22, Coded22, Rows22, Positive22, Chosen22, Codes22,
      Balance22, Sql!Q22

\* q22 of polars.
LEMMA Polars22 ==
  ASSUME NEW d
  PROVE  Polars!Q22(d) = Answer22(Counts22(PolarsRows22(d)))
<1> DEFINE F == Frame22(d)
           P == Positive22(F)
           M == Mean22(d)
           S == Copied22(d)
           W == Without22(d, S, "c_custkey")
           R == PolarsRows22(d)
<1>1. {c \in Polars!WithColumns(d.customer, LAMBDA c : [cntrycode |-> c.c_phone[1]]) :
        c.cntrycode \in {13, 31, 23, 29, 30, 18, 17}} = F
  BY SMT DEF WithColumns, Polars!WithColumns, Joined, Polars!Joined, Frame22, Coded22, Codes22
<1>2. Polars!Select(Polars!Project(d.orders, {"o_custkey"}),
        [o_custkey |-> "o_custkey", c_custkey |-> "o_custkey"]) = S
  BY SMT DEF Select, Polars!Select, Project, Polars!Project, On, Polars!On, Copied22, Placed22
<1> HIDE DEF F, S
<1>3. {c \in F : c.c_acctbal > 0} = P
  BY DEF Positive22
<1> HIDE DEF P
<1>4. Polars!Mean(P, LAMBDA c : c.c_acctbal) = M
  <2>1. Polars!Mean(P, LAMBDA c : c.c_acctbal) = Mean(P, Balance22)
    BY SMT DEF Total, Polars!Total, SumFunction, Polars!SumFunction, SumFunctionOnSet,
           Polars!SumFunctionOnSet, FoldFunctionOnSet, Polars!FoldFunctionOnSet, MapThenFoldSet,
           Polars!MapThenFoldSet, Mean, Polars!Mean, Cardinality, Polars!Cardinality, Balance22
  <2> QED BY <2>1 DEF Mean22, P, F
<1> HIDE DEF M
<1>5. {c \in Polars!LeftMerge(F, S, <<"c_custkey">>, <<"c_custkey">>, {"o_custkey"}) : c.o_custkey
        = Null} = W
  BY SMT DEF LeftMerge, Polars!LeftMerge, SemiMerge, Polars!SemiMerge, Merge, Polars!Merge, Match,
         Polars!Match, Joined, Polars!Joined, Without22, F
<1> HIDE DEF W
<1>6. {c \in Polars!Cross(W, {[avg_acctbal |-> M]}) : P # {}
        /\ c.c_acctbal * c.avg_acctbal[2] > c.avg_acctbal[1]} = R
  <2>1. Polars!Cross(W, {[avg_acctbal |-> M]}) = Cross(W, {[avg_acctbal |-> M]})
    BY SMT DEF Cross, Polars!Cross, Joined, Polars!Joined
  <2> QED BY <2>1, Zenon DEF PolarsRows22, W, S, M, P, F
<1> HIDE DEF R
<1>7. Polars!Sorted(Polars!GroupBy(R, {"cntrycode"}, LAMBDA g :
        [numcust |-> Polars!Count(g, "c_acctbal"),
        totacctbal |-> Polars!Total(g, LAMBDA c : c.c_acctbal)]),
                    LAMBDA r : <<r.cntrycode>>) = Answer22(Counts22(R))
  BY Zenon DEF Sorted, Polars!Sorted, Before, Polars!Before, Alpha, Polars!Alpha, Cardinality,
         Polars!Cardinality, GroupBy, Polars!GroupBy, Project, Polars!Project, On, Polars!On,
         Joined, Polars!Joined, Total, Polars!Total, SumFunction, Polars!SumFunction,
         SumFunctionOnSet, Polars!SumFunctionOnSet, FoldFunctionOnSet, Polars!FoldFunctionOnSet,
         MapThenFoldSet, Polars!MapThenFoldSet, Count, Polars!Count, Answer22, Counts22, Balance22
<1>8. Polars!Q22(d) = Answer22(Counts22(R))
  BY <1>1, <1>2, <1>3, <1>4, <1>5, <1>6, <1>7, Zenon DEF Polars!Q22
<1> QED BY <1>8 DEF R

\* q22 of pandas.
LEMMA Pandas22 ==
  ASSUME NEW d
  PROVE  Pandas!Q22(d) = Answer22(Counts22(PandasRows22(d)))
<1> DEFINE F == Frame22(d)
           P == Positive22(F)
           M == Mean22(d)
           S == Placed22(d)
           R == PandasRows22(d)
<1>1. {c \in Pandas!WithColumns(d.customer, LAMBDA c : [cntrycode |-> c.c_phone[1]]) :
        c.cntrycode \in {13, 31, 23, 29, 30, 18, 17}} = F
  BY SMT DEF WithColumns, Pandas!WithColumns, Joined, Pandas!Joined, Frame22, Coded22, Codes22
<1>2. Pandas!Project(d.orders, {"o_custkey"}) = S
  BY SMT DEF Project, Pandas!Project, On, Pandas!On, Placed22
<1> HIDE DEF F, S
<1>3. {c \in F : c.c_acctbal > 0} = P
  BY DEF Positive22
<1> HIDE DEF P
<1>4. Pandas!Mean(P, LAMBDA c : c.c_acctbal) = M
  <2>1. Pandas!Mean(P, LAMBDA c : c.c_acctbal) = Mean(P, Balance22)
    BY SMT DEF Total, Pandas!Total, SumFunction, Pandas!SumFunction, SumFunctionOnSet,
           Pandas!SumFunctionOnSet, FoldFunctionOnSet, Pandas!FoldFunctionOnSet, MapThenFoldSet,
           Pandas!MapThenFoldSet, Mean, Pandas!Mean, Cardinality, Pandas!Cardinality, Balance22
  <2> QED BY <2>1 DEF Mean22, P, F
<1> HIDE DEF M
<1>5. Pandas!LeftMerge(F, S, <<"c_custkey">>, <<"o_custkey">>, {"o_custkey"})
        = LeftMerge(F, S, <<"c_custkey">>, <<"o_custkey">>, {"o_custkey"})
  BY SMT DEF LeftMerge, Pandas!LeftMerge, SemiMerge, Pandas!SemiMerge, Merge, Pandas!Merge, Match,
         Pandas!Match, Joined, Pandas!Joined
<1>6. {c \in Pandas!LeftMerge(F, S, <<"c_custkey">>, <<"o_custkey">>, {"o_custkey"}) :
          c.o_custkey = Null /\ P # {} /\ c.c_acctbal * M[2] > M[1]} = R
  BY <1>5, Zenon DEF PandasRows22, S, M, P, F
<1> HIDE DEF R
<1>7. Pandas!Sorted(Pandas!GroupBy(R, {"cntrycode"}, LAMBDA g :
        [numcust |-> Pandas!Count(g, "c_acctbal"),
        totacctbal |-> Pandas!Total(g, LAMBDA c : c.c_acctbal)]),
                    LAMBDA r : <<r.cntrycode>>) = Answer22(Counts22(R))
  BY Zenon DEF Sorted, Pandas!Sorted, Before, Pandas!Before, Alpha, Pandas!Alpha, Cardinality,
         Pandas!Cardinality, GroupBy, Pandas!GroupBy, Project, Pandas!Project, On, Pandas!On,
         Joined, Pandas!Joined, Total, Pandas!Total, SumFunction, Pandas!SumFunction,
         SumFunctionOnSet, Pandas!SumFunctionOnSet, FoldFunctionOnSet, Pandas!FoldFunctionOnSet,
         MapThenFoldSet, Pandas!MapThenFoldSet, Count, Pandas!Count, Answer22, Counts22, Balance22
<1>8. Pandas!Q22(d) = Answer22(Counts22(R))
  BY <1>1, <1>2, <1>3, <1>4, <1>6, <1>7, Zenon DEF Pandas!Q22
<1> QED BY <1>8 DEF R

Coded(c) == Joined([cntrycode |-> c["c_phone"][1]], c)

Fields22(d) ==
    /\ IsFiniteSet(d.customer)
    /\ \A c \in d.customer : /\ IsFcn(c) /\ {"c_custkey", "c_phone", "c_acctbal"} \subseteq DOMAIN c
                             /\ "cntrycode" \notin DOMAIN c /\ "o_custkey" \notin DOMAIN c
                                  /\ "avg_acctbal" \notin DOMAIN c
                             /\ c["c_acctbal"] \in Int
    /\ \A o \in d.orders : "o_custkey" \in DOMAIN o /\ o["o_custkey"] # Null

\* The tables have the columns that q22 reads.
LEMMA Fields22Are ==
  ASSUME NEW d, Sound(d, Reads[22])
  PROVE  Fields22(d)
<1>1. /\ "customer" \in DOMAIN Reads[22] /\ "orders" \in DOMAIN Reads[22]
      /\ Reads[22]["customer"] = {"c_custkey", "c_phone", "c_acctbal"} /\ Reads[22]["orders"]
           = {"o_custkey"}
  BY DEF Reads
<1>2. /\ "cntrycode" \notin Columns["customer"] /\ "o_custkey" \notin Columns["customer"]
      /\ "avg_acctbal" \notin Columns["customer"] /\ "c_acctbal" \in Quantities
  BY DEF Columns, Quantities
<1> QED BY <1>1, <1>2 DEF Sound, Fits, Fields22

\* A customer with its country code.
LEMMA CodedIs ==
  ASSUME NEW d, Fields22(d), NEW c \in d.customer
  PROVE  /\ IsFcn(Coded(c)) /\ DOMAIN Coded(c) = {"cntrycode"} \cup DOMAIN c
         /\ Coded(c)["cntrycode"] = c["c_phone"][1]
         /\ Coded(c)["c_custkey"] = c["c_custkey"] /\ Coded(c)["c_acctbal"] = c["c_acctbal"]
<1> DEFINE m == [cntrycode |-> c["c_phone"][1]]
<1>1. DOMAIN m = {"cntrycode"} /\ m["cntrycode"] = c["c_phone"][1]
  OBVIOUS
<1>2. {"c_custkey", "c_phone", "c_acctbal"} \subseteq DOMAIN c /\ "cntrycode" \notin DOMAIN c
  BY DEF Fields22
<1> HIDE DEF m
<1>3. Coded(c) = Joined(m, c)
  BY DEF Coded, m
<1>4. IsFcn(Coded(c)) /\ DOMAIN Coded(c) = DOMAIN m \cup DOMAIN c
  BY <1>3, JoinedIs
<1>5. /\ Joined(m, c)["cntrycode"] = c["c_phone"][1]
      /\ Joined(m, c)["c_custkey"] = c["c_custkey"] /\ Joined(m, c)["c_acctbal"] = c["c_acctbal"]
  BY <1>1, <1>2 DEF Joined
<1> QED BY <1>1, <1>3, <1>4, <1>5

\* The code is added to each customer once.
LEMMA CodedIsOneToOne ==
  ASSUME NEW d, Fields22(d), NEW c \in d.customer, NEW e \in d.customer, Coded(c) = Coded(e)
  PROVE  c = e
<1> DEFINE m == [cntrycode |-> c["c_phone"][1]]
           n == [cntrycode |-> e["c_phone"][1]]
<1>1. DOMAIN m = {"cntrycode"} /\ DOMAIN n = {"cntrycode"} /\ Joined(m, c) = Joined(n, e)
  BY DEF Coded
<1>2. IsFcn(c) /\ IsFcn(e) /\ "cntrycode" \notin DOMAIN c /\ "cntrycode" \notin DOMAIN e
  BY DEF Fields22
<1> HIDE DEF m, n
<1> QED BY <1>1, <1>2, JoinedIsOneToOne

\* The customers with their codes.
LEMMA InCoded22 ==
  ASSUME NEW R, NEW x
  PROVE  x \in Coded22(R) <=> \E c \in R : x = Coded(c)
BY DEF Coded22, WithColumns, Coded

\* The rows of the joins of q22, in terms of the tables.
LEMMA InFrame22 ==
  ASSUME NEW d, Fields22(d), NEW x
  PROVE  x \in Frame22(d) <=> \E c \in Chosen22(d) : x = Coded(c)
<1>1. x \in Frame22(d) <=> x \in Coded22(d.customer) /\ x["cntrycode"] \in Codes22
  BY DEF Frame22
<1>2. \A c : c \in Chosen22(d) <=> c \in d.customer /\ c["c_phone"][1] \in Codes22
  BY DEF Chosen22
<1>3. \A c \in d.customer : Coded(c)["cntrycode"] = c["c_phone"][1]
  BY CodedIs
<1> QED BY <1>1, <1>2, <1>3, InCoded22

\* The average is over the same positive balances.
LEMMA Positive22Is ==
  ASSUME NEW d, Fields22(d)
  PROVE  /\ Positive22(Frame22(d)) # {} <=> Positive22(Chosen22(d)) # {}
         /\ Cardinality(Positive22(Frame22(d))) = Cardinality(Positive22(Chosen22(d)))
         /\ Total(Positive22(Frame22(d)), Balance22) = Total(Positive22(Chosen22(d)), Balance22)
<1> DEFINE P == Positive22(Chosen22(d))
           Q == Positive22(Frame22(d))
           b == [c \in P |-> Coded(c)]
<1>1. \A c \in P : c \in d.customer /\ c["c_acctbal"] \in Int /\ Coded(c)["c_acctbal"]
        = c["c_acctbal"]
  <2>1. \A c \in P : c \in d.customer
    BY DEF Positive22, Chosen22
  <2>2. \A c \in d.customer : Coded(c)["c_acctbal"] = c["c_acctbal"]
    BY CodedIs
  <2>3. \A c \in d.customer : c["c_acctbal"] \in Int
    BY DEF Fields22
  <2> HIDE DEF P
  <2> QED BY <2>1, <2>2, <2>3
<1>2. \A x : x \in Q <=> \E c \in P : x = Coded(c)
  <2>1. \A x : x \in Q <=> (\E c \in Chosen22(d) : x = Coded(c)) /\ x["c_acctbal"] > 0
    BY InFrame22 DEF Positive22
  <2>2. \A c : c \in P <=> c \in Chosen22(d) /\ c["c_acctbal"] > 0
    BY DEF Positive22
  <2>3. \A c \in Chosen22(d) : Coded(c)["c_acctbal"] = c["c_acctbal"]
    <3>1. \A c \in Chosen22(d) : c \in d.customer
      BY DEF Chosen22
    <3> QED BY <3>1, CodedIs
  <2> HIDE DEF P, Q
  <2> QED BY <2>1, <2>2, <2>3
<1>3. IsFiniteSet(P)
  BY <1>1, FiniteKept DEF Fields22
<1> HIDE DEF P, Q
<1>4. \A x, y \in P : b[x] = b[y] => x = y
  BY <1>1, CodedIsOneToOne
<1>5. Q = ImageOf(b, P)
  BY <1>2 DEF ImageOf
<1>6. \A x \in P : b[x]["c_acctbal"] = x["c_acctbal"]
  BY <1>1
<1> HIDE DEF b
<1>7. Cardinality(Q) = Cardinality(P)
  BY <1>3, <1>4, <1>5, SizeOfImage
<1>8. Q # {} <=> P # {}
  BY <1>2
<1>9. Total(Q, Balance22) = Total(P, Balance22)
  <2> DEFINE f == [x \in P |-> Balance22(x)]
             h == [x \in Q |-> Balance22(x)]
  <2>1. DOMAIN f = P /\ DOMAIN h = ImageOf(b, P)
    BY <1>5
  <2>2. \A x \in P : f[x] \in Int /\ h[b[x]] = f[x]
    BY <1>1, <1>5, <1>6 DEF Balance22, ImageOf
  <2> HIDE DEF f, h
  <2>3. SumFunction(h) = SumFunction(f)
    BY <1>3, <1>4, <2>1, <2>2, TotalOfImage
  <2> QED BY <2>3, Zenon DEF Total, f, h
<1> QED BY <1>7, <1>8, <1>9 DEF P, Q

Null22 == [c \in {"o_custkey"} |-> Null]

Alone22(d, c) == \A o \in d.orders : o["o_custkey"] # c["c_custkey"]

\* The customers without orders.
LEMMA InWithout22 ==
  ASSUME NEW d, Fields22(d), NEW x
  PROVE  /\ x \in Without22(d, Placed22(d), "o_custkey") <=>
            \E c \in Chosen22(d) : Alone22(d, c) /\ x = Joined(Coded(c), Null22)
         /\ x \in Without22(d, Copied22(d), "c_custkey") <=>
            \E c \in Chosen22(d) : Alone22(d, c) /\ x = Joined(Coded(c), Null22)
<1>1. \A s : s \in Placed22(d) <=> \E o \in d.orders : s = On(o, {"o_custkey"})
  BY DEF Placed22, Project
<1>2. \A o : DOMAIN On(o, {"o_custkey"}) = {"o_custkey"} /\ On(o, {"o_custkey"})["o_custkey"]
        = o["o_custkey"]
  BY DEF On
<1> DEFINE as == [o_custkey |-> "o_custkey", c_custkey |-> "o_custkey"]
           copy(s) == [c \in DOMAIN as |-> s[as[c]]]
<1>3. \A s : s \in Copied22(d) <=> \E p \in Placed22(d) : s = copy(p)
  BY DEF Copied22, Select
<1>4. \A s : /\ DOMAIN copy(s) = {"o_custkey", "c_custkey"}
             /\ copy(s)["o_custkey"] = s["o_custkey"] /\ copy(s)["c_custkey"] = s["o_custkey"]
  OBVIOUS
<1> HIDE DEF copy
<1>5. /\ \A s \in Placed22(d) : "o_custkey" \in DOMAIN s /\ s["o_custkey"] # Null
      /\ \A k : (\E s \in Placed22(d) : s["o_custkey"] = k) <=> \E o \in d.orders : o["o_custkey"]
           = k
  BY <1>1, <1>2 DEF Fields22
<1>6. /\ \A s \in Copied22(d) : "o_custkey" \in DOMAIN s /\ s["o_custkey"] # Null
      /\ \A k : (\E s \in Copied22(d) : s["c_custkey"] = k) <=> \E o \in d.orders : o["o_custkey"]
           = k
  BY <1>3, <1>4, <1>5
<1>7. ASSUME NEW S, NEW b, \A s \in S : "o_custkey" \in DOMAIN s /\ s["o_custkey"] # Null,
             \A k : (\E s \in S : s[b] = k) <=> \E o \in d.orders : o["o_custkey"] = k
      PROVE  x \in Without22(d, S, b) <=> \E c \in Chosen22(d) : Alone22(d, c) /\ x
               = Joined(Coded(c), Null22)
  <2>1. \A c \in Chosen22(d) : c \in d.customer
    BY DEF Chosen22
  <2>2. \A c \in Chosen22(d) : Coded(c)["c_custkey"] = c["c_custkey"]
          /\ "o_custkey" \notin DOMAIN Coded(c)
    <3> SUFFICES ASSUME NEW c \in Chosen22(d)
                 PROVE  Coded(c)["c_custkey"] = c["c_custkey"] /\ "o_custkey" \notin DOMAIN Coded(c)
      OBVIOUS
    <3>1. c \in d.customer /\ "o_custkey" \notin DOMAIN c
      BY <2>1 DEF Fields22
    <3>2. Coded(c)["c_custkey"] = c["c_custkey"] /\ DOMAIN Coded(c) = {"cntrycode"} \cup DOMAIN c
      BY <3>1, CodedIs
    <3> QED BY <3>1, <3>2
  <2>3. \A r \in Frame22(d) : "o_custkey" \notin DOMAIN r
    BY <2>2, InFrame22
  <2> DEFINE R == Frame22(d)
             a == "c_custkey"
             cols == {"o_custkey"}
             o == "o_custkey"
  <2>4. o \in cols /\ Lacks(R, o) /\ NeverNull(S, o)
    BY <1>7, <2>3 DEF Lacks, NeverNull
  <2>5. x \in LeftMerge(R, S, <<a>>, <<b>>, cols) /\ x[o] = Null <=>
         \E r \in R : (\A s \in S : r[a] # s[b]) /\ x = Joined(r, [c \in cols |-> Null])
    <3> HIDE DEF R, a, cols, o
    <3> QED BY <2>4, Unmatched
  <2>6. x \in Without22(d, S, b) <=>
         \E r \in Frame22(d) : (\A s \in S : r["c_custkey"] # s[b]) /\ x = Joined(r, Null22)
    BY <2>5 DEF Without22, Null22
  <2>7. \A r : (\A s \in S : r["c_custkey"] # s[b]) <=> \A p \in d.orders :
          p["o_custkey"] # r["c_custkey"]
    BY <1>7
  <2> QED BY <2>2, <2>6, <2>7, InFrame22 DEF Alone22
<1>8. x \in Without22(d, Placed22(d), "o_custkey") <=>
            \E c \in Chosen22(d) : Alone22(d, c) /\ x = Joined(Coded(c), Null22)
  BY <1>5, <1>7
<1>9. x \in Without22(d, Copied22(d), "c_custkey") <=>
            \E c \in Chosen22(d) : Alone22(d, c) /\ x = Joined(Coded(c), Null22)
  BY <1>6, <1>7
<1> QED BY <1>8, <1>9

Average22(d) == [avg_acctbal |-> Mean22(d)]

Rich22(d, c) == /\ Positive22(Frame22(d)) # {}
                /\ c["c_acctbal"] * Mean22(d)[2] > Mean22(d)[1]

\* The customers that the SQL selects.
LEMMA InRows22 ==
  ASSUME NEW d, Fields22(d), NEW c
  PROVE  c \in Rows22(d) <=> c \in Chosen22(d) /\ Rich22(d, c) /\ Alone22(d, c)
<1>1. /\ Mean22(d)[1] = Total(Positive22(Frame22(d)), Balance22)
      /\ Mean22(d)[2] = Cardinality(Positive22(Frame22(d)))
  <2> DEFINE t == Total(Positive22(Frame22(d)), Balance22)
             n == Cardinality(Positive22(Frame22(d)))
  <2>1. Mean22(d) = <<t, n>>
    BY Zenon DEF Mean22, Mean
  <2> HIDE DEF t, n
  <2>2. Mean22(d)[1] = t /\ Mean22(d)[2] = n
    BY <2>1
  <2> QED BY <2>2 DEF t, n
<1> DEFINE T == Total(Positive22(Chosen22(d)), Balance22)
           P == Positive22(Chosen22(d))
<1>2. Mean22(d)[1] = T /\ Mean22(d)[2] = Cardinality(P)
  BY <1>1, Positive22Is
<1>3. c \in Rows22(d) <=> /\ c \in Chosen22(d) /\ P # {} /\ c["c_acctbal"] * Cardinality(P) > T
                          /\ ~ \E o \in d.orders : o["o_custkey"] = c["c_custkey"]
  BY Zenon DEF Rows22
<1>4. Positive22(Frame22(d)) # {} <=> P # {}
  BY Positive22Is
<1> HIDE DEF T, P
<1> QED BY <1>2, <1>3, <1>4 DEF Rich22, Alone22

\* Their columns in the frames.
LEMMA Joined22 ==
  ASSUME NEW d, Fields22(d), NEW c \in d.customer
  PROVE  LET n == Joined(Coded(c), Null22)
             m == Joined(n, Average22(d))
         IN  /\ n["c_acctbal"] = c["c_acctbal"] /\ n["cntrycode"] = c["c_phone"][1]
             /\ m["c_acctbal"] = c["c_acctbal"] /\ m["cntrycode"] = c["c_phone"][1]
             /\ m["avg_acctbal"] = Mean22(d)
             /\ IsFcn(n) /\ DOMAIN n = {"cntrycode", "o_custkey"} \cup DOMAIN c
<1> DEFINE u == Coded(c)
           n == Joined(Coded(c), Null22)
           m == Joined(n, Average22(d))
<1>1. /\ DOMAIN u = {"cntrycode"} \cup DOMAIN c
      /\ u["cntrycode"] = c["c_phone"][1] /\ u["c_acctbal"] = c["c_acctbal"]
  BY CodedIs
<1>2. "c_acctbal" \in DOMAIN c /\ "avg_acctbal" \notin DOMAIN c
  BY DEF Fields22
<1>3. DOMAIN Null22 = {"o_custkey"}
  BY DEF Null22
<1>4. DOMAIN Average22(d) = {"avg_acctbal"} /\ Average22(d)["avg_acctbal"] = Mean22(d)
  BY DEF Average22
<1> HIDE DEF u
<1>5. /\ n["c_acctbal"] = u["c_acctbal"] /\ n["cntrycode"] = u["cntrycode"]
      /\ IsFcn(n) /\ DOMAIN n = {"cntrycode", "o_custkey"} \cup DOMAIN c
  <2>1. n = Joined(u, Null22)
    BY DEF u
  <2>2. IsFcn(n)
    BY <2>1, JoinedIs
  <2> HIDE DEF n
  <2> QED BY <1>1, <1>2, <1>3, <2>1, <2>2 DEF Joined
<1> HIDE DEF n
<1>6. m["c_acctbal"] = n["c_acctbal"] /\ m["cntrycode"] = n["cntrycode"] /\ m["avg_acctbal"]
        = Mean22(d)
  BY <1>2, <1>4, <1>5 DEF Joined
<1> QED BY <1>1, <1>5, <1>6 DEF n

\* The frame's rows are those customers.
LEMMA InPandas22 ==
  ASSUME NEW d, Fields22(d), NEW x
  PROVE  x \in PandasRows22(d) <=> \E c \in Rows22(d) : x = Joined(Coded(c), Null22)
<1>1. x \in PandasRows22(d) <=> x \in Without22(d, Placed22(d), "o_custkey") /\ Rich22(d, x)
  BY Zenon DEF PandasRows22, Without22, Rich22
<1>2. \A c \in Chosen22(d) : Rich22(d, Joined(Coded(c), Null22)) <=> Rich22(d, c)
  <2>1. \A c \in Chosen22(d) : c \in d.customer
    BY DEF Chosen22
  <2>2. \A c \in d.customer : Joined(Coded(c), Null22)["c_acctbal"] = c["c_acctbal"]
    BY Joined22
  <2> QED BY <2>1, <2>2 DEF Rich22
<1> QED BY <1>1, <1>2, InWithout22, InRows22

\* The frame's rows are those customers.
LEMMA InPolars22 ==
  ASSUME NEW d, Fields22(d), NEW x
  PROVE  x \in PolarsRows22(d) <=> \E c \in Rows22(d) : x
           = Joined(Joined(Coded(c), Null22), Average22(d))
<1> DEFINE W == Without22(d, Copied22(d), "c_custkey")
<1>1. x \in Cross(W, {Average22(d)}) <=> \E w \in W : x = Joined(w, Average22(d))
  <2> DEFINE A == Average22(d)
  <2> HIDE DEF W, A
  <2>1. x \in W \otimes {A} <=> \E w \in W, a \in {A} : x = Joined(w, a)
    BY InCross
  <2>2. W \otimes {A} = Cross(W, {A})
    BY DEF \otimes
  <2>3. x \in Cross(W, {A}) <=> \E w \in W : x = Joined(w, A)
    BY <2>1, <2>2
  <2> QED BY <2>3 DEF A
<1>2. x \in PolarsRows22(d) <=> /\ x \in Cross(W, {Average22(d)}) /\ Positive22(Frame22(d)) # {}
                                /\ x["c_acctbal"] * x["avg_acctbal"][2] > x["avg_acctbal"][1]
  BY Zenon DEF PolarsRows22, Average22
<1>3. \A w : w \in W <=> \E c \in Chosen22(d) : Alone22(d, c) /\ w = Joined(Coded(c), Null22)
  BY InWithout22
<1> HIDE DEF W
<1> DEFINE m(c) == Joined(Joined(Coded(c), Null22), Average22(d))
<1>4. \A c \in Chosen22(d) : m(c)["c_acctbal"] = c["c_acctbal"] /\ m(c)["avg_acctbal"] = Mean22(d)
  <2>1. \A c \in Chosen22(d) : c \in d.customer
    BY DEF Chosen22
  <2>2. \A c \in d.customer : m(c)["c_acctbal"] = c["c_acctbal"] /\ m(c)["avg_acctbal"] = Mean22(d)
    BY Joined22
  <2> HIDE DEF m
  <2> QED BY <2>1, <2>2
<1>5. x \in Cross(W, {Average22(d)}) <=> \E c \in Chosen22(d) : Alone22(d, c) /\ x = m(c)
  BY <1>1, <1>3
<1> HIDE DEF m
<1>6. x \in PolarsRows22(d) <=> \E c \in Chosen22(d) : Alone22(d, c) /\ x = m(c) /\ Rich22(d, c)
  BY <1>2, <1>4, <1>5 DEF Rich22
<1> QED BY <1>6, InRows22 DEF m

Agg22(R) == [g \in SUBSET R |-> [numcust |-> Cardinality(g), totacctbal |-> Total(g, Balance22)]]

AggNull22(R) == [g \in SUBSET R |-> [numcust |-> Count(g, "c_acctbal"),
  totacctbal |-> Total(g, Balance22)]]

\* The groups of q22.
LEMMA Groups22Are ==
  ASSUME NEW R
  PROVE  /\ Groups22(R) = Grouped(R, KeyOn(R, {"cntrycode"}), Agg22(R))
         /\ Counts22(R) = Grouped(R, KeyOn(R, {"cntrycode"}), AggNull22(R))
<1> DEFINE C == {"cntrycode"}
           G(j) == {r \in R : On(r, C) = j}
<1>1. ASSUME NEW j PROVE /\ Agg22(R)[G(j)] = [numcust |-> Cardinality(G(j)), totacctbal |-> Total(G(j), Balance22)]
                         /\ AggNull22(R)[G(j)] = [numcust |-> Count(G(j), "c_acctbal"),
                              totacctbal |-> Total(G(j), Balance22)]
  <2>1. G(j) \in SUBSET R
    OBVIOUS
  <2> HIDE DEF G
  <2> QED BY <2>1, Zenon DEF Agg22, AggNull22
<1>2. ASSUME NEW x PROVE x \in Groups22(R) <=> x \in GroupedOn(R, C, Agg22(R))
  BY <1>1, Zenon DEF Groups22, GroupBy, GroupedOn
<1>3. ASSUME NEW x PROVE x \in Counts22(R) <=> x \in GroupedOn(R, C, AggNull22(R))
  BY <1>1, Zenon DEF Counts22, GroupBy, GroupedOn
<1>4. Groups22(R) = GroupedOn(R, C, Agg22(R)) /\ Counts22(R) = GroupedOn(R, C, AggNull22(R))
  BY <1>2, <1>3, Zenon
<1> QED BY <1>4, GroupedOnIs, Zenon

SameBalance22(R, J, b) ==
    \A r \in R : /\ b[r]["cntrycode"] = r["cntrycode"] /\ b[r]["c_acctbal"] = r["c_acctbal"]
                 /\ r["c_acctbal"] \in Int

\* Groups of corresponding rows.
LEMMA SameGroups22 ==
  ASSUME NEW R, IsFiniteSet(R), NEW J, NEW b, OneToOne(b, R, J), SameBalance22(R, J, b)
  PROVE  Counts22(J) = Groups22(R)
<1> DEFINE C == {"cntrycode"}
<1>1. ASSUME NEW r \in R PROVE KeyOn(J, C)[b[r]] = KeyOn(R, C)[r]
  <2>1. b[r] \in J
    BY DEF OneToOne
  <2>2. On(b[r], C) = On(r, C)
    BY DEF On, SameBalance22
  <2> QED BY <2>1, <2>2 DEF KeyOn
<1>2. ASSUME NEW g \in SUBSET R PROVE AggNull22(J)[ImageOf(b, g)] = Agg22(R)[g]
  <2> DEFINE q == ImageOf(b, g)
             f == [x \in g |-> Balance22(x)]
             h == [x \in q |-> Balance22(x)]
  <2>1. IsFiniteSet(g)
    BY FS_Subset
  <2>2. \A x, y \in g : b[x] = b[y] => x = y
    BY DEF OneToOne
  <2>3. \A x \in g : f[x] \in Int /\ h[b[x]] = f[x]
    BY DEF SameBalance22, Balance22, ImageOf
  <2>4. DOMAIN f = g /\ DOMAIN h = ImageOf(b, g)
    OBVIOUS
  <2>5. Cardinality(q) = Cardinality(g)
    BY <2>1, <2>2, SizeOfImage
  <2>6. {r \in q : r["c_acctbal"] # Null} = q
    <3>1. \A r \in q : r["c_acctbal"] \in Int
      BY DEF SameBalance22, ImageOf
    <3>2. \A r \in q : r["c_acctbal"] # Null
      BY <3>1, NullAssumption
    <3> HIDE DEF q
    <3> QED BY <3>2
  <2>7. q \in SUBSET J
    BY DEF ImageOf, OneToOne
  <2>8. SumFunction(h) = SumFunction(f)
    <3> HIDE DEF f, h, q
    <3> QED BY <2>1, <2>2, <2>3, <2>4, TotalOfImage
  <2>9. Total(q, Balance22) = Total(g, Balance22)
    BY <2>8, Zenon DEF Total
  <2>10. Count(q, "c_acctbal") = Cardinality(g)
    BY <2>5, <2>6, Zenon DEF Count
  <2> HIDE DEF q
  <2>11. AggNull22(J)[q] = Agg22(R)[g]
    BY <2>7, <2>9, <2>10, Zenon DEF AggNull22, Agg22
  <2> QED BY <2>11 DEF q
<1>3. SameAggregates(R, b, Agg22(R), AggNull22(J))
  BY <1>2 DEF SameAggregates
<1>4. Grouped(J, KeyOn(J, C), AggNull22(J)) = Grouped(R, KeyOn(R, C), Agg22(R))
  <2> HIDE DEF C
  <2> QED BY <1>1, <1>3, GroupsOfImage
<1> QED BY <1>4, Groups22Are, Zenon

\* The selected customers with their codes.
LEMMA Coded22Are ==
  ASSUME NEW d, Fields22(d)
  PROVE  LET R == Coded22(Rows22(d)) IN
         /\ IsFiniteSet(R)
         /\ \A r \in R : IsFcn(r) /\ {"o_custkey", "avg_acctbal"} \cap DOMAIN r = {}
              /\ r["c_acctbal"] \in Int
         /\ \A r \in R : \E c \in Rows22(d) : r = Coded(c)
         /\ \A c \in Rows22(d) : Coded(c) \in R /\ c \in d.customer
<1> DEFINE R == Coded22(Rows22(d))
           P == Rows22(d)
           b == [c \in P |-> Coded(c)]
<1>1. \A c \in P : c \in d.customer
  BY DEF Rows22, Chosen22
<1>2. \A r : r \in R <=> \E c \in P : r = Coded(c)
  BY InCoded22
<1>3. IsFiniteSet(P)
  BY <1>1, FiniteKept DEF Fields22
<1>4. ASSUME NEW c \in P
      PROVE  IsFcn(Coded(c)) /\ {"o_custkey", "avg_acctbal"} \cap DOMAIN Coded(c) = {}
               /\ Coded(c)["c_acctbal"] \in Int
  <2>1. c \in d.customer /\ "o_custkey" \notin DOMAIN c /\ "avg_acctbal" \notin DOMAIN c
          /\ c["c_acctbal"] \in Int
    BY <1>1 DEF Fields22
  <2>2. /\ IsFcn(Coded(c)) /\ DOMAIN Coded(c) = {"cntrycode"} \cup DOMAIN c
        /\ Coded(c)["c_acctbal"] = c["c_acctbal"]
    BY <2>1, CodedIs
  <2> QED BY <2>1, <2>2
<1> HIDE DEF P, R
<1>5. R = ImageOf(b, P)
  BY <1>2 DEF ImageOf
<1> HIDE DEF b
<1>6. IsFiniteSet(R)
  BY <1>3, <1>5, FiniteImage
<1> QED BY <1>1, <1>2, <1>4, <1>6 DEF P, R

\* The frame counts and sums what the SQL does.
LEMMA PandasGroups22 ==
  ASSUME NEW d, Fields22(d)
  PROVE  Counts22(PandasRows22(d)) = Groups22(Coded22(Rows22(d)))
<1> DEFINE R == Coded22(Rows22(d))
           J == PandasRows22(d)
           b == [r \in R |-> Joined(r, Null22)]
<1>1. /\ IsFiniteSet(R)
      /\ \A r \in R : IsFcn(r) /\ {"o_custkey", "avg_acctbal"} \cap DOMAIN r = {}
           /\ r["c_acctbal"] \in Int
      /\ \A r \in R : \E c \in Rows22(d) : r = Coded(c)
      /\ \A c \in Rows22(d) : Coded(c) \in R /\ c \in d.customer
  BY Coded22Are
<1>2. \A x : x \in J <=> \E c \in Rows22(d) : x = Joined(Coded(c), Null22)
  BY InPandas22
<1> HIDE DEF R, J
<1>3. DOMAIN Null22 = {"o_custkey"}
  BY DEF Null22
<1>4. ASSUME NEW r \in R, NEW s \in R, Joined(r, Null22) = Joined(s, Null22) PROVE r = s
  <2>1. DOMAIN Null22 \cap DOMAIN r = {} /\ DOMAIN Null22 \cap DOMAIN s = {} /\ IsFcn(r) /\ IsFcn(s)
    BY <1>1, <1>3
  <2> QED BY <1>4, <2>1, JoinedKeepsLeft
<1>5. \A r \in R : Joined(r, Null22) \in J
  BY <1>1, <1>2
<1>6. \A x \in J : \E r \in R : x = Joined(r, Null22)
  BY <1>1, <1>2
<1>7. OneToOne(b, R, J)
  BY <1>4, <1>5, <1>6 DEF OneToOne
<1>8. SameBalance22(R, J, b)
  <2> SUFFICES ASSUME NEW r \in R
               PROVE  /\ Joined(r, Null22)["cntrycode"] = r["cntrycode"] /\ Joined(r, Null22)["c_acctbal"] = r["c_acctbal"]
                      /\ r["c_acctbal"] \in Int
    BY DEF SameBalance22
  <2>1. PICK c \in Rows22(d) : r = Coded(c)
    BY <1>1
  <2>2. c \in d.customer
    BY <1>1
  <2>3. Coded(c)["cntrycode"] = c["c_phone"][1] /\ Coded(c)["c_acctbal"] = c["c_acctbal"]
    BY <2>2, CodedIs
  <2>4. Joined(Coded(c), Null22)["c_acctbal"] = c["c_acctbal"]
          /\ Joined(Coded(c), Null22)["cntrycode"] = c["c_phone"][1]
    BY <2>2, Joined22
  <2> QED BY <1>1, <2>1, <2>3, <2>4
<1> HIDE DEF b
<1>9. Counts22(J) = Groups22(R)
  BY <1>1, <1>7, <1>8, SameGroups22
<1> QED BY <1>9 DEF R, J

\* The frame counts and sums what the SQL does.
LEMMA PolarsGroups22 ==
  ASSUME NEW d, Fields22(d)
  PROVE  Counts22(PolarsRows22(d)) = Groups22(Coded22(Rows22(d)))
<1> DEFINE R == Coded22(Rows22(d))
           J == PolarsRows22(d)
           A == Average22(d)
           b == [r \in R |-> Joined(Joined(r, Null22), A)]
<1>1. /\ IsFiniteSet(R)
      /\ \A r \in R : IsFcn(r) /\ {"o_custkey", "avg_acctbal"} \cap DOMAIN r = {}
           /\ r["c_acctbal"] \in Int
      /\ \A r \in R : \E c \in Rows22(d) : r = Coded(c)
      /\ \A c \in Rows22(d) : Coded(c) \in R /\ c \in d.customer
  BY Coded22Are
<1>2. \A x : x \in J <=> \E c \in Rows22(d) : x = Joined(Joined(Coded(c), Null22), A)
  BY InPolars22
<1>3. DOMAIN Null22 = {"o_custkey"} /\ DOMAIN A = {"avg_acctbal"}
  BY DEF Null22, Average22
<1>4. ASSUME NEW r \in R, NEW s \in R, Joined(Joined(r, Null22), A) = Joined(Joined(s, Null22), A)
      PROVE  r = s
  <2> DEFINE m == Joined(r, Null22)
             n == Joined(s, Null22)
  <2> HIDE DEF R, A
  <2>1. DOMAIN Null22 \cap DOMAIN r = {} /\ DOMAIN Null22 \cap DOMAIN s = {} /\ IsFcn(r) /\ IsFcn(s)
        /\ "avg_acctbal" \notin DOMAIN r /\ "avg_acctbal" \notin DOMAIN s
    BY <1>1, <1>3
  <2>2. /\ IsFcn(m) /\ DOMAIN m = DOMAIN r \cup DOMAIN Null22
        /\ IsFcn(n) /\ DOMAIN n = DOMAIN s \cup DOMAIN Null22
    BY JoinedIs
  <2> HIDE DEF m, n
  <2>3. DOMAIN A \cap DOMAIN m = {} /\ DOMAIN A \cap DOMAIN n = {}
    BY <1>3, <2>1, <2>2
  <2>4. Joined(m, A) = Joined(n, A)
    BY <1>4 DEF m, n
  <2>5. m = n
    BY <2>2, <2>3, <2>4, JoinedKeepsLeft
  <2>6. Joined(r, Null22) = Joined(s, Null22)
    BY <2>5 DEF m, n
  <2> QED BY <2>1, <2>6, JoinedKeepsLeft
<1> HIDE DEF R, J
<1>5. \A r \in R : Joined(Joined(r, Null22), A) \in J
  BY <1>1, <1>2
<1>6. \A x \in J : \E r \in R : x = Joined(Joined(r, Null22), A)
  BY <1>1, <1>2
<1>7. OneToOne(b, R, J)
  <2> HIDE DEF A
  <2> QED BY <1>4, <1>5, <1>6 DEF OneToOne
<1>8. SameBalance22(R, J, b)
  <2> SUFFICES ASSUME NEW r \in R
               PROVE  /\ Joined(Joined(r, Null22), A)["cntrycode"] = r["cntrycode"]
                      /\ Joined(Joined(r, Null22), A)["c_acctbal"] = r["c_acctbal"]
                      /\ r["c_acctbal"] \in Int
    BY DEF SameBalance22
  <2>1. PICK c \in Rows22(d) : r = Coded(c)
    BY <1>1
  <2>2. c \in d.customer
    BY <1>1
  <2>3. Coded(c)["cntrycode"] = c["c_phone"][1] /\ Coded(c)["c_acctbal"] = c["c_acctbal"]
    BY <2>2, CodedIs
  <2>4. Joined(Joined(Coded(c), Null22), A)["c_acctbal"] = c["c_acctbal"]
        /\ Joined(Joined(Coded(c), Null22), A)["cntrycode"] = c["c_phone"][1]
    BY <2>2, Joined22
  <2> HIDE DEF A
  <2> QED BY <1>1, <2>1, <2>3, <2>4
<1> HIDE DEF b
<1>9. Counts22(J) = Groups22(R)
  BY <1>1, <1>7, <1>8, SameGroups22
<1> QED BY <1>9 DEF R, J

\* The three engines answer q22 alike.
LEMMA Answers22 ==
  ASSUME NEW d, Sound(d, Reads[22])
  PROVE  /\ Polars!Q22(d) = Sql!Q22(d)
         /\ Pandas!Q22(d) = Sql!Q22(d)
<1>1. Fields22(d)
  BY Fields22Are
<1>2. /\ Counts22(PolarsRows22(d)) = Groups22(Coded22(Rows22(d)))
      /\ Counts22(PandasRows22(d)) = Groups22(Coded22(Rows22(d)))
  BY <1>1, PolarsGroups22, PandasGroups22
<1> QED BY <1>2, Sql22, Polars22, Pandas22

Some(N, T) == [t \in T |-> N[t]]

-----------------------------------------------------------------------------
(* q16: the suppliers of parts, without complaints.                        *)

\* The columns that q16 reads.
LEMMA Reads16 ==
  /\ DOMAIN Some(Reads[16], {"part", "partsupp"}) = {"part", "partsupp"}
  /\ "p_partkey" \in Some(Reads[16], {"part", "partsupp"})["part"]
       /\ "p_brand" \in Some(Reads[16], {"part", "partsupp"})["part"]
       /\ "p_type" \in Some(Reads[16], {"part", "partsupp"})["part"]
       /\ "p_size" \in Some(Reads[16], {"part", "partsupp"})["part"]
  /\ "ps_partkey" \in Some(Reads[16], {"part", "partsupp"})["partsupp"]
       /\ "ps_suppkey" \in Some(Reads[16], {"part", "partsupp"})["partsupp"]
BY DEF Reads, Some

\* The rows of the product that the SQL of q16 selects from.
LEMMA Product16 ==
  ASSUME NEW d, NEW N, N = Some(Reads[16], {"part", "partsupp"}), Fits(d, N), NEW x
  PROVE  x \in d.partsupp \otimes d.part <=> Keeps(d, N, x)
<1>N. DOMAIN N = {"part", "partsupp"}
  BY Reads16
<1> DEFINE T1 == {"partsupp"}
           T2 == T1 \cup {"part"}
<1>1. Whole(d, N, T1, d.partsupp)
  BY <1>N, WholeTable
<1>2. Whole(d, N, T2, d.partsupp \otimes d.part)
  BY <1>N, <1>1, WholeProduct
<1>3. Among(DOMAIN N, T2)
  BY <1>N DEF Among
<1> QED BY <1>2, <1>3, KeptInWhole

Frame16(d) ==
    MergeOn(d.part, d.partsupp, "p_partkey", "ps_partkey")

\* The rows of the joins of q16, in terms of the tables.
LEMMA InFrame16 ==
  ASSUME NEW d, NEW N, N = Some(Reads[16], {"part", "partsupp"}), Fits(d, N), NEW x
  PROVE  /\ x \in Frame16(d) =>
             /\ Keeps(d, N, x)
             /\ x.p_partkey = x.ps_partkey
         /\ /\ Keeps(d, N, x)
            /\ x.p_partkey = x.ps_partkey
            => x \in Frame16(d)
<1>N. DOMAIN N = {"part", "partsupp"}
  BY Reads16
<1>C. /\ "p_partkey" \in N["part"]
      /\ "ps_partkey" \in N["partsupp"]
  BY Reads16
<1> DEFINE V1 == {"part"}
           V2 == V1 \cup {"partsupp"}
           offers == MergeOn(d.part, d.partsupp, "p_partkey", "ps_partkey")
<1>10. Joins(d, N, V1, d.part, {"partsupp"}, d.partsupp, "p_partkey", "ps_partkey")
  BY <1>N, <1>C, FrameTable DEF Joins, Apart, Names
<1>11. Frame(d, N, V2, offers)
  BY <1>10, FrameMerge
<1>20. ASSUME Keeps(d, N, x)
      PROVE  Part(x, V2) \in offers <=>
                /\ x.p_partkey = x.ps_partkey
  <2>1. /\ Part(x, {"part"}) \in d.part
        /\ Part(x, {"partsupp"}) \in d.partsupp
    BY <1>20, <1>N, KeptInTable
  <2>2. Part(x, V2) \in offers <=> Part(x, V1) \in d.part /\ Part(x, {"partsupp"}) \in d.partsupp
          /\ x.p_partkey = x.ps_partkey
    BY <1>20, <1>10, KeptByMerge
  <2> HIDE DEF V2, offers
  <2> QED BY <2>1, <2>2
<1>21. (\A y \in offers : Keeps(d, N, y)) /\ (Keeps(d, N, x) => Part(x, V2) = x)
  <2>1. Among(DOMAIN N, V2)
    BY <1>N DEF Among
  <2> HIDE DEF V2, offers
  <2> QED BY <1>11, <2>1, KeptInAll
<1>22. Frame16(d) = offers
  BY DEF Frame16
<1> HIDE DEF V1, V2, offers
<1> QED BY <1>20, <1>21, <1>22

(* In a text of three words whose second is not MEDIUM, the phrase can     *)
(* only be its beginning.                                                  *)
LEMMA PhraseIsPrefix ==
  ASSUME NEW text, text = <<text[1], text[2], text[3]>>, text[2] # "MEDIUM"
  PROVE  HasPhrase(text, <<"MEDIUM", "POLISHED">>) <=> StartsWith(text, <<"MEDIUM", "POLISHED">>)
<1> DEFINE w == <<"MEDIUM", "POLISHED">>
           T == {text[1], text[2], text[3], "MEDIUM", "POLISHED"}
<1>1. text \in Seq(T) /\ Len(text) = 3 /\ DOMAIN text = 1..3
  <2> DEFINE a == text[1]
             b == text[2]
             c == text[3]
  <2>1. text = <<a, b, c>> /\ a \in T /\ b \in T /\ c \in T
    OBVIOUS
  <2> HIDE DEF a, b, c, T
  <2>2. <<a, b, c>> \in Seq(T) /\ Len(<<a, b, c>>) = 3 /\ DOMAIN <<a, b, c>> = 1..3
    BY <2>1
  <2> QED BY <2>1, <2>2
<1>2. Len(w) = 2 /\ w[1] = "MEDIUM" /\ w[2] = "POLISHED" /\ w \in Seq(T)
  OBVIOUS
<1> HIDE DEF w, T
<1>3. /\ SubSeq(text, 1, 2) \in Seq(T) /\ Len(SubSeq(text, 1, 2)) = 2
      /\ SubSeq(text, 1, 2)[1] = text[1] /\ SubSeq(text, 1, 2)[2] = text[2]
  BY <1>1
<1>4. /\ SubSeq(text, 2, 3) \in Seq(T) /\ Len(SubSeq(text, 2, 3)) = 2
      /\ SubSeq(text, 2, 3)[1] = text[2] /\ SubSeq(text, 2, 3)[2] = text[3]
  BY <1>1
<1>5. SubSeq(w, 1, 2) = w
  BY <1>2
<1>6. HasPhrase(text, w) <=> SubSeq(text, 1, 2) = w \/ SubSeq(text, 2, 3) = w
  <2>1. HasPhrase(text, w) <=> \E i \in 0..1 : SubSeq(text, i + 1, i + 2) = w
    BY <1>1, <1>2 DEF HasPhrase
  <2>2. \A i : i \in 0..1 <=> i = 0 \/ i = 1
    OBVIOUS
  <2> QED BY <2>1, <2>2
<1>7. StartsWith(text, w) <=> SubSeq(text, 1, 2) = w
  BY <1>1, <1>2, <1>5 DEF StartsWith, IsPrefix
<1>8. SubSeq(text, 2, 3) # w
  BY <1>2, <1>4
<1> QED BY <1>6, <1>7, <1>8 DEF w

Kept16(r) == r.p_brand # "Brand#45" /\ r.p_size \in {49, 14, 23, 45, 19, 3, 36, 9}

NotMedium16(r) == ~StartsWith(r.p_type, <<"MEDIUM", "POLISHED">>)

Complaints16(d) == {s \in d.supplier : MentionsInOrder(s.s_comment, "Customer", "Complaints")}

SqlRows16(d) ==
    {r \in d.partsupp \otimes d.part :
        /\ r.p_partkey = r.ps_partkey
        /\ r.p_brand # "Brand#45"
        /\ ~StartsWith(r.p_type, <<"MEDIUM", "POLISHED">>)
        /\ r.p_size \in {49, 14, 23, 45, 19, 3, 36, 9}
        /\ r.ps_suppkey \notin {s.s_suppkey : s \in Complaints16(d)}}

Offers16(d) ==
    {r \in Frame16(d) : /\ r.p_brand # "Brand#45"
                        /\ ~StartsWith(r.p_type, <<"MEDIUM", "POLISHED">>)
                        /\ r.p_size \in {49, 14, 23, 45, 19, 3, 36, 9}}

PolarsOffers16(d) ==
    {r \in Frame16(d) : /\ r.p_brand # "Brand#45"
                        /\ ~HasPhrase(r.p_type, <<"MEDIUM", "POLISHED">>)
                        /\ r.p_size \in {49, 14, 23, 45, 19, 3, 36, 9}}

Copied16(d) == Select(Complaints16(d), [s_suppkey |-> "s_suppkey",
  ps_suppkey_right |-> "s_suppkey"])

Keys16(d) == Project(Complaints16(d), {"s_suppkey"})

PolarsRows16(O, S) ==
    {r \in LeftMerge(O, S, <<"ps_suppkey">>, <<"s_suppkey">>, {"s_suppkey", "ps_suppkey_right"}) :
        r.ps_suppkey_right = Null}

PandasRows16(O, S) ==
    {r \in LeftMerge(O, S, <<"ps_suppkey">>, <<"s_suppkey">>, {"s_suppkey"}) : r.s_suppkey = Null}

Columns16 == {"p_brand", "p_type", "p_size"}

Groups16(R) == GroupBy(R, {"p_brand", "p_type", "p_size"}, LAMBDA g :
  [supplier_cnt |-> CountDistinct(g, "ps_suppkey")])

Answer16(G) ==
    Sorted(G, LAMBDA r : <<-r.supplier_cnt,
      Alpha(r.p_brand)>> \o AlphaWords(r.p_type) \o <<r.p_size>>)

\* q16 of duckdb.
LEMMA Sql16 ==
  ASSUME NEW d
  PROVE  Sql!Q16(d) = Answer16(Groups16(SqlRows16(d)))
<1> DEFINE R == SqlRows16(d)
<1>1. {r \in Sql!\otimes(d.partsupp, d.part) :
                     /\ r.p_partkey = r.ps_partkey
                     /\ r.p_brand # "Brand#45"
                     /\ ~Sql!StartsWith(r.p_type, <<"MEDIUM", "POLISHED">>)
                     /\ r.p_size \in {49, 14, 23, 45, 19, 3, 36, 9}
                     /\ r.ps_suppkey \notin {s.s_suppkey : s \in {t \in d.supplier :
                           Sql!MentionsInOrder(t.s_comment, "Customer", "Complaints")}}} = R
  BY SMT DEF Cross, Sql!Cross, Joined, Sql!Joined, StartsWith, Sql!StartsWith, IsPrefix,
         Sql!IsPrefix, MentionsInOrder, Sql!MentionsInOrder, \otimes, Sql!\otimes, SqlRows16,
         Complaints16
<1> HIDE DEF R
<1>2. Sql!Sorted(Sql!GroupBy(R, {"p_brand", "p_type", "p_size"}, LAMBDA g :
        [supplier_cnt |-> Sql!CountDistinct(g, "ps_suppkey")]),
               LAMBDA r : <<-r.supplier_cnt,
                 Sql!Alpha(r.p_brand)>> \o Sql!AlphaWords(r.p_type) \o <<r.p_size>>)
                 = Answer16(Groups16(R))
  BY Zenon DEF Sorted, Sql!Sorted, Before, Sql!Before, Alpha, Sql!Alpha, Cardinality,
         Sql!Cardinality, GroupBy, Sql!GroupBy, Project, Sql!Project, On, Sql!On, Joined,
         Sql!Joined, CountDistinct, Sql!CountDistinct, AlphaWords, Sql!AlphaWords, Answer16,
         Groups16
<1> QED BY <1>1, <1>2, Zenon DEF Sql!Q16, R

\* q16 of polars.
LEMMA Polars16 ==
  ASSUME NEW d
  PROVE  Polars!Q16(d) = Answer16(Groups16(PolarsRows16(PolarsOffers16(d), Copied16(d))))
<1> DEFINE O == PolarsOffers16(d)
           S == Copied16(d)
           R == PolarsRows16(O, S)
<1>1. Polars!Select({s \in d.supplier : Polars!MentionsInOrder(s.s_comment, "Customer",
        "Complaints")},
                    [s_suppkey |-> "s_suppkey", ps_suppkey_right |-> "s_suppkey"]) = S
  BY SMT DEF Select, Polars!Select, MentionsInOrder, Polars!MentionsInOrder, Copied16, Complaints16
<1>2. {r \in Polars!Merge(d.part, d.partsupp, <<"p_partkey">>, <<"ps_partkey">>) :
                      /\ r.p_brand # "Brand#45"
                      /\ ~Polars!HasPhrase(r.p_type, <<"MEDIUM", "POLISHED">>)
                      /\ r.p_size \in {49, 14, 23, 45, 19, 3, 36, 9}} = O
  BY SMT DEF Merge, Polars!Merge, Match, Polars!Match, Joined, Polars!Joined, HasPhrase,
         Polars!HasPhrase, PolarsOffers16, Frame16, MergeOn
<1> HIDE DEF O, S
<1>3. {r \in Polars!LeftMerge(O, S, <<"ps_suppkey">>, <<"s_suppkey">>,
        {"s_suppkey", "ps_suppkey_right"}) :
          r.ps_suppkey_right = Null} = R
  BY SMT DEF LeftMerge, Polars!LeftMerge, SemiMerge, Polars!SemiMerge, Merge, Polars!Merge, Match,
         Polars!Match, Joined, Polars!Joined, PolarsRows16
<1> HIDE DEF R
<1>4. Polars!Sorted(Polars!GroupBy(R, {"p_brand", "p_type", "p_size"}, LAMBDA g :
        [supplier_cnt |-> Polars!CountDistinct(g, "ps_suppkey")]),
               LAMBDA r : <<-r.supplier_cnt,
                 Polars!Alpha(r.p_brand)>> \o Polars!AlphaWords(r.p_type) \o <<r.p_size>>)
                 = Answer16(Groups16(R))
  BY Zenon DEF Sorted, Polars!Sorted, Before, Polars!Before, Alpha, Polars!Alpha, Cardinality,
         Polars!Cardinality, GroupBy, Polars!GroupBy, Project, Polars!Project, On, Polars!On,
         Joined, Polars!Joined, CountDistinct, Polars!CountDistinct, AlphaWords, Polars!AlphaWords,
         Answer16, Groups16
<1>5. Polars!Q16(d) = Answer16(Groups16(R))
  BY <1>1, <1>2, <1>3, <1>4, Zenon DEF Polars!Q16
<1> QED BY <1>5, Zenon DEF R, O, S

\* q16 of pandas.
LEMMA Pandas16 ==
  ASSUME NEW d
  PROVE  Pandas!Q16(d) = Answer16(Groups16(PandasRows16(Offers16(d), Keys16(d))))
<1> DEFINE O == Offers16(d)
           S == Keys16(d)
           R == PandasRows16(O, S)
<1>1. Pandas!Project({s \in d.supplier : Pandas!MentionsInOrder(s.s_comment, "Customer",
        "Complaints")}, {"s_suppkey"}) = S
  BY SMT DEF Project, Pandas!Project, On, Pandas!On, MentionsInOrder, Pandas!MentionsInOrder,
         Keys16, Complaints16
<1>2. {r \in Pandas!Merge(d.part, d.partsupp, <<"p_partkey">>, <<"ps_partkey">>) :
                      /\ r.p_brand # "Brand#45"
                      /\ ~Pandas!StartsWith(r.p_type, <<"MEDIUM", "POLISHED">>)
                      /\ r.p_size \in {49, 14, 23, 45, 19, 3, 36, 9}} = O
  BY SMT DEF Merge, Pandas!Merge, Match, Pandas!Match, Joined, Pandas!Joined, StartsWith,
         Pandas!StartsWith, IsPrefix, Pandas!IsPrefix, Offers16, Frame16, MergeOn
<1> HIDE DEF O, S
<1>3. {r \in Pandas!LeftMerge(O, S, <<"ps_suppkey">>, <<"s_suppkey">>, {"s_suppkey"}) : r.s_suppkey
        = Null} = R
  BY SMT DEF LeftMerge, Pandas!LeftMerge, SemiMerge, Pandas!SemiMerge, Merge, Pandas!Merge, Match,
         Pandas!Match, Joined, Pandas!Joined, PandasRows16
<1> HIDE DEF R
<1>4. Pandas!Sorted(Pandas!GroupBy(R, {"p_brand", "p_type", "p_size"}, LAMBDA g :
        [supplier_cnt |-> Pandas!CountDistinct(g, "ps_suppkey")]),
               LAMBDA r : <<-r.supplier_cnt,
                 Pandas!Alpha(r.p_brand)>> \o Pandas!AlphaWords(r.p_type) \o <<r.p_size>>)
                 = Answer16(Groups16(R))
  BY Zenon DEF Sorted, Pandas!Sorted, Before, Pandas!Before, Alpha, Pandas!Alpha, Cardinality,
         Pandas!Cardinality, GroupBy, Pandas!GroupBy, Project, Pandas!Project, On, Pandas!On,
         Joined, Pandas!Joined, CountDistinct, Pandas!CountDistinct, AlphaWords, Pandas!AlphaWords,
         Answer16, Groups16
<1>5. Pandas!Q16(d) = Answer16(Groups16(R))
  BY <1>1, <1>2, <1>3, <1>4, Zenon DEF Pandas!Q16
<1> QED BY <1>5, Zenon DEF R, O, S

(* Types have three words, and MEDIUM can only be the first.               *)
TypesAreSound(d) ==
    \A p \in d.part : LET type == p["p_type"] IN type = <<type[1], type[2], type[3]>>
      /\ type[2] # "MEDIUM"

Pair16 == Some(Reads[16], {"part", "partsupp"})

\* The two tables that are joined have their columns.
LEMMA Fits16 ==
  ASSUME NEW d, Fits(d, Reads[16])
  PROVE  Fits(d, Pair16)
<1>1. DOMAIN Pair16 = {"part", "partsupp"} /\ \A t \in DOMAIN Pair16 : t \in DOMAIN Reads[16]
        /\ Pair16[t] = Reads[16][t]
  BY DEF Reads, Some, Pair16
<1> QED BY <1>1 DEF Fits

\* The offers that polars filters.
LEMMA PolarsOffers16Are ==
  ASSUME NEW d, Fits(d, Pair16), TypesAreSound(d)
  PROVE  PolarsOffers16(d) = Offers16(d)
<1>1. ASSUME NEW r \in Frame16(d)
      PROVE  HasPhrase(r["p_type"], <<"MEDIUM", "POLISHED">>)
               <=> StartsWith(r["p_type"], <<"MEDIUM", "POLISHED">>)
  <2> DEFINE type == r["p_type"]
             p == Part(r, {"part"})
             N == Pair16
  <2>1. Keeps(d, N, r)
    BY InFrame16 DEF Pair16
  <2>2. "part" \in DOMAIN N /\ "p_type" \in N["part"]
    BY Reads16 DEF Pair16
  <2> HIDE DEF N
  <2>3. p \in d.part /\ p["p_type"] = r["p_type"]
    BY <2>1, <2>2, ColumnOfTable
  <2> HIDE DEF p
  <2>4. type = <<type[1], type[2], type[3]>> /\ type[2] # "MEDIUM"
    BY <2>3 DEF TypesAreSound
  <2> HIDE DEF type
  <2>5. HasPhrase(type, <<"MEDIUM", "POLISHED">>) <=> StartsWith(type, <<"MEDIUM", "POLISHED">>)
    BY <2>4, PhraseIsPrefix
  <2> QED BY <2>5 DEF type
<1>2. \A r : r \in PolarsOffers16(d) <=> r \in Offers16(d)
  BY <1>1, Zenon DEF PolarsOffers16, Offers16
<1> QED BY <1>2

Rows16(d) == {r \in Offers16(d) : \A s \in Complaints16(d) : r["ps_suppkey"] # s["s_suppkey"]}

\* The rows of the SQL.
LEMMA SqlRows16Are ==
  ASSUME NEW d, Fits(d, Pair16)
  PROVE  SqlRows16(d) = Rows16(d)
<1>1. ASSUME NEW r PROVE r \in Frame16(d) <=> r \in d.partsupp \otimes d.part /\ r["p_partkey"]
               = r["ps_partkey"]
  <2> DEFINE N == Pair16
  <2>1. N = Some(Reads[16], {"part", "partsupp"})
    BY DEF Pair16
  <2> HIDE DEF N
  <2>2. Fits(d, N)
    BY DEF N
  <2> QED BY <2>1, <2>2, Product16, InFrame16
<1>2. ASSUME NEW k PROVE k \notin {s.s_suppkey : s \in Complaints16(d)} <=> \A s \in Complaints16(d) :
               k # s["s_suppkey"]
  OBVIOUS
<1>3. \A r : r \in SqlRows16(d) <=> r \in Rows16(d)
  BY <1>1, <1>2, Zenon DEF SqlRows16, Rows16, Offers16
<1> QED BY <1>3

Fields16(d) ==
    /\ \A r \in Offers16(d) : /\ IsFcn(r) /\ {"p_brand", "p_type", "p_size", "ps_suppkey"} \subseteq DOMAIN r
                              /\ "s_suppkey" \notin DOMAIN r /\ "ps_suppkey_right" \notin DOMAIN r
    /\ \A s \in d.supplier : "s_suppkey" \in DOMAIN s /\ s["s_suppkey"] # Null

\* The tables have the columns that q16 reads.
LEMMA Fields16Are ==
  ASSUME NEW d, Sound(d, Reads[16])
  PROVE  Fields16(d)
<1>1. ASSUME NEW r \in Offers16(d)
      PROVE  /\ IsFcn(r) /\ {"p_brand", "p_type", "p_size", "ps_suppkey"} \subseteq DOMAIN r
             /\ "s_suppkey" \notin DOMAIN r /\ "ps_suppkey_right" \notin DOMAIN r
  <2> DEFINE N == Pair16
  <2>1. r \in Frame16(d) /\ Fits(d, N)
    BY Fits16 DEF Offers16, Sound
  <2>2. Keeps(d, N, r)
    BY <2>1, InFrame16 DEF Pair16
  <2>3. /\ DOMAIN N = {"part", "partsupp"} /\ "p_brand" \in N["part"] /\ "p_type" \in N["part"]
             /\ "p_size" \in N["part"]
        /\ "ps_suppkey" \in N["partsupp"]
    BY Reads16 DEF Pair16
  <2> HIDE DEF N
  <2>4. "p_brand" \in DOMAIN r /\ "p_type" \in DOMAIN r /\ "p_size" \in DOMAIN r
    BY <2>2, <2>3, ColumnOfTable
  <2>5. "ps_suppkey" \in DOMAIN r
    BY <2>2, <2>3, ColumnOfTable
  <2>6. IsFcn(r) /\ DOMAIN r \subseteq Cols({"part", "partsupp"})
    BY <2>2, <2>3 DEF Keeps, IsRow
  <2>7. "s_suppkey" \notin Cols({"part", "partsupp"})
          /\ "ps_suppkey_right" \notin Cols({"part", "partsupp"})
    <3>1. \A c : c \in Cols({"part", "partsupp"}) => c \in Columns["part"]
            \/ c \in Columns["partsupp"]
      BY DEF Cols
    <3>2. /\ "s_suppkey" \notin Columns["part"] /\ "s_suppkey" \notin Columns["partsupp"]
          /\ "ps_suppkey_right" \notin Columns["part"]
               /\ "ps_suppkey_right" \notin Columns["partsupp"]
      BY DEF Columns
    <3> QED BY <3>1, <3>2
  <2> QED BY <2>4, <2>5, <2>6, <2>7
<1>2. "supplier" \in DOMAIN Reads[16] /\ "s_suppkey" \in Reads[16]["supplier"]
  BY DEF Reads
<1>3. \A s \in d.supplier : "s_suppkey" \in DOMAIN s /\ s["s_suppkey"] # Null
  BY <1>2 DEF Sound, Fits
<1> QED BY <1>1, <1>3 DEF Fields16

Nulls16(cols) == [c \in cols |-> Null]

(* The rows with columns of nulls.                                         *)
Filled16(R, cols) == {Joined(r, Nulls16(cols)) : r \in R}

\* The anti join as an outer join that finds no supplier: the rows carry nulls.
LEMMA PolarsRows16Are ==
  ASSUME NEW d, Fields16(d)
  PROVE  PolarsRows16(Offers16(d), Copied16(d))
           = Filled16(Rows16(d), {"s_suppkey", "ps_suppkey_right"})
<1> DEFINE R == Offers16(d)
           S == Copied16(d)
           a == "ps_suppkey"
           b == "s_suppkey"
           cols == {"s_suppkey", "ps_suppkey_right"}
           o == "ps_suppkey_right"
           as == [s_suppkey |-> "s_suppkey", ps_suppkey_right |-> "s_suppkey"]
           copy(s) == [c \in DOMAIN as |-> s[as[c]]]
<1>1. \A s : s \in S <=> \E p \in Complaints16(d) : s = copy(p)
  BY DEF Copied16, Select
<1>2. \A s : DOMAIN copy(s) = {"s_suppkey", "ps_suppkey_right"} /\ copy(s)["s_suppkey"]
        = s["s_suppkey"]
             /\ copy(s)["ps_suppkey_right"] = s["s_suppkey"]
  OBVIOUS
<1> HIDE DEF copy, S
<1>3. \A s \in Complaints16(d) : s["s_suppkey"] # Null
  BY DEF Complaints16, Fields16
<1>4. o \in cols /\ Lacks(R, o) /\ NeverNull(S, o)
  BY <1>1, <1>2, <1>3 DEF Lacks, NeverNull, Fields16
<1>5. \A k : (\A s \in S : k # s[b]) <=> \A s \in Complaints16(d) : k # s["s_suppkey"]
  BY <1>1, <1>2
<1>6. ASSUME NEW x PROVE x \in PolarsRows16(R, S) <=> x \in LeftMerge(R, S, <<a>>, <<b>>, cols)
               /\ x[o] = Null
  BY DEF PolarsRows16
<1>7. ASSUME NEW x PROVE x \in LeftMerge(R, S, <<a>>, <<b>>, cols) /\ x[o] = Null <=>
         \E r \in R : (\A s \in S : r[a] # s[b]) /\ x = Joined(r, [c \in cols |-> Null])
  <2> HIDE DEF R, a, b, cols, o
  <2> QED BY <1>4, Unmatched
<1>8. \A r : r \in Rows16(d) <=> r \in R /\ \A s \in Complaints16(d) : r[a] # s["s_suppkey"]
  BY DEF Rows16
<1>9. \A x : x \in Filled16(Rows16(d), cols) <=> \E r \in Rows16(d) : x
        = Joined(r, [c \in cols |-> Null])
  BY DEF Filled16, Nulls16
<1> HIDE DEF R, cols, a, b, o
<1>10. \A x : x \in PolarsRows16(R, S) <=> x \in Filled16(Rows16(d), cols)
  BY <1>5, <1>6, <1>7, <1>8, <1>9, Zenon
<1>11. PolarsRows16(R, S) = Filled16(Rows16(d), cols)
  BY <1>10
<1> QED BY <1>11 DEF R, S, cols

\* The anti join as an outer join that finds no supplier: the rows carry nulls.
LEMMA PandasRows16Are ==
  ASSUME NEW d, Fields16(d)
  PROVE  PandasRows16(Offers16(d), Keys16(d)) = Filled16(Rows16(d), {"s_suppkey"})
<1> DEFINE R == Offers16(d)
           S == Keys16(d)
           a == "ps_suppkey"
           b == "s_suppkey"
           cols == {"s_suppkey"}
           o == "s_suppkey"
<1>1. \A s : s \in S <=> \E p \in Complaints16(d) : s = On(p, {"s_suppkey"})
  BY DEF Keys16, Project
<1>2. \A s : DOMAIN On(s, {"s_suppkey"}) = {"s_suppkey"} /\ On(s, {"s_suppkey"})["s_suppkey"]
        = s["s_suppkey"]
  BY DEF On
<1> HIDE DEF S
<1>3. \A s \in Complaints16(d) : s["s_suppkey"] # Null
  BY DEF Complaints16, Fields16
<1>4. o \in cols /\ Lacks(R, o) /\ NeverNull(S, o)
  BY <1>1, <1>2, <1>3 DEF Lacks, NeverNull, Fields16
<1>5. \A k : (\A s \in S : k # s[b]) <=> \A s \in Complaints16(d) : k # s["s_suppkey"]
  BY <1>1, <1>2
<1>6. ASSUME NEW x PROVE x \in PandasRows16(R, S) <=> x \in LeftMerge(R, S, <<a>>, <<b>>, cols)
               /\ x[o] = Null
  BY DEF PandasRows16
<1>7. ASSUME NEW x PROVE x \in LeftMerge(R, S, <<a>>, <<b>>, cols) /\ x[o] = Null <=>
         \E r \in R : (\A s \in S : r[a] # s[b]) /\ x = Joined(r, [c \in cols |-> Null])
  <2> HIDE DEF R, a, b, cols, o
  <2> QED BY <1>4, Unmatched
<1>8. \A r : r \in Rows16(d) <=> r \in R /\ \A s \in Complaints16(d) : r[a] # s["s_suppkey"]
  BY DEF Rows16
<1>9. \A x : x \in Filled16(Rows16(d), cols) <=> \E r \in Rows16(d) : x
        = Joined(r, [c \in cols |-> Null])
  BY DEF Filled16, Nulls16
<1> HIDE DEF R, cols, a, b, o
<1>10. \A x : x \in PandasRows16(R, S) <=> x \in Filled16(Rows16(d), cols)
  BY <1>5, <1>6, <1>7, <1>8, <1>9, Zenon
<1>11. PandasRows16(R, S) = Filled16(Rows16(d), cols)
  BY <1>10
<1> QED BY <1>11 DEF R, S, cols

Agg16(R) == [g \in SUBSET R |-> [supplier_cnt |-> CountDistinct(g, "ps_suppkey")]]

\* The groups of q16.
LEMMA Groups16Are ==
  ASSUME NEW R
  PROVE  Groups16(R) = Grouped(R, KeyOn(R, Columns16), Agg16(R))
<1> DEFINE C == Columns16
           G(j) == {r \in R : On(r, C) = j}
<1>1. ASSUME NEW j PROVE Agg16(R)[G(j)] = [supplier_cnt |-> CountDistinct(G(j), "ps_suppkey")]
  <2>1. G(j) \in SUBSET R
    OBVIOUS
  <2> HIDE DEF G
  <2> QED BY <2>1, Zenon DEF Agg16
<1>2. ASSUME NEW x PROVE x \in Groups16(R) <=> x \in GroupedOn(R, C, Agg16(R))
  BY <1>1, Zenon DEF Groups16, GroupBy, GroupedOn, Columns16
<1>3. Groups16(R) = GroupedOn(R, C, Agg16(R))
  BY <1>2, Zenon
<1> QED BY <1>3, GroupedOnIs, Zenon

\* Columns of nulls do not change the groups.
LEMMA FilledGroups16 ==
  ASSUME NEW R, NEW cols, \A r \in R : IsFcn(r)
           /\ {"p_brand", "p_type", "p_size", "ps_suppkey"} \subseteq DOMAIN r /\ cols \cap DOMAIN r
           = {}
  PROVE  Groups16(Filled16(R, cols)) = Groups16(R)
<1> DEFINE J == Filled16(R, cols)
           n == Nulls16(cols)
           b == [r \in R |-> Joined(r, n)]
           C == Columns16
<1>1. DOMAIN n = cols
  BY DEF Nulls16
<1>2. \A x : x \in J <=> \E r \in R : x = Joined(r, n)
  BY DEF Filled16
<1> HIDE DEF J, n
<1>3. ASSUME NEW r \in R, NEW s \in R, Joined(r, n) = Joined(s, n) PROVE r = s
  <2>1. DOMAIN n \cap DOMAIN r = {} /\ DOMAIN n \cap DOMAIN s = {} /\ IsFcn(r) /\ IsFcn(s)
    BY <1>1
  <2> QED BY <1>3, <2>1, JoinedKeepsLeft
<1>4. OneToOne(b, R, J)
  BY <1>2, <1>3 DEF OneToOne
<1>5. ASSUME NEW r \in R
      PROVE  /\ Joined(r, n)["p_brand"] = r["p_brand"] /\ Joined(r, n)["p_type"] = r["p_type"]
             /\ Joined(r, n)["p_size"] = r["p_size"] /\ Joined(r, n)["ps_suppkey"] = r["ps_suppkey"]
  <2>1. "p_brand" \in DOMAIN r /\ "p_type" \in DOMAIN r /\ "p_size" \in DOMAIN r
          /\ "ps_suppkey" \in DOMAIN r
    OBVIOUS
  <2> QED BY <2>1 DEF Joined
<1>6. ASSUME NEW r \in R PROVE KeyOn(J, C)[b[r]] = KeyOn(R, C)[r]
  <2>1. Joined(r, n) \in J
    BY <1>2
  <2>2. On(Joined(r, n), C) = On(r, C)
    BY <1>5 DEF On, Columns16
  <2> HIDE DEF C
  <2> QED BY <2>1, <2>2 DEF KeyOn
<1>7. ASSUME NEW g \in SUBSET R PROVE Agg16(J)[ImageOf(b, g)] = Agg16(R)[g]
  <2> DEFINE q == ImageOf(b, g)
  <2>1. \A x : x \in q <=> \E r \in g : x = Joined(r, n)
    BY DEF ImageOf
  <2> HIDE DEF q
  <2>2. {x["ps_suppkey"] : x \in q} = {x["ps_suppkey"] : x \in g}
    BY <1>5, <2>1
  <2>3. CountDistinct(q, "ps_suppkey") = CountDistinct(g, "ps_suppkey")
    BY <2>2, Zenon DEF CountDistinct
  <2>4. q \in SUBSET J
    BY <1>2, <2>1
  <2>5. Agg16(J)[q] = Agg16(R)[g]
    BY <2>3, <2>4, Zenon DEF Agg16
  <2> QED BY <2>5 DEF q
<1>8. SameAggregates(R, b, Agg16(R), Agg16(J))
  BY <1>7 DEF SameAggregates
<1>9. Grouped(J, KeyOn(J, C), Agg16(J)) = Grouped(R, KeyOn(R, C), Agg16(R))
  <2> HIDE DEF b, C
  <2> QED BY <1>4, <1>6, <1>8, GroupsOfImage
<1> QED BY <1>9, Groups16Are, Zenon DEF J

\* The three engines answer q16 alike.
LEMMA Answers16 ==
  ASSUME NEW d, Sound(d, Reads[16]), TypesAreSound(d)
  PROVE  /\ Polars!Q16(d) = Sql!Q16(d)
         /\ Pandas!Q16(d) = Sql!Q16(d)
<1>1. Fits(d, Pair16)
  BY Fits16 DEF Sound
<1>2. Fields16(d)
  BY Fields16Are
<1>3. \A r \in Rows16(d) : /\ IsFcn(r) /\ {"p_brand", "p_type", "p_size", "ps_suppkey"} \subseteq DOMAIN r
                           /\ {"s_suppkey", "ps_suppkey_right"} \cap DOMAIN r = {}
                                /\ {"s_suppkey"} \cap DOMAIN r = {}
  BY <1>2 DEF Fields16, Rows16
<1>4. Groups16(Filled16(Rows16(d), {"s_suppkey", "ps_suppkey_right"})) = Groups16(Rows16(d))
  BY <1>3, FilledGroups16
<1>5. Groups16(Filled16(Rows16(d), {"s_suppkey"})) = Groups16(Rows16(d))
  BY <1>3, FilledGroups16
<1>6. PolarsRows16(PolarsOffers16(d), Copied16(d))
        = Filled16(Rows16(d), {"s_suppkey", "ps_suppkey_right"})
  BY <1>1, <1>2, PolarsOffers16Are, PolarsRows16Are
<1>7. PandasRows16(Offers16(d), Keys16(d)) = Filled16(Rows16(d), {"s_suppkey"})
  BY <1>2, PandasRows16Are
<1>8. SqlRows16(d) = Rows16(d)
  BY <1>1, SqlRows16Are
<1> QED BY <1>4, <1>5, <1>6, <1>7, <1>8, Sql16, Polars16, Pandas16

-----------------------------------------------------------------------------
(* q17: the revenue of small quantities.                                   *)

\* The columns that q17 reads.
LEMMA Reads17 ==
  /\ DOMAIN Reads[17] = {"part", "lineitem"}
  /\ "p_partkey" \in Reads[17]["part"] /\ "p_brand" \in Reads[17]["part"]
       /\ "p_container" \in Reads[17]["part"]
  /\ "l_partkey" \in Reads[17]["lineitem"] /\ "l_quantity" \in Reads[17]["lineitem"]
       /\ "l_extendedprice" \in Reads[17]["lineitem"]
BY DEF Reads

\* The rows of the product that the SQL of q17 selects from.
LEMMA Product17 ==
  ASSUME NEW d, NEW N, N = Reads[17], Fits(d, N), NEW x
  PROVE  x \in d.lineitem \otimes d.part <=> Keeps(d, N, x)
<1>N. DOMAIN N = {"part", "lineitem"}
  BY Reads17
<1> DEFINE T1 == {"lineitem"}
           T2 == T1 \cup {"part"}
<1>1. Whole(d, N, T1, d.lineitem)
  BY <1>N, WholeTable
<1>2. Whole(d, N, T2, d.lineitem \otimes d.part)
  BY <1>N, <1>1, WholeProduct
<1>3. Among(DOMAIN N, T2)
  BY <1>N DEF Among
<1> QED BY <1>2, <1>3, KeptInWhole

Frame17(d) ==
    LET boxes == {p \in d.part : p.p_brand = "Brand#23" /\ p.p_container = "MED BOX"}
    IN  MergeOn(boxes, d.lineitem, "p_partkey", "l_partkey")

\* The rows of the joins of q17, in terms of the tables.
LEMMA InFrame17 ==
  ASSUME NEW d, NEW N, N = Reads[17], Fits(d, N), NEW x
  PROVE  /\ x \in Frame17(d) =>
             /\ Keeps(d, N, x)
             /\ x.p_brand = "Brand#23" /\ x.p_container = "MED BOX"
             /\ x.p_partkey = x.l_partkey
         /\ /\ Keeps(d, N, x)
            /\ x.p_brand = "Brand#23" /\ x.p_container = "MED BOX"
            /\ x.p_partkey = x.l_partkey
            => x \in Frame17(d)
<1>N. DOMAIN N = {"part", "lineitem"}
  BY Reads17
<1>C. /\ "p_partkey" \in N["part"]
      /\ "l_partkey" \in N["lineitem"]
  BY Reads17
<1> DEFINE V1 == {"part"}
           V2 == V1 \cup {"lineitem"}
           boxes == {p \in d.part : p.p_brand = "Brand#23" /\ p.p_container = "MED BOX"}
           lines == MergeOn(boxes, d.lineitem, "p_partkey", "l_partkey")
<1>Lpart. Frame(d, N, {"part"}, boxes)
  BY <1>N, FrameTable, FrameOfSome, Zenon
<1>10. Joins(d, N, V1, boxes, {"lineitem"}, d.lineitem, "p_partkey", "l_partkey")
  BY <1>N, <1>C, <1>Lpart, FrameTable, Zenon DEF Joins, Apart, Names
<1>11. Frame(d, N, V2, lines)
  BY <1>10, FrameMerge, Zenon
<1>20. ASSUME Keeps(d, N, x)
      PROVE  Part(x, V2) \in lines <=>
                /\ Part(x, {"part"}) \in boxes
                /\ x.p_partkey = x.l_partkey
  <2> HIDE DEF boxes
  <2>1. /\ Part(x, {"lineitem"}) \in d.lineitem
    BY <1>20, <1>N, KeptInTable
  <2>2. Part(x, V2) \in lines <=> Part(x, V1) \in boxes /\ Part(x, {"lineitem"}) \in d.lineitem
          /\ x.p_partkey = x.l_partkey
    BY <1>20, <1>10, KeptByMerge
  <2> HIDE DEF V2, boxes, lines
  <2> QED BY <2>1, <2>2
<1>21. (\A y \in lines : Keeps(d, N, y)) /\ (Keeps(d, N, x) => Part(x, V2) = x)
  <2>1. Among(DOMAIN N, V2)
    BY <1>N DEF Among
  <2> HIDE DEF V2, boxes, lines
  <2> QED BY <1>11, <2>1, KeptInAll
<1>L. ASSUME Keeps(d, N, x)
      PROVE  Part(x, {"part"}) \in boxes <=> x.p_brand = "Brand#23" /\ x.p_container = "MED BOX"
  <2>1. Part(x, {"part"}) \in d.part
    BY <1>L, <1>N, KeptInTable
  <2>N. /\ Names(N, {"part"}, "p_brand")
        /\ Names(N, {"part"}, "p_container")
    BY <1>N, Reads17 DEF Names
  <2>A. Among({"part"}, DOMAIN N)
    BY <1>N DEF Among
  <2>2. Part(x, {"part"}).p_brand = x.p_brand
    BY <1>L, <2>A, <2>N, ColumnKept
  <2>3. Part(x, {"part"}).p_container = x.p_container
    BY <1>L, <2>A, <2>N, ColumnKept
  <2> QED BY <2>1, <2>2, <2>3, Zenon
<1>22. Frame17(d) = lines
  BY DEF Frame17
<1> HIDE DEF V1, V2, boxes, lines
<1> QED BY <1>20, <1>21, <1>22, <1>L, Zenon

Mean17(g) == Mean(g, Quantity)

MeanOf17(R, k) == Mean17({s \in R : s.p_partkey = k})

LineMean17(d, k) == Mean17({l \in d.lineitem : l.l_partkey = k})

Less17(q, mean) == q * 5 * mean[2] < mean[1]

Key17 == {"p_partkey"}

Group17(R, r) == Joined(On(r, Key17), [avg_quantity |-> MeanOf17(R, r.p_partkey)])

Groups17(R) == {Group17(R, r) : r \in R}

Means17(R) == Select(Groups17(R), [key |-> "p_partkey", avg_quantity |-> "avg_quantity"])

Below17(J) == {x \in J : Less17(x.l_quantity, x.avg_quantity)}

PolarsRows17(R) == Below17(MergeOn(Means17(R), R, "key", "p_partkey"))

PandasRows17(R) == Below17(MergeOn(R, Groups17(R), "p_partkey", "p_partkey"))

SqlRows17(d) == {r \in d.lineitem \otimes d.part :
                     /\ r.p_partkey = r.l_partkey
                     /\ r.p_brand = "Brand#23"
                     /\ r.p_container = "MED BOX"
                     /\ Less17(r.l_quantity, LineMean17(d, r.p_partkey))}

(* The rows below a fifth of the mean quantity of their part.              *)
Low17(R) == {r \in R : Less17(r.l_quantity, MeanOf17(R, r.p_partkey))}

Answer17(R) == [avg_yearly |-> Total(R, Price)]

\* q17 of duckdb.
LEMMA Sql17 ==
  ASSUME NEW d
  PROVE  Sql!Q17(d) = [avg_yearly |-> IF SqlRows17(d)
           = {} THEN Null ELSE Total(SqlRows17(d), Price)]
BY Zenon DEF Cross, Sql!Cross, Joined, Sql!Joined, Total, Sql!Total, SumFunction,
       Sql!SumFunction, SumFunctionOnSet, Sql!SumFunctionOnSet, FoldFunctionOnSet,
       Sql!FoldFunctionOnSet, MapThenFoldSet, Sql!MapThenFoldSet, Mean, Sql!Mean, SqlSum,
       Sql!SqlSum, \otimes, Sql!\otimes, Cardinality, Sql!Cardinality, Quantity, Sql!Quantity,
       Price, Sql!Price, Sql!Q17, SqlRows17,
     Less17, LineMean17, Mean17

\* A group by part.
LEMMA SameKey17 ==
  ASSUME NEW R, NEW r
  PROVE  {s \in R : On(s, Key17) = On(r, Key17)} = {s \in R : s.p_partkey = r.p_partkey}
<1>1. \A s : On(s, Key17) = On(r, Key17) <=> s.p_partkey = r.p_partkey
  BY DEF On, Key17
<1> QED BY <1>1

\* The engine's means are those of Groups17.
LEMMA PolarsGroups17 ==
  ASSUME NEW R
  PROVE  Polars!GroupBy(R, {"p_partkey"}, LAMBDA g :
           [avg_quantity |-> Polars!Mean(g, Polars!Quantity)]) = Groups17(R)
<1> DEFINE agg(g) == [avg_quantity |-> Polars!Mean(g, Polars!Quantity)]
           G == Polars!GroupBy(R, Key17, agg)
<1>1. \A g : agg(g) = [avg_quantity |-> Mean17(g)]
  BY SMT DEF Total, Polars!Total, SumFunction, Polars!SumFunction, SumFunctionOnSet,
         Polars!SumFunctionOnSet, FoldFunctionOnSet, Polars!FoldFunctionOnSet, MapThenFoldSet,
         Polars!MapThenFoldSet, Mean, Polars!Mean, Cardinality, Polars!Cardinality, Quantity,
         Polars!Quantity, Mean17
<1> HIDE DEF agg
<1> DEFINE H(k) == Joined(k, agg({s \in R : On(s, Key17) = k}))
<1>2. G = {H(k) : k \in Project(R, Key17)}
  BY DEF GroupBy, Polars!GroupBy, Project, Polars!Project, On, Polars!On, Joined, Polars!Joined
<1>3. ASSUME NEW r \in R PROVE H(On(r, Key17)) = Group17(R, r)
  BY <1>1, SameKey17, Zenon DEF Group17, MeanOf17
<1> HIDE DEF H
<1>4. G = Groups17(R)
  <2> HIDE DEF G
  <2>1. \A m : m \in G <=> \E r \in R : m = H(On(r, Key17))
    BY <1>2, Zenon DEF Project
  <2>2. \A m : m \in G <=> m \in Groups17(R)
    BY <1>3, <2>1 DEF Groups17
  <2> QED BY <2>2
<1> QED BY <1>4, Zenon DEF G, Key17, agg

\* The engine's means are those of Groups17.
LEMMA PandasGroups17 ==
  ASSUME NEW R
  PROVE  Pandas!GroupBy(R, {"p_partkey"}, LAMBDA g :
           [avg_quantity |-> Pandas!Mean(g, Pandas!Quantity)]) = Groups17(R)
<1> DEFINE agg(g) == [avg_quantity |-> Pandas!Mean(g, Pandas!Quantity)]
           G == Pandas!GroupBy(R, Key17, agg)
<1>1. \A g : agg(g) = [avg_quantity |-> Mean17(g)]
  BY SMT DEF Total, Pandas!Total, SumFunction, Pandas!SumFunction, SumFunctionOnSet,
         Pandas!SumFunctionOnSet, FoldFunctionOnSet, Pandas!FoldFunctionOnSet, MapThenFoldSet,
         Pandas!MapThenFoldSet, Mean, Pandas!Mean, Cardinality, Pandas!Cardinality, Quantity,
         Pandas!Quantity, Mean17
<1> HIDE DEF agg
<1> DEFINE H(k) == Joined(k, agg({s \in R : On(s, Key17) = k}))
<1>2. G = {H(k) : k \in Project(R, Key17)}
  BY DEF GroupBy, Pandas!GroupBy, Project, Pandas!Project, On, Pandas!On, Joined, Pandas!Joined
<1>3. ASSUME NEW r \in R PROVE H(On(r, Key17)) = Group17(R, r)
  BY <1>1, SameKey17, Zenon DEF Group17, MeanOf17
<1> HIDE DEF H
<1>4. G = Groups17(R)
  <2> HIDE DEF G
  <2>1. \A m : m \in G <=> \E r \in R : m = H(On(r, Key17))
    BY <1>2, Zenon DEF Project
  <2>2. \A m : m \in G <=> m \in Groups17(R)
    BY <1>3, <2>1 DEF Groups17
  <2> QED BY <2>2
<1> QED BY <1>4, Zenon DEF G, Key17, agg

\* q17 of polars.
LEMMA Polars17 ==
  ASSUME NEW d
  PROVE  Polars!Q17(d) = Answer17(PolarsRows17(Frame17(d)))
<1> DEFINE parts == {p \in d.part : p.p_brand = "Brand#23" /\ p.p_container = "MED BOX"}
           q1 == Polars!Merge(parts, d.lineitem, <<"p_partkey">>, <<"l_partkey">>)
           means == Polars!Select(Polars!GroupBy(q1, {"p_partkey"},
                                LAMBDA g : [avg_quantity |-> Polars!Mean(g, Polars!Quantity)]),
                        [key |-> "p_partkey", avg_quantity |-> "avg_quantity"])
           rows == {r \in Polars!Merge(means, q1, <<"key">>, <<"p_partkey">>) :
                    r.l_quantity * 5 * r.avg_quantity[2] < r.avg_quantity[1]}
<1>1. q1 = Frame17(d)
  BY DEF Merge, Polars!Merge, Match, Polars!Match, Joined, Polars!Joined, Frame17, MergeOn
<1>2. Polars!Q17(d) = [avg_yearly |-> Polars!Total(rows, Polars!Price)]
  BY Zenon DEF Polars!Q17
<1> HIDE DEF q1
<1>3. means = Means17(q1)
  BY PolarsGroups17, Zenon DEF Select, Polars!Select, Means17
<1> HIDE DEF means
<1>4. rows = PolarsRows17(q1)
  BY <1>3 DEF Merge, Polars!Merge, Match, Polars!Match, Joined, Polars!Joined, PolarsRows17,
         Below17, Less17, MergeOn
<1> HIDE DEF rows
<1>5. Polars!Total(rows, Polars!Price) = Total(rows, Price)
  BY DEF Total, Polars!Total, SumFunction, Polars!SumFunction, SumFunctionOnSet,
         Polars!SumFunctionOnSet, FoldFunctionOnSet, Polars!FoldFunctionOnSet, MapThenFoldSet,
         Polars!MapThenFoldSet, Price, Polars!Price
<1> QED BY <1>1, <1>2, <1>4, <1>5 DEF Answer17

\* q17 of pandas.
LEMMA Pandas17 ==
  ASSUME NEW d
  PROVE  Pandas!Q17(d) = Answer17(PandasRows17(Frame17(d)))
<1> DEFINE parts == {p \in d.part : p.p_brand = "Brand#23" /\ p.p_container = "MED BOX"}
           jn == Pandas!Merge(parts, d.lineitem, <<"p_partkey">>, <<"l_partkey">>)
           avg == Pandas!GroupBy(jn, {"p_partkey"}, LAMBDA g :
             [avg_quantity |-> Pandas!Mean(g, Pandas!Quantity)])
           jn2 == {r \in Pandas!Merge(jn, avg, <<"p_partkey">>, <<"p_partkey">>) :
                   r.l_quantity * 5 * r.avg_quantity[2] < r.avg_quantity[1]}
<1>1. jn = Frame17(d)
  BY DEF Merge, Pandas!Merge, Match, Pandas!Match, Joined, Pandas!Joined, Frame17, MergeOn
<1>2. Pandas!Q17(d) = [avg_yearly |-> Pandas!Total(jn2, Pandas!Price)]
  BY Zenon DEF Pandas!Q17
<1> HIDE DEF jn
<1>3. avg = Groups17(jn)
  BY PandasGroups17, Zenon
<1> HIDE DEF avg
<1>4. jn2 = PandasRows17(jn)
  BY <1>3 DEF Merge, Pandas!Merge, Match, Pandas!Match, Joined, Pandas!Joined, PandasRows17,
         Below17, Less17, MergeOn
<1> HIDE DEF jn2
<1>5. Pandas!Total(jn2, Pandas!Price) = Total(jn2, Price)
  BY DEF Total, Pandas!Total, SumFunction, Pandas!SumFunction, SumFunctionOnSet,
         Pandas!SumFunctionOnSet, FoldFunctionOnSet, Pandas!FoldFunctionOnSet, MapThenFoldSet,
         Pandas!MapThenFoldSet, Price, Pandas!Price
<1> QED BY <1>1, <1>2, <1>4, <1>5 DEF Answer17

Sound17(R) ==
    \A r \in R : /\ IsFcn(r)
                 /\ {"p_partkey", "l_quantity", "l_extendedprice"} \subseteq DOMAIN r
                 /\ "key" \notin DOMAIN r /\ "avg_quantity" \notin DOMAIN r

(* A part with the mean quantity of its rows.                              *)
MeanRow17(R, k) == [key |-> k, avg_quantity |-> MeanOf17(R, k)]

PolarsRow17(R, r) == Joined(MeanRow17(R, r.p_partkey), r)

PandasRow17(R, r) == Joined(r, Group17(R, r))

\* The row of a group.
LEMMA Group17Is ==
  ASSUME NEW R, NEW r
  PROVE  /\ IsFcn(Group17(R, r)) /\ DOMAIN Group17(R, r) = {"p_partkey", "avg_quantity"}
         /\ Group17(R, r)["p_partkey"] = r.p_partkey
         /\ Group17(R, r)["avg_quantity"] = MeanOf17(R, r.p_partkey)
<1> DEFINE k == On(r, Key17)
           m == MeanOf17(R, r.p_partkey)
           a == [avg_quantity |-> m]
<1>3. Group17(R, r) = Joined(k, a)
  BY DEF Group17
<1>1. DOMAIN k = {"p_partkey"} /\ k["p_partkey"] = r.p_partkey
  BY OnIs DEF Key17
<1> HIDE DEF m
<1>2. DOMAIN a = {"avg_quantity"} /\ a["avg_quantity"] = m
  OBVIOUS
<1> HIDE DEF a, k
<1>4. IsFcn(Joined(k, a)) /\ DOMAIN Joined(k, a) = {"p_partkey"} \cup {"avg_quantity"}
  BY <1>1, <1>2, JoinedIs
<1>5. Joined(k, a)["p_partkey"] = r.p_partkey
  BY <1>1, JoinedLeft
<1>6. Joined(k, a)["avg_quantity"] = m
  BY <1>1, <1>2, JoinedRight
<1> QED BY <1>3, <1>4, <1>5, <1>6 DEF m

\* The means, one per part of the rows.
LEMMA Means17Are ==
  ASSUME NEW R, NEW m
  PROVE  m \in Means17(R) <=> \E r \in R : m = MeanRow17(R, r.p_partkey)
<1> DEFINE as == [key |-> "p_partkey", avg_quantity |-> "avg_quantity"]
           S(g) == [c \in DOMAIN as |-> g[as[c]]]
<1>1. \A g : S(g) = [key |-> g["p_partkey"], avg_quantity |-> g["avg_quantity"]]
  OBVIOUS
<1>2. Means17(R) = {S(g) : g \in Groups17(R)}
  BY Zenon DEF Means17, Select
<1> HIDE DEF S
<1>3. \A r \in R : S(Group17(R, r)) = MeanRow17(R, r.p_partkey)
  BY <1>1, Group17Is DEF MeanRow17
<1>4. m \in Means17(R) <=> \E r \in R : m = S(Group17(R, r))
  BY <1>2, Zenon DEF Groups17
<1> QED BY <1>3, <1>4

\* A lineitem with the mean of its part.
LEMMA PolarsRow17Is ==
  ASSUME NEW R, Sound17(R), NEW r \in R
  PROVE  LET x == PolarsRow17(R, r)
         IN  /\ x["l_quantity"] = r["l_quantity"] /\ x["l_extendedprice"] = r["l_extendedprice"]
             /\ x["avg_quantity"] = MeanOf17(R, r.p_partkey)
<1> DEFINE m == MeanRow17(R, r.p_partkey)
           a == MeanOf17(R, r.p_partkey)
<1> HIDE DEF a
<1>1. DOMAIN m = {"key", "avg_quantity"} /\ m["avg_quantity"] = a
  BY DEF MeanRow17, a
<1> HIDE DEF m
<1>2. PolarsRow17(R, r) = Joined(m, r)
  BY DEF PolarsRow17, m
<1>3. "l_quantity" \in DOMAIN r /\ "l_extendedprice" \in DOMAIN r
  BY DEF Sound17
<1>4. Joined(m, r)["l_quantity"] = r["l_quantity"]
  BY <1>1, <1>3, JoinedRight
<1>5. Joined(m, r)["l_extendedprice"] = r["l_extendedprice"]
  BY <1>1, <1>3, JoinedRight
<1>6. Joined(m, r)["avg_quantity"] = a
  BY <1>1, JoinedLeft
<1> QED BY <1>2, <1>4, <1>5, <1>6 DEF a

\* A lineitem with the mean of its part.
LEMMA PandasRow17Is ==
  ASSUME NEW R, Sound17(R), NEW r \in R
  PROVE  LET x == PandasRow17(R, r)
         IN  /\ x["l_quantity"] = r["l_quantity"] /\ x["l_extendedprice"] = r["l_extendedprice"]
             /\ x["avg_quantity"] = MeanOf17(R, r.p_partkey)
<1> DEFINE m == Group17(R, r)
           a == MeanOf17(R, r.p_partkey)
<1> HIDE DEF a
<1>1. DOMAIN m = {"p_partkey", "avg_quantity"} /\ m["avg_quantity"] = a
  BY Group17Is DEF a
<1> HIDE DEF m
<1>2. PandasRow17(R, r) = Joined(r, m)
  BY DEF PandasRow17, m
<1>3. "l_quantity" \in DOMAIN r /\ "l_extendedprice" \in DOMAIN r /\ "avg_quantity" \notin DOMAIN r
  BY DEF Sound17
<1>4. Joined(r, m)["l_quantity"] = r["l_quantity"]
  BY <1>3, JoinedLeft
<1>5. Joined(r, m)["l_extendedprice"] = r["l_extendedprice"]
  BY <1>3, JoinedLeft
<1>6. Joined(r, m)["avg_quantity"] = a
  BY <1>1, <1>3, JoinedRight
<1> QED BY <1>2, <1>4, <1>5, <1>6 DEF a

\* The rows of a join on one column.
LEMMA InMergeOn ==
  ASSUME NEW R, NEW S, NEW a, NEW b, NEW x
  PROVE  x \in MergeOn(R, S, a, b) <=> \E l \in R, r \in S : l[a] = r[b] /\ x = Joined(l, r)
<1>1. \A l, r : Match(l, r, <<a>>, <<b>>) <=> l[a] = r[b]
  BY DEF Match
<1> QED BY <1>1, InMerge DEF MergeOn

\* The engine's rows are the lineitems below a fifth of their mean.
LEMMA PolarsRows17Are ==
  ASSUME NEW R, Sound17(R), NEW x
  PROVE  x \in PolarsRows17(R) <=> \E r \in Low17(R) : x = PolarsRow17(R, r)
<1> DEFINE J == MergeOn(Means17(R), R, "key", "p_partkey")
<1>1. \A k : MeanRow17(R, k)["key"] = k
  BY DEF MeanRow17
<1>2. x \in J <=> \E m \in Means17(R), r \in R : m["key"] = r["p_partkey"] /\ x = Joined(m, r)
  BY InMergeOn
<1>3. x \in J <=> \E r \in R : x = PolarsRow17(R, r)
  BY <1>1, <1>2, Means17Are DEF PolarsRow17
<1>4. x \in PolarsRows17(R) <=> x \in J /\ Less17(x["l_quantity"], x["avg_quantity"])
  BY Zenon DEF PolarsRows17, Below17
<1> HIDE DEF J
<1>5. \A r : r \in Low17(R) <=> r \in R /\ Less17(r["l_quantity"], MeanOf17(R, r.p_partkey))
  BY Zenon DEF Low17
<1> QED BY <1>3, <1>4, <1>5, PolarsRow17Is

\* The engine's rows are the lineitems below a fifth of their mean.
LEMMA PandasRows17Are ==
  ASSUME NEW R, Sound17(R), NEW x
  PROVE  x \in PandasRows17(R) <=> \E r \in Low17(R) : x = PandasRow17(R, r)
<1> DEFINE J == MergeOn(R, Groups17(R), "p_partkey", "p_partkey")
<1>1. x \in J <=> \E r \in R, m \in Groups17(R) : r["p_partkey"] = m["p_partkey"] /\ x
        = Joined(r, m)
  BY InMergeOn
<1>2. \A m : m \in Groups17(R) <=> \E s \in R : m = Group17(R, s)
  BY Zenon DEF Groups17
<1>3. ASSUME NEW r, NEW s, r["p_partkey"] = s["p_partkey"] PROVE Group17(R, r) = Group17(R, s)
  <2>1. On(r, Key17) = On(s, Key17)
    BY <1>3 DEF On, Key17
  <2> QED BY <1>3, <2>1, Zenon DEF Group17
<1>4. x \in J <=> \E r \in R : x = PandasRow17(R, r)
  BY <1>1, <1>2, <1>3, Group17Is DEF PandasRow17
<1>5. x \in PandasRows17(R) <=> x \in J /\ Less17(x["l_quantity"], x["avg_quantity"])
  BY Zenon DEF PandasRows17, Below17
<1> HIDE DEF J
<1>6. \A r : r \in Low17(R) <=> r \in R /\ Less17(r["l_quantity"], MeanOf17(R, r.p_partkey))
  BY Zenon DEF Low17
<1> QED BY <1>4, <1>5, <1>6, PandasRow17Is

PartsDiffer(d) == \A p, q \in d.part : p["p_partkey"] = q["p_partkey"] => p = q

\* The joined rows are finitely many, with numbers.
LEMMA Sound17Is ==
  ASSUME NEW d, Fits(d, Reads[17])
  PROVE  Sound17(Frame17(d))
<1> DEFINE N == Reads[17]
<1>1. /\ "part" \in DOMAIN N /\ "lineitem" \in DOMAIN N
      /\ "p_partkey" \in N["part"] /\ "l_quantity" \in N["lineitem"]
           /\ "l_extendedprice" \in N["lineitem"]
  BY Reads17
<1>2. \A x \in Frame17(d) : Keeps(d, N, x)
  BY InFrame17, Zenon
<1>3. "key" \notin Cols(DOMAIN N) /\ "avg_quantity" \notin Cols(DOMAIN N)
  BY Reads17 DEF Cols, Columns
<1> HIDE DEF N
<1> SUFFICES ASSUME NEW r \in Frame17(d)
             PROVE  /\ IsFcn(r) /\ {"p_partkey", "l_quantity", "l_extendedprice"} \subseteq DOMAIN r
                    /\ "key" \notin DOMAIN r /\ "avg_quantity" \notin DOMAIN r
  BY DEF Sound17
<1>4. Keeps(d, N, r)
  BY <1>2
<1>5. IsFcn(r) /\ DOMAIN r \subseteq Cols(DOMAIN N)
  BY <1>4 DEF Keeps, IsRow
<1>6. "p_partkey" \in DOMAIN r
  BY <1>1, <1>4, ColumnOfTable
<1>7. "l_quantity" \in DOMAIN r
  BY <1>1, <1>4, ColumnOfTable
<1>8. "l_extendedprice" \in DOMAIN r
  BY <1>1, <1>4, ColumnOfTable
<1> QED BY <1>3, <1>5, <1>6, <1>7, <1>8

(* The rows of a part are its lineitems.                                   *)
LEMMA SameMean17 ==
  ASSUME NEW d, Sound(d, Reads[17]), PartsDiffer(d), NEW r \in Frame17(d)
  PROVE  MeanOf17(Frame17(d), r.p_partkey) = LineMean17(d, r.p_partkey)
<1> DEFINE N == Reads[17]
           R == Frame17(d)
           k == r["p_partkey"]
           g == {s \in R : s["p_partkey"] = k}
           h == {l \in d.lineitem : l["l_partkey"] = k}
           b == [s \in g |-> Part(s, {"lineitem"})]
<1>1. Fits(d, N) /\ IsFiniteSet(d["part"]) /\ IsFiniteSet(d["lineitem"])
  BY Reads17 DEF Sound
<1>2. /\ DOMAIN N = {"part", "lineitem"}
      /\ "p_partkey" \in N["part"] /\ "l_partkey" \in N["lineitem"]
           /\ "l_quantity" \in N["lineitem"]
  BY Reads17
<1>3. \A x \in R : Keeps(d, N, x) /\ x["p_partkey"] = x["l_partkey"]
  BY <1>1, InFrame17, Zenon
<1>5. r["p_brand"] = "Brand#23" /\ r["p_container"] = "MED BOX"
  BY <1>1, InFrame17, Zenon
<1>6. IsFiniteSet(R)
  <2> DEFINE boxes == {p \in d.part : p.p_brand = "Brand#23" /\ p.p_container = "MED BOX"}
  <2>1. IsFiniteSet(boxes)
    BY <1>1, FiniteKept, Zenon
  <2> HIDE DEF boxes
  <2> QED BY <1>1, <2>1, FiniteMergeOn, Zenon DEF Frame17, boxes
<1>7. IsFiniteSet(g)
  BY <1>6, FiniteKept
<1> HIDE DEF N, R
<1>8. \A s \in g : Part(s, {"lineitem"}) \in h /\ Part(s, {"lineitem"})["l_quantity"]
        = s["l_quantity"]
  <2> SUFFICES ASSUME NEW s \in g
               PROVE  Part(s, {"lineitem"}) \in h /\ Part(s, {"lineitem"})["l_quantity"]
                        = s["l_quantity"]
    OBVIOUS
  <2>0. s \in R /\ s["p_partkey"] = k
    OBVIOUS
  <2>1. Keeps(d, N, s) /\ s["p_partkey"] = s["l_partkey"] /\ s["p_partkey"] = k
    BY <1>3, <2>0, Zenon
  <2>2. Part(s, {"lineitem"}) \in d["lineitem"] /\ Part(s, {"lineitem"})["l_partkey"]
          = s["l_partkey"]
    <3>1. "lineitem" \in DOMAIN N /\ "l_partkey" \in N["lineitem"] /\ Keeps(d, N, s)
      BY <1>2, <2>1
    <3>2. Part(s, {"lineitem"}) \in d["lineitem"]
      BY <3>1, ColumnOfTable
    <3>3. Part(s, {"lineitem"})["l_partkey"] = s["l_partkey"]
      BY <3>1, ColumnOfTable
    <3> QED BY <3>2, <3>3
  <2>3. Part(s, {"lineitem"})["l_quantity"] = s["l_quantity"]
    BY <1>2, <2>1, ColumnOfTable
  <2> QED BY <2>1, <2>2, <2>3
<1>9. \A s \in g : Part(s, {"part"}) = Part(r, {"part"})
  <2> SUFFICES ASSUME NEW s \in g PROVE Part(s, {"part"}) = Part(r, {"part"})
    OBVIOUS
  <2>1. Keeps(d, N, s) /\ Keeps(d, N, r) /\ s["p_partkey"] = r["p_partkey"]
    BY <1>3 DEF R
  <2>2. Part(s, {"part"}) \in d["part"] /\ Part(s, {"part"})["p_partkey"] = s["p_partkey"]
    BY <1>2, <2>1, ColumnOfTable
  <2>3. Part(r, {"part"}) \in d["part"] /\ Part(r, {"part"})["p_partkey"] = r["p_partkey"]
    BY <1>2, <2>1, ColumnOfTable
  <2> QED BY <2>1, <2>2, <2>3 DEF PartsDiffer
<1>10. \A s \in R : s = Joined(Part(s, {"part"}), Part(s, {"lineitem"}))
  <2> SUFFICES ASSUME NEW s \in R PROVE s = Joined(Part(s, {"part"}), Part(s, {"lineitem"}))
    OBVIOUS
  <2>1. IsFcn(s) /\ DOMAIN s \subseteq Cols(DOMAIN N)
    BY <1>3 DEF Keeps, IsRow
  <2>2. {"part"} \cup {"lineitem"} = DOMAIN N
    BY <1>2
  <2> QED BY <2>1, <2>2, PartsJoined
<1>11. \A s, t \in g : b[s] = b[t] => s = t
  BY <1>9, <1>10
<1>12. \A l \in h : \E s \in g : b[s] = l
  <2> SUFFICES ASSUME NEW l \in h PROVE \E s \in g : b[s] = l
    OBVIOUS
  <2> DEFINE p == Part(r, {"part"})
             x == Joined(p, l)
  <2>1. Keeps(d, N, r) /\ l \in d["lineitem"] /\ l["l_partkey"] = k
    BY <1>3 DEF R
  <2>2. p \in d["part"] /\ p["p_partkey"] = k
    BY <1>2, <2>1, ColumnOfTable
  <2>3. p["p_brand"] = r["p_brand"] /\ p["p_container"] = r["p_container"]
    <3>1. "part" \in DOMAIN N /\ "p_brand" \in N["part"] /\ "p_container" \in N["part"]
      BY Reads17 DEF N
    <3>2. p["p_brand"] = r["p_brand"]
      BY <2>1, <3>1, ColumnOfTable
    <3>3. p["p_container"] = r["p_container"]
      BY <2>1, <3>1, ColumnOfTable
    <3> QED BY <3>2, <3>3
  <2> HIDE DEF p
  <2>4. x \in R
    <3> DEFINE boxes == {q \in d.part : q.p_brand = "Brand#23" /\ q.p_container = "MED BOX"}
    <3>1. p \in boxes
      BY <1>5, <2>2, <2>3, Zenon
    <3> HIDE DEF boxes
    <3>2. x \in MergeOn(boxes, d["lineitem"], "p_partkey", "l_partkey")
      BY <2>1, <2>2, <3>1, InMergeOn
    <3> QED BY <3>2, Zenon DEF R, Frame17, boxes
  <2>5. Part(x, {"part"}) = p /\ Part(x, {"lineitem"}) = l
    <3>1. IsFcn(p) /\ DOMAIN p \subseteq Columns["part"] /\ IsFcn(l)
            /\ DOMAIN l \subseteq Columns["lineitem"]
      BY <1>1, <1>2, <2>1, <2>2 DEF Fits
    <3>2. {"part"} \in SUBSET Tables /\ {"lineitem"} \in SUBSET Tables /\ {"part"} \cap {"lineitem"}
            = {}
      BY DEF Tables
    <3>3. DOMAIN p \subseteq Cols({"part"}) /\ DOMAIN l \subseteq Cols({"lineitem"})
      BY <3>1, ColsOfOne
    <3> QED BY <3>1, <3>2, <3>3, JoinedParts
  <2>6. x["p_partkey"] = k
    <3>1. Part(x, {"part"})["p_partkey"] = x["p_partkey"]
      BY <1>2, <1>3, <2>4, ColumnOfTable
    <3> QED BY <2>2, <2>5, <3>1
  <2> HIDE DEF x
  <2>7. x \in g
    BY <2>4, <2>6
  <2> QED BY <2>5, <2>7
<1>13. h = ImageOf(b, g)
  <2>1. \A l : l \in h <=> \E s \in g : l = b[s]
    BY <1>8, <1>12
  <2> HIDE DEF h, g, b
  <2>2. \A l : l \in ImageOf(b, g) <=> \E s \in g : l = b[s]
    BY DEF ImageOf
  <2> QED BY <2>1, <2>2
<1> DEFINE f == [s \in g |-> Quantity(s)]
           e == [l \in h |-> Quantity(l)]
<1>14. \A s \in g : f[s] \in Int /\ e[b[s]] = f[s]
  <2> SUFFICES ASSUME NEW s \in g PROVE f[s] \in Int /\ e[b[s]] = f[s]
    OBVIOUS
  <2>1. Keeps(d, N, s) /\ "l_quantity" \in Quantities
    BY <1>3 DEF Quantities
  <2>2. s["l_quantity"] \in Int
    BY <1>2, <2>1, NumberKept DEF N
  <2>3. f[s] = s["l_quantity"] /\ e[b[s]] = b[s]["l_quantity"]
    BY <1>8 DEF Quantity
  <2> QED BY <1>8, <2>2, <2>3
<1>15. DOMAIN f = g /\ DOMAIN e = h
  OBVIOUS
<1>16. MeanOf17(R, k) = <<SumFunction(f), Cardinality(g)>> /\ LineMean17(d, k)
         = <<SumFunction(e), Cardinality(h)>>
  BY Zenon DEF MeanOf17, LineMean17, Mean17, Mean, Total
<1> HIDE DEF f, e, g, h, b
<1>17. SumFunction(e) = SumFunction(f)
  BY <1>7, <1>11, <1>13, <1>14, <1>15, TotalOfImage
<1>18. Cardinality(h) = Cardinality(g)
  BY <1>7, <1>11, <1>13, SizeOfImage
<1> QED BY <1>16, <1>17, <1>18 DEF R, k

\* No two lineitems become one row.
LEMMA PolarsRow17Differs ==
  ASSUME NEW R, Sound17(R), NEW r \in R, NEW s \in R, PolarsRow17(R, r) = PolarsRow17(R, s)
  PROVE  r = s
<1> DEFINE m == MeanRow17(R, r.p_partkey)
           n == MeanRow17(R, s.p_partkey)
<1>1. DOMAIN m = {"key", "avg_quantity"} /\ DOMAIN n = {"key", "avg_quantity"}
  BY DEF MeanRow17
<1>2. Joined(m, r) = Joined(n, s)
  BY DEF PolarsRow17
<1>3. /\ IsFcn(r) /\ IsFcn(s)
      /\ "key" \notin DOMAIN r /\ "avg_quantity" \notin DOMAIN r
      /\ "key" \notin DOMAIN s /\ "avg_quantity" \notin DOMAIN s
  BY DEF Sound17
<1> HIDE DEF m, n
<1>4. DOMAIN m \cap DOMAIN r = {} /\ DOMAIN m \cap DOMAIN s = {} /\ DOMAIN m = DOMAIN n
  BY <1>1, <1>3
<1> QED BY <1>2, <1>3, <1>4, JoinedIsOneToOne

\* No two lineitems become one row.
LEMMA PandasRow17Differs ==
  ASSUME NEW R, Sound17(R), NEW r \in R, NEW s \in R, PandasRow17(R, r) = PandasRow17(R, s)
  PROVE  r = s
<1> DEFINE m == Group17(R, r)
           n == Group17(R, s)
           G == {"p_partkey", "avg_quantity"}
<1>1. DOMAIN m = G /\ DOMAIN n = G
  BY Group17Is
<1>2. Joined(r, m) = Joined(s, n)
  BY DEF PandasRow17
<1>3. /\ IsFcn(r) /\ IsFcn(s) /\ "p_partkey" \in DOMAIN r /\ "p_partkey" \in DOMAIN s
      /\ "avg_quantity" \notin DOMAIN r /\ "avg_quantity" \notin DOMAIN s
  BY DEF Sound17
<1> HIDE DEF m, n
<1>4. DOMAIN Joined(r, m) = DOMAIN r \cup G /\ DOMAIN Joined(s, n) = DOMAIN s \cup G
  BY <1>1, JoinedIs
<1>5. DOMAIN r = DOMAIN s
  BY <1>2, <1>3, <1>4
<1>6. \A c \in DOMAIN r : r[c] = s[c]
  BY <1>2, <1>5, JoinedLeft
<1> QED BY <1>3, <1>5, <1>6, SameFcn

\* So the totals are those of the lineitems.
LEMMA PolarsTotal17 ==
  ASSUME NEW R, Sound17(R), IsFiniteSet(R), \A r \in R : r["l_extendedprice"] \in Int
  PROVE  Total(PolarsRows17(R), Price) = Total(Low17(R), Price)
<1> DEFINE L == Low17(R)
           P == PolarsRows17(R)
           b == [r \in L |-> PolarsRow17(R, r)]
           f == [r \in L |-> Price(r)]
           h == [x \in P |-> Price(x)]
<1>1. \A r : r \in L => r \in R
  BY Zenon DEF Low17
<1>2. \A x : x \in P <=> \E r \in L : x = PolarsRow17(R, r)
  BY PolarsRows17Are
<1> HIDE DEF L, P
<1>3. P = ImageOf(b, L)
  <2>1. \A x : x \in ImageOf(b, L) <=> \E r \in L : x = PolarsRow17(R, r)
    BY DEF ImageOf
  <2> HIDE DEF b
  <2> QED BY <1>2, <2>1
<1>4. \A r, s \in L : b[r] = b[s] => r = s
  BY <1>1, PolarsRow17Differs
<1>5. \A r \in L : f[r] \in Int /\ h[b[r]] = f[r]
  BY <1>1, <1>2, PolarsRow17Is DEF Price
<1>6. IsFiniteSet(L)
  BY <1>1, FiniteKept
<1>7. DOMAIN f = L /\ DOMAIN h = P
  OBVIOUS
<1>8. Total(P, Price) = SumFunction(h) /\ Total(L, Price) = SumFunction(f)
  BY DEF Total
<1> HIDE DEF b, f, h
<1>9. SumFunction(h) = SumFunction(f)
  BY <1>3, <1>4, <1>5, <1>6, <1>7, TotalOfImage
<1> QED BY <1>8, <1>9 DEF L, P

\* So the totals are those of the lineitems.
LEMMA PandasTotal17 ==
  ASSUME NEW R, Sound17(R), IsFiniteSet(R), \A r \in R : r["l_extendedprice"] \in Int
  PROVE  Total(PandasRows17(R), Price) = Total(Low17(R), Price)
<1> DEFINE L == Low17(R)
           P == PandasRows17(R)
           b == [r \in L |-> PandasRow17(R, r)]
           f == [r \in L |-> Price(r)]
           h == [x \in P |-> Price(x)]
<1>1. \A r : r \in L => r \in R
  BY Zenon DEF Low17
<1>2. \A x : x \in P <=> \E r \in L : x = PandasRow17(R, r)
  BY PandasRows17Are
<1> HIDE DEF L, P
<1>3. P = ImageOf(b, L)
  <2>1. \A x : x \in ImageOf(b, L) <=> \E r \in L : x = PandasRow17(R, r)
    BY DEF ImageOf
  <2> HIDE DEF b
  <2> QED BY <1>2, <2>1
<1>4. \A r, s \in L : b[r] = b[s] => r = s
  BY <1>1, PandasRow17Differs
<1>5. \A r \in L : f[r] \in Int /\ h[b[r]] = f[r]
  BY <1>1, <1>2, PandasRow17Is DEF Price
<1>6. IsFiniteSet(L)
  BY <1>1, FiniteKept
<1>7. DOMAIN f = L /\ DOMAIN h = P
  OBVIOUS
<1>8. Total(P, Price) = SumFunction(h) /\ Total(L, Price) = SumFunction(f)
  BY DEF Total
<1> HIDE DEF b, f, h
<1>9. SumFunction(h) = SumFunction(f)
  BY <1>3, <1>4, <1>5, <1>6, <1>7, TotalOfImage
<1> QED BY <1>8, <1>9 DEF L, P

\* The SQL's rows are the same lineitems.
LEMMA SameRows17 ==
  ASSUME NEW d, Sound(d, Reads[17]), PartsDiffer(d)
  PROVE  SqlRows17(d) = Low17(Frame17(d))
<1> DEFINE N == Reads[17]
           R == Frame17(d)
<1>1. Fits(d, N)
  BY DEF Sound
<1> SUFFICES ASSUME NEW r PROVE r \in SqlRows17(d) <=> r \in Low17(R)
  OBVIOUS
<1>2. r \in d.lineitem \otimes d.part <=> Keeps(d, N, r)
  BY <1>1, Product17
<1>3. r \in R <=> /\ Keeps(d, N, r) /\ r.p_brand = "Brand#23" /\ r.p_container = "MED BOX"
                  /\ r.p_partkey = r.l_partkey
  BY <1>1, InFrame17, Zenon
<1>4. r \in R => MeanOf17(R, r.p_partkey) = LineMean17(d, r.p_partkey)
  BY SameMean17
<1> HIDE DEF N, R
<1> QED BY <1>2, <1>3, <1>4, Zenon DEF SqlRows17, Low17

\* The three engines answer q17 alike.
LEMMA Answers17 ==
  ASSUME NEW d, Sound(d, Reads[17]), PartsDiffer(d)
  PROVE  /\ Polars!Q17(d) = Filled(Sql!Q17(d), NaN)
         /\ Pandas!Q17(d) = Filled(Sql!Q17(d), Pandas!ZeroDivisionError)
<1> DEFINE N == Reads[17]
           R == Frame17(d)
           L == Low17(R)
           s == Total(L, Price)
<1>1. Fits(d, N) /\ IsFiniteSet(d["part"]) /\ IsFiniteSet(d["lineitem"])
  BY Reads17 DEF Sound
<1>2. Sound17(R)
  BY <1>1, Sound17Is
<1>3. IsFiniteSet(R)
  <2> DEFINE boxes == {p \in d.part : p.p_brand = "Brand#23" /\ p.p_container = "MED BOX"}
  <2>1. IsFiniteSet(boxes)
    BY <1>1, FiniteKept, Zenon
  <2> HIDE DEF boxes
  <2> QED BY <1>1, <2>1, FiniteMergeOn, Zenon DEF Frame17, boxes
<1>4. \A r \in R : Price(r) \in Int /\ r["l_extendedprice"] \in Int
  <2> SUFFICES ASSUME NEW r \in R PROVE Price(r) \in Int /\ r["l_extendedprice"] \in Int
    OBVIOUS
  <2>1. Keeps(d, N, r)
    BY <1>1, InFrame17, Zenon
  <2>2. "lineitem" \in DOMAIN N /\ "l_extendedprice" \in N["lineitem"]
          /\ "l_extendedprice" \in Quantities
    BY Reads17 DEF Quantities
  <2>3. r["l_extendedprice"] \in Int
    BY <2>1, <2>2, NumberKept
  <2> QED BY <2>3 DEF Price
<1>5. Polars!Q17(d) = Answer17(PolarsRows17(R)) /\ Pandas!Q17(d) = Answer17(PandasRows17(R))
  BY Polars17, Pandas17
<1>6. SqlRows17(d) = L
  BY SameRows17
<1> HIDE DEF R
<1>7. Total(PolarsRows17(R), Price) = s
  BY <1>2, <1>3, <1>4, PolarsTotal17
<1>8. Total(PandasRows17(R), Price) = s
  BY <1>2, <1>3, <1>4, PandasTotal17
<1>9. \A r : r \in L => r \in R
  BY Zenon DEF Low17
<1> HIDE DEF L
<1>10. IsFiniteSet(L)
  BY <1>3, <1>9, FiniteKept
<1>11. s \in Int /\ (L = {} => s = 0)
  <2> DEFINE f == [r \in L |-> Price(r)]
  <2>1. DOMAIN f = L /\ \A r \in L : f[r] \in Int
    BY <1>4, <1>9
  <2>2. s = SumFunction(f)
    BY DEF Total
  <2> HIDE DEF f
  <2> QED BY <1>10, <2>1, <2>2, IntSum, SumOverNone
<1> HIDE DEF s
<1>12. Sql!Q17(d) = [avg_yearly |-> IF L = {} THEN Null ELSE s]
  BY <1>6, Sql17 DEF s
<1>13. \A quotient : Filled(Sql!Q17(d), quotient) = [avg_yearly |-> s]
  BY <1>11, <1>12, FilledYearly
<1>14. Polars!Q17(d) = [avg_yearly |-> s]
  BY <1>5, <1>7 DEF Answer17
<1>15. Pandas!Q17(d) = [avg_yearly |-> s]
  BY <1>5, <1>8 DEF Answer17
<1> QED BY <1>13, <1>14, <1>15
=============================================================================
