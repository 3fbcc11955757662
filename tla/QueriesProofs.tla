---------------------------- MODULE QueriesProofs ----------------------------
(***************************************************************************)
(* The versions of the queries for polars and pandas answer every database *)
(* of the schema as the SQL does.  Each query is proved by itself: the     *)
(* other queries first, and then that every state's query is one of them.  *)
(***************************************************************************)
EXTENDS QueriesLemmas

-----------------------------------------------------------------------------
(* q2: the cheapest supplier of a part in a region.                        *)

\* The columns that q2 reads.
LEMMA Reads2 ==
  /\ DOMAIN Reads[2] = {"part", "partsupp", "supplier", "nation", "region"}
  /\ "p_partkey" \in Reads[2]["part"] /\ "p_size" \in Reads[2]["part"]
       /\ "p_type" \in Reads[2]["part"]
  /\ "ps_partkey" \in Reads[2]["partsupp"] /\ "ps_suppkey" \in Reads[2]["partsupp"]
       /\ "ps_supplycost" \in Reads[2]["partsupp"]
  /\ "s_suppkey" \in Reads[2]["supplier"] /\ "s_nationkey" \in Reads[2]["supplier"]
       /\ "s_acctbal" \in Reads[2]["supplier"] /\ "s_name" \in Reads[2]["supplier"]
  /\ "n_nationkey" \in Reads[2]["nation"] /\ "n_regionkey" \in Reads[2]["nation"]
       /\ "n_name" \in Reads[2]["nation"]
  /\ "r_regionkey" \in Reads[2]["region"] /\ "r_name" \in Reads[2]["region"]
BY DEF Reads

Frame2(d) ==
    LET offers == MergeOn(d.part, d.partsupp, "p_partkey", "ps_partkey")
        suppliers == MergeOn(offers, d.supplier, "ps_suppkey", "s_suppkey")
        nations == MergeOn(suppliers, d.nation, "s_nationkey", "n_nationkey")
    IN  MergeOn(nations, d.region, "n_regionkey", "r_regionkey")

\* The rows of the joins of q2, in terms of the tables.
LEMMA InFrame2 ==
  ASSUME NEW d, NEW N, N = Reads[2], Fits(d, N), NEW x
  PROVE  /\ x \in Frame2(d) =>
             /\ Keeps(d, N, x)
             /\ x.p_partkey = x.ps_partkey
             /\ x.ps_suppkey = x.s_suppkey
             /\ x.s_nationkey = x.n_nationkey
             /\ x.n_regionkey = x.r_regionkey
         /\ /\ Keeps(d, N, x)
            /\ x.p_partkey = x.ps_partkey
            /\ x.ps_suppkey = x.s_suppkey
            /\ x.s_nationkey = x.n_nationkey
            /\ x.n_regionkey = x.r_regionkey
            => x \in Frame2(d)
<1>N. DOMAIN N = {"part", "partsupp", "supplier", "nation", "region"}
  BY Reads2
<1>C. /\ "p_partkey" \in N["part"]
      /\ "ps_partkey" \in N["partsupp"]
      /\ "ps_suppkey" \in N["partsupp"]
      /\ "s_suppkey" \in N["supplier"]
      /\ "s_nationkey" \in N["supplier"]
      /\ "n_nationkey" \in N["nation"]
      /\ "n_regionkey" \in N["nation"]
      /\ "r_regionkey" \in N["region"]
  BY Reads2
<1> DEFINE V1 == {"part"}
           V2 == V1 \cup {"partsupp"}
           V3 == V2 \cup {"supplier"}
           V4 == V3 \cup {"nation"}
           V5 == V4 \cup {"region"}
           offers == MergeOn(d.part, d.partsupp, "p_partkey", "ps_partkey")
           suppliers == MergeOn(offers, d.supplier, "ps_suppkey", "s_suppkey")
           nations == MergeOn(suppliers, d.nation, "s_nationkey", "n_nationkey")
           regions == MergeOn(nations, d.region, "n_regionkey", "r_regionkey")
<1>10. Joins(d, N, V1, d.part, {"partsupp"}, d.partsupp, "p_partkey", "ps_partkey")
  BY <1>N, <1>C, FrameTable DEF Joins, Apart, Names
<1>11. Joins(d, N, V2, offers, {"supplier"}, d.supplier, "ps_suppkey", "s_suppkey")
  BY <1>N, <1>C, <1>10, FrameMerge, FrameTable DEF Joins, Apart, Names
<1>12. Joins(d, N, V3, suppliers, {"nation"}, d.nation, "s_nationkey", "n_nationkey")
  BY <1>N, <1>C, <1>11, FrameMerge, FrameTable DEF Joins, Apart, Names
<1>13. Joins(d, N, V4, nations, {"region"}, d.region, "n_regionkey", "r_regionkey")
  BY <1>N, <1>C, <1>12, FrameMerge, FrameTable DEF Joins, Apart, Names
<1>14. Frame(d, N, V5, regions)
  BY <1>13, FrameMerge
<1>20. ASSUME Keeps(d, N, x)
      PROVE  Part(x, V5) \in regions <=>
                /\ x.p_partkey = x.ps_partkey
                /\ x.ps_suppkey = x.s_suppkey
                /\ x.s_nationkey = x.n_nationkey
                /\ x.n_regionkey = x.r_regionkey
  <2>1. /\ Part(x, {"part"}) \in d.part
        /\ Part(x, {"partsupp"}) \in d.partsupp
        /\ Part(x, {"supplier"}) \in d.supplier
        /\ Part(x, {"nation"}) \in d.nation
        /\ Part(x, {"region"}) \in d.region
    BY <1>20, <1>N, KeptInTable
  <2>2. Part(x, V2) \in offers <=> Part(x, V1) \in d.part /\ Part(x, {"partsupp"}) \in d.partsupp
          /\ x.p_partkey = x.ps_partkey
    BY <1>20, <1>10, KeptByMerge
  <2>3. Part(x, V3) \in suppliers <=> Part(x, V2) \in offers /\ Part(x, {"supplier"}) \in d.supplier
          /\ x.ps_suppkey = x.s_suppkey
    BY <1>20, <1>11, KeptByMerge
  <2>4. Part(x, V4) \in nations <=> Part(x, V3) \in suppliers /\ Part(x, {"nation"}) \in d.nation
          /\ x.s_nationkey = x.n_nationkey
    BY <1>20, <1>12, KeptByMerge
  <2>5. Part(x, V5) \in regions <=> Part(x, V4) \in nations /\ Part(x, {"region"}) \in d.region
          /\ x.n_regionkey = x.r_regionkey
    BY <1>20, <1>13, KeptByMerge
  <2> HIDE DEF V2, V3, V4, V5, offers, suppliers, nations, regions
  <2> QED BY <2>1, <2>2, <2>3, <2>4, <2>5
<1>21. (\A y \in regions : Keeps(d, N, y)) /\ (Keeps(d, N, x) => Part(x, V5) = x)
  <2>1. Among(DOMAIN N, V5)
    BY <1>N DEF Among
  <2> HIDE DEF V2, V3, V4, V5, offers, suppliers, nations, regions
  <2> QED BY <1>14, <2>1, KeptInAll
<1>22. Frame2(d) = regions
  BY DEF Frame2
<1> HIDE DEF V1, V2, V3, V4, V5, offers, suppliers, nations, regions
<1> QED BY <1>20, <1>21, <1>22

Costs2(R, k) == {s.ps_supplycost : s \in {o \in R : o.p_partkey = k}}

Least2(R, k) == Min(Costs2(R, k))

Key2 == {"p_partkey"}

Group2(R, r) == Joined(On(r, Key2), [ps_supplycost |-> Least2(R, r.p_partkey)])

Groups2(R) == {Group2(R, r) : r \in R}

Cheapest2(R) == {r \in R : r.ps_supplycost = Least2(R, r.p_partkey)}

Rows2(d) == {r \in Frame2(d) : r.p_size = 15 /\ EndsWith(r.p_type, <<"BRASS">>) /\ r.r_name
  = "EUROPE"}

FrameRows2(R) == Merge(Groups2(R), R, <<"p_partkey", "ps_supplycost">>,
  <<"p_partkey", "ps_supplycost">>)

Offers2(d) ==
    {r \in d.partsupp \otimes d.supplier \otimes d.nation \otimes d.region :
        /\ r.s_suppkey = r.ps_suppkey
        /\ r.s_nationkey = r.n_nationkey
        /\ r.n_regionkey = r.r_regionkey
        /\ r.r_name = "EUROPE"}

SqlLeast2(S, p) == Min({r.ps_supplycost : r \in {o \in S : o.ps_partkey = p}})

SqlRows2(d, S) ==
    {r \in Cross(d.part, S) :
        /\ r.p_partkey = r.ps_partkey
        /\ r.p_size = 15
        /\ EndsWith(r.p_type, <<"BRASS">>)
        /\ r.ps_supplycost = SqlLeast2(S, r.p_partkey)}

Answer2(R) ==
    Top(Project(R, {"s_acctbal", "s_name", "n_name", "p_partkey"}),
        LAMBDA r : <<-r.s_acctbal, Alpha(r.n_name), Alpha(r.s_name), r.p_partkey>>,
        Cut[100])

\* q2 of duckdb.
LEMMA Sql2 ==
  ASSUME NEW d
  PROVE  Sql!Q2(d) = Answer2(SqlRows2(d, Offers2(d)))
<1> USE DEF Top, Sql!Top, Sorted, Sql!Sorted, Before, Sql!Before, Alpha, Sql!Alpha, Cardinality,
       Sql!Cardinality, Cross, Sql!Cross, Joined, Sql!Joined, Project, Sql!Project, On, Sql!On,
       Min, Sql!Min, EndsWith, Sql!EndsWith, IsSuffix, Sql!IsSuffix, IsPrefix, Sql!IsPrefix,
       Reverse, Sql!Reverse, \otimes, Sql!\otimes
<1> QED BY Zenon DEF Sql!Q2, SqlRows2, Offers2, Answer2, SqlLeast2

\* A group by part.
LEMMA SameKey2 ==
  ASSUME NEW R, NEW r
  PROVE  {s \in R : On(s, Key2) = On(r, Key2)} = {s \in R : s.p_partkey = r.p_partkey}
<1>1. \A s : On(s, Key2) = On(r, Key2) <=> s.p_partkey = r.p_partkey
  BY DEF On, Key2
<1> QED BY <1>1

\* The engine's minima are those of Groups2.
LEMMA PolarsGroups2 ==
  ASSUME NEW R
  PROVE  Polars!GroupBy(R, {"p_partkey"}, LAMBDA g :
           [ps_supplycost |-> Polars!Min({r.ps_supplycost : r \in g})]) = Groups2(R)
<1> DEFINE agg(g) == [ps_supplycost |-> Polars!Min({r.ps_supplycost : r \in g})]
           G == Polars!GroupBy(R, Key2, agg)
<1>1. \A g : agg(g) = [ps_supplycost |-> Min({r.ps_supplycost : r \in g})]
  BY SMT DEF Min, Polars!Min
<1> HIDE DEF agg
<1> DEFINE H(k) == Joined(k, agg({s \in R : On(s, Key2) = k}))
<1>2. G = {H(k) : k \in Project(R, Key2)}
  BY DEF GroupBy, Polars!GroupBy, Project, Polars!Project, On, Polars!On, Joined, Polars!Joined
<1>3. ASSUME NEW r \in R PROVE H(On(r, Key2)) = Group2(R, r)
  <2> DEFINE g == {s \in R : On(s, Key2) = On(r, Key2)}
             h == {o \in R : o.p_partkey = r.p_partkey}
  <2>1. g = h
    BY SameKey2
  <2>2. agg(h) = [ps_supplycost |-> Least2(R, r.p_partkey)]
    BY <1>1, Zenon DEF Least2, Costs2
  <2>3. agg(g) = [ps_supplycost |-> Least2(R, r.p_partkey)]
    <3> HIDE DEF g, h
    <3> QED BY <2>1, <2>2, Zenon
  <2> QED BY <2>3, Zenon DEF Group2
<1> HIDE DEF H
<1>4. G = Groups2(R)
  <2> HIDE DEF G
  <2>1. \A m : m \in G <=> \E r \in R : m = H(On(r, Key2))
    BY <1>2, Zenon DEF Project
  <2>2. \A m : m \in G <=> m \in Groups2(R)
    BY <1>3, <2>1 DEF Groups2
  <2> QED BY <2>2
<1> QED BY <1>4, Zenon DEF G, Key2, agg

\* q2 of polars.
LEMMA Polars2 ==
  ASSUME NEW d
  PROVE  Polars!Q2(d) = Answer2(FrameRows2(Rows2(d)))
<1> DEFINE suppliers == Polars!Merge(Polars!Merge(d.part, d.partsupp, <<"p_partkey">>,
             <<"ps_partkey">>),
                           d.supplier, <<"ps_suppkey">>, <<"s_suppkey">>)
           nations == Polars!Merge(suppliers, d.nation, <<"s_nationkey">>, <<"n_nationkey">>)
           q1 == {r \in Polars!Merge(nations, d.region, <<"n_regionkey">>, <<"r_regionkey">>) :
                  r.p_size = 15 /\ Polars!EndsWith(r.p_type, <<"BRASS">>) /\ r.r_name = "EUROPE"}
           least == Polars!GroupBy(q1, {"p_partkey"},
                         LAMBDA g : [ps_supplycost |-> Polars!Min({r.ps_supplycost : r \in g})])
           rows == Polars!Merge(least, q1, <<"p_partkey", "ps_supplycost">>,
             <<"p_partkey", "ps_supplycost">>)
<1>1. q1 = Rows2(d)
  BY SMT DEF Merge, Polars!Merge, Match, Polars!Match, Joined, Polars!Joined, EndsWith,
         Polars!EndsWith, IsSuffix, Polars!IsSuffix, IsPrefix, Polars!IsPrefix, Reverse,
         Polars!Reverse, Rows2, Frame2, MergeOn
<1>2. Polars!Q2(d) = Polars!Top(Polars!Project(rows,
        {"s_acctbal", "s_name", "n_name", "p_partkey"}),
            LAMBDA r : <<-r.s_acctbal, Polars!Alpha(r.n_name), Polars!Alpha(r.s_name),
              r.p_partkey>>,
            Cut[100])
  BY Zenon DEF Polars!Q2
<1> HIDE DEF q1
<1>3. least = Groups2(q1)
  BY PolarsGroups2, Zenon
<1> HIDE DEF least
<1>4. rows = FrameRows2(q1)
  BY <1>3 DEF Merge, Polars!Merge, Match, Polars!Match, Joined, Polars!Joined, FrameRows2
<1> HIDE DEF rows
<1>5. Polars!Q2(d) = Answer2(rows)
  BY <1>2, SMT DEF Top, Polars!Top, Sorted, Polars!Sorted, Before, Polars!Before, Alpha,
         Polars!Alpha, Cardinality, Polars!Cardinality, Project, Polars!Project, On, Polars!On,
         Answer2
<1> QED BY <1>1, <1>4, <1>5

\* The engine's minima are those of Groups2.
LEMMA PandasGroups2 ==
  ASSUME NEW R
  PROVE  Pandas!GroupBy(R, {"p_partkey"}, LAMBDA g :
           [ps_supplycost |-> Pandas!Min({r.ps_supplycost : r \in g})]) = Groups2(R)
<1> DEFINE agg(g) == [ps_supplycost |-> Pandas!Min({r.ps_supplycost : r \in g})]
           G == Pandas!GroupBy(R, Key2, agg)
<1>1. \A g : agg(g) = [ps_supplycost |-> Min({r.ps_supplycost : r \in g})]
  BY SMT DEF Min, Pandas!Min
<1> HIDE DEF agg
<1> DEFINE H(k) == Joined(k, agg({s \in R : On(s, Key2) = k}))
<1>2. G = {H(k) : k \in Project(R, Key2)}
  BY DEF GroupBy, Pandas!GroupBy, Project, Pandas!Project, On, Pandas!On, Joined, Pandas!Joined
<1>3. ASSUME NEW r \in R PROVE H(On(r, Key2)) = Group2(R, r)
  <2> DEFINE g == {s \in R : On(s, Key2) = On(r, Key2)}
             h == {o \in R : o.p_partkey = r.p_partkey}
  <2>1. g = h
    BY SameKey2
  <2>2. agg(h) = [ps_supplycost |-> Least2(R, r.p_partkey)]
    BY <1>1, Zenon DEF Least2, Costs2
  <2>3. agg(g) = [ps_supplycost |-> Least2(R, r.p_partkey)]
    <3> HIDE DEF g, h
    <3> QED BY <2>1, <2>2, Zenon
  <2> QED BY <2>3, Zenon DEF Group2
<1> HIDE DEF H
<1>4. G = Groups2(R)
  <2> HIDE DEF G
  <2>1. \A m : m \in G <=> \E r \in R : m = H(On(r, Key2))
    BY <1>2, Zenon DEF Project
  <2>2. \A m : m \in G <=> m \in Groups2(R)
    BY <1>3, <2>1 DEF Groups2
  <2> QED BY <2>2
<1> QED BY <1>4, Zenon DEF G, Key2, agg

\* q2 of pandas.
LEMMA Pandas2 ==
  ASSUME NEW d
  PROVE  Pandas!Q2(d) = Answer2(FrameRows2(Rows2(d)))
<1> DEFINE suppliers == Pandas!Merge(Pandas!Merge(d.part, d.partsupp, <<"p_partkey">>,
             <<"ps_partkey">>),
                           d.supplier, <<"ps_suppkey">>, <<"s_suppkey">>)
           nations == Pandas!Merge(suppliers, d.nation, <<"s_nationkey">>, <<"n_nationkey">>)
           q1 == {r \in Pandas!Merge(nations, d.region, <<"n_regionkey">>, <<"r_regionkey">>) :
                  r.p_size = 15 /\ Pandas!EndsWith(r.p_type, <<"BRASS">>) /\ r.r_name = "EUROPE"}
           least == Pandas!GroupBy(q1, {"p_partkey"},
                         LAMBDA g : [ps_supplycost |-> Pandas!Min({r.ps_supplycost : r \in g})])
           rows == Pandas!Merge(least, q1, <<"p_partkey", "ps_supplycost">>,
             <<"p_partkey", "ps_supplycost">>)
<1>1. q1 = Rows2(d)
  BY SMT DEF Merge, Pandas!Merge, Match, Pandas!Match, Joined, Pandas!Joined, EndsWith,
         Pandas!EndsWith, IsSuffix, Pandas!IsSuffix, IsPrefix, Pandas!IsPrefix, Reverse,
         Pandas!Reverse, Rows2, Frame2, MergeOn
<1>2. Pandas!Q2(d) = Pandas!Top(Pandas!Project(rows,
        {"s_acctbal", "s_name", "n_name", "p_partkey"}),
            LAMBDA r : <<-r.s_acctbal, Pandas!Alpha(r.n_name), Pandas!Alpha(r.s_name),
              r.p_partkey>>,
            Cut[100])
  BY Zenon DEF Pandas!Q2
<1> HIDE DEF q1
<1>3. least = Groups2(q1)
  BY PandasGroups2, Zenon
<1> HIDE DEF least
<1>4. rows = FrameRows2(q1)
  BY <1>3 DEF Merge, Pandas!Merge, Match, Pandas!Match, Joined, Pandas!Joined, FrameRows2
<1> HIDE DEF rows
<1>5. Pandas!Q2(d) = Answer2(rows)
  BY <1>2, SMT DEF Top, Pandas!Top, Sorted, Pandas!Sorted, Before, Pandas!Before, Alpha,
         Pandas!Alpha, Cardinality, Pandas!Cardinality, Project, Pandas!Project, On, Pandas!On,
         Answer2
<1> QED BY <1>1, <1>4, <1>5

\* The row of a group.
LEMMA Group2Is ==
  ASSUME NEW R, NEW r
  PROVE  /\ DOMAIN Group2(R, r) = {"p_partkey", "ps_supplycost"}
         /\ Group2(R, r)["p_partkey"] = r.p_partkey
         /\ Group2(R, r)["ps_supplycost"] = Least2(R, r.p_partkey)
<1> DEFINE k == On(r, Key2)
           m == Least2(R, r.p_partkey)
           a == [ps_supplycost |-> m]
<1>3. Group2(R, r) = Joined(k, a)
  BY DEF Group2
<1>1. DOMAIN k = {"p_partkey"} /\ k["p_partkey"] = r.p_partkey
  BY OnIs DEF Key2
<1> HIDE DEF m
<1>2. DOMAIN a = {"ps_supplycost"} /\ a["ps_supplycost"] = m
  OBVIOUS
<1> HIDE DEF a, k
<1>4. DOMAIN Joined(k, a) = {"p_partkey"} \cup {"ps_supplycost"}
  BY <1>1, <1>2, JoinedIs
<1>5. Joined(k, a)["p_partkey"] = r.p_partkey
  BY <1>1, JoinedLeft
<1>6. Joined(k, a)["ps_supplycost"] = m
  BY <1>1, <1>2, JoinedRight
<1> QED BY <1>3, <1>4, <1>5, <1>6 DEF m

Sound2(R) == \A r \in R : IsFcn(r) /\ {"p_partkey", "ps_supplycost"} \subseteq DOMAIN r

(* A row joined with the key and the least cost of its group is that row.  *)
LEMMA FrameRows2Are ==
  ASSUME NEW R, Sound2(R)
  PROVE  FrameRows2(R) = Cheapest2(R)
<1> DEFINE C == <<"p_partkey", "ps_supplycost">>
<1>1. \A l, r : Match(l, r, C, C) <=> l["p_partkey"] = r["p_partkey"] /\ l["ps_supplycost"]
        = r["ps_supplycost"]
  BY DEF Match
<1> HIDE DEF C
<1>2. ASSUME NEW x
      PROVE  x \in FrameRows2(R) <=>
             \E r \in R, s \in R : /\ Group2(R, r)["p_partkey"] = s["p_partkey"]
                                   /\ Group2(R, r)["ps_supplycost"] = s["ps_supplycost"]
                                   /\ x = Joined(Group2(R, r), s)
  <2>1. x \in Merge(Groups2(R), R, C, C) <=> \E l \in Groups2(R), s \in R : Match(l, s, C, C) /\ x
          = Joined(l, s)
    BY InMerge
  <2>2. \A l : l \in Groups2(R) <=> \E r \in R : l = Group2(R, r)
    BY Zenon DEF Groups2
  <2>3. FrameRows2(R) = Merge(Groups2(R), R, C, C)
    BY Zenon DEF FrameRows2, C
  <2> QED BY <1>1, <2>1, <2>2, <2>3
<1>3. ASSUME NEW r, NEW s \in R, r["p_partkey"] = s["p_partkey"], Least2(R, r["p_partkey"])
               = s["ps_supplycost"]
      PROVE  Joined(Group2(R, r), s) = s
  <2> DEFINE m == Group2(R, r)
  <2>1. DOMAIN m = {"p_partkey", "ps_supplycost"} /\ m["p_partkey"] = s["p_partkey"]
          /\ m["ps_supplycost"] = s["ps_supplycost"]
    BY <1>3, Group2Is
  <2> HIDE DEF m
  <2>2. IsFcn(s) /\ "p_partkey" \in DOMAIN s /\ "ps_supplycost" \in DOMAIN s
    BY DEF Sound2
  <2>3. IsFcn(Joined(m, s)) /\ DOMAIN Joined(m, s) = DOMAIN s
    <3>1. IsFcn(Joined(m, s)) /\ DOMAIN Joined(m, s) = DOMAIN m \cup DOMAIN s
      BY JoinedIs
    <3> QED BY <2>1, <2>2, <3>1
  <2>4. ASSUME NEW c \in DOMAIN s PROVE Joined(m, s)[c] = s[c]
    <3>1. CASE c \in DOMAIN m
      <4>1. Joined(m, s)[c] = m[c]
        BY <3>1, JoinedLeft
      <4>2. c = "p_partkey" \/ c = "ps_supplycost"
        BY <2>1, <3>1
      <4> QED BY <2>1, <4>1, <4>2
    <3>2. CASE c \notin DOMAIN m
      BY <3>2, JoinedRight
    <3> QED BY <3>1, <3>2
  <2> QED BY <2>2, <2>3, <2>4, SameFcn DEF m
<1>4. \A s : s \in Cheapest2(R) <=> s \in R /\ s["ps_supplycost"] = Least2(R, s["p_partkey"])
  BY Zenon DEF Cheapest2
<1>5. ASSUME NEW x, x \in FrameRows2(R) PROVE x \in Cheapest2(R)
  <2>1. PICK r \in R, s \in R : /\ Group2(R, r)["p_partkey"] = s["p_partkey"]
                                /\ Group2(R, r)["ps_supplycost"] = s["ps_supplycost"]
                                /\ x = Joined(Group2(R, r), s)
    BY <1>2, <1>5
  <2>2. r["p_partkey"] = s["p_partkey"] /\ Least2(R, r["p_partkey"]) = s["ps_supplycost"]
    BY <2>1, Group2Is
  <2>3. x = s
    BY <1>3, <2>1, <2>2
  <2> QED BY <1>4, <2>2, <2>3
<1>6. ASSUME NEW s, s \in Cheapest2(R) PROVE s \in FrameRows2(R)
  <2>1. s \in R /\ s["ps_supplycost"] = Least2(R, s["p_partkey"])
    BY <1>4, <1>6
  <2>2. Joined(Group2(R, s), s) = s
    BY <1>3, <2>1
  <2> QED BY <1>2, <2>1, <2>2, Group2Is
<1> QED BY <1>5, <1>6

Others2 == {"partsupp", "supplier", "nation", "region"}

\* The offers of the inner select.
LEMMA InOffers2 ==
  ASSUME NEW d, Fits(d, Reads[2]), NEW x
  PROVE  /\ x \in Offers2(d) => IsRow(d, Others2, x)
         /\ IsRow(d, Others2, x) => (x \in Offers2(d) <=>
              /\ x.s_suppkey = x.ps_suppkey /\ x.s_nationkey = x.n_nationkey
              /\ x.n_regionkey = x.r_regionkey /\ x.r_name = "EUROPE")
<1> DEFINE N == Reads[2]
           T1 == {"partsupp"}
           T2 == T1 \cup {"supplier"}
           T3 == T2 \cup {"nation"}
           T4 == T3 \cup {"region"}
           P == d.partsupp \otimes d.supplier \otimes d.nation \otimes d.region
<1>N. DOMAIN N = {"part", "partsupp", "supplier", "nation", "region"}
  BY Reads2
<1>1. Whole(d, N, T1, d.partsupp)
  BY <1>N, WholeTable
<1>2. Whole(d, N, T2, d.partsupp \otimes d.supplier)
  BY <1>N, <1>1, WholeProduct
<1>3. Whole(d, N, T3, d.partsupp \otimes d.supplier \otimes d.nation)
  BY <1>N, <1>2, WholeProduct
<1>4. Whole(d, N, T4, P)
  BY <1>N, <1>3, WholeProduct
<1>5. T4 = Others2
  BY DEF Others2
<1> HIDE DEF T4, P
<1>6. x \in P <=> IsRow(d, Others2, x)
  BY <1>4, <1>5 DEF Whole, Frame, AreRows
<1>7. x \in Offers2(d) <=> x \in P /\ /\ x.s_suppkey = x.ps_suppkey /\ x.s_nationkey = x.n_nationkey
                                      /\ x.n_regionkey = x.r_regionkey /\ x.r_name = "EUROPE"
  BY Zenon DEF Offers2, P
<1> QED BY <1>6, <1>7

(* The offers of a row: its columns without those of the part.             *)
LEMMA OfferOfRow2 ==
  ASSUME NEW d, Fits(d, Reads[2]), NEW x, Keeps(d, Reads[2], x)
  PROVE  LET o == Part(x, Others2)
         IN  /\ o["ps_partkey"] = x["ps_partkey"] /\ o["ps_supplycost"] = x["ps_supplycost"]
             /\ o \in Offers2(d) <=> /\ x.s_suppkey = x.ps_suppkey /\ x.s_nationkey = x.n_nationkey
                                     /\ x.n_regionkey = x.r_regionkey /\ x.r_name = "EUROPE"
<1> DEFINE N == Reads[2]
           o == Part(x, Others2)
<1>1. Among(Others2, DOMAIN N)
  BY Reads2 DEF Among, Others2
<1>2. /\ Names(N, Others2, "ps_partkey") /\ Names(N, Others2, "ps_supplycost")
           /\ Names(N, Others2, "s_suppkey")
      /\ Names(N, Others2, "ps_suppkey") /\ Names(N, Others2, "s_nationkey")
           /\ Names(N, Others2, "n_nationkey")
      /\ Names(N, Others2, "n_regionkey") /\ Names(N, Others2, "r_regionkey")
           /\ Names(N, Others2, "r_name")
  BY Reads2 DEF Names, Others2
<1> HIDE DEF N
<1>3. \A c : Names(N, Others2, c) => o[c] = x[c]
  BY <1>1, ColumnKept DEF N
<1>4. IsRow(d, Others2, o)
  BY <1>1, PartKept DEF N
<1> HIDE DEF o
<1>5. /\ o["ps_partkey"] = x["ps_partkey"] /\ o["ps_supplycost"] = x["ps_supplycost"]
      /\ o["s_suppkey"] = x["s_suppkey"] /\ o["ps_suppkey"] = x["ps_suppkey"]
      /\ o["s_nationkey"] = x["s_nationkey"] /\ o["n_nationkey"] = x["n_nationkey"]
      /\ o["n_regionkey"] = x["n_regionkey"] /\ o["r_regionkey"] = x["r_regionkey"] /\ o["r_name"]
           = x["r_name"]
  BY <1>2, <1>3
<1>6. o \in Offers2(d) <=>
              /\ o.s_suppkey = o.ps_suppkey /\ o.s_nationkey = o.n_nationkey
              /\ o.n_regionkey = o.r_regionkey /\ o.r_name = "EUROPE"
  BY <1>4, InOffers2
<1> QED BY <1>5, <1>6 DEF o

(* The costs of a part's offers are those of the rows of the part.         *)
LEMMA SameLeast2 ==
  ASSUME NEW d, Fits(d, Reads[2]), NEW r \in Rows2(d)
  PROVE  Least2(Rows2(d), r.p_partkey) = SqlLeast2(Offers2(d), r.p_partkey)
<1> DEFINE N == Reads[2]
           R == Rows2(d)
           S == Offers2(d)
           k == r["p_partkey"]
           good(x) == x.p_size = 15 /\ EndsWith(x.p_type, <<"BRASS">>)
<1>1. \A x : x \in R <=>
        /\ Keeps(d, N, x) /\ x["p_partkey"] = x["ps_partkey"] /\ x["ps_suppkey"] = x["s_suppkey"]
        /\ x["s_nationkey"] = x["n_nationkey"] /\ x["n_regionkey"] = x["r_regionkey"]
        /\ good(x) /\ x["r_name"] = "EUROPE"
  <2> SUFFICES ASSUME NEW x
      PROVE x \in R <=>
        /\ Keeps(d, N, x) /\ x["p_partkey"] = x["ps_partkey"] /\ x["ps_suppkey"] = x["s_suppkey"]
        /\ x["s_nationkey"] = x["n_nationkey"] /\ x["n_regionkey"] = x["r_regionkey"]
        /\ good(x) /\ x["r_name"] = "EUROPE"
    OBVIOUS
  <2>1. x \in Frame2(d) <=> /\ Keeps(d, N, x) /\ x["p_partkey"] = x["ps_partkey"] /\ x["ps_suppkey"] = x["s_suppkey"]
        /\ x["s_nationkey"] = x["n_nationkey"] /\ x["n_regionkey"] = x["r_regionkey"]
    BY InFrame2
  <2>2. x \in R <=> x \in Frame2(d) /\ good(x) /\ x["r_name"] = "EUROPE"
    BY Zenon DEF Rows2
  <2> HIDE DEF good, R, N
  <2> QED BY <2>1, <2>2
<1>2. ASSUME NEW s \in R, s["p_partkey"] = k
      PROVE  \E o \in S : o["ps_partkey"] = k /\ o["ps_supplycost"] = s["ps_supplycost"]
  <2> DEFINE o == Part(s, Others2)
  <2> HIDE DEF R, good
  <2>1. Keeps(d, N, s)
    BY <1>1
  <2>2. o["ps_partkey"] = s["ps_partkey"] /\ o["ps_supplycost"] = s["ps_supplycost"] /\
        (o \in S <=> /\ s.s_suppkey = s.ps_suppkey /\ s.s_nationkey = s.n_nationkey
                     /\ s.n_regionkey = s.r_regionkey /\ s.r_name = "EUROPE")
    BY <2>1, OfferOfRow2
  <2> HIDE DEF o
  <2> QED BY <1>1, <1>2, <2>2
<1>3. ASSUME NEW o \in S, o["ps_partkey"] = k
      PROVE  \E s \in R : s["p_partkey"] = k /\ s["ps_supplycost"] = o["ps_supplycost"]
  <2> DEFINE p == Part(r, {"part"})
             x == Joined(p, o)
  <2> HIDE DEF R
  <2>0. Keeps(d, N, r) /\ good(r)
    BY <1>1 DEF R
  <2>1. IsRow(d, {"part"}, p) /\ IsRow(d, Others2, o)
    <3>1. Among({"part"}, DOMAIN N)
      BY Reads2 DEF Among
    <3>2. IsRow(d, {"part"}, p)
      BY <2>0, <3>1, PartKept
    <3> QED BY <3>2, InOffers2
  <2>2. {"part"} \in SUBSET Tables /\ Others2 \in SUBSET Tables /\ {"part"} \cap Others2 = {}
    BY DEF Tables, Others2
  <2>3. {"part"} \cup Others2 = DOMAIN N
    BY Reads2 DEF Others2
  <2>4. IsRow(d, {"part"} \cup Others2, x)
    BY <2>1, <2>2, JoinedIsRow
  <2>5. Part(x, {"part"}) = p /\ Part(x, Others2) = o
    BY <2>1, <2>2, JoinedParts DEF IsRow
  <2>6. Keeps(d, N, x)
    BY <2>3, <2>4 DEF Keeps
  <2>7. /\ "part" \in DOMAIN N /\ "p_partkey" \in N["part"] /\ "p_size" \in N["part"]
             /\ "p_type" \in N["part"]
    BY Reads2
  <2> HIDE DEF x, N, good, S
  <2>8. \A c \in N["part"] : x[c] = r[c]
    <3> SUFFICES ASSUME NEW c \in N["part"] PROVE x[c] = r[c]
      OBVIOUS
    <3>1. Part(x, {"part"})[c] = x[c]
      BY <2>6, <2>7, ColumnOfTable
    <3>2. Part(r, {"part"})[c] = r[c]
      BY <2>0, <2>7, ColumnOfTable
    <3> QED BY <2>5, <3>1, <3>2
  <2>9. good(x)
    BY <2>0, <2>7, <2>8 DEF good
  <2>10. o["ps_partkey"] = x["ps_partkey"] /\ o["ps_supplycost"] = x["ps_supplycost"] /\
        (o \in S <=> /\ x.s_suppkey = x.ps_suppkey /\ x.s_nationkey = x.n_nationkey
                     /\ x.n_regionkey = x.r_regionkey /\ x.r_name = "EUROPE")
    BY <2>5, <2>6, OfferOfRow2 DEF S, N
  <2>11. x["p_partkey"] = k
    BY <2>7, <2>8
  <2>12. x \in R
    BY <1>1, <1>3, <2>6, <2>9, <2>10, <2>11
  <2> QED BY <2>10, <2>11, <2>12
<1> DEFINE A == {s.ps_supplycost : s \in {z \in R : z.p_partkey = k}}
           B == {z.ps_supplycost : z \in {o \in S : o.ps_partkey = k}}
<1> HIDE DEF R, S, k
<1>4. A = B
  <2>1. \A v : v \in A <=> \E s \in R : s["p_partkey"] = k /\ v = s["ps_supplycost"]
    OBVIOUS
  <2>2. \A v : v \in B <=> \E o \in S : o["ps_partkey"] = k /\ v = o["ps_supplycost"]
    OBVIOUS
  <2> HIDE DEF A, B
  <2>3. \A v : v \in A <=> v \in B
    BY <1>2, <1>3, <2>1, <2>2
  <2> QED BY <2>3
<1>5. Least2(R, k) = Min(A) /\ SqlLeast2(S, k) = Min(B)
  BY Zenon DEF Least2, Costs2, SqlLeast2
<1> HIDE DEF A, B
<1> QED BY <1>4, <1>5 DEF R, S, k

\* The SQL selects the rows that the frames join.
LEMMA SameRows2 ==
  ASSUME NEW d, Fits(d, Reads[2])
  PROVE  SqlRows2(d, Offers2(d)) = Cheapest2(Rows2(d))
<1> DEFINE N == Reads[2]
           R == Rows2(d)
           S == Offers2(d)
           good(x) == x.p_size = 15 /\ EndsWith(x.p_type, <<"BRASS">>)
<1>1. ASSUME NEW r PROVE r \in SqlRows2(d, S) <=> r \in Cheapest2(R)
  <2>1. r \in Frame2(d) <=> /\ Keeps(d, N, r) /\ r["p_partkey"] = r["ps_partkey"] /\ r["ps_suppkey"] = r["s_suppkey"]
        /\ r["s_nationkey"] = r["n_nationkey"] /\ r["n_regionkey"] = r["r_regionkey"]
    BY InFrame2
  <2>2. r \in R <=> r \in Frame2(d) /\ good(r) /\ r["r_name"] = "EUROPE"
    BY Zenon DEF Rows2
  <2>3. r \in Cheapest2(R) <=> r \in R /\ r["ps_supplycost"] = Least2(R, r["p_partkey"])
    BY Zenon DEF Cheapest2
  <2>4. r \in SqlRows2(d, S) <=> /\ r \in d["part"] \otimes S /\ r["p_partkey"] = r["ps_partkey"] /\ good(r)
                                 /\ r["ps_supplycost"] = SqlLeast2(S, r["p_partkey"])
    BY Zenon DEF SqlRows2, \otimes
  <2>5. r \in R => Least2(R, r["p_partkey"]) = SqlLeast2(S, r["p_partkey"])
    BY SameLeast2
  <2> HIDE DEF R, good
  <2>6. r \in d["part"] \otimes S <=> Keeps(d, N, r) /\ Part(r, Others2) \in S
    <3>1. Among({"part"}, DOMAIN N) /\ Among(Others2, DOMAIN N) /\ Apart({"part"}, Others2)
      BY Reads2 DEF Among, Apart, Others2
    <3>2. {"part"} \cup Others2 = DOMAIN N /\ "part" \in DOMAIN N
      BY Reads2 DEF Others2
    <3>3. AreRows(d, {"part"}, d["part"]) /\ AreRows(d, Others2, S)
      <4>1. AreRows(d, {"part"}, d["part"])
        BY <3>2, TableRows
      <4>2. AreRows(d, Others2, S)
        BY InOffers2 DEF AreRows
      <4> QED BY <4>1, <4>2
    <3> HIDE DEF S, N
    <3>4. Fits(d, N)
      BY DEF N
    <3>5. /\ r \in d["part"] \otimes S => IsRow(d, {"part"} \cup Others2, r)
               /\ Part(r, {"part"}) \in d["part"] /\ Part(r, Others2) \in S
          /\ IsRow(d, {"part"} \cup Others2, r) /\ Part(r, {"part"}) \in d["part"]
               /\ Part(r, Others2) \in S => r \in d["part"] \otimes S
      <4> DEFINE T == {"part"}
                 P == d["part"]
      <4> HIDE DEF T, P
      <4>1. Among(T, DOMAIN N) /\ Among(Others2, DOMAIN N) /\ Apart(T, Others2) /\ AreRows(d, T, P)
              /\ AreRows(d, Others2, S)
        BY <3>1, <3>3 DEF T, P
      <4>2. r \in P \otimes S => IsRow(d, T \cup Others2, r) /\ Part(r, T) \in P
              /\ Part(r, Others2) \in S
        BY <3>4, <4>1, ProductKeeps
      <4>3. IsRow(d, T \cup Others2, r) /\ Part(r, T) \in P /\ Part(r, Others2) \in S => r \in P
              \otimes S
        BY <3>4, <4>1, ProductKeeps
      <4> QED BY <4>2, <4>3 DEF T, P
    <3>6. IsRow(d, {"part"} \cup Others2, r) <=> Keeps(d, N, r)
      BY <3>2, <3>4 DEF Keeps
    <3>7. Keeps(d, N, r) => Part(r, {"part"}) \in d["part"]
      BY <3>2, KeptInTable
    <3> QED BY <3>5, <3>6, <3>7
  <2>7. Keeps(d, N, r) => (Part(r, Others2) \in S <=> /\ r.s_suppkey = r.ps_suppkey /\ r.s_nationkey = r.n_nationkey
                                     /\ r.n_regionkey = r.r_regionkey /\ r.r_name = "EUROPE")
    BY OfferOfRow2
  <2> HIDE DEF S, N
  <2> QED BY <2>1, <2>2, <2>3, <2>4, <2>5, <2>6, <2>7
<1> QED BY <1>1

\* The three engines answer q2 alike.
LEMMA Answers2 ==
  ASSUME NEW d, Fits(d, Reads[2])
  PROVE  /\ Polars!Q2(d) = Sql!Q2(d)
         /\ Pandas!Q2(d) = Sql!Q2(d)
<1> DEFINE N == Reads[2]
           R == Rows2(d)
<1>1. Sound2(R)
  <2> SUFFICES ASSUME NEW r \in R
               PROVE  IsFcn(r) /\ {"p_partkey", "ps_supplycost"} \subseteq DOMAIN r
    BY DEF Sound2
  <2>1. r \in Frame2(d)
    BY Zenon DEF Rows2
  <2>2. Keeps(d, N, r)
    BY <2>1, InFrame2
  <2>3. "part" \in DOMAIN N /\ "partsupp" \in DOMAIN N /\ "p_partkey" \in N["part"]
          /\ "ps_supplycost" \in N["partsupp"]
    BY Reads2
  <2>4. "p_partkey" \in DOMAIN r
    BY <2>2, <2>3, ColumnOfTable
  <2>5. "ps_supplycost" \in DOMAIN r
    BY <2>2, <2>3, ColumnOfTable
  <2> QED BY <2>2, <2>4, <2>5 DEF Keeps, IsRow
<1>2. FrameRows2(R) = Cheapest2(R)
  BY <1>1, FrameRows2Are
<1> QED BY <1>2, SameRows2, Sql2, Polars2, Pandas2

-----------------------------------------------------------------------------
(* Rows with more columns than their tables have.                          *)

(* The rows U show the rows B of the tables T: they are these with columns *)
(* of X besides, and no two of them are the same row of B.                 *)
Shows(d, T, X, U, B) ==
    /\ \A z \in B : IsRow(d, T, z)
    /\ \A u \in U : IsFcn(u) /\ DOMAIN u \subseteq Cols(T) \cup X /\ Part(u, T) \in B
    /\ \A z \in B : \E u \in U : Part(u, T) = z
    /\ \A u, v \in U : Part(u, T) = Part(v, T) => u = v

Disjoint(X, Y) == X \cap Y = {}

(* Every row of V has the columns of a row of U, and more.                 *)
Extends(v, u) == \A c \in DOMAIN u : c \in DOMAIN v /\ v[c] = u[c]

ExtendAll(V, U) == \A v \in V : \E u \in U : Extends(v, u)

\* A part of a row, column by column.
LEMMA PartIs ==
  ASSUME NEW x, NEW T
  PROVE  /\ IsFcn(Part(x, T)) /\ DOMAIN Part(x, T) = DOMAIN x \cap Cols(T)
         /\ \A c \in DOMAIN x \cap Cols(T) : Part(x, T)[c] = x[c]
BY OnIs DEF Part

\* A joined row extends its left row.
LEMMA JoinedExtends ==
  ASSUME NEW l, NEW r
  PROVE  Extends(Joined(l, r), l)
<1>1. DOMAIN Joined(l, r) = DOMAIN l \cup DOMAIN r
  BY JoinedIs
<1>2. \A c \in DOMAIN l : Joined(l, r)[c] = l[c]
  BY JoinedLeft
<1> QED BY <1>1, <1>2 DEF Extends

\* So the rows of a join extend those of its left frame.
LEMMA MergeExtends ==
  ASSUME NEW U, NEW M, NEW a, NEW b
  PROVE  ExtendAll(MergeOn(U, M, a, b), U)
<1> SUFFICES ASSUME NEW v \in MergeOn(U, M, a, b) PROVE \E u \in U : Extends(v, u)
  BY DEF ExtendAll
<1>1. PICK u \in U, m \in M : v = Joined(u, m)
  BY InMerge DEF MergeOn
<1> QED BY <1>1, JoinedExtends

\* The tables' part of a row does not change with columns of no table.
LEMMA PartOfMore ==
  ASSUME NEW u, NEW v, NEW T, DOMAIN v \cap Cols(T) = DOMAIN u \cap Cols(T),
         \A c \in DOMAIN u \cap Cols(T) : v[c] = u[c]
  PROVE  Part(v, T) = Part(u, T)
<1>1. /\ IsFcn(Part(u, T)) /\ DOMAIN Part(u, T) = DOMAIN u \cap Cols(T)
      /\ \A c \in DOMAIN u \cap Cols(T) : Part(u, T)[c] = u[c]
  BY PartIs
<1>2. /\ IsFcn(Part(v, T)) /\ DOMAIN Part(v, T) = DOMAIN v \cap Cols(T)
      /\ \A c \in DOMAIN v \cap Cols(T) : Part(v, T)[c] = v[c]
  BY PartIs
<1> HIDE DEF Part
<1> QED BY <1>1, <1>2, SameFcn

(* A table shows itself.                                                   *)
LEMMA ShowsTable ==
  ASSUME NEW d, NEW T, NEW X, NEW B, AreRows(d, T, B)
  PROVE  Shows(d, T, X, B, B)
<1>1. \A z \in B : IsRow(d, T, z) /\ Part(z, T) = z
  BY WholeRow DEF AreRows
<1> QED BY <1>1 DEF Shows, IsRow

(* Some of the rows.                                                       *)
LEMMA ShowsSome ==
  ASSUME NEW d, NEW T, NEW X, NEW U, NEW B, Shows(d, T, X, U, B),
         NEW V, NEW C, \A v \in V : v \in U, \A z \in C : z \in B,
         \A u \in U : u \in V <=> Part(u, T) \in C
  PROVE  Shows(d, T, X, V, C)
BY DEF Shows

(* A join with something that is not of the tables.                        *)
LEMMA ShowsTag ==
  ASSUME NEW d, NEW T, NEW X, NEW U, NEW B, Shows(d, T, X, U, B),
         NEW M, NEW Y, \A m \in M : DOMAIN m \subseteq Y, Disjoint(Y, Cols(T)),
         NEW key, NEW mk, \A m, n \in M : m[mk] = n[mk] => m = n,
         NEW C, \A z \in C : z \in B,
         \A u \in U : Part(u, T) \in C <=> \E m \in M : u[key] = m[mk]
  PROVE  Shows(d, T, X \cup Y, MergeOn(U, M, key, mk), C)
<1> DEFINE V == MergeOn(U, M, key, mk)
<1>1. ASSUME NEW v PROVE v \in V <=> \E u \in U, m \in M : u[key] = m[mk] /\ v = Joined(u, m)
  <2>1. \A l, r : Match(l, r, <<key>>, <<mk>>) <=> l[key] = r[mk]
    BY DEF Match
  <2> QED BY <2>1, InMerge DEF MergeOn
<1> HIDE DEF V
<1>2. ASSUME NEW u \in U, NEW m \in M
      PROVE  Part(Joined(u, m), T) = Part(u, T) /\ IsFcn(Joined(u, m)) /\ DOMAIN Joined(u, m)
               = DOMAIN u \cup DOMAIN m
  <2> DEFINE v == Joined(u, m)
  <2>1. IsFcn(v) /\ DOMAIN v = DOMAIN u \cup DOMAIN m /\ \A c \in DOMAIN u : v[c] = u[c]
    <3>1. IsFcn(v) /\ DOMAIN v = DOMAIN u \cup DOMAIN m
      BY JoinedIs
    <3>2. \A c \in DOMAIN u : v[c] = u[c]
      BY JoinedLeft
    <3> QED BY <3>1, <3>2
  <2> HIDE DEF v
  <2>2. DOMAIN v \cap Cols(T) = DOMAIN u \cap Cols(T)
    BY <2>1 DEF Disjoint
  <2>3. Part(v, T) = Part(u, T)
    BY <2>1, <2>2, PartOfMore
  <2> QED BY <2>1, <2>3 DEF v
<1>3. \A z \in C : IsRow(d, T, z)
  BY DEF Shows
<1>4. ASSUME NEW v \in V
      PROVE  IsFcn(v) /\ DOMAIN v \subseteq Cols(T) \cup (X \cup Y) /\ Part(v, T) \in C
  <2>1. PICK u \in U, m \in M : u[key] = m[mk] /\ v = Joined(u, m)
    BY <1>1
  <2>2. Part(u, T) \in C /\ DOMAIN u \subseteq Cols(T) \cup X /\ DOMAIN m \subseteq Y
    BY <2>1 DEF Shows
  <2> QED BY <1>2, <2>1, <2>2
<1>5. ASSUME NEW z \in C PROVE \E v \in V : Part(v, T) = z
  <2>1. PICK u \in U : Part(u, T) = z
    BY DEF Shows
  <2>2. PICK m \in M : u[key] = m[mk]
    BY <2>1
  <2>3. Joined(u, m) \in V
    BY <1>1, <2>2
  <2> QED BY <1>2, <2>1, <2>3
<1>6. ASSUME NEW v \in V, NEW w \in V, Part(v, T) = Part(w, T) PROVE v = w
  <2>1. PICK u \in U, m \in M : u[key] = m[mk] /\ v = Joined(u, m)
    BY <1>1
  <2>2. PICK s \in U, n \in M : s[key] = n[mk] /\ w = Joined(s, n)
    BY <1>1
  <2>3. Part(u, T) = Part(s, T)
    BY <1>2, <1>6, <2>1, <2>2
  <2>4. u = s
    BY <2>3 DEF Shows
  <2>5. m = n
    BY <2>1, <2>2, <2>4
  <2> QED BY <2>1, <2>2, <2>4, <2>5
<1> QED BY <1>3, <1>4, <1>5, <1>6 DEF Shows, V

(* A join with one more table.                                             *)
LEMMA ShowsMerge ==
  ASSUME NEW d, NEW T \in SUBSET Tables, NEW X, NEW U, NEW B, Shows(d, T, X, U, B),
         NEW t \in Tables, t \notin T, NEW O, AreRows(d, {t}, O),
         Disjoint(X, Cols(T \cup {t})),
         NEW a, NEW b, a \in Cols(T), Has(B, a), Has(O, b)
  PROVE  Shows(d, T \cup {t}, X, MergeOn(U, O, a, b), MergeOn(B, O, a, b))
<1> DEFINE W == T \cup {t}
           V == MergeOn(U, O, a, b)
           C == MergeOn(B, O, a, b)
<1>0. \A l, r : Match(l, r, <<a>>, <<b>>) <=> l[a] = r[b]
  BY DEF Match
<1>1. ASSUME NEW v PROVE v \in V <=> \E u \in U, o \in O : u[a] = o[b] /\ v = Joined(u, o)
  BY <1>0, InMerge DEF MergeOn
<1>2. ASSUME NEW z PROVE z \in C <=> \E y \in B, o \in O : y[a] = o[b] /\ z = Joined(y, o)
  BY <1>0, InMerge DEF MergeOn
<1> HIDE DEF V, C
<1>3. Cols(W) = Cols(T) \cup Columns[t] /\ Cols(T) \cap Columns[t] = {}
  <2>1. Cols(W) = Cols(T) \cup Cols({t})
    BY ColsUnion
  <2>2. Cols(T) \cap Cols({t}) = {}
    <3>1. {t} \in SUBSET Tables /\ T \cap {t} = {}
      OBVIOUS
    <3> QED BY <3>1, ColsApart
  <2> QED BY <2>1, <2>2, ColsOfOne
<1>4. \A o \in O : IsFcn(o) /\ DOMAIN o \subseteq Columns[t]
  BY ColsOfOne DEF AreRows, IsRow
<1>5. ASSUME NEW u \in U
      PROVE  /\ Part(u, T) \in B /\ IsRow(d, T, Part(u, T)) /\ Part(u, T)[a] = u[a]
             /\ DOMAIN u \cap Cols(W) = DOMAIN u \cap Cols(T)
             /\ DOMAIN u \subseteq Cols(T) \cup X
  <2>1. Part(u, T) \in B /\ DOMAIN u \subseteq Cols(T) \cup X
    BY DEF Shows
  <2>2. IsRow(d, T, Part(u, T))
    BY <2>1 DEF Shows
  <2>3. a \in DOMAIN Part(u, T)
    BY <2>1 DEF Has
  <2>4. Part(u, T)[a] = u[a]
    BY <2>3, PartIs
  <2>5. DOMAIN u \cap Cols(W) = DOMAIN u \cap Cols(T)
    <3> HIDE DEF W
    <3>1. \A c \in DOMAIN u : c \in Cols(W) => c \notin X
      BY DEF Disjoint, W
    <3> QED BY <1>3, <2>1, <3>1
  <2> QED BY <2>1, <2>2, <2>4, <2>5
<1>6. ASSUME NEW u \in U, NEW o \in O
      PROVE  /\ IsFcn(Joined(u, o)) /\ DOMAIN Joined(u, o) \subseteq Cols(W) \cup X
             /\ Part(Joined(u, o), W) = Joined(Part(u, T), o)
  <2> DEFINE v == Joined(u, o)
             p == Part(u, T)
             z == Joined(p, o)
             q == Part(v, W)
  <2>1. IsFcn(v) /\ DOMAIN v = DOMAIN u \cup DOMAIN o /\ (\A c \in DOMAIN u : v[c] = u[c])
        /\ \A c \in DOMAIN o : c \notin DOMAIN u => v[c] = o[c]
    BY JoinedIs
  <2>2. DOMAIN p = DOMAIN u \cap Cols(T) /\ \A c \in DOMAIN u \cap Cols(T) : p[c] = u[c]
    BY PartIs
  <2> HIDE DEF p, v
  <2>3. IsFcn(z) /\ DOMAIN z = DOMAIN p \cup DOMAIN o /\ (\A c \in DOMAIN p : z[c] = p[c])
        /\ \A c \in DOMAIN o : c \notin DOMAIN p => z[c] = o[c]
    BY JoinedIs
  <2>4. IsFcn(q) /\ DOMAIN q = DOMAIN v \cap Cols(W) /\ \A c \in DOMAIN v \cap Cols(W) : q[c] = v[c]
    BY PartIs
  <2> HIDE DEF q, z, W
  <2>5. DOMAIN o \subseteq Columns[t] /\ DOMAIN u \subseteq Cols(T) \cup X /\ DOMAIN u \cap Cols(W)
          = DOMAIN u \cap Cols(T)
    BY <1>4, <1>5
  <2>6. DOMAIN q = DOMAIN z
    BY <1>3, <2>1, <2>2, <2>3, <2>4, <2>5
  <2>7. \A c \in DOMAIN q : q[c] = z[c]
    BY <1>3, <2>1, <2>2, <2>3, <2>4, <2>5
  <2>8. q = z
    BY <2>3, <2>4, <2>6, <2>7, SameFcn
  <2>9. DOMAIN v \subseteq Cols(W) \cup X
    BY <1>3, <2>1, <2>5
  <2> QED BY <2>1, <2>8, <2>9 DEF v, p, q, z
<1>7. ASSUME NEW z \in C PROVE IsRow(d, W, z)
  <2>1. PICK y \in B, o \in O : z = Joined(y, o)
    BY <1>2
  <2>2. IsRow(d, T, y) /\ IsRow(d, {t}, o) /\ {t} \in SUBSET Tables /\ T \cap {t} = {}
    BY DEF Shows, AreRows
  <2> QED BY <2>1, <2>2, JoinedIsRow
<1>8. ASSUME NEW v \in V PROVE IsFcn(v) /\ DOMAIN v \subseteq Cols(W) \cup X /\ Part(v, W) \in C
  <2>1. PICK u \in U, o \in O : u[a] = o[b] /\ v = Joined(u, o)
    BY <1>1
  <2>2. Joined(Part(u, T), o) \in C
    BY <1>2, <1>5, <2>1
  <2> QED BY <1>6, <2>1, <2>2
<1>9. ASSUME NEW z \in C PROVE \E v \in V : Part(v, W) = z
  <2>1. PICK y \in B, o \in O : y[a] = o[b] /\ z = Joined(y, o)
    BY <1>2
  <2>2. PICK u \in U : Part(u, T) = y
    BY DEF Shows
  <2>3. u[a] = o[b]
    BY <1>5, <2>1, <2>2
  <2>4. Joined(u, o) \in V
    BY <1>1, <2>3
  <2> QED BY <1>6, <2>1, <2>2, <2>4
<1>10. ASSUME NEW v \in V, NEW w \in V, Part(v, W) = Part(w, W) PROVE v = w
  <2>1. PICK u \in U, o \in O : v = Joined(u, o)
    BY <1>1
  <2>2. PICK s \in U, n \in O : w = Joined(s, n)
    BY <1>1
  <2> DEFINE p == Part(u, T)
             q == Part(s, T)
  <2>3. Joined(p, o) = Joined(q, n)
    BY <1>6, <1>10, <2>1, <2>2
  <2>4. IsRow(d, T, p) /\ IsRow(d, T, q)
    BY <1>5
  <2>5. IsFcn(p) /\ DOMAIN p \subseteq Cols(T) /\ IsFcn(q) /\ DOMAIN q \subseteq Cols(T)
    BY <2>4 DEF IsRow
  <2>6. IsFcn(o) /\ DOMAIN o \subseteq Cols({t}) /\ IsFcn(n) /\ DOMAIN n \subseteq Cols({t})
    BY <1>4, ColsOfOne
  <2> HIDE DEF p, q
  <2>7. {t} \in SUBSET Tables /\ T \cap {t} = {}
    OBVIOUS
  <2>8. Part(Joined(p, o), T) = p /\ Part(Joined(p, o), {t}) = o
    BY <2>5, <2>6, <2>7, JoinedParts
  <2>9. Part(Joined(q, n), T) = q /\ Part(Joined(q, n), {t}) = n
    BY <2>5, <2>6, <2>7, JoinedParts
  <2>10. p = q /\ o = n
    BY <2>3, <2>8, <2>9
  <2>11. u = s
    BY <2>10 DEF Shows, p, q
  <2> QED BY <2>1, <2>2, <2>10, <2>11
<1> QED BY <1>7, <1>8, <1>9, <1>10 DEF Shows, V, C

(* A column that is not of the tables gets another name.                   *)
LEMMA ShowsRename ==
  ASSUME NEW d, NEW T, NEW X, NEW U, NEW B, Shows(d, T, X, U, B),
         NEW old, NEW new, old \notin Cols(T), new \notin Cols(T), new \notin X, Has(U, old)
  PROVE  Shows(d, T, (X \ {old}) \cup {new}, Rename(U, old, new), B)
<1> DEFINE V == Rename(U, old, new)
           Y == (X \ {old}) \cup {new}
<1>1. ASSUME NEW v PROVE v \in V <=> \E u \in U : v = Renamed(u, old, new)
  BY Zenon DEF Rename, Renamed
<1> HIDE DEF V
<1>2. ASSUME NEW u \in U
      PROVE  /\ Part(Renamed(u, old, new), T) = Part(u, T)
             /\ IsFcn(Renamed(u, old, new)) /\ DOMAIN Renamed(u, old, new) \subseteq Cols(T) \cup Y
  <2>0. DOMAIN u \subseteq Cols(T) \cup X
    BY DEF Shows
  <2>1. old \in DOMAIN u /\ new \notin DOMAIN u
    BY <2>0 DEF Has
  <2>2. /\ IsFcn(Renamed(u, old, new)) /\ DOMAIN Renamed(u, old, new)
             = (DOMAIN u \ {old}) \cup {new}
        /\ \A c \in DOMAIN u \ {old} : Renamed(u, old, new)[c] = u[c]
    <3>1. IsFcn(Renamed(u, old, new)) /\ DOMAIN Renamed(u, old, new) = (DOMAIN u \ {old}) \cup {new}
      BY <2>1 DEF Renamed, Joined, On, IsFcn
    <3>2. \A c \in DOMAIN u \ {old} : Renamed(u, old, new)[c] = u[c]
      BY <2>1 DEF Renamed, Joined, On, IsFcn
    <3> QED BY <3>1, <3>2
  <2> DEFINE v == Renamed(u, old, new)
  <2> HIDE DEF v
  <2>3. IsFcn(v) /\ DOMAIN v = (DOMAIN u \ {old}) \cup {new} /\ \A c \in DOMAIN u \ {old} : v[c]
          = u[c]
    BY <2>2 DEF v
  <2>4. DOMAIN v \cap Cols(T) = DOMAIN u \cap Cols(T)
    BY <2>3
  <2>5. \A c \in DOMAIN u \cap Cols(T) : v[c] = u[c]
    BY <2>3
  <2>6. Part(v, T) = Part(u, T)
    BY <2>4, <2>5, PartOfMore
  <2>7. DOMAIN v \subseteq Cols(T) \cup Y
    BY <2>0, <2>3
  <2> QED BY <2>3, <2>6, <2>7 DEF v
<1>3. ASSUME NEW v \in V PROVE IsFcn(v) /\ DOMAIN v \subseteq Cols(T) \cup Y /\ Part(v, T) \in B
  <2>1. PICK u \in U : v = Renamed(u, old, new)
    BY <1>1
  <2>2. Part(u, T) \in B
    BY DEF Shows
  <2> QED BY <1>2, <2>1, <2>2
<1>4. ASSUME NEW z \in B PROVE \E v \in V : Part(v, T) = z
  <2>1. PICK u \in U : Part(u, T) = z
    BY DEF Shows
  <2> QED BY <1>1, <1>2, <2>1
<1>5. ASSUME NEW v \in V, NEW w \in V, Part(v, T) = Part(w, T) PROVE v = w
  <2>1. PICK u \in U : v = Renamed(u, old, new)
    BY <1>1
  <2>2. PICK s \in U : w = Renamed(s, old, new)
    BY <1>1
  <2>3. Part(u, T) = Part(s, T)
    BY <1>2, <1>5, <2>1, <2>2
  <2>4. u = s
    BY <2>3 DEF Shows
  <2> QED BY <2>1, <2>2, <2>4
<1>6. \A z \in B : IsRow(d, T, z)
  BY DEF Shows
<1> HIDE DEF Y
<1> QED BY <1>3, <1>4, <1>5, <1>6 DEF Shows, V, Y

(* Shown one to one.                                                       *)
LEMMA ShownOneToOne ==
  ASSUME NEW d, NEW T, NEW X, NEW U, NEW B, Shows(d, T, X, U, B)
  PROVE  OneToOne([u \in U |-> Part(u, T)], U, B)
BY DEF Shows, OneToOne

(* What a table says of a key: f names the table, its key and a column.    *)
Says(d, f, k, v) == \E n \in d[f[1]] : n[f[2]] = k /\ n[f[3]] = v

SaysOne(d, f) == \A k, v, w : Says(d, f, k, v) /\ Says(d, f, k, w) => v = w

Said(d, f, k) == CHOOSE v : Says(d, f, k, v)

(* Column col of the rows U is what the table says of their column key.    *)
Tells(d, f, U, key, col) ==
    \A u \in U : key \in DOMAIN u /\ col \in DOMAIN u /\ Says(d, f, u[key], u[col])

OneEach(M, k) == \A m, n \in M : m[k] = n[k] => m = n

\* What is said of a key is one value.
LEMMA SaidIs ==
  ASSUME NEW d, NEW f, SaysOne(d, f), NEW k, NEW v, Says(d, f, k, v)
  PROVE  Said(d, f, k) = v
BY DEF Said, SaysOne

\* A row that tells it has that value.
LEMMA TellsSaid ==
  ASSUME NEW d, NEW f, SaysOne(d, f), NEW U, NEW key, NEW col, Tells(d, f, U, key, col), NEW u \in U
  PROVE  /\ u[col] = Said(d, f, u[key])
         /\ \A v : u[col] = v <=> Says(d, f, u[key], v)
<1>1. Says(d, f, u[key], u[col])
  BY DEF Tells
<1>2. u[col] = Said(d, f, u[key])
  BY <1>1, SaidIs
<1> QED BY <1>1, <1>2 DEF SaysOne

\* Extended rows keep their columns.
LEMMA ExtendsHas ==
  ASSUME NEW U, NEW V, ExtendAll(V, U), NEW c, Has(U, c)
  PROVE  Has(V, c)
BY DEF ExtendAll, Extends, Has

\* And go on telling.
LEMMA TellsMore ==
  ASSUME NEW d, NEW f, NEW U, NEW key, NEW col, Tells(d, f, U, key, col), NEW V, ExtendAll(V, U)
  PROVE  Tells(d, f, V, key, col)
<1> SUFFICES ASSUME NEW v \in V
             PROVE  key \in DOMAIN v /\ col \in DOMAIN v /\ Says(d, f, v[key], v[col])
  BY DEF Tells
<1>1. PICK u \in U : Extends(v, u)
  BY DEF ExtendAll
<1>2. key \in DOMAIN u /\ col \in DOMAIN u /\ Says(d, f, u[key], u[col])
  BY DEF Tells
<1> QED BY <1>1, <1>2 DEF Extends

\* So do some of the rows.
LEMMA TellsSome ==
  ASSUME NEW d, NEW f, NEW U, NEW key, NEW col, Tells(d, f, U, key, col), NEW V, \A v \in V :
           v \in U
  PROVE  Tells(d, f, V, key, col)
BY DEF Tells

\* The join with the tags makes the rows tell.
LEMMA TagTells ==
  ASSUME NEW d, NEW f, NEW M, NEW mk, NEW col, Tells(d, f, M, mk, col),
         NEW U, NEW key, Has(U, key), Lacks(U, col)
  PROVE  Tells(d, f, MergeOn(U, M, key, mk), key, col)
<1> SUFFICES ASSUME NEW v \in MergeOn(U, M, key, mk)
             PROVE  key \in DOMAIN v /\ col \in DOMAIN v /\ Says(d, f, v[key], v[col])
  BY DEF Tells
<1>1. \A l, r : Match(l, r, <<key>>, <<mk>>) <=> l[key] = r[mk]
  BY DEF Match
<1>2. PICK u \in U, m \in M : u[key] = m[mk] /\ v = Joined(u, m)
  BY <1>1, InMerge DEF MergeOn
<1>3. key \in DOMAIN u /\ col \notin DOMAIN u /\ col \in DOMAIN m /\ Says(d, f, m[mk], m[col])
  BY DEF Tells, Has, Lacks
<1>4. DOMAIN v = DOMAIN u \cup DOMAIN m
  BY <1>2, JoinedIs
<1>5. v[key] = u[key]
  BY <1>2, <1>3, JoinedLeft
<1>6. v[col] = m[col]
  BY <1>2, <1>3, JoinedRight
<1> QED BY <1>2, <1>3, <1>4, <1>5, <1>6

\* The rows of a renaming.
LEMMA RenameIs ==
  ASSUME NEW U, NEW old, NEW new, Has(U, old), Lacks(U, new), NEW v \in Rename(U, old, new)
  PROVE  \E u \in U : /\ old \in DOMAIN u /\ DOMAIN v = (DOMAIN u \ {old}) \cup {new} /\ v[new] = u[old]
                      /\ \A c \in DOMAIN u : c # old => v[c] = u[c]
<1>1. PICK u \in U : v = Renamed(u, old, new)
  BY Zenon DEF Rename, Renamed
<1>2. old \in DOMAIN u /\ new \notin DOMAIN u
  BY DEF Has, Lacks
<1>3. DOMAIN v = (DOMAIN u \ {old}) \cup {new}
  BY <1>1, <1>2 DEF Renamed, Joined, On
<1>4. v[new] = u[old]
  BY <1>1, <1>2 DEF Renamed, Joined, On
<1>5. \A c \in DOMAIN u : c # old => v[c] = u[c]
  BY <1>1, <1>2 DEF Renamed, Joined, On
<1> QED BY <1>2, <1>3, <1>4, <1>5

\* A renamed column tells under its new name.
LEMMA TellsRenamed ==
  ASSUME NEW d, NEW f, NEW U, NEW key, NEW col, Tells(d, f, U, key, col),
         NEW new, Lacks(U, new), key # col
  PROVE  Tells(d, f, Rename(U, col, new), key, new)
<1> SUFFICES ASSUME NEW v \in Rename(U, col, new)
             PROVE  key \in DOMAIN v /\ new \in DOMAIN v /\ Says(d, f, v[key], v[new])
  BY DEF Tells
<1>1. Has(U, col)
  BY DEF Tells, Has
<1>2. PICK u \in U : /\ DOMAIN v = (DOMAIN u \ {col}) \cup {new} /\ v[new] = u[col]
                     /\ \A c \in DOMAIN u : c # col => v[c] = u[c]
  BY <1>1, RenameIs
<1> QED BY <1>2 DEF Tells

\* Another column goes on telling.
LEMMA TellsBesides ==
  ASSUME NEW d, NEW f, NEW U, NEW key, NEW col, Tells(d, f, U, key, col),
         NEW old, NEW new, Has(U, old), Lacks(U, new), key # old, col # old
  PROVE  Tells(d, f, Rename(U, old, new), key, col)
<1> SUFFICES ASSUME NEW v \in Rename(U, old, new)
             PROVE  key \in DOMAIN v /\ col \in DOMAIN v /\ Says(d, f, v[key], v[col])
  BY DEF Tells
<1>2. PICK u \in U : /\ DOMAIN v = (DOMAIN u \ {old}) \cup {new}
                     /\ \A c \in DOMAIN u : c # old => v[c] = u[c]
  BY RenameIs
<1> QED BY <1>2 DEF Tells

(* Columns of shown rows.                                                  *)
LEMMA ShowsHas ==
  ASSUME NEW d, NEW T, NEW X, NEW U, NEW B, Shows(d, T, X, U, B), NEW c, Has(B, c)
  PROVE  Has(U, c) /\ \A u \in U : Part(u, T)[c] = u[c]
<1>1. ASSUME NEW u \in U PROVE c \in DOMAIN u /\ Part(u, T)[c] = u[c]
  <2>1. c \in DOMAIN Part(u, T)
    BY DEF Shows, Has
  <2>2. DOMAIN Part(u, T) = DOMAIN u \cap Cols(T)
    BY PartIs
  <2>3. c \in DOMAIN u \cap Cols(T)
    BY <2>1, <2>2
  <2> QED BY <2>3, PartIs
<1> QED BY <1>1 DEF Has

\* A showing has the tables' columns and its added ones, and no others.
LEMMA ShowsLacks ==
  ASSUME NEW d, NEW T, NEW X, NEW U, NEW B, Shows(d, T, X, U, B), NEW c, c \notin Cols(T),
           c \notin X
  PROVE  Lacks(U, c)
BY DEF Shows, Lacks

(* Two sets of rows.                                                       *)
LEMMA ShowsUnion ==
  ASSUME NEW d, NEW T, NEW X, NEW U, NEW B, Shows(d, T, X, U, B),
         NEW V, NEW C, Shows(d, T, X, V, C), \A z \in B : z \notin C
  PROVE  Shows(d, T, X, U \cup V, B \cup C)
<1>1. \A u \in U : IsFcn(u) /\ DOMAIN u \subseteq Cols(T) \cup X /\ Part(u, T) \in B
  BY DEF Shows
<1>2. \A u \in V : IsFcn(u) /\ DOMAIN u \subseteq Cols(T) \cup X /\ Part(u, T) \in C
  BY DEF Shows
<1>3. \A u, v \in U \cup V : Part(u, T) = Part(v, T) => u = v
  BY <1>1, <1>2 DEF Shows
<1>4. \A z \in B \cup C : IsRow(d, T, z) /\ \E u \in U \cup V : Part(u, T) = z
  BY DEF Shows
<1> QED BY <1>1, <1>2, <1>3, <1>4 DEF Shows

(* A column computed from another one.                                     *)
YearAdded(u, col, date) == Joined([c \in {col} |-> Year(u[date])], u)

WithYear(U, col, date) == {YearAdded(u, col, date) : u \in U}

\* A row with its year.
LEMMA WithYearIs ==
  ASSUME NEW u, IsFcn(u), NEW col, col \notin DOMAIN u, NEW date \in DOMAIN u
  PROVE  /\ IsFcn(YearAdded(u, col, date)) /\ DOMAIN YearAdded(u, col, date) = DOMAIN u \cup {col}
         /\ Extends(YearAdded(u, col, date), u)
         /\ YearAdded(u, col, date)[col] = Year(u[date]) /\ YearAdded(u, col, date)[date] = u[date]
<1> DEFINE m == [c \in {col} |-> Year(u[date])]
           w == Joined(m, u)
<1>1. DOMAIN m = {col} /\ m[col] = Year(u[date])
  OBVIOUS
<1> HIDE DEF m
<1>2. IsFcn(w) /\ DOMAIN w = DOMAIN m \cup DOMAIN u
  BY JoinedIs
<1>3. \A c \in DOMAIN u : w[c] = u[c]
  <2> SUFFICES ASSUME NEW c \in DOMAIN u PROVE w[c] = u[c]
    OBVIOUS
  <2>1. c \notin DOMAIN m
    BY <1>1
  <2> QED BY <2>1, JoinedRight
<1>4. w[col] = m[col]
  <2>1. col \in DOMAIN m
    BY <1>1
  <2> QED BY <2>1, JoinedLeft
<1> HIDE DEF w
<1>5. DOMAIN w = DOMAIN u \cup {col}
  BY <1>1, <1>2
<1>6. Extends(w, u)
  BY <1>3, <1>5 DEF Extends
<1> QED BY <1>1, <1>2, <1>3, <1>4, <1>5, <1>6 DEF w, m, YearAdded

\* Adding the year keeps a showing.
LEMMA ShowsYear ==
  ASSUME NEW d, NEW T, NEW X, NEW U, NEW B, Shows(d, T, X, U, B),
         NEW col, col \notin Cols(T), col \notin X, NEW date, Has(U, date)
  PROVE  /\ Shows(d, T, X \cup {col}, WithYear(U, col, date), B)
         /\ ExtendAll(WithYear(U, col, date), U)
         /\ \A w \in WithYear(U, col, date) : col \in DOMAIN w /\ w[col] = Year(w[date])
<1> DEFINE V == WithYear(U, col, date)
           W(u) == YearAdded(u, col, date)
<1>1. \A v : v \in V <=> \E u \in U : v = W(u)
  BY DEF WithYear
<1>2. ASSUME NEW u \in U
      PROVE  /\ IsFcn(W(u)) /\ DOMAIN W(u) = DOMAIN u \cup {col} /\ Extends(W(u), u)
             /\ W(u)[col] = Year(W(u)[date]) /\ DOMAIN u \subseteq Cols(T) \cup X
                  /\ Part(u, T) \in B
  <2>1. IsFcn(u) /\ DOMAIN u \subseteq Cols(T) \cup X /\ Part(u, T) \in B
    BY DEF Shows
  <2>2. date \in DOMAIN u /\ col \notin DOMAIN u
    BY <2>1 DEF Has
  <2>3. IsFcn(W(u)) /\ DOMAIN W(u) = DOMAIN u \cup {col} /\ Extends(W(u), u)
        /\ W(u)[col] = Year(u[date]) /\ W(u)[date] = u[date]
    BY <2>1, <2>2, WithYearIs
  <2> HIDE DEF W
  <2> QED BY <2>1, <2>3
<1> HIDE DEF V, W
<1>3. ASSUME NEW u \in U PROVE Part(W(u), T) = Part(u, T)
  <2>1. DOMAIN W(u) \cap Cols(T) = DOMAIN u \cap Cols(T)
    BY <1>2
  <2>2. \A c \in DOMAIN u \cap Cols(T) : W(u)[c] = u[c]
    BY <1>2 DEF Extends
  <2> QED BY <2>1, <2>2, PartOfMore
<1>4. ASSUME NEW v \in V
      PROVE  IsFcn(v) /\ DOMAIN v \subseteq Cols(T) \cup (X \cup {col}) /\ Part(v, T) \in B
                              /\ col \in DOMAIN v /\ v[col] = Year(v[date]) /\ \E u \in U :
                                   Extends(v, u)
  <2>1. PICK u \in U : v = W(u)
    BY <1>1
  <2> QED BY <1>2, <1>3, <2>1
<1>5. ASSUME NEW z \in B PROVE \E v \in V : Part(v, T) = z
  <2>1. PICK u \in U : Part(u, T) = z
    BY DEF Shows
  <2> QED BY <1>1, <1>3, <2>1
<1>6. ASSUME NEW v \in V, NEW w \in V, Part(v, T) = Part(w, T) PROVE v = w
  <2>1. PICK u \in U : v = W(u)
    BY <1>1
  <2>2. PICK s \in U : w = W(s)
    BY <1>1
  <2>3. Part(u, T) = Part(s, T)
    BY <1>3, <1>6, <2>1, <2>2
  <2>4. u = s
    BY <2>3 DEF Shows
  <2> QED BY <2>1, <2>2, <2>4
<1>7. \A z \in B : IsRow(d, T, z)
  BY DEF Shows
<1>8. Shows(d, T, X \cup {col}, V, B)
  BY <1>4, <1>5, <1>6, <1>7 DEF Shows
<1> QED BY <1>4, <1>8 DEF ExtendAll, V

(* A product and a test are a join.                                        *)
LEMMA CrossIsMerge ==
  ASSUME NEW U, NEW M, NEW key, NEW mk, Has(U, key), Has(M, mk), Lacks(U, mk), NEW x
  PROVE  x \in MergeOn(U, M, key, mk) <=> x \in U \otimes M /\ x[key] = x[mk]
<1>1. \A l, r : Match(l, r, <<key>>, <<mk>>) <=> l[key] = r[mk]
  BY DEF Match
<1>2. ASSUME NEW u \in U, NEW m \in M PROVE Joined(u, m)[key] = u[key] /\ Joined(u, m)[mk] = m[mk]
  <2>1. key \in DOMAIN u /\ mk \in DOMAIN m /\ mk \notin DOMAIN u
    BY DEF Has, Lacks
  <2>2. Joined(u, m)[key] = u[key]
    BY <2>1, JoinedLeft
  <2>3. Joined(u, m)[mk] = m[mk]
    BY <2>1, JoinedRight
  <2> QED BY <2>2, <2>3
<1>3. x \in MergeOn(U, M, key, mk) <=> \E u \in U, m \in M : u[key] = m[mk] /\ x = Joined(u, m)
  BY <1>1, InMerge DEF MergeOn
<1> QED BY <1>2, <1>3, InCross

\* A product with conditions is a chain of joins.
LEMMA CrossIsMergeTwice ==
  ASSUME NEW U, NEW M, NEW key, NEW mk, Has(U, key), Has(M, mk), Lacks(U, mk),
         NEW O, NEW a, NEW b, Has(U, a), Has(O, b), Lacks(U, b), Lacks(M, b), NEW x
  PROVE  x \in MergeOn(MergeOn(U, M, key, mk), O, a, b) <=>
            x \in (U \otimes M) \otimes O /\ x[key] = x[mk] /\ x[a] = x[b]
<1> DEFINE V == MergeOn(U, M, key, mk)
           W == U \otimes M
<1>1. \A y : y \in V <=> y \in W /\ y[key] = y[mk]
  BY CrossIsMerge
<1>2. ASSUME NEW y \in W
      PROVE  key \in DOMAIN y /\ mk \in DOMAIN y /\ a \in DOMAIN y /\ b \notin DOMAIN y
  <2>1. PICK u \in U, m \in M : y = Joined(u, m)
    BY InCross
  <2>2. DOMAIN y = DOMAIN u \cup DOMAIN m
    BY <2>1, JoinedIs
  <2> QED BY <2>2 DEF Has, Lacks
<1> HIDE DEF V, W
<1>3. ASSUME NEW y \in W, NEW o \in O PROVE Joined(y, o)[key] = y[key] /\ Joined(y, o)[mk] = y[mk]
  BY <1>2, JoinedLeft
<1>4. Has(V, a) /\ Lacks(V, b) /\ Has(W, a) /\ Lacks(W, b)
  BY <1>1, <1>2 DEF Has, Lacks
<1>5. x \in MergeOn(V, O, a, b) <=> x \in V \otimes O /\ x[a] = x[b]
  BY <1>4, CrossIsMerge
<1>6. x \in V \otimes O <=> x \in W \otimes O /\ x[key] = x[mk]
  BY <1>1, <1>3, InCross
<1> QED BY <1>5, <1>6 DEF V, W

\* The columns that q7 reads.
LEMMA Reads7 ==
  /\ DOMAIN Some(Reads[7], {"customer", "orders", "lineitem", "supplier"})
       = {"customer", "orders", "lineitem", "supplier"}
  /\ "c_custkey" \in Some(Reads[7], {"customer", "orders", "lineitem", "supplier"})["customer"]
       /\ "c_nationkey" \in Some(Reads[7], {"customer", "orders", "lineitem",
       "supplier"})["customer"]
  /\ "o_orderkey" \in Some(Reads[7], {"customer", "orders", "lineitem", "supplier"})["orders"]
       /\ "o_custkey" \in Some(Reads[7], {"customer", "orders", "lineitem", "supplier"})["orders"]
  /\ "l_orderkey" \in Some(Reads[7], {"customer", "orders", "lineitem", "supplier"})["lineitem"]
       /\ "l_suppkey" \in Some(Reads[7], {"customer", "orders", "lineitem", "supplier"})["lineitem"]
       /\ "l_shipdate" \in Some(Reads[7], {"customer", "orders", "lineitem",
       "supplier"})["lineitem"] /\ "l_extendedprice" \in Some(Reads[7],
       {"customer", "orders", "lineitem", "supplier"})["lineitem"]
       /\ "l_discount" \in Some(Reads[7], {"customer", "orders", "lineitem",
       "supplier"})["lineitem"]
  /\ "s_suppkey" \in Some(Reads[7], {"customer", "orders", "lineitem", "supplier"})["supplier"]
       /\ "s_nationkey" \in Some(Reads[7], {"customer", "orders", "lineitem",
       "supplier"})["supplier"]
BY DEF Reads, Some

\* The rows of the product that the SQL of q7 selects from.
LEMMA Product7 ==
  ASSUME NEW d, NEW N, N = Some(Reads[7], {"customer", "orders", "lineitem", "supplier"}),
           Fits(d, N), NEW x
  PROVE  x \in d.supplier \otimes d.lineitem \otimes d.orders \otimes d.customer <=> Keeps(d, N, x)
<1>N. DOMAIN N = {"customer", "orders", "lineitem", "supplier"}
  BY Reads7
<1> DEFINE T1 == {"supplier"}
           T2 == T1 \cup {"lineitem"}
           T3 == T2 \cup {"orders"}
           T4 == T3 \cup {"customer"}
<1>1. Whole(d, N, T1, d.supplier)
  BY <1>N, WholeTable
<1>2. Whole(d, N, T2, d.supplier \otimes d.lineitem)
  BY <1>N, <1>1, WholeProduct
<1>3. Whole(d, N, T3, d.supplier \otimes d.lineitem \otimes d.orders)
  BY <1>N, <1>2, WholeProduct
<1>4. Whole(d, N, T4, d.supplier \otimes d.lineitem \otimes d.orders \otimes d.customer)
  BY <1>N, <1>3, WholeProduct
<1>5. Among(DOMAIN N, T4)
  BY <1>N DEF Among
<1> QED BY <1>4, <1>5, KeptInWhole

Frame7(d, A) ==
    LET here == {c \in d.customer : \E m \in A : c.c_nationkey = m.n_nationkey}
        placed == MergeOn(here, d.orders, "c_custkey", "o_custkey")
        lines == MergeOn(placed, d.lineitem, "o_orderkey", "l_orderkey")
    IN  MergeOn(lines, d.supplier, "l_suppkey", "s_suppkey")

\* The rows of the joins of q7, in terms of the tables.
LEMMA InFrame7 ==
  ASSUME NEW d, NEW N, N = Some(Reads[7], {"customer", "orders", "lineitem", "supplier"}),
           Fits(d, N), NEW A, NEW x
  PROVE  /\ x \in Frame7(d, A) =>
             /\ Keeps(d, N, x)
             /\ (\E m \in A : x.c_nationkey = m.n_nationkey)
             /\ x.c_custkey = x.o_custkey
             /\ x.o_orderkey = x.l_orderkey
             /\ x.l_suppkey = x.s_suppkey
         /\ /\ Keeps(d, N, x)
            /\ (\E m \in A : x.c_nationkey = m.n_nationkey)
            /\ x.c_custkey = x.o_custkey
            /\ x.o_orderkey = x.l_orderkey
            /\ x.l_suppkey = x.s_suppkey
            => x \in Frame7(d, A)
<1>N. DOMAIN N = {"customer", "orders", "lineitem", "supplier"}
  BY Reads7
<1>C. /\ "c_custkey" \in N["customer"]
      /\ "o_custkey" \in N["orders"]
      /\ "o_orderkey" \in N["orders"]
      /\ "l_orderkey" \in N["lineitem"]
      /\ "l_suppkey" \in N["lineitem"]
      /\ "s_suppkey" \in N["supplier"]
  BY Reads7
<1> DEFINE V1 == {"customer"}
           V2 == V1 \cup {"orders"}
           V3 == V2 \cup {"lineitem"}
           V4 == V3 \cup {"supplier"}
           here == {c \in d.customer : \E m \in A : c.c_nationkey = m.n_nationkey}
           placed == MergeOn(here, d.orders, "c_custkey", "o_custkey")
           lines == MergeOn(placed, d.lineitem, "o_orderkey", "l_orderkey")
           all == MergeOn(lines, d.supplier, "l_suppkey", "s_suppkey")
<1>Lcustomer. Frame(d, N, {"customer"}, here)
  BY <1>N, FrameTable, FrameOfSome
<1>10. Joins(d, N, V1, here, {"orders"}, d.orders, "c_custkey", "o_custkey")
  BY <1>N, <1>C, <1>Lcustomer, FrameTable DEF Joins, Apart, Names
<1>11. Joins(d, N, V2, placed, {"lineitem"}, d.lineitem, "o_orderkey", "l_orderkey")
  BY <1>N, <1>C, <1>10, FrameMerge, FrameTable DEF Joins, Apart, Names
<1>12. Joins(d, N, V3, lines, {"supplier"}, d.supplier, "l_suppkey", "s_suppkey")
  BY <1>N, <1>C, <1>11, FrameMerge, FrameTable DEF Joins, Apart, Names
<1>13. Frame(d, N, V4, all)
  BY <1>12, FrameMerge
<1>20. ASSUME Keeps(d, N, x)
      PROVE  Part(x, V4) \in all <=>
                /\ Part(x, {"customer"}) \in here
                /\ x.c_custkey = x.o_custkey
                /\ x.o_orderkey = x.l_orderkey
                /\ x.l_suppkey = x.s_suppkey
  <2> HIDE DEF here
  <2>1. /\ Part(x, {"orders"}) \in d.orders
        /\ Part(x, {"lineitem"}) \in d.lineitem
        /\ Part(x, {"supplier"}) \in d.supplier
    BY <1>20, <1>N, KeptInTable
  <2>2. Part(x, V2) \in placed <=> Part(x, V1) \in here /\ Part(x, {"orders"}) \in d.orders
          /\ x.c_custkey = x.o_custkey
    BY <1>20, <1>10, KeptByMerge
  <2>3. Part(x, V3) \in lines <=> Part(x, V2) \in placed /\ Part(x, {"lineitem"}) \in d.lineitem
          /\ x.o_orderkey = x.l_orderkey
    BY <1>20, <1>11, KeptByMerge
  <2>4. Part(x, V4) \in all <=> Part(x, V3) \in lines /\ Part(x, {"supplier"}) \in d.supplier
          /\ x.l_suppkey = x.s_suppkey
    BY <1>20, <1>12, KeptByMerge
  <2> HIDE DEF V2, V3, V4, here, placed, lines, all
  <2> QED BY <2>1, <2>2, <2>3, <2>4
<1>21. (\A y \in all : Keeps(d, N, y)) /\ (Keeps(d, N, x) => Part(x, V4) = x)
  <2>1. Among(DOMAIN N, V4)
    BY <1>N DEF Among
  <2> HIDE DEF V2, V3, V4, here, placed, lines, all
  <2> QED BY <1>13, <2>1, KeptInAll
<1>L. ASSUME Keeps(d, N, x)
      PROVE  Part(x, {"customer"}) \in here <=> (\E m \in A : x.c_nationkey = m.n_nationkey)
  <2>1. Part(x, {"customer"}) \in d.customer
    BY <1>L, <1>N, KeptInTable
  <2>N. /\ Names(N, {"customer"}, "c_nationkey")
    BY <1>N, Reads7 DEF Names
  <2>A. Among({"customer"}, DOMAIN N)
    BY <1>N DEF Among
  <2>2. Part(x, {"customer"}).c_nationkey = x.c_nationkey
    BY <1>L, <2>A, <2>N, ColumnKept
  <2> QED BY <2>1, <2>2
<1>22. Frame7(d, A) = all
  BY DEF Frame7
<1> HIDE DEF V1, V2, V3, V4, here, placed, lines, all
<1> QED BY <1>20, <1>21, <1>22, <1>L

-----------------------------------------------------------------------------
(* q7: the lineitems that one nation's supplier sent to another's customer. *)

NationsDiffer(d) == \A m, n \in d.nation : m["n_nationkey"] = n["n_nationkey"] => m = n

NationName == <<"nation", "n_nationkey", "n_name">>

(* Rows A of what f says: their keys mk, what is said in col.               *)
Tags(d, f, A, mk, col, Y) ==
    /\ Tells(d, f, A, mk, col)
    /\ OneEach(A, mk)
    /\ \A m \in A : DOMAIN m \subseteq Y

Base7 == Some(Reads[7], {"customer", "orders", "lineitem", "supplier"})

Tables7 == {"customer", "orders", "lineitem", "supplier"}

Extra7 == Columns["nation"] \cup {"cust_nation", "supp_nation", "l_year", "n1_nationkey",
  "n2_nationkey"}

\* A nation has one name and one region, since its key is unique.
LEMMA SaysOneNation ==
  ASSUME NEW d, NationsDiffer(d)
  PROVE  SaysOne(d, NationName)
<1>1. NationName[1] = "nation" /\ NationName[2] = "n_nationkey"
  BY DEF NationName
<1> QED BY <1>1 DEF NationsDiffer, SaysOne, Says

\* The table of nations tags their keys with their names.
LEMMA NationsAre ==
  ASSUME NEW d, Fits(d, Reads[7]), NationsDiffer(d), NEW A, \A m \in A : m \in d["nation"]
  PROVE  Tags(d, NationName, A, "n_nationkey", "n_name", Columns["nation"])
<1>1. /\ "nation" \in DOMAIN Reads[7]
      /\ "n_nationkey" \in Reads[7]["nation"] /\ "n_name" \in Reads[7]["nation"]
  BY DEF Reads
<1>2. \A m \in A : /\ DOMAIN m \subseteq Columns["nation"]
                   /\ "n_nationkey" \in DOMAIN m /\ "n_name" \in DOMAIN m
  BY <1>1 DEF Fits
<1>3. NationName[1] = "nation" /\ NationName[2] = "n_nationkey" /\ NationName[3] = "n_name"
  BY DEF NationName
<1>4. Tells(d, NationName, A, "n_nationkey", "n_name")
  BY <1>2, <1>3 DEF Tells, Says
<1>5. OneEach(A, "n_nationkey")
  BY DEF OneEach, NationsDiffer
<1> QED BY <1>2, <1>4, <1>5 DEF Tags

\* The added columns are no table's.
LEMMA ExtraIsApart7 == Extra7 \cap Cols(Tables7) = {}
<1>1. Cols(Tables7) = Columns["customer"] \cup Columns["orders"] \cup Columns["lineitem"] \cup Columns["supplier"]
  BY DEF Cols, Tables7
<1>2. ASSUME NEW t \in Tables7 PROVE Extra7 \cap Columns[t] = {}
  BY DEF Extra7, Columns, Tables7
<1> QED BY <1>1, <1>2 DEF Tables7

\* So are some of them.
LEMMA DisjointFrom7 ==
  ASSUME NEW X, X \subseteq Extra7, NEW T, T \subseteq Tables7
  PROVE  Disjoint(X, Cols(T))
<1>1. Cols(T) \subseteq Cols(Tables7)
  BY DEF Cols
<1> QED BY <1>1, ExtraIsApart7 DEF Disjoint

\* The tables that are joined have their columns.
LEMMA Fits7 ==
  ASSUME NEW d, Fits(d, Reads[7])
  PROVE  Fits(d, Base7) /\ DOMAIN Base7 = Tables7
<1>1. DOMAIN Base7 = Tables7
  BY DEF Base7, Tables7, Some
<1>2. \A t \in Tables7 : t \in DOMAIN Reads[7] /\ Base7[t] = Reads[7][t]
  BY DEF Base7, Tables7, Some, Reads
<1> QED BY <1>1, <1>2 DEF Fits

(* Those of the rows B that one of A tags.                                  *)
Tagged(C, B, A, key, mk) == \A z : z \in C <=> z \in B /\ \E m \in A : z[key] = m[mk]

\* A join with tags keeps a showing, and its rows tell.
LEMMA TagShows ==
  ASSUME NEW d, NEW T, NEW X, NEW U, NEW B, Shows(d, T, X, U, B),
         NEW f, NEW A, NEW mk, NEW col, NEW Y, Tags(d, f, A, mk, col, Y), Disjoint(Y, Cols(T)),
         NEW key, Has(B, key), col \notin X, col \in Y,
         NEW C, Tagged(C, B, A, key, mk)
  PROVE  /\ Shows(d, T, X \cup Y, MergeOn(U, A, key, mk), C)
         /\ Tells(d, f, MergeOn(U, A, key, mk), key, col)
         /\ ExtendAll(MergeOn(U, A, key, mk), U)
<1>1. Has(U, key) /\ \A u \in U : Part(u, T)[key] = u[key]
  BY ShowsHas
<1>2. col \notin Cols(T)
  BY DEF Disjoint
<1>3. Lacks(U, col)
  BY <1>2, ShowsLacks
<1>4. Tells(d, f, MergeOn(U, A, key, mk), key, col)
  BY <1>1, <1>3, TagTells DEF Tags
<1>5. \A m \in A : DOMAIN m \subseteq Y
  BY DEF Tags
<1>6. \A m, n \in A : m[mk] = n[mk] => m = n
  BY DEF Tags, OneEach
<1>7. \A u \in U : Part(u, T) \in B
  BY DEF Shows
<1>8. \A u \in U : Part(u, T) \in C <=> \E m \in A : u[key] = m[mk]
  BY <1>1, <1>7 DEF Tagged
<1>9. \A z \in C : z \in B
  BY DEF Tagged
<1>10. Shows(d, T, X \cup Y, MergeOn(U, A, key, mk), C)
  BY <1>5, <1>6, <1>8, <1>9, ShowsTag
<1> QED BY <1>4, <1>10, MergeExtends

(* Joined first and renamed after, or the other way.                       *)
LEMMA RenameOfMerge ==
  ASSUME NEW U, NEW O, NEW a, NEW b, NEW old, NEW new, \A u \in U : IsFcn(u), Has(U, a), Has(U, old),
           Lacks(U, new),
         Lacks(O, old), Lacks(O, new), a # old
  PROVE  Rename(MergeOn(U, O, a, b), old, new) = MergeOn(Rename(U, old, new), O, a, b)
<1>1. \A l, r : Match(l, r, <<a>>, <<b>>) <=> l[a] = r[b]
  BY DEF Match
<1>2. ASSUME NEW R, NEW v PROVE v \in Rename(R, old, new) <=> \E u \in R : v = Renamed(u, old, new)
  BY Zenon DEF Rename, Renamed
<1>3. ASSUME NEW R, NEW v
      PROVE  v \in MergeOn(R, O, a, b) <=> \E u \in R, o \in O : u[a] = o[b] /\ v = Joined(u, o)
  BY <1>1, InMerge DEF MergeOn
<1>4. ASSUME NEW u \in U PROVE Renamed(u, old, new)[a] = u[a]
  <2>1. old \in DOMAIN u /\ a \in DOMAIN u /\ new \notin DOMAIN u
    BY DEF Has, Lacks
  <2> QED BY <2>1 DEF Renamed, Joined, On
<1>5. ASSUME NEW u \in U, NEW o \in O
      PROVE  Renamed(Joined(u, o), old, new) = Joined(Renamed(u, old, new), o)
  <2>1. old \in DOMAIN u /\ new \notin DOMAIN u /\ old \notin DOMAIN o /\ new \notin DOMAIN o
          /\ IsFcn(u)
    BY DEF Has, Lacks
  <2> QED BY <2>1, RenamedJoin
<1>6. ASSUME NEW v PROVE v \in Rename(MergeOn(U, O, a, b), old, new) <=>
                            \E u \in U, o \in O : u[a] = o[b] /\ v = Renamed(Joined(u, o), old, new)
  BY <1>2, <1>3
<1>7. ASSUME NEW v PROVE v \in MergeOn(Rename(U, old, new), O, a, b) <=>
                            \E u \in U, o \in O : u[a] = o[b] /\ v = Joined(Renamed(u, old, new), o)
  BY <1>2, <1>3, <1>4
<1>8. \A v : v \in Rename(MergeOn(U, O, a, b), old, new)
        <=> v \in MergeOn(Rename(U, old, new), O, a, b)
  BY <1>5, <1>6, <1>7
<1> DEFINE P == Rename(MergeOn(U, O, a, b), old, new)
           Q == MergeOn(Rename(U, old, new), O, a, b)
<1>9. \A v : v \in P <=> v \in Q
  BY <1>8
<1> HIDE DEF P, Q
<1>10. P = Q
  BY <1>9
<1> QED BY <1>10 DEF P, Q

\* A join has the columns of its left frame.
LEMMA HasOfMerge ==
  ASSUME NEW R, NEW O, NEW a, NEW b, NEW c, Has(R, c) \/ Has(O, c)
  PROVE  Has(MergeOn(R, O, a, b), c)
<1> SUFFICES ASSUME NEW v \in MergeOn(R, O, a, b) PROVE c \in DOMAIN v
  BY DEF Has
<1>1. PICK u \in R, o \in O : v = Joined(u, o)
  BY InMerge DEF MergeOn
<1>2. DOMAIN v = DOMAIN u \cup DOMAIN o
  BY <1>1, JoinedIs
<1> QED BY <1>2 DEF Has

Customers7(d, A) == Rename(MergeOn(d.customer, A, "c_nationkey", "n_nationkey"), "n_name",
  "cust_nation")

Suppliers7(d, A) ==
    LET placed == MergeOn(Customers7(d, A), d.orders, "c_custkey", "o_custkey")
        lines == MergeOn(placed, d.lineitem, "o_orderkey", "l_orderkey")
    IN  MergeOn(lines, d.supplier, "l_suppkey", "s_suppkey")

(* From a customer of the nations A to a supplier of the nations S.         *)
Shipped7(d, A, S) ==
    Rename(MergeOn(Suppliers7(d, A), S, "s_nationkey", "n_nationkey"), "n_name", "supp_nation")

Both7(d, A, S) == {z \in Frame7(d, A) : \E m \in S : z["s_nationkey"] = m["n_nationkey"]}

Columns7 == ((((Columns["nation"] \ {"n_name"}) \cup {"cust_nation"}) \cup Columns["nation"]) \ {"n_name"})
             \cup {"supp_nation"}

\* The rows of one direction of the trade, joined.
LEMMA Shipped7Shows ==
  ASSUME NEW d, Fits(d, Reads[7]), NationsDiffer(d),
         NEW A, \A m \in A : m \in d["nation"], NEW S, \A m \in S : m \in d["nation"]
  PROVE  /\ Shows(d, Tables7, Columns7, Shipped7(d, A, S), Both7(d, A, S))
         /\ Tells(d, NationName, Shipped7(d, A, S), "c_nationkey", "cust_nation")
         /\ Tells(d, NationName, Shipped7(d, A, S), "s_nationkey", "supp_nation")
<1> DEFINE Y == Columns["nation"]
           T1 == {"customer"}
           T2 == T1 \cup {"orders"}
           T3 == T2 \cup {"lineitem"}
           X1 == {} \cup Y
           X2 == (X1 \ {"n_name"}) \cup {"cust_nation"}
           X3 == X2 \cup Y
           B1 == {c \in d.customer : \E m \in A : c.c_nationkey = m.n_nationkey}
           B2 == MergeOn(B1, d.orders, "c_custkey", "o_custkey")
           B3 == MergeOn(B2, d.lineitem, "o_orderkey", "l_orderkey")
           B4 == MergeOn(B3, d.supplier, "l_suppkey", "s_suppkey")
           U1 == MergeOn(d.customer, A, "c_nationkey", "n_nationkey")
           U2 == Rename(U1, "n_name", "cust_nation")
           U3 == MergeOn(U2, d.orders, "c_custkey", "o_custkey")
           U4 == MergeOn(U3, d.lineitem, "o_orderkey", "l_orderkey")
           U5 == MergeOn(U4, d.supplier, "l_suppkey", "s_suppkey")
           U6 == MergeOn(U5, S, "s_nationkey", "n_nationkey")
           U7 == Rename(U6, "n_name", "supp_nation")
<1>1. Shipped7(d, A, S) = U7 /\ Frame7(d, A) = B4
  BY DEF Shipped7, Suppliers7, Customers7, Frame7
<1>2. Fits(d, Base7) /\ DOMAIN Base7 = Tables7
  BY Fits7
<1>3. /\ "customer" \in DOMAIN Base7 /\ "orders" \in DOMAIN Base7
      /\ "lineitem" \in DOMAIN Base7 /\ "supplier" \in DOMAIN Base7
      /\ "c_custkey" \in Base7["customer"] /\ "c_nationkey" \in Base7["customer"]
      /\ "o_orderkey" \in Base7["orders"] /\ "o_custkey" \in Base7["orders"]
      /\ "l_orderkey" \in Base7["lineitem"] /\ "l_suppkey" \in Base7["lineitem"]
      /\ "s_suppkey" \in Base7["supplier"] /\ "s_nationkey" \in Base7["supplier"]
  BY Reads7 DEF Base7
<1>4. ASSUME NEW t \in DOMAIN Base7
      PROVE  AreRows(d, {t}, d[t]) /\ \A c \in Base7[t] : Has(d[t], c)
  BY <1>2, TableRows
<1>5. /\ AreRows(d, {"customer"}, d.customer) /\ AreRows(d, {"orders"}, d.orders)
      /\ AreRows(d, {"lineitem"}, d.lineitem) /\ AreRows(d, {"supplier"}, d.supplier)
      /\ Has(d.customer, "c_custkey") /\ Has(d.customer, "c_nationkey")
      /\ Has(d.orders, "o_orderkey") /\ Has(d.orders, "o_custkey")
      /\ Has(d.lineitem, "l_orderkey") /\ Has(d.lineitem, "l_suppkey")
      /\ Has(d.supplier, "s_suppkey") /\ Has(d.supplier, "s_nationkey")
  BY <1>3, <1>4
<1>6. /\ Tags(d, NationName, A, "n_nationkey", "n_name", Y)
      /\ Tags(d, NationName, S, "n_nationkey", "n_name", Y)
  BY NationsAre
<1>7. X1 \subseteq Extra7 /\ X2 \subseteq Extra7 /\ X3 \subseteq Extra7 /\ Y \subseteq Extra7
  BY DEF Extra7
<1>8. T1 \subseteq Tables7 /\ T2 \subseteq Tables7 /\ T3 \subseteq Tables7 /\ T3 \cup {"supplier"}
        = Tables7
  BY DEF Tables7
<1>9. Disjoint(Y, Cols(T1)) /\ Disjoint(Y, Cols(Tables7)) /\ Disjoint(X2, Cols(T2))
      /\ Disjoint(X2, Cols(T3)) /\ Disjoint(X2, Cols(Tables7))
  BY <1>7, <1>8, DisjointFrom7
<1>10. /\ "n_name" \in Y /\ "cust_nation" \notin X1 /\ "supp_nation" \notin X3 /\ "n_name" \notin X2
  BY DEF Columns
<1>11. /\ "n_name" \notin Cols(Tables7) /\ "cust_nation" \notin Cols(Tables7)
            /\ "supp_nation" \notin Cols(Tables7)
       /\ "n_name" \notin Cols(T1) /\ "cust_nation" \notin Cols(T1)
  <2>1. "n_name" \in Extra7 /\ "cust_nation" \in Extra7 /\ "supp_nation" \in Extra7
    BY <1>10 DEF Extra7
  <2>2. Cols(T1) \subseteq Cols(Tables7)
    BY <1>8 DEF Cols
  <2> QED BY <2>1, <2>2, ExtraIsApart7
<1>12. /\ "c_custkey" \in Cols(T1) /\ "o_orderkey" \in Cols(T2) /\ "l_suppkey" \in Cols(T3)
       /\ T1 \in SUBSET Tables /\ T2 \in SUBSET Tables /\ T3 \in SUBSET Tables
       /\ "orders" \in Tables \ T1 /\ "lineitem" \in Tables \ T2 /\ "supplier" \in Tables \ T3
  BY DEF Cols, Columns, Tables
<1>13. Tagged(B1, d.customer, A, "c_nationkey", "n_nationkey")
  BY DEF Tagged
<1>14. /\ Has(B1, "c_custkey") /\ Has(B2, "o_orderkey") /\ Has(B3, "l_suppkey")
            /\ Has(B4, "s_nationkey")
  <2>1. Has(B1, "c_custkey")
    BY <1>5 DEF Has
  <2> QED BY <1>5, <2>1, HasOfMerge
<1> HIDE DEF Y, T1, T2, T3, X1, X2, X3, B1, B2, B3, B4, U1, U2, U3, U4, U5, U6, U7
<1>15. Shows(d, T1, {}, d.customer, d.customer)
  BY <1>5, ShowsTable DEF T1
<1>16. Shows(d, T1, X1, U1, B1) /\ Tells(d, NationName, U1, "c_nationkey", "n_name")
  <2>1. "n_name" \notin {}
    OBVIOUS
  <2>2. Shows(d, T1, X1, U1, B1)
    BY <1>5, <1>6, <1>9, <1>10, <1>13, <1>15, <2>1, TagShows DEF X1, U1
  <2>3. Tells(d, NationName, U1, "c_nationkey", "n_name")
    BY <1>5, <1>6, <1>9, <1>10, <1>13, <1>15, <2>1, TagShows DEF U1
  <2> QED BY <2>2, <2>3
<1>17. Shows(d, T1, X2, U2, B1) /\ Tells(d, NationName, U2, "c_nationkey", "cust_nation")
  <2>1. Has(U1, "n_name")
    BY <1>16 DEF Tells, Has
  <2>2. Lacks(U1, "cust_nation")
    BY <1>10, <1>11, <1>16, ShowsLacks
  <2>3. Shows(d, T1, X2, U2, B1)
    BY <1>10, <1>11, <1>16, <2>1, ShowsRename DEF X2, U2
  <2>4. Tells(d, NationName, U2, "c_nationkey", "cust_nation")
    BY <1>16, <2>2, TellsRenamed DEF U2
  <2> QED BY <2>3, <2>4
<1>18. Shows(d, T2, X2, U3, B2)
  <2>1. Disjoint(X2, Cols(T1 \cup {"orders"}))
    BY <1>9 DEF T2
  <2> QED BY <1>5, <1>12, <1>14, <1>17, <2>1, ShowsMerge DEF T2, U3, B2
<1>19. Shows(d, T3, X2, U4, B3)
  <2>1. Disjoint(X2, Cols(T2 \cup {"lineitem"}))
    BY <1>9 DEF T3
  <2> QED BY <1>5, <1>12, <1>14, <1>18, <2>1, ShowsMerge DEF T3, U4, B3
<1>20. Shows(d, Tables7, X2, U5, B4)
  <2>1. Disjoint(X2, Cols(T3 \cup {"supplier"}))
    BY <1>8, <1>9
  <2>2. Shows(d, T3 \cup {"supplier"}, X2, U5, B4)
    BY <1>5, <1>12, <1>14, <1>19, <2>1, ShowsMerge DEF U5, B4
  <2> QED BY <1>8, <2>2
<1>21. Tells(d, NationName, U5, "c_nationkey", "cust_nation")
  <2>1. Tells(d, NationName, U3, "c_nationkey", "cust_nation")
    BY <1>17, MergeExtends, TellsMore DEF U3
  <2>2. Tells(d, NationName, U4, "c_nationkey", "cust_nation")
    BY <2>1, MergeExtends, TellsMore DEF U4
  <2> QED BY <2>2, MergeExtends, TellsMore DEF U5
<1> DEFINE C == {z \in B4 : \E m \in S : z["s_nationkey"] = m["n_nationkey"]}
<1>22. Tagged(C, B4, S, "s_nationkey", "n_nationkey")
  BY DEF Tagged
<1>23. C = Both7(d, A, S)
  BY <1>1 DEF Both7
<1> HIDE DEF C
<1>24. /\ Shows(d, Tables7, X3, U6, C) /\ Tells(d, NationName, U6, "s_nationkey", "n_name")
       /\ ExtendAll(U6, U5)
  <2>1. Shows(d, Tables7, X3, U6, C)
    BY <1>6, <1>9, <1>10, <1>14, <1>20, <1>22, TagShows DEF X3, U6
  <2>2. Tells(d, NationName, U6, "s_nationkey", "n_name")
    BY <1>6, <1>9, <1>10, <1>14, <1>20, <1>22, TagShows DEF U6
  <2>3. ExtendAll(U6, U5)
    BY MergeExtends DEF U6
  <2> QED BY <2>1, <2>2, <2>3
<1>25. Tells(d, NationName, U6, "c_nationkey", "cust_nation")
  BY <1>21, <1>24, TellsMore
<1>26. Has(U6, "n_name")
  BY <1>24 DEF Tells, Has
<1>27. Lacks(U6, "supp_nation")
  BY <1>10, <1>11, <1>24, ShowsLacks
<1>28. Shows(d, Tables7, (X3 \ {"n_name"}) \cup {"supp_nation"}, U7, C)
  BY <1>10, <1>11, <1>24, <1>26, ShowsRename DEF U7
<1>29. Tells(d, NationName, U7, "s_nationkey", "supp_nation")
  BY <1>24, <1>27, TellsRenamed DEF U7
<1>30. Tells(d, NationName, U7, "c_nationkey", "cust_nation")
  BY <1>25, <1>26, <1>27, TellsBesides DEF U7
<1>31. (X3 \ {"n_name"}) \cup {"supp_nation"} = Columns7
  BY DEF X3, X2, X1, Y, Columns7
<1> QED BY <1>1, <1>23, <1>28, <1>29, <1>30, <1>31

Pair7(d, z) ==
    \/ Says(d, NationName, z["s_nationkey"], "FRANCE")
         /\ Says(d, NationName, z["c_nationkey"], "GERMANY")
    \/ Says(d, NationName, z["s_nationkey"], "GERMANY")
         /\ Says(d, NationName, z["c_nationkey"], "FRANCE")

Wanted7(d) ==
    {z \in d.supplier \otimes d.lineitem \otimes d.orders \otimes d.customer :
        /\ z.s_suppkey = z.l_suppkey
        /\ z.o_orderkey = z.l_orderkey
        /\ z.c_custkey = z.o_custkey
        /\ Pair7(d, z)
        /\ Between(z.l_shipdate, 19950101, 19961231)}

Key7 == {"supp_nation", "cust_nation", "l_year"}

Key7Of(d, z) ==
    [c \in Key7 |-> IF c = "supp_nation" THEN Said(d, NationName, z["s_nationkey"])
                    ELSE IF c = "cust_nation" THEN Said(d, NationName, z["c_nationkey"])
                    ELSE Year(z["l_shipdate"])]

Revenues(g) == [revenue |-> Total(g, Revenue)]

Groups7(d) == Grouped(Wanted7(d), [z \in Wanted7(d) |-> Key7Of(d, z)],
  [g \in SUBSET Wanted7(d) |-> Revenues(g)])

(* The rows of an engine, with the columns that the answer is made of.     *)
Answers7Rows(d, X, W) ==
    /\ Shows(d, Tables7, X, W, Wanted7(d))
    /\ Tells(d, NationName, W, "c_nationkey", "cust_nation")
    /\ Tells(d, NationName, W, "s_nationkey", "supp_nation")

\* A showing of finitely many rows is finite.
LEMMA ShowsFinite ==
  ASSUME NEW d, NEW T, NEW X, NEW U, NEW B, Shows(d, T, X, U, B), IsFiniteSet(B)
  PROVE  IsFiniteSet(U)
<1> DEFINE b == [z \in B |-> CHOOSE u \in U : Part(u, T) = z]
<1>1. ASSUME NEW u \in U PROVE u \in ImageOf(b, B)
  <2>1. Part(u, T) \in B
    BY DEF Shows
  <2>2. b[Part(u, T)] \in U /\ Part(b[Part(u, T)], T) = Part(u, T)
    BY <2>1
  <2> HIDE DEF b
  <2>3. b[Part(u, T)] = u
    BY <2>2 DEF Shows
  <2> QED BY <2>1, <2>3 DEF ImageOf
<1> HIDE DEF b
<1>2. IsFiniteSet(ImageOf(b, B))
  BY FiniteImage
<1> QED BY <1>1, <1>2, FiniteKept

\* There are finitely many wanted rows.
LEMMA FiniteWanted7 ==
  ASSUME NEW d, Sound(d, Reads[7])
  PROVE  IsFiniteSet(Wanted7(d))
<1>1. /\ IsFiniteSet(d.supplier) /\ IsFiniteSet(d.lineitem) /\ IsFiniteSet(d.orders)
           /\ IsFiniteSet(d.customer)
  BY DEF Sound, Reads
<1> DEFINE P == d.supplier \otimes d.lineitem \otimes d.orders \otimes d.customer
<1>2. IsFiniteSet(P)
  BY <1>1, FiniteCross
<1>3. \A z \in Wanted7(d) : z \in P
  BY DEF Wanted7
<1> HIDE DEF P
<1> QED BY <1>2, <1>3, FiniteKept

\* The wanted rows have the columns that the query reads.
LEMMA Columns7Are ==
  ASSUME NEW d, Sound(d, Reads[7]), NEW z \in Wanted7(d)
  PROVE  /\ Keeps(d, Base7, z) /\ Revenue(z) \in Int
         /\ "l_extendedprice" \in DOMAIN z /\ "l_discount" \in DOMAIN z /\ "l_shipdate" \in DOMAIN z
         /\ "c_nationkey" \in DOMAIN z /\ "s_nationkey" \in DOMAIN z
<1>1. Fits(d, Base7) /\ DOMAIN Base7 = Tables7
  BY Fits7 DEF Sound
<1>2. Sound(d, Base7)
  <2>1. \A t \in Tables7 : t \in DOMAIN Reads[7] /\ Base7[t] = Reads[7][t]
    BY DEF Base7, Tables7, Some, Reads
  <2> QED BY <1>1, <2>1 DEF Sound
<1>3. Keeps(d, Base7, z)
  BY <1>1, Product7 DEF Base7, Wanted7
<1>4. /\ "lineitem" \in DOMAIN Base7 /\ "customer" \in DOMAIN Base7 /\ "supplier" \in DOMAIN Base7
      /\ "l_extendedprice" \in Base7["lineitem"] /\ "l_discount" \in Base7["lineitem"]
      /\ "l_shipdate" \in Base7["lineitem"] /\ "c_nationkey" \in Base7["customer"]
           /\ "s_nationkey" \in Base7["supplier"]
  BY Reads7 DEF Base7
<1>5. Revenue(z) \in Int
  BY <1>2, <1>3, <1>4, RevenueIsInt
<1>6. /\ "l_extendedprice" \in DOMAIN z /\ "l_discount" \in DOMAIN z /\ "l_shipdate" \in DOMAIN z
  BY <1>3, <1>4, ColumnOfTable
<1>7. "c_nationkey" \in DOMAIN z /\ "s_nationkey" \in DOMAIN z
  BY <1>3, <1>4, ColumnOfTable
<1> QED BY <1>3, <1>5, <1>6, <1>7

\* The groups of a showing are the groups of the wanted rows.
LEMMA Groups7Are ==
  ASSUME NEW d, Sound(d, Reads[7]), NationsDiffer(d), NEW X, NEW W, Answers7Rows(d, X, W),
         \A w \in W : "l_year" \in DOMAIN w /\ w["l_year"] = Year(w["l_shipdate"])
  PROVE  GroupBy(W, Key7, Revenues) = Groups7(d)
<1> DEFINE T == Tables7
           S == Wanted7(d)
           b == [w \in W |-> Part(w, T)]
           key == KeyOn(W, Key7)
           keyS == [z \in S |-> Key7Of(d, z)]
           agg == [g \in SUBSET W |-> Revenues(g)]
           aggS == [g \in SUBSET S |-> Revenues(g)]
<1>1. OneToOne(b, W, S)
  BY ShownOneToOne DEF Answers7Rows
<1>2. IsFiniteSet(W)
  BY FiniteWanted7, ShowsFinite DEF Answers7Rows
<1>3. ASSUME NEW w \in W
      PROVE  /\ Revenue(w) = Revenue(b[w]) /\ Revenue(b[w]) \in Int /\ keyS[b[w]] = key[w]
  <2> DEFINE z == Part(w, T)
  <2>1. z \in S
    BY DEF Answers7Rows, Shows
  <2>2. DOMAIN z = DOMAIN w \cap Cols(T) /\ \A c \in DOMAIN w \cap Cols(T) : z[c] = w[c]
    BY PartIs
  <2> HIDE DEF z
  <2>3. /\ Revenue(z) \in Int
        /\ "l_extendedprice" \in DOMAIN z /\ "l_discount" \in DOMAIN z /\ "l_shipdate" \in DOMAIN z
        /\ "c_nationkey" \in DOMAIN z /\ "s_nationkey" \in DOMAIN z
    BY <2>1, Columns7Are
  <2>4. /\ z["l_extendedprice"] = w["l_extendedprice"] /\ z["l_discount"] = w["l_discount"]
        /\ z["l_shipdate"] = w["l_shipdate"] /\ z["c_nationkey"] = w["c_nationkey"]
        /\ z["s_nationkey"] = w["s_nationkey"]
    BY <2>2, <2>3
  <2>5. Revenue(w) = Revenue(z)
    BY <2>4 DEF Revenue
  <2>6. SaysOne(d, NationName)
    BY SaysOneNation
  <2>7. w["cust_nation"] = Said(d, NationName, w["c_nationkey"]) /\ w["supp_nation"]
          = Said(d, NationName, w["s_nationkey"])
    BY <2>6, TellsSaid DEF Answers7Rows
  <2>8. On(w, Key7) = Key7Of(d, z)
    BY <2>4, <2>7 DEF On, Key7Of, Key7
  <2>9. b[w] = z
    BY DEF z
  <2> QED BY <2>1, <2>3, <2>5, <2>8, <2>9 DEF KeyOn
<1>4. ASSUME NEW g \in SUBSET W PROVE aggS[ImageOf(b, g)] = agg[g]
  <2> DEFINE G == ImageOf(b, g)
             v == [r \in g |-> Revenue(r)]
             u == [r \in G |-> Revenue(r)]
  <2>1. IsFiniteSet(g)
    BY <1>2, FS_Subset
  <2>2. \A x, y \in g : b[x] = b[y] => x = y
    BY <1>1 DEF OneToOne
  <2>3. DOMAIN v = g /\ DOMAIN u = ImageOf(b, g)
    OBVIOUS
  <2>4. ASSUME NEW x \in g PROVE v[x] \in Int /\ u[b[x]] = v[x]
    <3>1. b[x] \in G
      BY DEF ImageOf
    <3>2. Revenue(x) = Revenue(b[x]) /\ Revenue(b[x]) \in Int
      BY <1>3
    <3> HIDE DEF b, G
    <3> QED BY <3>1, <3>2
  <2>5. G \in SUBSET S
    <3> HIDE DEF b, S
    <3> QED BY <1>1 DEF ImageOf, OneToOne
  <2>6. Total(g, Revenue) = SumFunction(v) /\ Total(G, Revenue) = SumFunction(u)
    BY DEF Total
  <2> HIDE DEF v, u, b
  <2>7. SumFunction(u) = SumFunction(v)
    BY <2>1, <2>2, <2>3, <2>4, TotalOfImage
  <2>8. aggS[G] = Revenues(G) /\ agg[g] = Revenues(g)
    <3> HIDE DEF G
    <3> QED BY <2>5, Zenon
  <2>9. Revenues(G) = Revenues(g)
    <3> HIDE DEF G
    <3> QED BY <2>6, <2>7 DEF Revenues
  <2> QED BY <2>8, <2>9
<1> HIDE DEF b
<1>5. \A w \in W : keyS[b[w]] = key[w]
  BY <1>3
<1>6. ASSUME NEW j PROVE agg[{r \in W : On(r, Key7) = j}] = Revenues({r \in W : On(r, Key7) = j})
  <2>1. {r \in W : On(r, Key7) = j} \in SUBSET W
    OBVIOUS
  <2> QED BY <2>1, Zenon
<1> HIDE DEF agg, aggS, key, keyS
<1>7. SameAggregates(W, b, agg, aggS)
  BY <1>4 DEF SameAggregates
<1>8. Grouped(S, keyS, aggS) = Grouped(W, key, agg)
  BY <1>1, <1>5, <1>7, GroupsOfImage
<1>9. ASSUME NEW x PROVE x \in GroupBy(W, Key7, Revenues) <=> x \in GroupedOn(W, Key7, agg)
  BY <1>6, Zenon DEF GroupBy, GroupedOn
<1>10. GroupBy(W, Key7, Revenues) = GroupedOn(W, Key7, agg)
  BY <1>9, Zenon
<1>11. GroupedOn(W, Key7, agg) = Grouped(W, key, agg)
  BY GroupedOnIs, Zenon DEF key
<1> QED BY <1>8, <1>10, <1>11, Zenon DEF Groups7, S, keyS, aggS

\* The wanted rows.
LEMMA ShippedWanted7 ==
  ASSUME NEW d, Fits(d, Reads[7]), NEW z
  PROVE  z \in Wanted7(d) <=>
            /\ Keeps(d, Base7, z)
            /\ z.s_suppkey = z.l_suppkey
            /\ z.o_orderkey = z.l_orderkey
            /\ z.c_custkey = z.o_custkey
            /\ Pair7(d, z)
            /\ Between(z.l_shipdate, 19950101, 19961231)
<1>1. Fits(d, Base7)
  BY Fits7
<1>2. z \in d.supplier \otimes d.lineitem \otimes d.orders \otimes d.customer <=> Keeps(d, Base7, z)
  BY <1>1, Product7 DEF Base7
<1> QED BY <1>2 DEF Wanted7

\* The rows that one direction joins.
LEMMA InBoth7 ==
  ASSUME NEW d, Fits(d, Reads[7]), NEW A, NEW S, NEW z
  PROVE  z \in Both7(d, A, S) <=>
            /\ Keeps(d, Base7, z)
            /\ z.c_custkey = z.o_custkey
            /\ z.o_orderkey = z.l_orderkey
            /\ z.l_suppkey = z.s_suppkey
            /\ \E m \in A : z["c_nationkey"] = m["n_nationkey"]
            /\ \E m \in S : z["s_nationkey"] = m["n_nationkey"]
<1>1. Fits(d, Base7)
  BY Fits7
<1> DEFINE In == /\ Keeps(d, Base7, z)
                 /\ (\E m \in A : z.c_nationkey = m.n_nationkey)
                 /\ z.c_custkey = z.o_custkey
                 /\ z.o_orderkey = z.l_orderkey
                 /\ z.l_suppkey = z.s_suppkey
<1>2. (z \in Frame7(d, A) => In) /\ (In => z \in Frame7(d, A))
  BY <1>1, InFrame7 DEF Base7
<1> QED BY <1>2 DEF Both7

(* The two nations of a wanted row.                                        *)
Named7(d, name) == {n \in d.nation : n.n_name = name}

Nations7(d) == {n \in d.nation : n.n_name \in {"FRANCE", "GERMANY"}}

\* The nations of a name.
LEMMA InNamed7 ==
  ASSUME NEW d, NEW k, NEW name
  PROVE  Says(d, NationName, k, name) <=> \E m \in Named7(d, name) : k = m["n_nationkey"]
<1>1. NationName[1] = "nation" /\ NationName[2] = "n_nationkey" /\ NationName[3] = "n_name"
  BY DEF NationName
<1> QED BY <1>1 DEF Named7, Says

Polars7(d) ==
    {r \in Shipped7(d, Nations7(d), Nations7(d)) :
        /\ \/ r.cust_nation = "FRANCE" /\ r.supp_nation = "GERMANY"
           \/ r.cust_nation = "GERMANY" /\ r.supp_nation = "FRANCE"
        /\ Between(r.l_shipdate, 19950101, 19961231)}

\* The columns of the tables' part.
LEMMA DateOfPart7 ==
  ASSUME NEW d, NEW X, NEW U, NEW B, Shows(d, Tables7, X, U, B), Fits(d, Reads[7]),
         \A z \in B : Keeps(d, Base7, z), NEW u \in U
  PROVE  /\ Part(u, Tables7)["l_shipdate"] = u["l_shipdate"]
         /\ Part(u, Tables7)["c_nationkey"] = u["c_nationkey"]
         /\ Part(u, Tables7)["s_nationkey"] = u["s_nationkey"]
         /\ "l_shipdate" \in DOMAIN u
<1>1. /\ "lineitem" \in DOMAIN Base7 /\ "customer" \in DOMAIN Base7 /\ "supplier" \in DOMAIN Base7
      /\ "l_shipdate" \in Base7["lineitem"] /\ "c_nationkey" \in Base7["customer"]
           /\ "s_nationkey" \in Base7["supplier"]
  BY Reads7 DEF Base7
<1>2. Has(B, "l_shipdate") /\ Has(B, "c_nationkey") /\ Has(B, "s_nationkey")
  <2>1. ASSUME NEW z \in B
        PROVE  "l_shipdate" \in DOMAIN z /\ "c_nationkey" \in DOMAIN z /\ "s_nationkey" \in DOMAIN z
    <3>1. "l_shipdate" \in DOMAIN z
      BY <1>1, ColumnOfTable
    <3>2. "c_nationkey" \in DOMAIN z
      BY <1>1, ColumnOfTable
    <3>3. "s_nationkey" \in DOMAIN z
      BY <1>1, ColumnOfTable
    <3> QED BY <3>1, <3>2, <3>3
  <2> QED BY <2>1 DEF Has
<1>3. Has(U, "l_shipdate") /\ Part(u, Tables7)["l_shipdate"] = u["l_shipdate"]
  BY <1>2, ShowsHas
<1>4. Part(u, Tables7)["c_nationkey"] = u["c_nationkey"]
  BY <1>2, ShowsHas
<1>5. Part(u, Tables7)["s_nationkey"] = u["s_nationkey"]
  BY <1>2, ShowsHas
<1> QED BY <1>3, <1>4, <1>5 DEF Has

\* The columns of the tables' part.
LEMMA KeysOfPart7 ==
  ASSUME NEW d, NEW X, NEW U, NEW B, Shows(d, Tables7, X, U, B), Fits(d, Reads[7]),
         \A z \in B : Keeps(d, Base7, z), NEW u \in U
  PROVE  /\ Part(u, Tables7)["s_suppkey"] = u["s_suppkey"]
         /\ Part(u, Tables7)["l_suppkey"] = u["l_suppkey"]
         /\ Part(u, Tables7)["o_orderkey"] = u["o_orderkey"]
         /\ Part(u, Tables7)["l_orderkey"] = u["l_orderkey"]
         /\ Part(u, Tables7)["c_custkey"] = u["c_custkey"]
         /\ Part(u, Tables7)["o_custkey"] = u["o_custkey"]
<1> DEFINE z == Part(u, Tables7)
<1>1. /\ "lineitem" \in DOMAIN Base7 /\ "customer" \in DOMAIN Base7 /\ "supplier" \in DOMAIN Base7
      /\ "orders" \in DOMAIN Base7
      /\ "s_suppkey" \in Base7["supplier"] /\ "l_suppkey" \in Base7["lineitem"]
      /\ "o_orderkey" \in Base7["orders"] /\ "l_orderkey" \in Base7["lineitem"]
      /\ "c_custkey" \in Base7["customer"] /\ "o_custkey" \in Base7["orders"]
  BY Reads7 DEF Base7
<1>2. Keeps(d, Base7, z)
  BY DEF Shows
<1>3. \A c \in DOMAIN z : z[c] = u[c]
  BY PartIs
<1> HIDE DEF z
<1>4. ASSUME NEW t \in DOMAIN Base7, NEW c \in Base7[t] PROVE z[c] = u[c]
  <2>1. c \in DOMAIN z
    BY <1>2, ColumnOfTable
  <2> QED BY <1>3, <2>1
<1> QED BY <1>1, <1>4 DEF z

\* The engine's rows show the wanted ones, and tell the names of both nations.
LEMMA Polars7Rows ==
  ASSUME NEW d, Fits(d, Reads[7]), NationsDiffer(d)
  PROVE  Answers7Rows(d, Columns7, Polars7(d))
<1> DEFINE A == Nations7(d)
           U == Shipped7(d, A, A)
           B == Both7(d, A, A)
           V == Polars7(d)
           C == Wanted7(d)
<1>1. \A m \in A : m \in d["nation"]
  BY DEF Nations7
<1> HIDE DEF A
<1>2. /\ Shows(d, Tables7, Columns7, U, B)
      /\ Tells(d, NationName, U, "c_nationkey", "cust_nation")
      /\ Tells(d, NationName, U, "s_nationkey", "supp_nation")
  <2>1. Shows(d, Tables7, Columns7, U, B)
    BY <1>1, Shipped7Shows
  <2>2. Tells(d, NationName, U, "c_nationkey", "cust_nation")
    BY <1>1, Shipped7Shows
  <2>3. Tells(d, NationName, U, "s_nationkey", "supp_nation")
    BY <1>1, Shipped7Shows
  <2> QED BY <2>1, <2>2, <2>3
<1>3. \A v \in V : v \in U
  BY DEF Polars7, A
<1>4. ASSUME NEW z PROVE z \in C <=> z \in B /\ Pair7(d, z)
               /\ Between(z.l_shipdate, 19950101, 19961231)
  <2>1. Pair7(d, z) => /\ \E m \in A : z["c_nationkey"] = m["n_nationkey"]
                       /\ \E m \in A : z["s_nationkey"] = m["n_nationkey"]
    <3>1. ASSUME NEW name \in {"FRANCE", "GERMANY"} PROVE \A m \in Named7(d, name) : m \in A
      BY DEF Named7, Nations7, A
    <3>2. \A k : \A name \in {"FRANCE", "GERMANY"} :
              Says(d, NationName, k, name) => \E m \in A : k = m["n_nationkey"]
      BY <3>1, InNamed7
    <3> QED BY <3>2 DEF Pair7
  <2> QED BY <2>1, ShippedWanted7, InBoth7
<1> HIDE DEF U, B, C
<1>5. \A z \in C : z \in B
  BY <1>4
<1>6. ASSUME NEW u \in U PROVE u \in V <=> Part(u, Tables7) \in C
  <2> DEFINE z == Part(u, Tables7)
  <2>1. z \in B
    BY <1>2 DEF Shows
  <2>2. \A y \in B : Keeps(d, Base7, y)
    BY InBoth7 DEF B
  <2>3. z["l_shipdate"] = u["l_shipdate"] /\ z["c_nationkey"] = u["c_nationkey"] /\ z["s_nationkey"]
          = u["s_nationkey"]
    BY <1>2, <2>2, DateOfPart7
  <2> HIDE DEF z
  <2>4. SaysOne(d, NationName)
    BY SaysOneNation
  <2>5. \A v : u["cust_nation"] = v <=> Says(d, NationName, u["c_nationkey"], v)
    <3>1. Tells(d, NationName, U, "c_nationkey", "cust_nation")
      BY <1>2
    <3> QED BY <2>4, <3>1 DEF Tells, SaysOne
  <2>6. \A v : u["supp_nation"] = v <=> Says(d, NationName, u["s_nationkey"], v)
    <3>1. Tells(d, NationName, U, "s_nationkey", "supp_nation")
      BY <1>2
    <3> QED BY <2>4, <3>1 DEF Tells, SaysOne
  <2>7. z \in C <=> Pair7(d, z) /\ Between(z.l_shipdate, 19950101, 19961231)
    BY <1>4, <2>1
  <2>8. u \in V <=> /\ \/ u.cust_nation = "FRANCE" /\ u.supp_nation = "GERMANY"
                       \/ u.cust_nation = "GERMANY" /\ u.supp_nation = "FRANCE"
                    /\ Between(u.l_shipdate, 19950101, 19961231)
    BY DEF Polars7, U, A
  <2>9. z \in C <=> u \in V
    BY <2>3, <2>5, <2>6, <2>7, <2>8 DEF Pair7
  <2> QED BY <2>9 DEF z
<1> HIDE DEF V
<1>7. Shows(d, Tables7, Columns7, V, C)
  BY <1>2, <1>3, <1>5, <1>6, ShowsSome
<1>8. Tells(d, NationName, V, "c_nationkey", "cust_nation")
  BY <1>2, <1>3, TellsSome
<1>9. Tells(d, NationName, V, "s_nationkey", "supp_nation")
  BY <1>2, <1>3, TellsSome
<1> QED BY <1>7, <1>8, <1>9 DEF Answers7Rows, V, C

(* Pandas: one half for each direction.                                    *)
Halves7(d) == Shipped7(d, Named7(d, "FRANCE"), Named7(d, "GERMANY"))
              \cup Shipped7(d, Named7(d, "GERMANY"), Named7(d, "FRANCE"))

Pandas7(d) == {r \in Halves7(d) : r.l_shipdate >= 19950101 /\ r.l_shipdate <= 19961231}

\* The engine's rows show the wanted ones, and tell the names of both nations.
LEMMA Pandas7Rows ==
  ASSUME NEW d, Fits(d, Reads[7]), NationsDiffer(d)
  PROVE  Answers7Rows(d, Columns7, Pandas7(d))
<1> DEFINE F == Named7(d, "FRANCE")
           G == Named7(d, "GERMANY")
           U1 == Shipped7(d, F, G)
           U2 == Shipped7(d, G, F)
           B1 == Both7(d, F, G)
           B2 == Both7(d, G, F)
           U == U1 \cup U2
           B == B1 \cup B2
           V == Pandas7(d)
           C == Wanted7(d)
<1>1. (\A m \in F : m \in d["nation"]) /\ (\A m \in G : m \in d["nation"])
  BY DEF Named7
<1>2. \A k : /\ Says(d, NationName, k, "FRANCE") <=> \E m \in F : k = m["n_nationkey"]
             /\ Says(d, NationName, k, "GERMANY") <=> \E m \in G : k = m["n_nationkey"]
  BY InNamed7
<1> HIDE DEF F, G
<1>3. Shows(d, Tables7, Columns7, U1, B1)
  BY <1>1, Shipped7Shows
<1>4. Shows(d, Tables7, Columns7, U2, B2)
  BY <1>1, Shipped7Shows
<1>5. Tells(d, NationName, U1, "c_nationkey", "cust_nation")
  BY <1>1, Shipped7Shows
<1>6. Tells(d, NationName, U2, "c_nationkey", "cust_nation")
  BY <1>1, Shipped7Shows
<1>7. Tells(d, NationName, U1, "s_nationkey", "supp_nation")
  BY <1>1, Shipped7Shows
<1>8. Tells(d, NationName, U2, "s_nationkey", "supp_nation")
  BY <1>1, Shipped7Shows
<1>9. SaysOne(d, NationName)
  BY SaysOneNation
<1>10. ASSUME NEW z
       PROVE  /\ z \in B1 => Keeps(d, Base7, z) /\ Says(d, NationName, z["c_nationkey"], "FRANCE")
              /\ z \in B2 => Keeps(d, Base7, z) /\ Says(d, NationName, z["c_nationkey"], "GERMANY")
              /\ z \in C <=> (z \in B1 \/ z \in B2) /\ Between(z.l_shipdate, 19950101, 19961231)
  BY <1>2, InBoth7, ShippedWanted7 DEF Pair7
<1>11. \A z \in B1 : z \notin B2
  BY <1>9, <1>10 DEF SaysOne
<1> HIDE DEF U1, U2, B1, B2, C
<1>12. Shows(d, Tables7, Columns7, U, B)
  BY <1>3, <1>4, <1>11, ShowsUnion
<1>13. /\ Tells(d, NationName, U, "c_nationkey", "cust_nation")
       /\ Tells(d, NationName, U, "s_nationkey", "supp_nation")
  BY <1>5, <1>6, <1>7, <1>8 DEF Tells
<1>14. (\A v \in V : v \in U) /\ \A u \in U : u \in V <=> Between(u.l_shipdate, 19950101, 19961231)
  BY DEF Pandas7, Halves7, U1, U2, F, G, Between
<1>15. (\A z \in B : Keeps(d, Base7, z)) /\ (\A z \in C : z \in B)
       /\ \A z \in B : z \in C <=> Between(z.l_shipdate, 19950101, 19961231)
  BY <1>10
<1> HIDE DEF U, B, V
<1>16. ASSUME NEW u \in U PROVE u \in V <=> Part(u, Tables7) \in C
  <2> DEFINE z == Part(u, Tables7)
  <2>1. z["l_shipdate"] = u["l_shipdate"]
    BY <1>12, <1>15, DateOfPart7
  <2>2. z \in B
    BY <1>12 DEF Shows
  <2> HIDE DEF z
  <2>3. z \in C <=> u \in V
    BY <1>14, <1>15, <2>1, <2>2
  <2> QED BY <2>3 DEF z
<1>17. Shows(d, Tables7, Columns7, V, C)
  BY <1>12, <1>14, <1>15, <1>16, ShowsSome
<1>18. Tells(d, NationName, V, "c_nationkey", "cust_nation")
  BY <1>13, <1>14, TellsSome
<1>19. Tells(d, NationName, V, "s_nationkey", "supp_nation")
  BY <1>13, <1>14, TellsSome
<1> QED BY <1>17, <1>18, <1>19 DEF Answers7Rows, V, C

(* Two products with the nations, and the tests of the where clause.       *)
Sellers7(d) == Select(d.nation, [n1_nationkey |-> "n_nationkey", supp_nation |-> "n_name"])

Buyers7(d) == Select(d.nation, [n2_nationkey |-> "n_nationkey", cust_nation |-> "n_name"])

Sql7(d) ==
    {r \in d.supplier \otimes d.lineitem \otimes d.orders \otimes d.customer \otimes Sellers7(d)
      \otimes Buyers7(d) :
        /\ r.s_suppkey = r.l_suppkey
        /\ r.o_orderkey = r.l_orderkey
        /\ r.c_custkey = r.o_custkey
        /\ r.s_nationkey = r.n1_nationkey
        /\ r.c_nationkey = r.n2_nationkey
        /\ \/ r.supp_nation = "FRANCE" /\ r.cust_nation = "GERMANY"
           \/ r.supp_nation = "GERMANY" /\ r.cust_nation = "FRANCE"
        /\ Between(r.l_shipdate, 19950101, 19961231)}

SqlColumns7 == ({} \cup {"n1_nationkey", "supp_nation"}) \cup {"n2_nationkey", "cust_nation"}

\* The subqueries n1 and n2 tag the nations' keys.
LEMMA SelectedNations ==
  ASSUME NEW d, Fits(d, Reads[7]), NationsDiffer(d)
  PROVE  /\ Tags(d, NationName, Sellers7(d), "n1_nationkey", "supp_nation", {"n1_nationkey", "supp_nation"})
         /\ Tags(d, NationName, Buyers7(d), "n2_nationkey", "cust_nation",
              {"n2_nationkey", "cust_nation"})
         /\ \A n \in d.nation : /\ \E m \in Sellers7(d) : m["n1_nationkey"] = n["n_nationkey"]
                                /\ \E m \in Buyers7(d) : m["n2_nationkey"] = n["n_nationkey"]
<1>1. NationName[1] = "nation" /\ NationName[2] = "n_nationkey" /\ NationName[3] = "n_name"
  BY DEF NationName
<1>2. \A x : x \in Sellers7(d) <=> \E n \in d.nation : x
        = [n1_nationkey |-> n["n_nationkey"], supp_nation |-> n["n_name"]]
  BY DEF Sellers7, Select
<1>3. \A x : x \in Buyers7(d) <=> \E n \in d.nation : x
        = [n2_nationkey |-> n["n_nationkey"], cust_nation |-> n["n_name"]]
  BY DEF Buyers7, Select
<1>4. Tags(d, NationName, Sellers7(d), "n1_nationkey", "supp_nation",
        {"n1_nationkey", "supp_nation"})
  <2> DEFINE M == Sellers7(d)
  <2>1. \A x \in M : DOMAIN x = {"n1_nationkey", "supp_nation"} /\
            \E n \in d.nation : x["n1_nationkey"] = n["n_nationkey"] /\ x["supp_nation"]
              = n["n_name"]
    BY <1>2
  <2>2. \A x, y \in M : x["n1_nationkey"] = y["n1_nationkey"] => x = y
    BY <1>2 DEF NationsDiffer
  <2> HIDE DEF M
  <2>3. Tells(d, NationName, M, "n1_nationkey", "supp_nation")
    BY <1>1, <2>1 DEF Tells, Says
  <2>4. OneEach(M, "n1_nationkey")
    BY <2>2 DEF OneEach
  <2>5. \A m \in M : DOMAIN m \subseteq {"n1_nationkey", "supp_nation"}
    BY <2>1
  <2> QED BY <2>3, <2>4, <2>5 DEF Tags, M
<1>5. Tags(d, NationName, Buyers7(d), "n2_nationkey", "cust_nation",
        {"n2_nationkey", "cust_nation"})
  <2> DEFINE M == Buyers7(d)
  <2>1. \A x \in M : DOMAIN x = {"n2_nationkey", "cust_nation"} /\
            \E n \in d.nation : x["n2_nationkey"] = n["n_nationkey"] /\ x["cust_nation"]
              = n["n_name"]
    BY <1>3
  <2>2. \A x, y \in M : x["n2_nationkey"] = y["n2_nationkey"] => x = y
    BY <1>3 DEF NationsDiffer
  <2> HIDE DEF M
  <2>3. Tells(d, NationName, M, "n2_nationkey", "cust_nation")
    BY <1>1, <2>1 DEF Tells, Says
  <2>4. OneEach(M, "n2_nationkey")
    BY <2>2 DEF OneEach
  <2>5. \A m \in M : DOMAIN m \subseteq {"n2_nationkey", "cust_nation"}
    BY <2>1
  <2> QED BY <2>3, <2>4, <2>5 DEF Tags, M
<1>6. ASSUME NEW n \in d.nation
      PROVE  /\ \E m \in Sellers7(d) : m["n1_nationkey"] = n["n_nationkey"]
             /\ \E m \in Buyers7(d) : m["n2_nationkey"] = n["n_nationkey"]
  <2> DEFINE m1 == [n1_nationkey |-> n["n_nationkey"], supp_nation |-> n["n_name"]]
             m2 == [n2_nationkey |-> n["n_nationkey"], cust_nation |-> n["n_name"]]
  <2>1. m1 \in Sellers7(d) /\ m2 \in Buyers7(d)
    BY <1>2, <1>3
  <2>2. m1["n1_nationkey"] = n["n_nationkey"] /\ m2["n2_nationkey"] = n["n_nationkey"]
    OBVIOUS
  <2> HIDE DEF m1, m2
  <2> QED BY <2>1, <2>2
<1> QED BY <1>4, <1>5, <1>6

\* The engine's rows show the wanted ones, and tell the names of both nations.
LEMMA Sql7Rows ==
  ASSUME NEW d, Fits(d, Reads[7]), NationsDiffer(d)
  PROVE  Answers7Rows(d, SqlColumns7, Sql7(d))
<1> DEFINE P == d.supplier \otimes d.lineitem \otimes d.orders \otimes d.customer
           M1 == Sellers7(d)
           M2 == Buyers7(d)
           Y1 == {"n1_nationkey", "supp_nation"}
           Y2 == {"n2_nationkey", "cust_nation"}
           X0 == {}
           X1 == X0 \cup Y1
           X2 == X1 \cup Y2
           U1 == MergeOn(P, M1, "s_nationkey", "n1_nationkey")
           U2 == MergeOn(U1, M2, "c_nationkey", "n2_nationkey")
           V == Sql7(d)
           C == Wanted7(d)
           B1 == {z \in P : \E m \in M1 : z["s_nationkey"] = m["n1_nationkey"]}
           B2 == {z \in B1 : \E m \in M2 : z["c_nationkey"] = m["n2_nationkey"]}
<1>1. Fits(d, Base7) /\ DOMAIN Base7 = Tables7
  BY Fits7
<1>2. \A z : z \in P <=> Keeps(d, Base7, z)
  BY <1>1, Product7 DEF Base7
<1>3. AreRows(d, Tables7, P)
  BY <1>1, <1>2 DEF AreRows, Keeps
<1>4. /\ "lineitem" \in DOMAIN Base7 /\ "customer" \in DOMAIN Base7 /\ "supplier" \in DOMAIN Base7
      /\ "l_shipdate" \in Base7["lineitem"] /\ "c_nationkey" \in Base7["customer"]
           /\ "s_nationkey" \in Base7["supplier"]
      /\ "s_suppkey" \in Base7["supplier"]
  BY Reads7 DEF Base7
<1>5. ASSUME NEW z \in P PROVE "c_nationkey" \in DOMAIN z /\ "s_nationkey" \in DOMAIN z
  <2>1. Keeps(d, Base7, z)
    BY <1>2
  <2> HIDE DEF P
  <2>2. "c_nationkey" \in DOMAIN z
    BY <1>4, <2>1, ColumnOfTable
  <2>3. "s_nationkey" \in DOMAIN z
    BY <1>4, <2>1, ColumnOfTable
  <2> QED BY <2>2, <2>3
<1>6. Tagged(B1, P, M1, "s_nationkey", "n1_nationkey")
        /\ Tagged(B2, B1, M2, "c_nationkey", "n2_nationkey")
  <2> HIDE DEF P, M1, M2
  <2> QED BY DEF Tagged
<1>7. Has(P, "s_nationkey") /\ Has(B1, "c_nationkey")
  <2> HIDE DEF P, M1
  <2> QED BY <1>5 DEF Has
<1>8. Tags(d, NationName, M1, "n1_nationkey", "supp_nation", Y1)
        /\ Tags(d, NationName, M2, "n2_nationkey", "cust_nation", Y2)
  BY SelectedNations
<1>9. Y1 \subseteq Extra7 /\ Y2 \subseteq Extra7 /\ Tables7 \subseteq Tables7
  BY DEF Extra7
<1>10. Disjoint(Y1, Cols(Tables7)) /\ Disjoint(Y2, Cols(Tables7))
  BY <1>9, DisjointFrom7
<1>11. /\ "supp_nation" \notin X0 /\ "cust_nation" \notin X1 /\ "supp_nation" \in Y1
            /\ "cust_nation" \in Y2
       /\ "n2_nationkey" \notin X1 /\ "n1_nationkey" \in Y1 /\ "n2_nationkey" \in Y2
            /\ "n1_nationkey" \notin X0
       /\ "n2_nationkey" \notin X0 /\ "n2_nationkey" \notin Y1
  OBVIOUS
<1>12. \A n \in d.nation : /\ \E m \in M1 : m["n1_nationkey"] = n["n_nationkey"]
                           /\ \E m \in M2 : m["n2_nationkey"] = n["n_nationkey"]
  BY SelectedNations
<1>13. SqlColumns7 = X2
  BY DEF SqlColumns7
<1>14. V = {r \in (P \otimes M1) \otimes M2 :
        /\ r.s_suppkey = r.l_suppkey
        /\ r.o_orderkey = r.l_orderkey
        /\ r.c_custkey = r.o_custkey
        /\ r.s_nationkey = r.n1_nationkey
        /\ r.c_nationkey = r.n2_nationkey
        /\ \/ r.supp_nation = "FRANCE" /\ r.cust_nation = "GERMANY"
           \/ r.supp_nation = "GERMANY" /\ r.cust_nation = "FRANCE"
        /\ Between(r.l_shipdate, 19950101, 19961231)}
  BY DEF Sql7
<1> HIDE DEF P, M1, M2, X0, X1, X2, Y1, Y2, U1, U2, V, B1, B2
<1>15. Shows(d, Tables7, X0, P, P)
  BY <1>3, ShowsTable
<1>16. Shows(d, Tables7, X1, U1, B1)
  BY <1>6, <1>7, <1>8, <1>10, <1>11, <1>15, TagShows DEF U1, X1
<1>17. Tells(d, NationName, U1, "s_nationkey", "supp_nation")
  BY <1>6, <1>7, <1>8, <1>10, <1>11, <1>15, TagShows DEF U1
<1>18. Shows(d, Tables7, X2, U2, B2)
  BY <1>6, <1>7, <1>8, <1>10, <1>11, <1>16, TagShows DEF U2, X2
<1>19. Tells(d, NationName, U2, "c_nationkey", "cust_nation")
  BY <1>6, <1>7, <1>8, <1>10, <1>11, <1>16, TagShows DEF U2
<1>20. Tells(d, NationName, U2, "s_nationkey", "supp_nation")
  BY <1>17, MergeExtends, TellsMore DEF U2
<1>21. Lacks(P, "n1_nationkey") /\ Lacks(P, "n2_nationkey")
  <2>1. "n1_nationkey" \notin Cols(Tables7) /\ "n2_nationkey" \notin Cols(Tables7)
    BY <1>10, <1>11 DEF Disjoint
  <2> QED BY <1>11, <1>15, <2>1, ShowsLacks
<1>22. Has(M1, "n1_nationkey") /\ Has(M2, "n2_nationkey") /\ Lacks(M1, "n2_nationkey")
  <2>1. Has(M1, "n1_nationkey") /\ Has(M2, "n2_nationkey")
    BY <1>8 DEF Tags, Tells, Has
  <2>2. \A m \in M1 : DOMAIN m \subseteq Y1
    BY <1>8 DEF Tags
  <2> QED BY <1>11, <2>1, <2>2 DEF Lacks
<1>23. Has(P, "c_nationkey")
  BY <1>5 DEF Has
<1>24. ASSUME NEW x
       PROVE  x \in U2 <=> x \in (P \otimes M1) \otimes M2 /\ x["s_nationkey"] = x["n1_nationkey"]
                           /\ x["c_nationkey"] = x["n2_nationkey"]
  BY <1>7, <1>21, <1>22, <1>23, CrossIsMergeTwice DEF U1, U2
<1>25. ASSUME NEW r
       PROVE  r \in V <=> /\ r \in U2
                          /\ r.s_suppkey = r.l_suppkey
                          /\ r.o_orderkey = r.l_orderkey
                          /\ r.c_custkey = r.o_custkey
                          /\ \/ r.supp_nation = "FRANCE" /\ r.cust_nation = "GERMANY"
                             \/ r.supp_nation = "GERMANY" /\ r.cust_nation = "FRANCE"
                          /\ Between(r.l_shipdate, 19950101, 19961231)
  <2> DEFINE Rest == /\ r.s_suppkey = r.l_suppkey
                     /\ r.o_orderkey = r.l_orderkey
                     /\ r.c_custkey = r.o_custkey
                     /\ \/ r.supp_nation = "FRANCE" /\ r.cust_nation = "GERMANY"
                        \/ r.supp_nation = "GERMANY" /\ r.cust_nation = "FRANCE"
                     /\ Between(r.l_shipdate, 19950101, 19961231)
  <2>1. r \in V <=> r \in (P \otimes M1) \otimes M2 /\ r["s_nationkey"] = r["n1_nationkey"]
                    /\ r["c_nationkey"] = r["n2_nationkey"] /\ Rest
    BY <1>14
  <2> HIDE DEF Rest
  <2>2. r \in V <=> r \in U2 /\ Rest
    BY <1>24, <2>1
  <2> QED BY <2>2 DEF Rest
<1>26. ASSUME NEW z
       PROVE  z \in C <=> /\ z \in B2
                          /\ z.s_suppkey = z.l_suppkey
                          /\ z.o_orderkey = z.l_orderkey
                          /\ z.c_custkey = z.o_custkey
                          /\ Pair7(d, z)
                          /\ Between(z.l_shipdate, 19950101, 19961231)
  <2>1. z \in B2 <=> /\ z \in P /\ (\E m \in M1 : z["s_nationkey"] = m["n1_nationkey"])
                     /\ \E m \in M2 : z["c_nationkey"] = m["n2_nationkey"]
    BY <1>6 DEF Tagged
  <2>2. \A k, v : Says(d, NationName, k, v) => /\ \E m \in M1 : k = m["n1_nationkey"]
                                               /\ \E m \in M2 : k = m["n2_nationkey"]
    <3>1. NationName[1] = "nation" /\ NationName[2] = "n_nationkey"
      BY DEF NationName
    <3> QED BY <1>12, <3>1 DEF Says
  <2>3. Pair7(d, z) => /\ \E m \in M1 : z["s_nationkey"] = m["n1_nationkey"]
                       /\ \E m \in M2 : z["c_nationkey"] = m["n2_nationkey"]
    BY <2>2 DEF Pair7
  <2> QED BY <1>2, <2>1, <2>3, ShippedWanted7
<1>27. \A z \in B2 : Keeps(d, Base7, z)
  BY <1>2, <1>6 DEF Tagged
<1> HIDE DEF C
<1>28. ASSUME NEW u \in U2 PROVE u \in V <=> Part(u, Tables7) \in C
  <2> DEFINE z == Part(u, Tables7)
  <2>1. z \in B2
    BY <1>18 DEF Shows
  <2>2. z["l_shipdate"] = u["l_shipdate"] /\ z["c_nationkey"] = u["c_nationkey"] /\ z["s_nationkey"]
          = u["s_nationkey"]
    BY <1>18, <1>27, DateOfPart7
  <2>3. /\ z["s_suppkey"] = u["s_suppkey"] /\ z["l_suppkey"] = u["l_suppkey"]
        /\ z["o_orderkey"] = u["o_orderkey"] /\ z["l_orderkey"] = u["l_orderkey"]
        /\ z["c_custkey"] = u["c_custkey"] /\ z["o_custkey"] = u["o_custkey"]
    BY <1>18, <1>27, KeysOfPart7
  <2> HIDE DEF z
  <2>4. SaysOne(d, NationName)
    BY SaysOneNation
  <2>5. \A v : u["cust_nation"] = v <=> Says(d, NationName, u["c_nationkey"], v)
    BY <1>19, <2>4 DEF Tells, SaysOne
  <2>6. \A v : u["supp_nation"] = v <=> Says(d, NationName, u["s_nationkey"], v)
    BY <1>20, <2>4 DEF Tells, SaysOne
  <2>7. z \in C <=> /\ u["s_suppkey"] = u["l_suppkey"]
                    /\ u["o_orderkey"] = u["l_orderkey"]
                    /\ u["c_custkey"] = u["o_custkey"]
                    /\ Pair7(d, u)
                    /\ Between(u["l_shipdate"], 19950101, 19961231)
    <3>1. Pair7(d, z) <=> Pair7(d, u)
      BY <2>2 DEF Pair7
    <3> QED BY <1>26, <2>1, <2>2, <2>3, <3>1
  <2>8. Pair7(d, u) <=> \/ u.supp_nation = "FRANCE" /\ u.cust_nation = "GERMANY"
                        \/ u.supp_nation = "GERMANY" /\ u.cust_nation = "FRANCE"
    BY <2>5, <2>6 DEF Pair7
  <2>9. z \in C <=> u \in V
    BY <1>25, <2>7, <2>8
  <2> QED BY <2>9 DEF z
<1>29. (\A v \in V : v \in U2) /\ \A z \in C : z \in B2
  BY <1>25, <1>26
<1>30. Shows(d, Tables7, X2, V, C)
  BY <1>18, <1>28, <1>29, ShowsSome
<1>31. Tells(d, NationName, V, "c_nationkey", "cust_nation")
  BY <1>19, <1>29, TellsSome
<1>32. Tells(d, NationName, V, "s_nationkey", "supp_nation")
  BY <1>20, <1>29, TellsSome
<1> QED BY <1>13, <1>30, <1>31, <1>32 DEF Answers7Rows, V, C

Answer7(V) ==
    Sorted(GroupBy(WithColumns(V, LAMBDA r : [l_year |-> Year(r.l_shipdate)]),
                   {"supp_nation", "cust_nation", "l_year"},
                   LAMBDA g : [revenue |-> Total(g, Revenue)]),
           LAMBDA r : <<Alpha(r.supp_nation), Alpha(r.cust_nation), r.l_year>>)

\* The engine's answer, from its rows.
LEMMA Sql7Is ==
  ASSUME NEW d
  PROVE  Sql!Q7(d) = Answer7(Sql7(d))
<1> DEFINE n1 == Sql!Select(d.nation, [n1_nationkey |-> "n_nationkey", supp_nation |-> "n_name"])
           n2 == Sql!Select(d.nation, [n2_nationkey |-> "n_nationkey", cust_nation |-> "n_name"])
           P == Sql!Cross(Sql!Cross(Sql!Cross(Sql!Cross(Sql!Cross(d.supplier, d.lineitem), d.orders),
             d.customer), n1), n2)
           rows == {r \in P :
                     /\ r.s_suppkey = r.l_suppkey
                     /\ r.o_orderkey = r.l_orderkey
                     /\ r.c_custkey = r.o_custkey
                     /\ r.s_nationkey = r.n1_nationkey
                     /\ r.c_nationkey = r.n2_nationkey
                     /\ \/ r.supp_nation = "FRANCE" /\ r.cust_nation = "GERMANY"
                        \/ r.supp_nation = "GERMANY" /\ r.cust_nation = "FRANCE"
                     /\ Sql!Between(r.l_shipdate, 19950101, 19961231)}
<1>1. Sql!Q7(d) = Answer7(rows)
  BY SMTT(60) DEF Sql!Q7, Sql!\otimes, Answer7, Sorted, Sql!Sorted, Before, Sql!Before, Alpha,
         Sql!Alpha, Cardinality, Sql!Cardinality, GroupBy, Sql!GroupBy, Project, Sql!Project, On,
         Sql!On, Joined, Sql!Joined, Total, Sql!Total, SumFunction, Sql!SumFunction,
         SumFunctionOnSet, Sql!SumFunctionOnSet, FoldFunctionOnSet, Sql!FoldFunctionOnSet,
         MapThenFoldSet, Sql!MapThenFoldSet, WithColumns, Sql!WithColumns, Year, Sql!Year, Revenue,
         Sql!Revenue
<1>2. n1 = Sellers7(d) /\ n2 = Buyers7(d)
  BY SMT DEF Sellers7, Buyers7, Select, Sql!Select
<1> HIDE DEF n1, n2
<1>3. \A R, S : Sql!Cross(R, S) = R \otimes S
  BY SMT DEF \otimes, Cross, Joined, Sql!Cross, Sql!Joined
<1>4. P = d.supplier \otimes d.lineitem \otimes d.orders \otimes d.customer \otimes Sellers7(d)
        \otimes Buyers7(d)
  BY <1>2, <1>3, SMT
<1> HIDE DEF P
<1>5. rows = Sql7(d)
  BY <1>4, SMT DEF Sql7, Between, Sql!Between
<1> HIDE DEF rows
<1> QED BY <1>1, <1>5, Zenon

\* The engine's answer, from its rows.
LEMMA Polars7Is ==
  ASSUME NEW d
  PROVE  Polars!Q7(d) = Answer7(Polars7(d))
<1> DEFINE nations == {n \in d.nation : n.n_name \in {"FRANCE", "GERMANY"}}
           customers == Polars!Rename(Polars!Merge(d.customer, nations, <<"c_nationkey">>,
             <<"n_nationkey">>),
                            "n_name", "cust_nation")
           lines == Polars!Merge(Polars!Merge(customers, d.orders, <<"c_custkey">>,
             <<"o_custkey">>),
                       d.lineitem, <<"o_orderkey">>, <<"l_orderkey">>)
           suppliers == Polars!Merge(lines, d.supplier, <<"l_suppkey">>, <<"s_suppkey">>)
           shipped == Polars!Rename(Polars!Merge(suppliers, nations, <<"s_nationkey">>,
             <<"n_nationkey">>),
                              "n_name", "supp_nation")
           rows == {r \in shipped :
                    /\ \/ r.cust_nation = "FRANCE" /\ r.supp_nation = "GERMANY"
                       \/ r.cust_nation = "GERMANY" /\ r.supp_nation = "FRANCE"
                    /\ Polars!Between(r.l_shipdate, 19950101, 19961231)}
<1>1. Polars!Q7(d) = Answer7(rows)
  BY SMTT(60) DEF Polars!Q7, Answer7, Sorted, Polars!Sorted, Before, Polars!Before, Alpha,
         Polars!Alpha, Cardinality, Polars!Cardinality, GroupBy, Polars!GroupBy, Project,
         Polars!Project, On, Polars!On, Joined, Polars!Joined, Total, Polars!Total, SumFunction,
         Polars!SumFunction, SumFunctionOnSet, Polars!SumFunctionOnSet, FoldFunctionOnSet,
         Polars!FoldFunctionOnSet, MapThenFoldSet, Polars!MapThenFoldSet, WithColumns,
         Polars!WithColumns, Year, Polars!Year, Revenue, Polars!Revenue
<1>2. nations = Nations7(d)
  BY DEF Nations7
<1> HIDE DEF nations
<1>3. shipped = Shipped7(d, nations, nations)
  <2>1. \A R, O, lk, rk : Polars!Merge(R, O, lk, rk) = Merge(R, O, lk, rk)
    BY SMT DEF Merge, Polars!Merge, Match, Polars!Match, Joined, Polars!Joined
  <2>2. \A R, old, new : Polars!Rename(R, old, new) = Rename(R, old, new)
    BY SMT DEF Rename, Polars!Rename, Joined, Polars!Joined, On, Polars!On
  <2> QED BY <2>1, <2>2, Zenon DEF Shipped7, Suppliers7, Customers7, MergeOn
<1> HIDE DEF shipped
<1>4. rows = Polars7(d)
  BY <1>2, <1>3, SMT DEF Polars7, Between, Polars!Between
<1> HIDE DEF rows
<1> QED BY <1>1, <1>4, Zenon

\* pandas renames after a further join, polars before it.
LEMMA RenameLater7 ==
  ASSUME NEW d, Fits(d, Reads[7]), NEW A, \A m \in A : m \in d["nation"]
  PROVE  Rename(MergeOn(MergeOn(d.customer, A, "c_nationkey", "n_nationkey"), d.orders, "c_custkey",
           "o_custkey"),
                "n_name", "cust_nation")
         = MergeOn(Customers7(d, A), d.orders, "c_custkey", "o_custkey")
<1> DEFINE U == MergeOn(d.customer, A, "c_nationkey", "n_nationkey")
<1>1. /\ "customer" \in DOMAIN Reads[7] /\ "orders" \in DOMAIN Reads[7]
           /\ "nation" \in DOMAIN Reads[7]
      /\ "c_custkey" \in Reads[7]["customer"] /\ "n_name" \in Reads[7]["nation"]
  BY DEF Reads
<1>2. /\ \A r \in d["customer"] : DOMAIN r \subseteq Columns["customer"] /\ "c_custkey" \in DOMAIN r
      /\ \A r \in d["orders"] : DOMAIN r \subseteq Columns["orders"]
      /\ \A r \in A : DOMAIN r \subseteq Columns["nation"] /\ "n_name" \in DOMAIN r
  BY <1>1 DEF Fits
<1>3. /\ "cust_nation" \notin Columns["customer"] /\ "cust_nation" \notin Columns["orders"]
      /\ "cust_nation" \notin Columns["nation"] /\ "n_name" \notin Columns["orders"]
  BY DEF Columns
<1>4. Has(d.customer, "c_custkey") /\ Has(A, "n_name") /\ Lacks(d.orders, "n_name")
        /\ Lacks(d.orders, "cust_nation")
  BY <1>2, <1>3 DEF Has, Lacks
<1>5. Has(U, "c_custkey") /\ Has(U, "n_name")
  BY <1>4, HasOfMerge
<1>6. ASSUME NEW u \in U PROVE IsFcn(u) /\ "cust_nation" \notin DOMAIN u
  <2>1. PICK c \in d.customer, m \in A : u = Joined(c, m)
    BY InMerge DEF MergeOn
  <2>2. IsFcn(u) /\ DOMAIN u = DOMAIN c \cup DOMAIN m
    BY <2>1, JoinedIs
  <2> QED BY <1>2, <1>3, <2>2
<1>7. \A u \in U : IsFcn(u)
  BY <1>6
<1>8. Lacks(U, "cust_nation")
  BY <1>6 DEF Lacks
<1> HIDE DEF U
<1>9. "c_custkey" # "n_name"
  OBVIOUS
<1>10. Rename(MergeOn(U, d.orders, "c_custkey", "o_custkey"), "n_name", "cust_nation")
         = MergeOn(Rename(U, "n_name", "cust_nation"), d.orders, "c_custkey", "o_custkey")
  BY <1>4, <1>5, <1>7, <1>8, <1>9, RenameOfMerge
<1> QED BY <1>10 DEF U, Customers7

\* The engine's answer, from its rows.
LEMMA Pandas7Is ==
  ASSUME NEW d, Fits(d, Reads[7])
  PROVE  Pandas!Q7(d) = Answer7(Pandas7(d))
<1> DEFINE named(name) == {n \in d.nation : n.n_name = name}
           part(A, S) == LET jn1 == Pandas!Merge(d.customer, A, <<"c_nationkey">>,
             <<"n_nationkey">>)
                jn2 == Pandas!Rename(Pandas!Merge(jn1, d.orders, <<"c_custkey">>, <<"o_custkey">>),
                              "n_name", "cust_nation")
                jn3 == Pandas!Merge(jn2, d.lineitem, <<"o_orderkey">>, <<"l_orderkey">>)
                jn4 == Pandas!Merge(jn3, d.supplier, <<"l_suppkey">>, <<"s_suppkey">>)
                jn5 == Pandas!Merge(jn4, S, <<"s_nationkey">>, <<"n_nationkey">>)
            IN  Pandas!Rename(jn5, "n_name", "supp_nation")
           F == named("FRANCE")
           G == named("GERMANY")
           total == {r \in part(F, G) \cup part(G, F) :
                     r.l_shipdate >= 19950101 /\ r.l_shipdate <= 19961231}
<1>1. Pandas!Q7(d) = Answer7(total)
  BY SMTT(60) DEF Pandas!Q7, Answer7, Sorted, Pandas!Sorted, Before, Pandas!Before, Alpha,
         Pandas!Alpha, Cardinality, Pandas!Cardinality, GroupBy, Pandas!GroupBy, Project,
         Pandas!Project, On, Pandas!On, Joined, Pandas!Joined, Total, Pandas!Total, SumFunction,
         Pandas!SumFunction, SumFunctionOnSet, Pandas!SumFunctionOnSet, FoldFunctionOnSet,
         Pandas!FoldFunctionOnSet, MapThenFoldSet, Pandas!MapThenFoldSet, WithColumns,
         Pandas!WithColumns, Year, Pandas!Year, Revenue, Pandas!Revenue
<1>2. F = Named7(d, "FRANCE") /\ G = Named7(d, "GERMANY")
  BY DEF Named7
<1>3. (\A m \in F : m \in d["nation"]) /\ (\A m \in G : m \in d["nation"])
  BY <1>2 DEF Named7
<1> HIDE DEF F, G
<1>4. ASSUME NEW A, \A m \in A : m \in d["nation"], NEW S
      PROVE  part(A, S) = Shipped7(d, A, S)
  <2>1. \A R, O, lk, rk : Pandas!Merge(R, O, lk, rk) = Merge(R, O, lk, rk)
    BY SMT DEF Merge, Pandas!Merge, Match, Pandas!Match, Joined, Pandas!Joined
  <2>2. \A R, old, new : Pandas!Rename(R, old, new) = Rename(R, old, new)
    BY SMT DEF Rename, Pandas!Rename, Joined, Pandas!Joined, On, Pandas!On
  <2> QED BY <1>4, <2>1, <2>2, RenameLater7 DEF Shipped7, Suppliers7, MergeOn
<1> HIDE DEF part
<1>5. part(F, G) = Shipped7(d, F, G) /\ part(G, F) = Shipped7(d, G, F)
  BY <1>3, <1>4
<1>6. total = Pandas7(d)
  BY <1>2, <1>5, SMT DEF Pandas7, Halves7
<1> HIDE DEF total
<1> QED BY <1>1, <1>6, Zenon

(* What every engine makes of its rows: the answer over the lineitems wanted. *)
OfGroups7(G) ==
    Sorted(G, LAMBDA r : <<Alpha(r.supp_nation), Alpha(r.cust_nation), r.l_year>>)

\* A row of one column.
LEMMA AYear7 ==
  ASSUME NEW x
  PROVE  [l_year |-> x] = [c \in {"l_year"} |-> x]
BY SMT

\* The answer depends on the groups alone.
LEMMA Answer7Is ==
  ASSUME NEW d, Sound(d, Reads[7]), NationsDiffer(d),
         NEW X, "l_year" \notin X, NEW V, Answers7Rows(d, X, V)
  PROVE  Answer7(V) = OfGroups7(Groups7(d))
<1> DEFINE W == WithYear(V, "l_year", "l_shipdate")
           Y == X \cup {"l_year"}
<1>1. Has(V, "l_shipdate")
  <2>1. \A z \in Wanted7(d) : Keeps(d, Base7, z)
    BY Columns7Are
  <2>2. Fits(d, Reads[7])
    BY DEF Sound
  <2> QED BY <2>1, <2>2, DateOfPart7 DEF Answers7Rows, Has
<1>2. "l_year" \notin Cols(Tables7)
  BY ExtraIsApart7 DEF Extra7
<1>3. Shows(d, Tables7, X, V, Wanted7(d))
  BY DEF Answers7Rows
<1> HIDE DEF Y, W
<1>4. ExtendAll(W, V)
  BY <1>1, <1>2, <1>3, ShowsYear DEF W
<1>5. Shows(d, Tables7, Y, W, Wanted7(d))
  BY <1>1, <1>2, <1>3, ShowsYear DEF W, Y
<1>6. ASSUME NEW w \in W PROVE "l_year" \in DOMAIN w /\ w["l_year"] = Year(w["l_shipdate"])
  <2>1. PICK u \in V : w = YearAdded(u, "l_year", "l_shipdate")
    BY Zenon DEF W, WithYear
  <2>2. IsFcn(u) /\ "l_year" \notin DOMAIN u /\ "l_shipdate" \in DOMAIN u
    <3>1. IsFcn(u) /\ DOMAIN u \subseteq Cols(Tables7) \cup X
      BY <1>3 DEF Shows
    <3> QED BY <1>1, <1>2, <3>1 DEF Has
  <2>3. DOMAIN w = DOMAIN u \cup {"l_year"} /\ w["l_year"] = Year(u["l_shipdate"])
          /\ w["l_shipdate"] = u["l_shipdate"]
    BY <2>1, <2>2 DEF YearAdded, Joined
  <2> QED BY <2>3
<1>7. Answers7Rows(d, Y, W)
  <2>1. Tells(d, NationName, W, "c_nationkey", "cust_nation")
    BY <1>4, TellsMore DEF Answers7Rows
  <2>2. Tells(d, NationName, W, "s_nationkey", "supp_nation")
    BY <1>4, TellsMore DEF Answers7Rows
  <2> QED BY <1>5, <2>1, <2>2 DEF Answers7Rows
<1>8. GroupBy(W, Key7, Revenues) = Groups7(d)
  BY <1>6, <1>7, Groups7Are
<1>9. WithColumns(V, LAMBDA r : [l_year |-> Year(r.l_shipdate)]) = W
  <2> DEFINE L == WithColumns(V, LAMBDA r : [l_year |-> Year(r.l_shipdate)])
  <2>1. ASSUME NEW r PROVE Joined([l_year |-> Year(r.l_shipdate)], r)
                 = YearAdded(r, "l_year", "l_shipdate")
    <3> DEFINE y == Year(r["l_shipdate"])
    <3>1. Year(r.l_shipdate) = y /\ YearAdded(r, "l_year", "l_shipdate")
            = Joined([c \in {"l_year"} |-> y], r)
      BY SMT DEF YearAdded
    <3> HIDE DEF y
    <3> QED BY <3>1, AYear7, Zenon
  <2>2. \A w : w \in L <=> \E r \in V : w = Joined([l_year |-> Year(r.l_shipdate)], r)
    BY Zenon DEF WithColumns
  <2>3. \A w : w \in W <=> \E r \in V : w = YearAdded(r, "l_year", "l_shipdate")
    BY Zenon DEF W, WithYear
  <2> HIDE DEF L
  <2>4. \A w : w \in L <=> w \in W
    <3> DEFINE add(r) == Joined([l_year |-> Year(r.l_shipdate)], r)
               added(r) == YearAdded(r, "l_year", "l_shipdate")
    <3>1. \A r : add(r) = added(r)
      BY <2>1
    <3>2. \A w : w \in L <=> \E r \in V : w = add(r)
      BY <2>2
    <3>3. \A w : w \in W <=> \E r \in V : w = added(r)
      BY <2>3
    <3> HIDE DEF add, added
    <3> QED BY <3>1, <3>2, <3>3
  <2>5. L = W
    BY <2>4
  <2> QED BY <2>5, Zenon DEF L
<1>10. GroupBy(W, {"supp_nation", "cust_nation", "l_year"}, LAMBDA g :
         [revenue |-> Total(g, Revenue)])
       = GroupBy(W, Key7, Revenues)
  BY SMT DEF GroupBy, Key7, Revenues
<1>11. Answer7(V) = OfGroups7(GroupBy(W, Key7, Revenues))
  BY <1>9, <1>10, Zenon DEF Answer7, OfGroups7
<1> QED BY <1>8, <1>11, Zenon

\* The three engines answer q7 alike.
LEMMA Answers7 ==
  ASSUME NEW d, Sound(d, Reads[7]), Fits(d, Reads[7]), NationsDiffer(d)
  PROVE  Polars!Q7(d) = Sql!Q7(d) /\ Pandas!Q7(d) = Sql!Q7(d)
<1>1. "l_year" \notin Columns7 /\ "l_year" \notin SqlColumns7
  BY DEF Columns7, SqlColumns7, Columns
<1>2. Answer7(Sql7(d)) = OfGroups7(Groups7(d))
  BY <1>1, Sql7Rows, Answer7Is
<1>3. Answer7(Polars7(d)) = OfGroups7(Groups7(d))
  BY <1>1, Polars7Rows, Answer7Is
<1>4. Answer7(Pandas7(d)) = OfGroups7(Groups7(d))
  BY <1>1, Pandas7Rows, Answer7Is
<1> QED BY <1>2, <1>3, <1>4, Sql7Is, Polars7Is, Pandas7Is, Zenon

\* The columns that q8 reads.
LEMMA Reads8 ==
  /\ DOMAIN Some(Reads[8], {"part", "lineitem", "supplier", "orders", "customer"})
       = {"part", "lineitem", "supplier", "orders", "customer"}
  /\ "p_partkey" \in Some(Reads[8], {"part", "lineitem", "supplier", "orders", "customer"})["part"]
       /\ "p_type" \in Some(Reads[8], {"part", "lineitem", "supplier", "orders",
       "customer"})["part"]
  /\ "l_orderkey" \in Some(Reads[8], {"part", "lineitem", "supplier", "orders",
       "customer"})["lineitem"] /\ "l_partkey" \in Some(Reads[8],
       {"part", "lineitem", "supplier", "orders", "customer"})["lineitem"]
       /\ "l_suppkey" \in Some(Reads[8], {"part", "lineitem", "supplier", "orders",
       "customer"})["lineitem"] /\ "l_extendedprice" \in Some(Reads[8],
       {"part", "lineitem", "supplier", "orders", "customer"})["lineitem"]
       /\ "l_discount" \in Some(Reads[8], {"part", "lineitem", "supplier", "orders",
       "customer"})["lineitem"]
  /\ "s_suppkey" \in Some(Reads[8], {"part", "lineitem", "supplier", "orders",
       "customer"})["supplier"] /\ "s_nationkey" \in Some(Reads[8],
       {"part", "lineitem", "supplier", "orders", "customer"})["supplier"]
  /\ "o_orderkey" \in Some(Reads[8], {"part", "lineitem", "supplier", "orders",
       "customer"})["orders"] /\ "o_custkey" \in Some(Reads[8],
       {"part", "lineitem", "supplier", "orders", "customer"})["orders"]
       /\ "o_orderdate" \in Some(Reads[8], {"part", "lineitem", "supplier", "orders",
       "customer"})["orders"]
  /\ "c_custkey" \in Some(Reads[8], {"part", "lineitem", "supplier", "orders",
       "customer"})["customer"] /\ "c_nationkey" \in Some(Reads[8],
       {"part", "lineitem", "supplier", "orders", "customer"})["customer"]
BY DEF Reads, Some

\* The rows of the product that the SQL of q8 selects from.
LEMMA Product8 ==
  ASSUME NEW d, NEW N, N = Some(Reads[8], {"part", "lineitem", "supplier", "orders", "customer"}),
           Fits(d, N), NEW x
  PROVE  x \in d.part \otimes d.supplier \otimes d.lineitem \otimes d.orders \otimes d.customer
           <=> Keeps(d, N, x)
<1>N. DOMAIN N = {"part", "lineitem", "supplier", "orders", "customer"}
  BY Reads8
<1> DEFINE T1 == {"part"}
           T2 == T1 \cup {"supplier"}
           T3 == T2 \cup {"lineitem"}
           T4 == T3 \cup {"orders"}
           T5 == T4 \cup {"customer"}
<1>1. Whole(d, N, T1, d.part)
  BY <1>N, WholeTable
<1>2. Whole(d, N, T2, d.part \otimes d.supplier)
  BY <1>N, <1>1, WholeProduct
<1>3. Whole(d, N, T3, d.part \otimes d.supplier \otimes d.lineitem)
  BY <1>N, <1>2, WholeProduct
<1>4. Whole(d, N, T4, d.part \otimes d.supplier \otimes d.lineitem \otimes d.orders)
  BY <1>N, <1>3, WholeProduct
<1>5. Whole(d, N, T5, d.part \otimes d.supplier \otimes d.lineitem \otimes d.orders
        \otimes d.customer)
  BY <1>N, <1>4, WholeProduct
<1>6. Among(DOMAIN N, T5)
  BY <1>N DEF Among
<1> QED BY <1>5, <1>6, KeptInWhole

Frame8(d) ==
    LET lines == MergeOn(d.part, d.lineitem, "p_partkey", "l_partkey")
        suppliers == MergeOn(lines, d.supplier, "l_suppkey", "s_suppkey")
        placed == MergeOn(suppliers, d.orders, "l_orderkey", "o_orderkey")
    IN  MergeOn(placed, d.customer, "o_custkey", "c_custkey")

\* The rows of the joins of q8, in terms of the tables.
LEMMA InFrame8 ==
  ASSUME NEW d, NEW N, N = Some(Reads[8], {"part", "lineitem", "supplier", "orders", "customer"}),
           Fits(d, N), NEW x
  PROVE  /\ x \in Frame8(d) =>
             /\ Keeps(d, N, x)
             /\ x.p_partkey = x.l_partkey
             /\ x.l_suppkey = x.s_suppkey
             /\ x.l_orderkey = x.o_orderkey
             /\ x.o_custkey = x.c_custkey
         /\ /\ Keeps(d, N, x)
            /\ x.p_partkey = x.l_partkey
            /\ x.l_suppkey = x.s_suppkey
            /\ x.l_orderkey = x.o_orderkey
            /\ x.o_custkey = x.c_custkey
            => x \in Frame8(d)
<1>N. DOMAIN N = {"part", "lineitem", "supplier", "orders", "customer"}
  BY Reads8
<1>C. /\ "p_partkey" \in N["part"]
      /\ "l_partkey" \in N["lineitem"]
      /\ "l_suppkey" \in N["lineitem"]
      /\ "s_suppkey" \in N["supplier"]
      /\ "l_orderkey" \in N["lineitem"]
      /\ "o_orderkey" \in N["orders"]
      /\ "o_custkey" \in N["orders"]
      /\ "c_custkey" \in N["customer"]
  BY Reads8
<1> DEFINE V1 == {"part"}
           V2 == V1 \cup {"lineitem"}
           V3 == V2 \cup {"supplier"}
           V4 == V3 \cup {"orders"}
           V5 == V4 \cup {"customer"}
           lines == MergeOn(d.part, d.lineitem, "p_partkey", "l_partkey")
           suppliers == MergeOn(lines, d.supplier, "l_suppkey", "s_suppkey")
           placed == MergeOn(suppliers, d.orders, "l_orderkey", "o_orderkey")
           all == MergeOn(placed, d.customer, "o_custkey", "c_custkey")
<1>10. Joins(d, N, V1, d.part, {"lineitem"}, d.lineitem, "p_partkey", "l_partkey")
  BY <1>N, <1>C, FrameTable DEF Joins, Apart, Names
<1>11. Joins(d, N, V2, lines, {"supplier"}, d.supplier, "l_suppkey", "s_suppkey")
  BY <1>N, <1>C, <1>10, FrameMerge, FrameTable DEF Joins, Apart, Names
<1>12. Joins(d, N, V3, suppliers, {"orders"}, d.orders, "l_orderkey", "o_orderkey")
  BY <1>N, <1>C, <1>11, FrameMerge, FrameTable DEF Joins, Apart, Names
<1>13. Joins(d, N, V4, placed, {"customer"}, d.customer, "o_custkey", "c_custkey")
  BY <1>N, <1>C, <1>12, FrameMerge, FrameTable DEF Joins, Apart, Names
<1>14. Frame(d, N, V5, all)
  BY <1>13, FrameMerge
<1>20. ASSUME Keeps(d, N, x)
      PROVE  Part(x, V5) \in all <=>
                /\ x.p_partkey = x.l_partkey
                /\ x.l_suppkey = x.s_suppkey
                /\ x.l_orderkey = x.o_orderkey
                /\ x.o_custkey = x.c_custkey
  <2>1. /\ Part(x, {"part"}) \in d.part
        /\ Part(x, {"lineitem"}) \in d.lineitem
        /\ Part(x, {"supplier"}) \in d.supplier
        /\ Part(x, {"orders"}) \in d.orders
        /\ Part(x, {"customer"}) \in d.customer
    BY <1>20, <1>N, KeptInTable
  <2>2. Part(x, V2) \in lines <=> Part(x, V1) \in d.part /\ Part(x, {"lineitem"}) \in d.lineitem
          /\ x.p_partkey = x.l_partkey
    BY <1>20, <1>10, KeptByMerge
  <2>3. Part(x, V3) \in suppliers <=> Part(x, V2) \in lines /\ Part(x, {"supplier"}) \in d.supplier
          /\ x.l_suppkey = x.s_suppkey
    BY <1>20, <1>11, KeptByMerge
  <2>4. Part(x, V4) \in placed <=> Part(x, V3) \in suppliers /\ Part(x, {"orders"}) \in d.orders
          /\ x.l_orderkey = x.o_orderkey
    BY <1>20, <1>12, KeptByMerge
  <2>5. Part(x, V5) \in all <=> Part(x, V4) \in placed /\ Part(x, {"customer"}) \in d.customer
          /\ x.o_custkey = x.c_custkey
    BY <1>20, <1>13, KeptByMerge
  <2> HIDE DEF V2, V3, V4, V5, lines, suppliers, placed, all
  <2> QED BY <2>1, <2>2, <2>3, <2>4, <2>5
<1>21. (\A y \in all : Keeps(d, N, y)) /\ (Keeps(d, N, x) => Part(x, V5) = x)
  <2>1. Among(DOMAIN N, V5)
    BY <1>N DEF Among
  <2> HIDE DEF V2, V3, V4, V5, lines, suppliers, placed, all
  <2> QED BY <1>14, <2>1, KeptInAll
<1>22. Frame8(d) = all
  BY DEF Frame8
<1> HIDE DEF V1, V2, V3, V4, V5, lines, suppliers, placed, all
<1> QED BY <1>20, <1>21, <1>22

-----------------------------------------------------------------------------
(* q8: the lineitems of America's customers, and the nations they come from. *)

RegionsDiffer(d) == \A m, n \in d.region : m["r_regionkey"] = n["r_regionkey"] => m = n

RegionOf == <<"nation", "n_nationkey", "n_regionkey">>

RegionName == <<"region", "r_regionkey", "r_name">>

Base8 == Some(Reads[8], {"part", "lineitem", "supplier", "orders", "customer"})

Tables8 == {"part", "lineitem", "supplier", "orders", "customer"}

Extra8 == Columns["nation"] \cup Columns["region"] \cup {"n1_nationkey", "n2_nationkey", "nation",
  "o_year"}

\* A nation has one name and one region, since its key is unique.
LEMMA SaysOneRegion ==
  ASSUME NEW d, NationsDiffer(d), RegionsDiffer(d)
  PROVE  SaysOne(d, RegionOf) /\ SaysOne(d, RegionName)
<1>1. RegionOf[1] = "nation" /\ RegionOf[2] = "n_nationkey"
  BY DEF RegionOf
<1>2. RegionName[1] = "region" /\ RegionName[2] = "r_regionkey"
  BY DEF RegionName
<1>3. SaysOne(d, RegionOf)
  BY <1>1 DEF NationsDiffer, SaysOne, Says
<1>4. SaysOne(d, RegionName)
  BY <1>2 DEF RegionsDiffer, SaysOne, Says
<1> QED BY <1>3, <1>4

\* The added columns are no table's.
LEMMA ExtraIsApart8 == Extra8 \cap Cols(Tables8) = {}
<1>1. Cols(Tables8) = Columns["part"] \cup Columns["lineitem"] \cup Columns["supplier"] \cup Columns["orders"] \cup Columns["customer"]
  BY DEF Cols, Tables8
<1>2. ASSUME NEW t \in Tables8 PROVE Extra8 \cap Columns[t] = {}
  BY DEF Extra8, Columns, Tables8
<1> QED BY <1>1, <1>2 DEF Tables8

\* So are some of them.
LEMMA DisjointFrom8 ==
  ASSUME NEW X, X \subseteq Extra8
  PROVE  Disjoint(X, Cols(Tables8))
BY ExtraIsApart8 DEF Disjoint

\* The tables that are joined have their columns.
LEMMA Fits8 ==
  ASSUME NEW d, Fits(d, Reads[8])
  PROVE  Fits(d, Base8) /\ DOMAIN Base8 = Tables8
<1>1. DOMAIN Base8 = Tables8
  BY DEF Base8, Tables8, Some
<1>2. \A t \in Tables8 : t \in DOMAIN Reads[8] /\ Base8[t] = Reads[8][t]
  BY DEF Base8, Tables8, Some, Reads
<1> QED BY <1>1, <1>2 DEF Fits

American(d, k) == \E v : Says(d, RegionOf, k, v) /\ Says(d, RegionName, v, "AMERICA")

Known8(d, k) == \E v, n : Says(d, RegionOf, k, v) /\ Says(d, RegionName, v, n)

HasName8(d, k) == \E v : Says(d, NationName, k, v)

Wanted8(d) ==
    {z \in d.part \otimes d.supplier \otimes d.lineitem \otimes d.orders \otimes d.customer :
        /\ z.p_partkey = z.l_partkey
        /\ z.s_suppkey = z.l_suppkey
        /\ z.l_orderkey = z.o_orderkey
        /\ z.o_custkey = z.c_custkey
        /\ American(d, z["c_nationkey"])
        /\ HasName8(d, z["s_nationkey"])
        /\ Between(z.o_orderdate, 19950101, 19961231)
        /\ z.p_type = <<"ECONOMY", "ANODIZED", "STEEL">>}

Joined8(z) ==
    /\ z.p_partkey = z.l_partkey
    /\ z.s_suppkey = z.l_suppkey
    /\ z.l_orderkey = z.o_orderkey
    /\ z.o_custkey = z.c_custkey

Asked8(z) ==
    /\ Between(z.o_orderdate, 19950101, 19961231)
    /\ z.p_type = <<"ECONOMY", "ANODIZED", "STEEL">>

\* The wanted rows.
LEMMA InWanted8 ==
  ASSUME NEW d, Fits(d, Reads[8]), NEW z
  PROVE  z \in Wanted8(d) <=>
            /\ Keeps(d, Base8, z)
            /\ Joined8(z)
            /\ American(d, z["c_nationkey"])
            /\ HasName8(d, z["s_nationkey"])
            /\ Asked8(z)
<1>1. Fits(d, Base8)
  BY Fits8
<1>2. z \in d.part \otimes d.supplier \otimes d.lineitem \otimes d.orders \otimes d.customer
        <=> Keeps(d, Base8, z)
  BY <1>1, Product8 DEF Base8
<1> QED BY <1>2 DEF Wanted8, Joined8, Asked8

(* The columns that the tables of q8 give to a row, as the row shows them.  *)
LEMMA PartOf8 ==
  ASSUME NEW d, NEW X, NEW U, NEW B, Shows(d, Tables8, X, U, B), Fits(d, Reads[8]),
         \A z \in B : Keeps(d, Base8, z), NEW u \in U
  PROVE  /\ Joined8(Part(u, Tables8)) <=> Joined8(u)
         /\ Asked8(Part(u, Tables8)) <=> Asked8(u)
         /\ Part(u, Tables8)["c_nationkey"] = u["c_nationkey"]
         /\ Part(u, Tables8)["s_nationkey"] = u["s_nationkey"]
         /\ "o_orderdate" \in DOMAIN u
<1> DEFINE z == Part(u, Tables8)
<1>1. /\ "part" \in DOMAIN Base8 /\ "lineitem" \in DOMAIN Base8 /\ "customer" \in DOMAIN Base8
      /\ "supplier" \in DOMAIN Base8 /\ "orders" \in DOMAIN Base8
      /\ "p_partkey" \in Base8["part"] /\ "p_type" \in Base8["part"]
      /\ "s_suppkey" \in Base8["supplier"] /\ "s_nationkey" \in Base8["supplier"]
      /\ "l_suppkey" \in Base8["lineitem"] /\ "l_partkey" \in Base8["lineitem"]
      /\ "o_orderkey" \in Base8["orders"] /\ "l_orderkey" \in Base8["lineitem"]
      /\ "o_orderdate" \in Base8["orders"]
      /\ "c_custkey" \in Base8["customer"] /\ "o_custkey" \in Base8["orders"]
      /\ "c_nationkey" \in Base8["customer"]
  BY Reads8 DEF Base8
<1>2. Keeps(d, Base8, z)
  BY DEF Shows
<1>3. \A c \in DOMAIN z : z[c] = u[c] /\ c \in DOMAIN u
  BY PartIs
<1> HIDE DEF z
<1>4. ASSUME NEW t \in DOMAIN Base8, NEW c \in Base8[t] PROVE z[c] = u[c] /\ c \in DOMAIN u
  <2>1. c \in DOMAIN z
    BY <1>2, ColumnOfTable
  <2> QED BY <1>3, <2>1
<1>5. Joined8(z) <=> Joined8(u)
  BY <1>1, <1>4 DEF Joined8
<1>6. Asked8(z) <=> Asked8(u)
  <2>1. z["o_orderdate"] = u["o_orderdate"] /\ z["p_type"] = u["p_type"]
    BY <1>1, <1>4
  <2> QED BY <2>1 DEF Asked8
<1> QED BY <1>1, <1>4, <1>5, <1>6 DEF z

Answers8Rows(d, X, W, col) ==
    /\ Shows(d, Tables8, X, W, Wanted8(d))
    /\ Tells(d, NationName, W, "s_nationkey", col)

(* The rows of America among those that show their nations and regions.     *)
LEMMA Rows8Are ==
  ASSUME NEW d, Fits(d, Reads[8]), NationsDiffer(d), RegionsDiffer(d),
         NEW X, NEW U, NEW B, Shows(d, Tables8, X, U, B), \A z \in B : Keeps(d, Base8, z),
         Tells(d, RegionOf, U, "c_nationkey", "n_regionkey"),
         Tells(d, RegionName, U, "n_regionkey", "r_name"),
         NEW col, Tells(d, NationName, U, "s_nationkey", col),
         \A z \in Wanted8(d) : z \in B,
         NEW V, \A v : v \in V <=> v \in U /\ Joined8(v) /\ v["r_name"] = "AMERICA" /\ Asked8(v)
  PROVE  Answers8Rows(d, X, V, col)
<1>1. SaysOne(d, RegionOf) /\ SaysOne(d, RegionName)
  BY SaysOneRegion
<1>2. ASSUME NEW u \in U PROVE u \in V <=> Part(u, Tables8) \in Wanted8(d)
  <2> DEFINE z == Part(u, Tables8)
  <2>1. Keeps(d, Base8, z)
    BY DEF Shows
  <2>2. (Joined8(z) <=> Joined8(u)) /\ (Asked8(z) <=> Asked8(u))
    BY PartOf8
  <2>3. z["c_nationkey"] = u["c_nationkey"]
    BY PartOf8
  <2>4. z["s_nationkey"] = u["s_nationkey"]
    BY PartOf8
  <2> HIDE DEF z
  <2>5. HasName8(d, z["s_nationkey"])
    BY <2>4 DEF Tells, HasName8
  <2>6. /\ Says(d, RegionOf, u["c_nationkey"], u["n_regionkey"])
        /\ Says(d, RegionName, u["n_regionkey"], u["r_name"])
    BY DEF Tells
  <2>7. American(d, z["c_nationkey"]) <=> u["r_name"] = "AMERICA"
    BY <1>1, <2>3, <2>6 DEF American, SaysOne
  <2>8. z \in Wanted8(d) <=> u \in V
    BY <2>1, <2>2, <2>5, <2>7, InWanted8
  <2> QED BY <2>8 DEF z
<1>3. \A v \in V : v \in U
  OBVIOUS
<1>4. Shows(d, Tables8, X, V, Wanted8(d))
  BY <1>2, <1>3, ShowsSome
<1>5. Tells(d, NationName, V, "s_nationkey", col)
  BY <1>3, TellsSome
<1> QED BY <1>4, <1>5 DEF Answers8Rows

(* The region of the nation that the rows show.                            *)
InRegion8(d, B) == {z \in B : Known8(d, z["c_nationkey"])}

\* The join with the region keeps a showing and tells its name.
LEMMA RegionShows ==
  ASSUME NEW d, Fits(d, Reads[8]), NationsDiffer(d), RegionsDiffer(d),
         NEW X, NEW U, NEW B, Shows(d, Tables8, X, U, B), \A z \in B : Keeps(d, Base8, z),
         Tells(d, RegionOf, U, "c_nationkey", "n_regionkey"), "r_name" \notin X
  PROVE  /\ Shows(d, Tables8, X \cup Columns["region"], MergeOn(U, d.region, "n_regionkey", "r_regionkey"), InRegion8(d, B))
         /\ Tells(d, RegionName, MergeOn(U, d.region, "n_regionkey", "r_regionkey"), "n_regionkey",
              "r_name")
         /\ ExtendAll(MergeOn(U, d.region, "n_regionkey", "r_regionkey"), U)
<1> DEFINE Y == Columns["region"]
           C == InRegion8(d, B)
<1>1. SaysOne(d, RegionOf) /\ SaysOne(d, RegionName)
  BY SaysOneRegion
<1>2. /\ "region" \in DOMAIN Reads[8] /\ "r_regionkey" \in Reads[8]["region"]
           /\ "r_name" \in Reads[8]["region"]
  BY DEF Reads
<1>3. \A m \in d["region"] : DOMAIN m \subseteq Y /\ "r_regionkey" \in DOMAIN m
        /\ "r_name" \in DOMAIN m
  BY <1>2 DEF Fits
<1>4. RegionName[1] = "region" /\ RegionName[2] = "r_regionkey" /\ RegionName[3] = "r_name"
  BY DEF RegionName
<1>5. Tells(d, RegionName, d.region, "r_regionkey", "r_name")
  BY <1>3, <1>4 DEF Tells, Says
<1>6. Y \subseteq Extra8 /\ "r_name" \in Extra8
  BY DEF Extra8, Columns
<1>7. Disjoint(Y, Cols(Tables8)) /\ "r_name" \notin Cols(Tables8)
  BY <1>6, DisjointFrom8, ExtraIsApart8
<1>8. Lacks(U, "r_name")
  BY <1>7, ShowsLacks
<1>9. Has(U, "n_regionkey")
  BY DEF Tells, Has
<1> HIDE DEF Y, C
<1>10. ASSUME NEW u \in U
       PROVE  Part(u, Tables8) \in C <=> \E m \in d.region : u["n_regionkey"] = m["r_regionkey"]
  <2>1. Part(u, Tables8)["c_nationkey"] = u["c_nationkey"]
    BY PartOf8
  <2>2. Part(u, Tables8) \in B
    BY DEF Shows
  <2>3. Says(d, RegionOf, u["c_nationkey"], u["n_regionkey"])
    BY DEF Tells
  <2>4. (\E m \in d.region : u["n_regionkey"] = m["r_regionkey"]) <=> \E n :
          Says(d, RegionName, u["n_regionkey"], n)
    BY <1>4 DEF Says
  <2>5. Known8(d, u["c_nationkey"]) <=> \E n : Says(d, RegionName, u["n_regionkey"], n)
    BY <1>1, <2>3 DEF Known8, SaysOne
  <2> QED BY <2>1, <2>2, <2>4, <2>5 DEF C, InRegion8
<1>11. \A z \in C : z \in B
  BY DEF C, InRegion8
<1>12. \A m \in d.region : DOMAIN m \subseteq Y
  BY <1>3
<1>13. \A m, n \in d.region : m["r_regionkey"] = n["r_regionkey"] => m = n
  BY DEF RegionsDiffer
<1>14. Shows(d, Tables8, X \cup Y, MergeOn(U, d.region, "n_regionkey", "r_regionkey"), C)
  BY <1>7, <1>10, <1>11, <1>12, <1>13, ShowsTag
<1>15. Tells(d, RegionName, MergeOn(U, d.region, "n_regionkey", "r_regionkey"), "n_regionkey",
         "r_name")
  BY <1>5, <1>8, <1>9, TagTells
<1>16. ExtendAll(MergeOn(U, d.region, "n_regionkey", "r_regionkey"), U)
  BY MergeExtends
<1> QED BY <1>14, <1>15, <1>16 DEF Y, C

(* A gives every key that f says something of, and only those.             *)
AllTags(d, f, A, mk) == \A k : (\E m \in A : k = m[mk]) <=> \E v : Says(d, f, k, v)

Places8(d) == Project(d.nation, {"n_nationkey", "n_regionkey"})

Names8(d) == Project(d.nation, {"n_nationkey", "n_name"})

\* The columns of a nation.
LEMMA NationColumns8 ==
  ASSUME NEW d, Fits(d, Reads[8])
  PROVE  \A n \in d["nation"] : "n_nationkey" \in DOMAIN n /\ "n_regionkey" \in DOMAIN n
           /\ "n_name" \in DOMAIN n
<1>1. /\ "nation" \in DOMAIN Reads[8] /\ "n_nationkey" \in Reads[8]["nation"]
      /\ "n_regionkey" \in Reads[8]["nation"] /\ "n_name" \in Reads[8]["nation"]
  BY DEF Reads
<1> QED BY <1>1 DEF Fits

(* Rows made from the nations, one of each, with its key and another column. *)
LEMMA TagsOfNations ==
  ASSUME NEW d, NationsDiffer(d), NEW f, f[1] = "nation", f[2] = "n_nationkey",
         NEW A, NEW mk, NEW col, NEW Y, mk \in Y, col \in Y,
         \A m \in A : DOMAIN m = Y /\ \E n \in d["nation"] : m[mk] = n["n_nationkey"] /\ m[col]
           = n[f[3]],
         \A m, n \in A : m[mk] = n[mk] => m = n,
         \A n \in d["nation"] : \E m \in A : m[mk] = n["n_nationkey"]
  PROVE  Tags(d, f, A, mk, col, Y) /\ AllTags(d, f, A, mk)
<1>1. Tells(d, f, A, mk, col)
  BY DEF Tells, Says
<1>2. OneEach(A, mk)
  BY DEF OneEach
<1>3. \A m \in A : DOMAIN m \subseteq Y
  OBVIOUS
<1>4. \A k : (\E m \in A : k = m[mk]) <=> \E v : Says(d, f, k, v)
  BY DEF Says
<1> QED BY <1>1, <1>2, <1>3, <1>4 DEF Tags, AllTags

\* So do those that the frames project.
LEMMA Projected8 ==
  ASSUME NEW d, Fits(d, Reads[8]), NationsDiffer(d),
         NEW f, f[1] = "nation", f[2] = "n_nationkey", NEW col, f[3] = col,
           col \in {"n_regionkey", "n_name"}
  PROVE  /\ Tags(d, f, Project(d.nation, {"n_nationkey", col}), "n_nationkey", col, {"n_nationkey", col})
         /\ AllTags(d, f, Project(d.nation, {"n_nationkey", col}), "n_nationkey")
<1> DEFINE Y == {"n_nationkey", col}
           A == Project(d.nation, Y)
<1>1. "n_nationkey" \in Y /\ col \in Y
  OBVIOUS
<1>2. \A m : m \in A <=> \E n \in d["nation"] : m = On(n, Y)
  BY DEF Project
<1>3. ASSUME NEW n \in d["nation"]
      PROVE  DOMAIN On(n, Y) = Y /\ On(n, Y)["n_nationkey"] = n["n_nationkey"] /\ On(n, Y)[col]
               = n[col]
  <2>1. "n_nationkey" \in DOMAIN n /\ col \in DOMAIN n
    BY NationColumns8
  <2> HIDE DEF Y
  <2> QED BY <1>1, <2>1 DEF On, Y
<1> HIDE DEF A, Y
<1>4. ASSUME NEW m \in A
      PROVE  DOMAIN m = Y /\ \E n \in d["nation"] : m = On(n, Y) /\ m["n_nationkey"]
               = n["n_nationkey"] /\ m[col] = n[f[3]]
  BY <1>2, <1>3
<1>5. ASSUME NEW m \in A, NEW n \in A, m["n_nationkey"] = n["n_nationkey"] PROVE m = n
  BY <1>4, <1>5 DEF NationsDiffer
<1>6. ASSUME NEW n \in d["nation"] PROVE \E m \in A : m["n_nationkey"] = n["n_nationkey"]
  BY <1>2, <1>3
<1>7. \A m \in A : DOMAIN m = Y /\ \E n \in d["nation"] : m["n_nationkey"] = n["n_nationkey"]
        /\ m[col] = n[f[3]]
  BY <1>4
<1>8. /\ \A m, n \in A : m["n_nationkey"] = n["n_nationkey"] => m = n
      /\ \A n \in d["nation"] : \E m \in A : m["n_nationkey"] = n["n_nationkey"]
  BY <1>5, <1>6
<1>9. Tags(d, f, A, "n_nationkey", col, Y)
  BY <1>1, <1>7, <1>8, TagsOfNations
<1>10. AllTags(d, f, A, "n_nationkey")
  <2>1. ASSUME NEW k PROVE (\E m \in A : k = m["n_nationkey"]) <=> \E v : Says(d, f, k, v)
    BY <1>7, <1>8 DEF Says
  <2> QED BY <2>1 DEF AllTags
<1> QED BY <1>9, <1>10 DEF A, Y

\* So do those that the frames project.
LEMMA Nations8 ==
  ASSUME NEW d, Fits(d, Reads[8]), NationsDiffer(d)
  PROVE  /\ Tags(d, RegionOf, Places8(d), "n_nationkey", "n_regionkey", {"n_nationkey", "n_regionkey"})
         /\ AllTags(d, RegionOf, Places8(d), "n_nationkey")
         /\ Tags(d, NationName, Names8(d), "n_nationkey", "n_name", {"n_nationkey", "n_name"})
         /\ AllTags(d, NationName, Names8(d), "n_nationkey")
<1>1. RegionOf[1] = "nation" /\ RegionOf[2] = "n_nationkey" /\ RegionOf[3] = "n_regionkey"
  BY DEF RegionOf
<1>2. NationName[1] = "nation" /\ NationName[2] = "n_nationkey" /\ NationName[3] = "n_name"
  BY DEF NationName
<1>3. "n_regionkey" \in {"n_regionkey", "n_name"} /\ "n_name" \in {"n_regionkey", "n_name"}
  OBVIOUS
<1>4. /\ Tags(d, RegionOf, Places8(d), "n_nationkey", "n_regionkey", {"n_nationkey", "n_regionkey"})
      /\ AllTags(d, RegionOf, Places8(d), "n_nationkey")
  BY <1>1, <1>3, Projected8, Zenon DEF Places8
<1>5. /\ Tags(d, NationName, Names8(d), "n_nationkey", "n_name", {"n_nationkey", "n_name"})
      /\ AllTags(d, NationName, Names8(d), "n_nationkey")
  BY <1>2, <1>3, Projected8, Zenon DEF Names8
<1> QED BY <1>4, <1>5

(* The rows of the frames before the last filter.                          *)
Regions8(d) ==
    MergeOn(MergeOn(Frame8(d), Places8(d), "c_nationkey", "n_nationkey"), d.region, "n_regionkey",
      "r_regionkey")

All8(d) == MergeOn(Regions8(d), Names8(d), "s_nationkey", "n_nationkey")

Filtered8(d) == MergeOn({r \in Regions8(d) : r.r_name = "AMERICA"}, Names8(d), "s_nationkey",
  "n_nationkey")

Frames8(d) == {r \in Filtered8(d) : Asked8(r)}

Columns8 == (({} \cup {"n_nationkey", "n_regionkey"}) \cup Columns["region"]) \cup {"n_nationkey",
  "n_name"}

\* A condition on the left column may come before the join.
LEMMA MergeOfSome ==
  ASSUME NEW U, NEW c, Has(U, c), NEW val, NEW S, \A u : u \in S <=> u \in U /\ u[c] = val,
         NEW A, NEW a, NEW b, NEW v
  PROVE  v \in MergeOn(S, A, a, b) <=> v \in MergeOn(U, A, a, b) /\ v[c] = val
<1>2. v \in MergeOn(S, A, a, b) <=> \E u \in S, m \in A : Match(u, m, <<a>>, <<b>>) /\ v
        = Joined(u, m)
  BY InMerge DEF MergeOn
<1>3. v \in MergeOn(U, A, a, b) <=> \E u \in U, m \in A : Match(u, m, <<a>>, <<b>>) /\ v
        = Joined(u, m)
  BY InMerge DEF MergeOn
<1>4. \A u \in U, m \in A : Joined(u, m)[c] = u[c]
  BY JoinedLeft DEF Has
<1> QED BY <1>2, <1>3, <1>4

\* The engine's rows show the wanted ones, and tell the supplier's nation.
LEMMA Frames8Rows ==
  ASSUME NEW d, Fits(d, Reads[8]), NationsDiffer(d), RegionsDiffer(d)
  PROVE  Answers8Rows(d, Columns8, Frames8(d), "n_name")
<1> DEFINE P == Frame8(d)
           A1 == Places8(d)
           A2 == Names8(d)
           Y1 == {"n_nationkey", "n_regionkey"}
           Y2 == {"n_nationkey", "n_name"}
           X0 == {}
           X1 == X0 \cup Y1
           X2 == X1 \cup Columns["region"]
           X3 == X2 \cup Y2
           U1 == MergeOn(P, A1, "c_nationkey", "n_nationkey")
           U2 == MergeOn(U1, d.region, "n_regionkey", "r_regionkey")
           U3 == MergeOn(U2, A2, "s_nationkey", "n_nationkey")
           V == Frames8(d)
           B1 == {z \in P : \E m \in A1 : z["c_nationkey"] = m["n_nationkey"]}
           B2 == InRegion8(d, B1)
           B3 == {z \in B2 : \E m \in A2 : z["s_nationkey"] = m["n_nationkey"]}
<1>1. Fits(d, Base8) /\ DOMAIN Base8 = Tables8
  BY Fits8
<1>2. \A z : z \in P <=> Keeps(d, Base8, z) /\ Joined8(z)
  BY <1>1, InFrame8 DEF Base8, Joined8
<1>3. AreRows(d, Tables8, P)
  BY <1>1, <1>2 DEF AreRows, Keeps
<1>4. /\ "customer" \in DOMAIN Base8 /\ "supplier" \in DOMAIN Base8
      /\ "c_nationkey" \in Base8["customer"] /\ "s_nationkey" \in Base8["supplier"]
  BY Reads8 DEF Base8
<1>5. ASSUME NEW z \in P PROVE "c_nationkey" \in DOMAIN z /\ "s_nationkey" \in DOMAIN z
  <2>1. Keeps(d, Base8, z)
    BY <1>2
  <2> HIDE DEF P
  <2>2. "c_nationkey" \in DOMAIN z
    BY <1>4, <2>1, ColumnOfTable
  <2>3. "s_nationkey" \in DOMAIN z
    BY <1>4, <2>1, ColumnOfTable
  <2> QED BY <2>2, <2>3
<1>6. /\ Tags(d, RegionOf, A1, "n_nationkey", "n_regionkey", Y1)
           /\ AllTags(d, RegionOf, A1, "n_nationkey")
      /\ Tags(d, NationName, A2, "n_nationkey", "n_name", Y2)
           /\ AllTags(d, NationName, A2, "n_nationkey")
  BY Nations8
<1>7. Disjoint(Y1, Cols(Tables8)) /\ Disjoint(Y2, Cols(Tables8))
  <2>1. Y1 \subseteq Extra8 /\ Y2 \subseteq Extra8
    BY DEF Extra8, Columns
  <2> QED BY <2>1, DisjointFrom8
<1>8. /\ "n_regionkey" \notin X0 /\ "n_regionkey" \in Y1 /\ "r_name" \notin X1
      /\ "n_name" \notin X2 /\ "n_name" \in Y2
  BY DEF Columns
<1>9. X3 = Columns8
  BY DEF Columns8
<1>10. U3 = All8(d) /\ U2 = Regions8(d)
  BY DEF All8, Regions8
<1> HIDE DEF P, A1, A2, X0, X1, X2, X3, Y1, Y2, U1, U2, U3, V, B1, B2, B3
<1>11. /\ Tagged(B1, P, A1, "c_nationkey", "n_nationkey")
            /\ Tagged(B3, B2, A2, "s_nationkey", "n_nationkey")
       /\ \A z : z \in B2 <=> z \in B1 /\ Known8(d, z["c_nationkey"])
  BY DEF Tagged, B1, B2, B3, InRegion8
<1>12. Has(P, "c_nationkey") /\ Has(B2, "s_nationkey")
  BY <1>5, <1>11 DEF Has, Tagged
<1>13. (\A z \in B1 : Keeps(d, Base8, z)) /\ (\A z \in B3 : Keeps(d, Base8, z))
  BY <1>2, <1>11 DEF Tagged
<1>14. Shows(d, Tables8, X0, P, P)
  BY <1>3, ShowsTable
<1>15. Shows(d, Tables8, X1, U1, B1)
  BY <1>6, <1>7, <1>8, <1>11, <1>12, <1>14, TagShows DEF U1, X1
<1>16. Tells(d, RegionOf, U1, "c_nationkey", "n_regionkey")
  BY <1>6, <1>7, <1>8, <1>11, <1>12, <1>14, TagShows DEF U1
<1>17. Shows(d, Tables8, X2, U2, B2)
  BY <1>8, <1>13, <1>15, <1>16, RegionShows DEF U2, X2, B2
<1>18. Tells(d, RegionName, U2, "n_regionkey", "r_name")
  BY <1>8, <1>13, <1>15, <1>16, RegionShows DEF U2
<1>19. Shows(d, Tables8, X3, U3, B3)
  BY <1>6, <1>7, <1>8, <1>11, <1>12, <1>17, TagShows DEF U3, X3
<1>20. Tells(d, NationName, U3, "s_nationkey", "n_name")
  BY <1>6, <1>7, <1>8, <1>11, <1>12, <1>17, TagShows DEF U3
<1>21. ExtendAll(U2, U1) /\ ExtendAll(U3, U2)
  BY MergeExtends DEF U2, U3
<1>22. Tells(d, RegionName, U3, "n_regionkey", "r_name")
  BY <1>18, <1>21, TellsMore
<1>23. Tells(d, RegionOf, U3, "c_nationkey", "n_regionkey")
  <2>1. Tells(d, RegionOf, U2, "c_nationkey", "n_regionkey")
    BY <1>16, <1>21, TellsMore
  <2> QED BY <1>21, <2>1, TellsMore
<1>24. ASSUME NEW z \in Wanted8(d) PROVE z \in B3
  <2>1. Keeps(d, Base8, z) /\ Joined8(z) /\ American(d, z["c_nationkey"])
          /\ HasName8(d, z["s_nationkey"])
    BY InWanted8
  <2>2. z \in P
    BY <1>2, <2>1
  <2>3. (\E v : Says(d, RegionOf, z["c_nationkey"], v)) /\ Known8(d, z["c_nationkey"])
    BY <2>1 DEF American, Known8
  <2>4. \E v : Says(d, NationName, z["s_nationkey"], v)
    BY <2>1 DEF HasName8
  <2>5. z \in B1
    BY <1>6, <1>11, <2>2, <2>3 DEF AllTags, Tagged
  <2> QED BY <1>6, <1>11, <2>3, <2>4, <2>5 DEF AllTags, Tagged
<1>25. ASSUME NEW v PROVE v \in V <=> v \in U3 /\ Joined8(v) /\ v["r_name"] = "AMERICA" /\ Asked8(v)
  <2>1. Has(U2, "r_name")
    BY <1>18 DEF Tells, Has
  <2> DEFINE S == {r \in U2 : r.r_name = "AMERICA"}
  <2>5. \A u : u \in S <=> u \in U2 /\ u["r_name"] = "AMERICA"
    OBVIOUS
  <2> HIDE DEF S
  <2>2. v \in MergeOn(S, A2, "s_nationkey", "n_nationkey") <=> v \in U3 /\ v["r_name"] = "AMERICA"
    BY <2>1, <2>5, MergeOfSome DEF U3
  <2>3. v \in V <=> v \in U3 /\ v["r_name"] = "AMERICA" /\ Asked8(v)
    BY <1>10, <2>2 DEF V, Frames8, Filtered8, A2, S
  <2>4. v \in U3 => Joined8(v)
    <3>1. v \in U3 => Part(v, Tables8) \in B3
      BY <1>19 DEF Shows
    <3>2. Part(v, Tables8) \in B3 => Joined8(Part(v, Tables8))
      BY <1>2, <1>11 DEF Tagged
    <3>3. v \in U3 => (Joined8(Part(v, Tables8)) <=> Joined8(v))
      BY <1>13, <1>19, PartOf8
    <3> QED BY <3>1, <3>2, <3>3
  <2> QED BY <2>3, <2>4
<1> HIDE DEF Wanted8
<1>26. Answers8Rows(d, X3, V, "n_name")
  BY <1>13, <1>19, <1>20, <1>22, <1>23, <1>24, <1>25, Rows8Are
<1> QED BY <1>9, <1>26 DEF V

SqlPlaces8(d) == Select(d.nation, [n1_nationkey |-> "n_nationkey", n_regionkey |-> "n_regionkey"])

SqlNames8(d) == Select(d.nation, [n2_nationkey |-> "n_nationkey", nation |-> "n_name"])

Product8All(d) ==
    d.part \otimes d.supplier \otimes d.lineitem \otimes d.orders \otimes d.customer
        \otimes SqlPlaces8(d) \otimes SqlNames8(d) \otimes d.region

Sql8(d) ==
    {r \in Product8All(d) :
        /\ r.p_partkey = r.l_partkey
        /\ r.s_suppkey = r.l_suppkey
        /\ r.l_orderkey = r.o_orderkey
        /\ r.o_custkey = r.c_custkey
        /\ r.c_nationkey = r.n1_nationkey
        /\ r.n_regionkey = r.r_regionkey
        /\ r.r_name = "AMERICA"
        /\ r.s_nationkey = r.n2_nationkey
        /\ Between(r.o_orderdate, 19950101, 19961231)
        /\ r.p_type = <<"ECONOMY", "ANODIZED", "STEEL">>}

SqlColumns8 == (({} \cup {"n1_nationkey", "n_regionkey"}) \cup {"n2_nationkey",
  "nation"}) \cup Columns["region"]

\* The SQL's subqueries tag the nations' keys.
LEMMA SqlPlaces8Are ==
  ASSUME NEW d, NationsDiffer(d)
  PROVE  /\ Tags(d, RegionOf, SqlPlaces8(d), "n1_nationkey", "n_regionkey", {"n1_nationkey", "n_regionkey"})
         /\ AllTags(d, RegionOf, SqlPlaces8(d), "n1_nationkey")
         /\ \A m \in SqlPlaces8(d) : DOMAIN m = {"n1_nationkey", "n_regionkey"}
<1> DEFINE A == SqlPlaces8(d)
           Y == {"n1_nationkey", "n_regionkey"}
           mk == "n1_nationkey"
<1>1. RegionOf[1] = "nation" /\ RegionOf[2] = "n_nationkey" /\ RegionOf[3] = "n_regionkey"
  BY DEF RegionOf
<1>2. \A x : x \in A <=> \E n \in d.nation : x
        = [n1_nationkey |-> n["n_nationkey"], n_regionkey |-> n["n_regionkey"]]
  BY DEF SqlPlaces8, Select
<1>3. \A m \in A : DOMAIN m = Y /\ \E n \in d["nation"] : m[mk] = n["n_nationkey"]
        /\ m["n_regionkey"] = n["n_regionkey"]
  BY <1>2
<1>4. \A m, n \in A : m[mk] = n[mk] => m = n
  BY <1>2 DEF NationsDiffer
<1>5. \A n \in d["nation"] : \E m \in A : m[mk] = n["n_nationkey"]
  <2> SUFFICES ASSUME NEW n \in d["nation"] PROVE \E m \in A : m[mk] = n["n_nationkey"]
    OBVIOUS
  <2> DEFINE m == [n1_nationkey |-> n["n_nationkey"], n_regionkey |-> n["n_regionkey"]]
  <2>1. m \in A
    BY <1>2
  <2> QED BY <2>1
<1>6. mk \in Y /\ "n_regionkey" \in Y
  OBVIOUS
<1> HIDE DEF A, Y, mk
<1>7. Tags(d, RegionOf, A, mk, "n_regionkey", Y)
  BY <1>1, <1>3, <1>4, <1>5, <1>6, TagsOfNations
<1>8. AllTags(d, RegionOf, A, mk)
  <2>1. ASSUME NEW k PROVE (\E m \in A : k = m[mk]) <=> \E v : Says(d, RegionOf, k, v)
    BY <1>1, <1>3, <1>5 DEF Says
  <2> QED BY <2>1 DEF AllTags
<1> QED BY <1>3, <1>7, <1>8 DEF A, Y, mk

\* The SQL's subqueries tag the nations' keys.
LEMMA SqlNames8Are ==
  ASSUME NEW d, NationsDiffer(d)
  PROVE  /\ Tags(d, NationName, SqlNames8(d), "n2_nationkey", "nation", {"n2_nationkey", "nation"})
         /\ AllTags(d, NationName, SqlNames8(d), "n2_nationkey")
         /\ \A m \in SqlNames8(d) : DOMAIN m = {"n2_nationkey", "nation"}
<1> DEFINE A == SqlNames8(d)
           Y == {"n2_nationkey", "nation"}
           mk == "n2_nationkey"
<1>1. NationName[1] = "nation" /\ NationName[2] = "n_nationkey" /\ NationName[3] = "n_name"
  BY DEF NationName
<1>2. \A x : x \in A <=> \E n \in d.nation : x
        = [n2_nationkey |-> n["n_nationkey"], nation |-> n["n_name"]]
  BY DEF SqlNames8, Select
<1>3. \A m \in A : DOMAIN m = Y /\ \E n \in d["nation"] : m[mk] = n["n_nationkey"] /\ m["nation"]
        = n["n_name"]
  BY <1>2
<1>4. \A m, n \in A : m[mk] = n[mk] => m = n
  BY <1>2 DEF NationsDiffer
<1>5. \A n \in d["nation"] : \E m \in A : m[mk] = n["n_nationkey"]
  <2> SUFFICES ASSUME NEW n \in d["nation"] PROVE \E m \in A : m[mk] = n["n_nationkey"]
    OBVIOUS
  <2> DEFINE m == [n2_nationkey |-> n["n_nationkey"], nation |-> n["n_name"]]
  <2>1. m \in A
    BY <1>2
  <2> QED BY <2>1
<1>6. mk \in Y /\ "nation" \in Y
  OBVIOUS
<1> HIDE DEF A, Y, mk
<1>7. Tags(d, NationName, A, mk, "nation", Y)
  BY <1>1, <1>3, <1>4, <1>5, <1>6, TagsOfNations
<1>8. AllTags(d, NationName, A, mk)
  <2>1. ASSUME NEW k PROVE (\E m \in A : k = m[mk]) <=> \E v : Says(d, NationName, k, v)
    BY <1>1, <1>3, <1>5 DEF Says
  <2> QED BY <2>1 DEF AllTags
<1> QED BY <1>3, <1>7, <1>8 DEF A, Y, mk

(* Three tables more, each on its key.                                     *)
LEMMA CrossIsMergeThrice ==
  ASSUME NEW U, NEW M, NEW key, NEW mk, Has(U, key), Has(M, mk), Lacks(U, mk),
         NEW O, NEW a, NEW b, Has(U, a), Has(O, b), Lacks(U, b), Lacks(M, b),
         NEW R, NEW e, NEW f, Has(M, e), Has(R, f), Lacks(U, f), Lacks(M, f), Lacks(O, f), NEW x
  PROVE  x \in MergeOn(MergeOn(MergeOn(U, M, key, mk), O, a, b), R, e, f) <=>
            x \in ((U \otimes M) \otimes O) \otimes R /\ x[key] = x[mk] /\ x[a] = x[b] /\ x[e]
              = x[f]
<1> DEFINE V == MergeOn(MergeOn(U, M, key, mk), O, a, b)
           W == (U \otimes M) \otimes O
<1>1. \A y : y \in V <=> y \in W /\ y[key] = y[mk] /\ y[a] = y[b]
  BY CrossIsMergeTwice
<1>2. ASSUME NEW y \in W
      PROVE  /\ key \in DOMAIN y /\ mk \in DOMAIN y /\ a \in DOMAIN y /\ b \in DOMAIN y
             /\ e \in DOMAIN y /\ f \notin DOMAIN y
  <2>1. PICK w \in U \otimes M, o \in O : y = Joined(w, o)
    BY InCross
  <2>2. PICK u \in U, m \in M : w = Joined(u, m)
    BY InCross
  <2>3. DOMAIN y = DOMAIN u \cup DOMAIN m \cup DOMAIN o
    <3>1. DOMAIN w = DOMAIN u \cup DOMAIN m
      BY <2>2, JoinedIs
    <3>2. DOMAIN y = DOMAIN w \cup DOMAIN o
      BY <2>1, JoinedIs
    <3> QED BY <3>1, <3>2
  <2> QED BY <2>3 DEF Has, Lacks
<1> HIDE DEF V, W
<1>3. ASSUME NEW y \in W, NEW r \in R
      PROVE  /\ Joined(y, r)[key] = y[key] /\ Joined(y, r)[mk] = y[mk]
             /\ Joined(y, r)[a] = y[a] /\ Joined(y, r)[b] = y[b]
  BY <1>2, JoinedLeft
<1>4. Has(V, e) /\ Lacks(V, f) /\ Has(W, e) /\ Lacks(W, f)
  BY <1>1, <1>2 DEF Has, Lacks
<1>5. x \in MergeOn(V, R, e, f) <=> x \in V \otimes R /\ x[e] = x[f]
  BY <1>4, CrossIsMerge
<1>6. x \in V \otimes R <=> x \in W \otimes R /\ x[key] = x[mk] /\ x[a] = x[b]
  BY <1>1, <1>3, InCross
<1> QED BY <1>5, <1>6 DEF V, W

\* The engine's rows show the wanted ones, and tell the supplier's nation.
LEMMA Sql8Rows ==
  ASSUME NEW d, Fits(d, Reads[8]), NationsDiffer(d), RegionsDiffer(d)
  PROVE  Answers8Rows(d, SqlColumns8, Sql8(d), "nation")
<1> DEFINE P == d.part \otimes d.supplier \otimes d.lineitem \otimes d.orders \otimes d.customer
           A1 == SqlPlaces8(d)
           A2 == SqlNames8(d)
           Y1 == {"n1_nationkey", "n_regionkey"}
           Y2 == {"n2_nationkey", "nation"}
           X0 == {}
           X1 == X0 \cup Y1
           X2 == X1 \cup Y2
           X3 == X2 \cup Columns["region"]
           U1 == MergeOn(P, A1, "c_nationkey", "n1_nationkey")
           U2 == MergeOn(U1, A2, "s_nationkey", "n2_nationkey")
           U3 == MergeOn(U2, d.region, "n_regionkey", "r_regionkey")
           V == Sql8(d)
           B1 == {z \in P : \E m \in A1 : z["c_nationkey"] = m["n1_nationkey"]}
           B2 == {z \in B1 : \E m \in A2 : z["s_nationkey"] = m["n2_nationkey"]}
           B3 == InRegion8(d, B2)
<1>1. Fits(d, Base8) /\ DOMAIN Base8 = Tables8
  BY Fits8
<1>2. \A z : z \in P <=> Keeps(d, Base8, z)
  BY <1>1, Product8 DEF Base8
<1>3. AreRows(d, Tables8, P)
  BY <1>1, <1>2 DEF AreRows, Keeps
<1>4. /\ "customer" \in DOMAIN Base8 /\ "supplier" \in DOMAIN Base8
      /\ "c_nationkey" \in Base8["customer"] /\ "s_nationkey" \in Base8["supplier"]
  BY Reads8 DEF Base8
<1>5. ASSUME NEW z \in P PROVE "c_nationkey" \in DOMAIN z /\ "s_nationkey" \in DOMAIN z
  <2>1. Keeps(d, Base8, z)
    BY <1>2
  <2> HIDE DEF P
  <2>2. "c_nationkey" \in DOMAIN z
    BY <1>4, <2>1, ColumnOfTable
  <2>3. "s_nationkey" \in DOMAIN z
    BY <1>4, <2>1, ColumnOfTable
  <2> QED BY <2>2, <2>3
<1>6. /\ Tags(d, RegionOf, A1, "n1_nationkey", "n_regionkey", Y1)
           /\ AllTags(d, RegionOf, A1, "n1_nationkey")
      /\ Tags(d, NationName, A2, "n2_nationkey", "nation", Y2)
           /\ AllTags(d, NationName, A2, "n2_nationkey")
      /\ (\A m \in A1 : DOMAIN m = Y1) /\ (\A m \in A2 : DOMAIN m = Y2)
  BY SqlPlaces8Are, SqlNames8Are
<1>7. Disjoint(Y1, Cols(Tables8)) /\ Disjoint(Y2, Cols(Tables8))
  <2>1. Y1 \subseteq Extra8 /\ Y2 \subseteq Extra8
    BY DEF Extra8, Columns
  <2> QED BY <2>1, DisjointFrom8
<1>8. /\ "n_regionkey" \notin X0 /\ "n_regionkey" \in Y1 /\ "r_name" \notin X2
      /\ "nation" \notin X1 /\ "nation" \in Y2
      /\ "n1_nationkey" \in Y1 /\ "n2_nationkey" \in Y2 /\ "n2_nationkey" \notin Y1
      /\ "r_regionkey" \notin Y1 /\ "r_regionkey" \notin Y2 /\ "r_regionkey" \notin X0
      /\ "n1_nationkey" \notin X0 /\ "n2_nationkey" \notin X0
  OBVIOUS
<1>9. X3 = SqlColumns8
  BY DEF SqlColumns8
<1>10. "n1_nationkey" \notin Cols(Tables8) /\ "n2_nationkey" \notin Cols(Tables8)
         /\ "r_regionkey" \notin Cols(Tables8)
  <2>1. "n1_nationkey" \in Extra8 /\ "n2_nationkey" \in Extra8 /\ "r_regionkey" \in Extra8
    BY DEF Extra8, Columns
  <2> QED BY <2>1, ExtraIsApart8
<1>11. V = {r \in ((P \otimes A1) \otimes A2) \otimes d.region :
        /\ r.p_partkey = r.l_partkey
        /\ r.s_suppkey = r.l_suppkey
        /\ r.l_orderkey = r.o_orderkey
        /\ r.o_custkey = r.c_custkey
        /\ r.c_nationkey = r.n1_nationkey
        /\ r.n_regionkey = r.r_regionkey
        /\ r.r_name = "AMERICA"
        /\ r.s_nationkey = r.n2_nationkey
        /\ Between(r.o_orderdate, 19950101, 19961231)
        /\ r.p_type = <<"ECONOMY", "ANODIZED", "STEEL">>}
  BY SMT DEF Sql8, Product8All
<1> HIDE DEF P, A1, A2, X0, X1, X2, X3, Y1, Y2, U1, U2, U3, V, B1, B2, B3
<1>12. /\ Tagged(B1, P, A1, "c_nationkey", "n1_nationkey")
            /\ Tagged(B2, B1, A2, "s_nationkey", "n2_nationkey")
       /\ \A z : z \in B3 <=> z \in B2 /\ Known8(d, z["c_nationkey"])
  BY DEF Tagged, B1, B2, B3, InRegion8
<1>13. Has(P, "c_nationkey") /\ Has(P, "s_nationkey") /\ Has(B1, "s_nationkey")
  BY <1>5, <1>12 DEF Has, Tagged
<1>14. (\A z \in B2 : Keeps(d, Base8, z)) /\ (\A z \in B3 : Keeps(d, Base8, z))
  BY <1>2, <1>12 DEF Tagged
<1>15. Shows(d, Tables8, X0, P, P)
  BY <1>3, ShowsTable
<1>16. Shows(d, Tables8, X1, U1, B1)
  BY <1>6, <1>7, <1>8, <1>12, <1>13, <1>15, TagShows DEF U1, X1
<1>17. Tells(d, RegionOf, U1, "c_nationkey", "n_regionkey")
  BY <1>6, <1>7, <1>8, <1>12, <1>13, <1>15, TagShows DEF U1
<1>18. Shows(d, Tables8, X2, U2, B2)
  BY <1>6, <1>7, <1>8, <1>12, <1>13, <1>16, TagShows DEF U2, X2
<1>19. Tells(d, NationName, U2, "s_nationkey", "nation")
  BY <1>6, <1>7, <1>8, <1>12, <1>13, <1>16, TagShows DEF U2
<1>20. ExtendAll(U2, U1) /\ ExtendAll(U3, U2)
  BY MergeExtends DEF U2, U3
<1>21. Tells(d, RegionOf, U2, "c_nationkey", "n_regionkey")
  BY <1>17, <1>20, TellsMore
<1>22. Shows(d, Tables8, X3, U3, B3)
  BY <1>8, <1>14, <1>18, <1>21, RegionShows DEF U3, X3, B3
<1>23. Tells(d, RegionName, U3, "n_regionkey", "r_name")
  BY <1>8, <1>14, <1>18, <1>21, RegionShows DEF U3
<1>24. Tells(d, RegionOf, U3, "c_nationkey", "n_regionkey")
         /\ Tells(d, NationName, U3, "s_nationkey", "nation")
  BY <1>19, <1>20, <1>21, TellsMore
<1>25. ASSUME NEW z \in Wanted8(d) PROVE z \in B3
  <2>1. Keeps(d, Base8, z) /\ American(d, z["c_nationkey"]) /\ HasName8(d, z["s_nationkey"])
    BY InWanted8
  <2>2. z \in P
    BY <1>2, <2>1
  <2>3. (\E v : Says(d, RegionOf, z["c_nationkey"], v)) /\ Known8(d, z["c_nationkey"])
    BY <2>1 DEF American, Known8
  <2>4. \E v : Says(d, NationName, z["s_nationkey"], v)
    BY <2>1 DEF HasName8
  <2>5. z \in B1
    BY <1>6, <1>12, <2>2, <2>3 DEF AllTags, Tagged
  <2> QED BY <1>6, <1>12, <2>3, <2>4, <2>5 DEF AllTags, Tagged
<1>26. ASSUME NEW x
       PROVE  x \in U3 <=> /\ x \in ((P \otimes A1) \otimes A2) \otimes d.region
                           /\ x["c_nationkey"] = x["n1_nationkey"] /\ x["s_nationkey"]
                                = x["n2_nationkey"]
                           /\ x["n_regionkey"] = x["r_regionkey"]
  <2>1. Has(A1, "n1_nationkey") /\ Has(A1, "n_regionkey") /\ Has(A2, "n2_nationkey")
    BY <1>6, <1>8 DEF Has
  <2>2. Lacks(A1, "n2_nationkey") /\ Lacks(A1, "r_regionkey") /\ Lacks(A2, "r_regionkey")
    BY <1>6, <1>8 DEF Lacks
  <2>3. Lacks(P, "n1_nationkey") /\ Lacks(P, "n2_nationkey") /\ Lacks(P, "r_regionkey")
    BY <1>8, <1>10, <1>15, ShowsLacks
  <2>4. Has(d.region, "r_regionkey")
    <3>1. "region" \in DOMAIN Reads[8] /\ "r_regionkey" \in Reads[8]["region"]
      BY DEF Reads
    <3> QED BY <3>1 DEF Fits, Has
  <2> QED BY <1>13, <2>1, <2>2, <2>3, <2>4, CrossIsMergeThrice DEF U3, U2, U1
<1>27. ASSUME NEW v PROVE v \in V <=> v \in U3 /\ Joined8(v) /\ v["r_name"] = "AMERICA" /\ Asked8(v)
  BY <1>11, <1>26, SMT DEF Joined8, Asked8
<1> HIDE DEF Wanted8
<1>28. Answers8Rows(d, X3, V, "nation")
  BY <1>14, <1>22, <1>23, <1>24, <1>25, <1>27, Rows8Are
<1> QED BY <1>9, <1>28 DEF V

Key8 == {"o_year"}

Key8Of(z) == [c \in Key8 |-> Year(z["o_orderdate"])]

(* The part of a row's revenue that comes from Brazil.                     *)
Part8(r, col) == IF r[col] = "BRAZIL" THEN Revenue(r) ELSE 0

Share8(g, col) == [mkt_share |-> <<Total(g, LAMBDA r : Part8(r, col)), Total(g, Revenue)>>]

ShareGroups8(W, col) == GroupBy(W, Key8, LAMBDA g : Share8(g, col))

Brazil8(d, z) == IF Said(d, NationName, z["s_nationkey"]) = "BRAZIL" THEN Revenue(z) ELSE 0

ShareOf8(d, g) == [mkt_share |-> <<Total(g, LAMBDA r : Brazil8(d, r)), Total(g, Revenue)>>]

Groups8(d) == Grouped(Wanted8(d), [z \in Wanted8(d) |-> Key8Of(z)],
  [g \in SUBSET Wanted8(d) |-> ShareOf8(d, g)])

\* There are finitely many wanted rows.
LEMMA FiniteWanted8 ==
  ASSUME NEW d, Sound(d, Reads[8])
  PROVE  IsFiniteSet(Wanted8(d))
<1>1. /\ IsFiniteSet(d.part) /\ IsFiniteSet(d.supplier) /\ IsFiniteSet(d.lineitem)
      /\ IsFiniteSet(d.orders) /\ IsFiniteSet(d.customer)
  BY DEF Sound, Reads
<1> DEFINE P == d.part \otimes d.supplier \otimes d.lineitem \otimes d.orders \otimes d.customer
<1>2. IsFiniteSet(P)
  BY <1>1, FiniteCross
<1>3. \A z \in Wanted8(d) : z \in P
  BY DEF Wanted8
<1> HIDE DEF P
<1> QED BY <1>2, <1>3, FiniteKept

\* The wanted rows have the columns that the query reads.
LEMMA Columns8Are ==
  ASSUME NEW d, Sound(d, Reads[8]), NEW z \in Wanted8(d)
  PROVE  /\ Keeps(d, Base8, z) /\ Revenue(z) \in Int
         /\ "l_extendedprice" \in DOMAIN z /\ "l_discount" \in DOMAIN z
              /\ "o_orderdate" \in DOMAIN z
         /\ "s_nationkey" \in DOMAIN z
<1>1. Fits(d, Base8) /\ DOMAIN Base8 = Tables8
  BY Fits8 DEF Sound
<1>2. Sound(d, Base8)
  <2>1. \A t \in Tables8 : t \in DOMAIN Reads[8] /\ Base8[t] = Reads[8][t]
    BY DEF Base8, Tables8, Some, Reads
  <2> QED BY <1>1, <2>1 DEF Sound
<1>3. Keeps(d, Base8, z)
  BY InWanted8 DEF Sound
<1>4. /\ "lineitem" \in DOMAIN Base8 /\ "orders" \in DOMAIN Base8 /\ "supplier" \in DOMAIN Base8
      /\ "l_extendedprice" \in Base8["lineitem"] /\ "l_discount" \in Base8["lineitem"]
      /\ "o_orderdate" \in Base8["orders"] /\ "s_nationkey" \in Base8["supplier"]
  BY Reads8 DEF Base8
<1>5. Revenue(z) \in Int
  BY <1>2, <1>3, <1>4, RevenueIsInt
<1>6. "l_extendedprice" \in DOMAIN z /\ "l_discount" \in DOMAIN z
  BY <1>3, <1>4, ColumnOfTable
<1>7. "o_orderdate" \in DOMAIN z /\ "s_nationkey" \in DOMAIN z
  BY <1>3, <1>4, ColumnOfTable
<1> QED BY <1>3, <1>5, <1>6, <1>7

\* The groups of a showing are the groups of the wanted rows.
LEMMA Groups8Are ==
  ASSUME NEW d, Sound(d, Reads[8]), NationsDiffer(d), NEW X, NEW W, NEW col,
           Answers8Rows(d, X, W, col),
         \A w \in W : "o_year" \in DOMAIN w /\ w["o_year"] = Year(w["o_orderdate"])
  PROVE  ShareGroups8(W, col) = Groups8(d)
<1> DEFINE T == Tables8
           S == Wanted8(d)
           b == [w \in W |-> Part(w, T)]
           key == KeyOn(W, Key8)
           keyS == [z \in S |-> Key8Of(z)]
           agg == [g \in SUBSET W |-> Share8(g, col)]
           aggS == [g \in SUBSET S |-> ShareOf8(d, g)]
<1>1. OneToOne(b, W, S)
  BY ShownOneToOne DEF Answers8Rows
<1>2. IsFiniteSet(W)
  BY FiniteWanted8, ShowsFinite DEF Answers8Rows
<1>3. ASSUME NEW w \in W
      PROVE  /\ Revenue(w) = Revenue(b[w]) /\ Revenue(w) \in Int /\ keyS[b[w]] = key[w]
             /\ Brazil8(d, b[w]) = Part8(w, col) /\ Part8(w, col) \in Int
  <2> DEFINE z == Part(w, T)
  <2>1. z \in S
    BY DEF Answers8Rows, Shows
  <2>2. DOMAIN z = DOMAIN w \cap Cols(T) /\ \A c \in DOMAIN w \cap Cols(T) : z[c] = w[c]
    BY PartIs
  <2> HIDE DEF z
  <2>3. /\ Revenue(z) \in Int
        /\ "l_extendedprice" \in DOMAIN z /\ "l_discount" \in DOMAIN z /\ "o_orderdate" \in DOMAIN z
        /\ "s_nationkey" \in DOMAIN z
    BY <2>1, Columns8Are
  <2>4. /\ z["l_extendedprice"] = w["l_extendedprice"] /\ z["l_discount"] = w["l_discount"]
        /\ z["o_orderdate"] = w["o_orderdate"] /\ z["s_nationkey"] = w["s_nationkey"]
    BY <2>2, <2>3
  <2>5. Revenue(w) = Revenue(z)
    BY <2>4 DEF Revenue
  <2>6. SaysOne(d, NationName)
    BY SaysOneNation
  <2>7. w[col] = Said(d, NationName, w["s_nationkey"])
    BY <2>6, TellsSaid DEF Answers8Rows
  <2>8. On(w, Key8) = Key8Of(z)
    BY <2>4 DEF On, Key8Of, Key8
  <2>9. b[w] = z
    BY DEF z
  <2>10. Brazil8(d, z) = Part8(w, col) /\ Part8(w, col) \in Int
    BY <2>3, <2>4, <2>5, <2>7 DEF Brazil8, Part8
  <2>11. keyS[z] = Key8Of(z) /\ key[w] = On(w, Key8)
    BY <2>1 DEF KeyOn
  <2> HIDE DEF b, keyS, key
  <2> QED BY <2>3, <2>5, <2>8, <2>9, <2>10, <2>11
<1>4. ASSUME NEW g \in SUBSET W PROVE aggS[ImageOf(b, g)] = agg[g]
  <2> DEFINE G == ImageOf(b, g)
             FP(r) == Part8(r, col)
             FB(r) == Brazil8(d, r)
             v == [r \in g |-> Revenue(r)]
             u == [r \in G |-> Revenue(r)]
             p == [r \in g |-> FP(r)]
             q == [r \in G |-> FB(r)]
  <2>1. IsFiniteSet(g)
    BY <1>2, FS_Subset
  <2>2. \A x, y \in g : b[x] = b[y] => x = y
    BY <1>1 DEF OneToOne
  <2>3. \A x \in g : Revenue(x) \in Int /\ Revenue(b[x]) = Revenue(x) /\ FP(x) \in Int /\ FB(b[x])
          = FP(x)
    BY <1>3
  <2>5. G \in SUBSET S
    <3> HIDE DEF b, S
    <3> QED BY <1>1 DEF ImageOf, OneToOne
  <2>4. \A x \in g : b[x] \in G
    BY DEF ImageOf
  <2> HIDE DEF FP, FB, b
  <2>10. DOMAIN v = g /\ DOMAIN u = ImageOf(b, g) /\ DOMAIN p = g /\ DOMAIN q = ImageOf(b, g)
    OBVIOUS
  <2>11. \A x \in g : v[x] \in Int /\ u[b[x]] = v[x]
    <3> HIDE DEF G
    <3> QED BY <2>3, <2>4
  <2>12. \A x \in g : p[x] \in Int /\ q[b[x]] = p[x]
    <3> HIDE DEF G
    <3> QED BY <2>3, <2>4
  <2>13. Total(g, Revenue) = SumFunction(v) /\ Total(G, Revenue) = SumFunction(u)
    BY DEF Total
  <2>14. Total(g, FP) = SumFunction(p) /\ Total(G, FB) = SumFunction(q)
    BY DEF Total
  <2> HIDE DEF v, u, p, q
  <2>6. Total(G, Revenue) = Total(g, Revenue)
    BY <2>1, <2>2, <2>10, <2>11, <2>13, TotalOfImage
  <2>7. Total(G, FB) = Total(g, FP)
    BY <2>1, <2>2, <2>10, <2>12, <2>14, TotalOfImage
  <2>8. aggS[G] = ShareOf8(d, G) /\ agg[g] = Share8(g, col)
    <3> HIDE DEF G
    <3> QED BY <2>5, Zenon
  <2>9. ShareOf8(d, G) = Share8(g, col)
    <3> HIDE DEF G
    <3> QED BY <2>6, <2>7, Zenon DEF ShareOf8, Share8, FP, FB
  <2> QED BY <2>8, <2>9
<1> HIDE DEF b
<1>5. \A w \in W : keyS[b[w]] = key[w]
  BY <1>3
<1>6. ASSUME NEW j PROVE agg[{r \in W : On(r, Key8) = j}] = Share8({r \in W : On(r, Key8) = j}, col)
  <2>1. {r \in W : On(r, Key8) = j} \in SUBSET W
    OBVIOUS
  <2> QED BY <2>1, Zenon
<1> HIDE DEF agg, aggS, key, keyS
<1>7. SameAggregates(W, b, agg, aggS)
  BY <1>4 DEF SameAggregates
<1>8. Grouped(S, keyS, aggS) = Grouped(W, key, agg)
  BY <1>1, <1>5, <1>7, GroupsOfImage
<1> DEFINE L == GroupBy(W, Key8, LAMBDA g : Share8(g, col))
<1>9. ASSUME NEW x PROVE x \in L <=> x \in GroupedOn(W, Key8, agg)
  BY <1>6, Zenon DEF GroupBy, GroupedOn
<1>10. L = GroupedOn(W, Key8, agg)
  BY <1>9, Zenon
<1>11. GroupedOn(W, Key8, agg) = Grouped(W, key, agg)
  BY GroupedOnIs, Zenon DEF key
<1> HIDE DEF L
<1>12. L = Groups8(d)
  BY <1>8, <1>10, <1>11, ZenonT(30) DEF Groups8, S, keyS, aggS
<1> QED BY <1>12, Zenon DEF L, ShareGroups8

OfGroups8(G) == Sorted(G, LAMBDA r : <<r.o_year>>)

NationPart8(r) == IF r.nation = "BRAZIL" THEN Revenue(r) ELSE 0

NamePart8(r) == IF r.n_name = "BRAZIL" THEN Revenue(r) ELSE 0

SqlAnswer8(V) ==
    Sorted(GroupBy(WithColumns(V, LAMBDA r : [o_year |-> Year(r.o_orderdate)]), {"o_year"},
                   LAMBDA g : [mkt_share |-> <<Total(g, NationPart8), Total(g, Revenue)>>]),
           LAMBDA r : <<r.o_year>>)

PolarsAnswer8(V) ==
    Sorted(GroupBy(WithColumns(V, LAMBDA r : [o_year |-> Year(r.o_orderdate)]), {"o_year"},
                   LAMBDA g : [mkt_share |-> <<Total(g, NamePart8), Total(g, Revenue)>>]),
           LAMBDA r : <<r.o_year>>)

(* Its numerator sums Brazil's rows, the others sum zeros for the rest.    *)
Numerator8(g) == {r \in g : r.n_name = "BRAZIL"}

PandasAnswer8(V) ==
    Sorted(GroupBy(WithColumns(V, LAMBDA r : [o_year |-> Year(r.o_orderdate)]), {"o_year"},
                   LAMBDA g : [mkt_share |-> <<Total(Numerator8(g), Revenue), Total(g, Revenue)>>]),
           LAMBDA r : <<r.o_year>>)

\* The engine's answer, from its rows.
LEMMA Sql8Is ==
  ASSUME NEW d
  PROVE  Sql!Q8(d) = SqlAnswer8(Sql8(d))
<1> DEFINE n1 == Sql!Select(d.nation, [n1_nationkey |-> "n_nationkey",
             n_regionkey |-> "n_regionkey"])
           n2 == Sql!Select(d.nation, [n2_nationkey |-> "n_nationkey", nation |-> "n_name"])
           P == Sql!Cross(Sql!Cross(Sql!Cross(Sql!Cross(Sql!Cross(Sql!Cross(Sql!Cross(d.part,
             d.supplier), d.lineitem), d.orders), d.customer), n1), n2), d.region)
           rows == {r \in P :
                     /\ r.p_partkey = r.l_partkey
                     /\ r.s_suppkey = r.l_suppkey
                     /\ r.l_orderkey = r.o_orderkey
                     /\ r.o_custkey = r.c_custkey
                     /\ r.c_nationkey = r.n1_nationkey
                     /\ r.n_regionkey = r.r_regionkey
                     /\ r.r_name = "AMERICA"
                     /\ r.s_nationkey = r.n2_nationkey
                     /\ Sql!Between(r.o_orderdate, 19950101, 19961231)
                     /\ r.p_type = <<"ECONOMY", "ANODIZED", "STEEL">>}
<1>1. Sql!Q8(d) = SqlAnswer8(rows)
  BY SMTT(60) DEF Sql!Q8, Sql!\otimes, SqlAnswer8, NationPart8, Sorted, Sql!Sorted, Before,
         Sql!Before, Alpha, Sql!Alpha, Cardinality, Sql!Cardinality, GroupBy, Sql!GroupBy, Project,
         Sql!Project, On, Sql!On, Joined, Sql!Joined, Total, Sql!Total, SumFunction,
         Sql!SumFunction, SumFunctionOnSet, Sql!SumFunctionOnSet, FoldFunctionOnSet,
         Sql!FoldFunctionOnSet, MapThenFoldSet, Sql!MapThenFoldSet, WithColumns, Sql!WithColumns,
         Year, Sql!Year, Revenue, Sql!Revenue
<1>2. n1 = SqlPlaces8(d) /\ n2 = SqlNames8(d)
  BY SMT DEF SqlPlaces8, SqlNames8, Select, Sql!Select
<1> HIDE DEF n1, n2
<1>3. \A R, S : Sql!Cross(R, S) = R \otimes S
  BY SMT DEF \otimes, Cross, Joined, Sql!Cross, Sql!Joined
<1>4. P = Product8All(d)
  BY <1>2, <1>3, SMT DEF Product8All
<1> HIDE DEF P
<1>5. rows = Sql8(d)
  BY <1>4, SMTT(30) DEF Sql8, Between, Sql!Between
<1> HIDE DEF rows
<1> QED BY <1>1, <1>5, Zenon

\* The engine's answer, from its rows.
LEMMA Polars8Is ==
  ASSUME NEW d
  PROVE  Polars!Q8(d) = PolarsAnswer8(Frames8(d))
<1> DEFINE n1 == Polars!Project(d.nation, {"n_nationkey", "n_regionkey"})
           n2 == Polars!Project(d.nation, {"n_nationkey", "n_name"})
           suppliers == Polars!Merge(Polars!Merge(d.part, d.lineitem, <<"p_partkey">>,
             <<"l_partkey">>),
                           d.supplier, <<"l_suppkey">>, <<"s_suppkey">>)
           customers == Polars!Merge(Polars!Merge(suppliers, d.orders, <<"l_orderkey">>,
             <<"o_orderkey">>),
                           d.customer, <<"o_custkey">>, <<"c_custkey">>)
           regions == Polars!Merge(Polars!Merge(customers, n1, <<"c_nationkey">>,
             <<"n_nationkey">>),
                         d.region, <<"n_regionkey">>, <<"r_regionkey">>)
           america == {r \in regions : r.r_name = "AMERICA"}
           joined == Polars!Merge(america, n2, <<"s_nationkey">>, <<"n_nationkey">>)
           rows == {r \in joined :
                    /\ Polars!Between(r.o_orderdate, 19950101, 19961231)
                    /\ r.p_type = <<"ECONOMY", "ANODIZED", "STEEL">>}
<1>1. Polars!Q8(d) = PolarsAnswer8(rows)
  BY SMTT(60) DEF Polars!Q8, PolarsAnswer8, NamePart8, Sorted, Polars!Sorted, Before,
         Polars!Before, Alpha, Polars!Alpha, Cardinality, Polars!Cardinality, GroupBy,
         Polars!GroupBy, Project, Polars!Project, On, Polars!On, Joined, Polars!Joined, Total,
         Polars!Total, SumFunction, Polars!SumFunction, SumFunctionOnSet, Polars!SumFunctionOnSet,
         FoldFunctionOnSet, Polars!FoldFunctionOnSet, MapThenFoldSet, Polars!MapThenFoldSet,
         WithColumns, Polars!WithColumns, Year, Polars!Year, Revenue, Polars!Revenue
<1>2. n1 = Places8(d) /\ n2 = Names8(d)
  BY SMT DEF Places8, Names8, Project, Polars!Project, On, Polars!On
<1>3. \A R, O, lk, rk : Polars!Merge(R, O, lk, rk) = Merge(R, O, lk, rk)
  BY SMT DEF Merge, Polars!Merge, Match, Polars!Match, Joined, Polars!Joined
<1> HIDE DEF n1, n2
<1>4. regions = Regions8(d)
  BY <1>2, <1>3, SMT DEF Regions8, Frame8, MergeOn
<1> HIDE DEF regions
<1>5. joined = Filtered8(d)
  BY <1>2, <1>3, <1>4, SMT DEF Filtered8, MergeOn
<1> HIDE DEF joined
<1>6. rows = Frames8(d)
  BY <1>5, SMTT(30) DEF Frames8, Asked8, Between, Polars!Between
<1> HIDE DEF rows
<1> QED BY <1>1, <1>6, Zenon

\* The engine's answer, from its rows.
LEMMA Pandas8Is ==
  ASSUME NEW d
  PROVE  Pandas!Q8(d) = PandasAnswer8(Frames8(d))
<1> DEFINE n1 == Pandas!Project(d.nation, {"n_nationkey", "n_regionkey"})
           n2 == Pandas!Project(d.nation, {"n_nationkey", "n_name"})
           jn2 == Pandas!Merge(Pandas!Merge(d.part, d.lineitem, <<"p_partkey">>, <<"l_partkey">>),
                           d.supplier, <<"l_suppkey">>, <<"s_suppkey">>)
           jn4 == Pandas!Merge(Pandas!Merge(jn2, d.orders, <<"l_orderkey">>, <<"o_orderkey">>),
                           d.customer, <<"o_custkey">>, <<"c_custkey">>)
           regions == Pandas!Merge(Pandas!Merge(jn4, n1, <<"c_nationkey">>, <<"n_nationkey">>),
                         d.region, <<"n_regionkey">>, <<"r_regionkey">>)
           jn6 == {r \in regions : r.r_name = "AMERICA"}
           joined == Pandas!Merge(jn6, n2, <<"s_nationkey">>, <<"n_nationkey">>)
           rows == {r \in joined :
                    /\ r.o_orderdate >= 19950101 /\ r.o_orderdate <= 19961231
                    /\ r.p_type = <<"ECONOMY", "ANODIZED", "STEEL">>}
<1>1. Pandas!Q8(d) = PandasAnswer8(rows)
  BY SMTT(60) DEF Pandas!Q8, PandasAnswer8, Numerator8, Sorted, Pandas!Sorted, Before,
         Pandas!Before, Alpha, Pandas!Alpha, Cardinality, Pandas!Cardinality, GroupBy,
         Pandas!GroupBy, Project, Pandas!Project, On, Pandas!On, Joined, Pandas!Joined, Total,
         Pandas!Total, SumFunction, Pandas!SumFunction, SumFunctionOnSet, Pandas!SumFunctionOnSet,
         FoldFunctionOnSet, Pandas!FoldFunctionOnSet, MapThenFoldSet, Pandas!MapThenFoldSet,
         WithColumns, Pandas!WithColumns, Year, Pandas!Year, Revenue, Pandas!Revenue
<1>2. n1 = Places8(d) /\ n2 = Names8(d)
  BY SMT DEF Places8, Names8, Project, Pandas!Project, On, Pandas!On
<1>3. \A R, O, lk, rk : Pandas!Merge(R, O, lk, rk) = Merge(R, O, lk, rk)
  BY SMT DEF Merge, Pandas!Merge, Match, Pandas!Match, Joined, Pandas!Joined
<1> HIDE DEF n1, n2
<1>4. regions = Regions8(d)
  BY <1>2, <1>3, SMT DEF Regions8, Frame8, MergeOn
<1> HIDE DEF regions
<1>5. joined = Filtered8(d)
  BY <1>2, <1>3, <1>4, SMT DEF Filtered8, MergeOn
<1> HIDE DEF joined
<1>6. rows = Frames8(d)
  BY <1>5, SMT DEF Frames8, Asked8, Between
<1> HIDE DEF rows
<1> QED BY <1>1, <1>6, Zenon

Years8(V) == WithYear(V, "o_year", "o_orderdate")

\* A row of one column.
LEMMA AYear8 ==
  ASSUME NEW x
  PROVE  [o_year |-> x] = [c \in {"o_year"} |-> x]
BY SMT

\* The year as it is added.
LEMMA Years8Is ==
  ASSUME NEW V
  PROVE  WithColumns(V, LAMBDA r : [o_year |-> Year(r.o_orderdate)]) = Years8(V)
<1> DEFINE L == WithColumns(V, LAMBDA r : [o_year |-> Year(r.o_orderdate)])
           add(r) == Joined([o_year |-> Year(r.o_orderdate)], r)
           added(r) == YearAdded(r, "o_year", "o_orderdate")
<1>1. ASSUME NEW r PROVE add(r) = added(r)
  <2> DEFINE y == Year(r["o_orderdate"])
  <2>1. Year(r.o_orderdate) = y /\ YearAdded(r, "o_year", "o_orderdate")
          = Joined([c \in {"o_year"} |-> y], r)
    BY SMT DEF YearAdded
  <2> HIDE DEF y
  <2> QED BY <2>1, AYear8, Zenon
<1>2. \A w : w \in L <=> \E r \in V : w = add(r)
  BY Zenon DEF WithColumns
<1>3. \A w : w \in Years8(V) <=> \E r \in V : w = added(r)
  BY Zenon DEF Years8, WithYear
<1> HIDE DEF L, add, added
<1>4. \A w : w \in L <=> w \in Years8(V)
  BY <1>1, <1>2, <1>3
<1>5. L = Years8(V)
  BY <1>4
<1> QED BY <1>5, Zenon DEF L

\* The rows with their year still show the wanted ones.
LEMMA Years8Rows ==
  ASSUME NEW d, Sound(d, Reads[8]), NEW X, "o_year" \notin X, NEW V, NEW col,
           Answers8Rows(d, X, V, col)
  PROVE  /\ Answers8Rows(d, X \cup {"o_year"}, Years8(V), col)
         /\ \A w \in Years8(V) : "o_year" \in DOMAIN w /\ w["o_year"] = Year(w["o_orderdate"])
<1> DEFINE W == Years8(V)
           Y == X \cup {"o_year"}
<1>1. Has(V, "o_orderdate")
  <2>1. \A z \in Wanted8(d) : Keeps(d, Base8, z)
    BY Columns8Are
  <2>2. Fits(d, Reads[8])
    BY DEF Sound
  <2> HIDE DEF Wanted8
  <2> QED BY <2>1, <2>2, PartOf8 DEF Answers8Rows, Has
<1>2. "o_year" \notin Cols(Tables8)
  BY ExtraIsApart8 DEF Extra8
<1>3. Shows(d, Tables8, X, V, Wanted8(d))
  BY DEF Answers8Rows
<1> HIDE DEF Y, W
<1>4. ExtendAll(W, V)
  BY <1>1, <1>2, <1>3, ShowsYear DEF W, Years8
<1>5. Shows(d, Tables8, Y, W, Wanted8(d))
  BY <1>1, <1>2, <1>3, ShowsYear DEF W, Y, Years8
<1>6. ASSUME NEW w \in W PROVE "o_year" \in DOMAIN w /\ w["o_year"] = Year(w["o_orderdate"])
  <2>1. PICK u \in V : w = YearAdded(u, "o_year", "o_orderdate")
    BY Zenon DEF W, WithYear, Years8
  <2>2. IsFcn(u) /\ "o_year" \notin DOMAIN u /\ "o_orderdate" \in DOMAIN u
    <3>1. IsFcn(u) /\ DOMAIN u \subseteq Cols(Tables8) \cup X
      BY <1>3 DEF Shows
    <3> QED BY <1>1, <1>2, <3>1 DEF Has
  <2>3. DOMAIN w = DOMAIN u \cup {"o_year"} /\ w["o_year"] = Year(u["o_orderdate"])
          /\ w["o_orderdate"] = u["o_orderdate"]
    BY <2>1, <2>2 DEF YearAdded, Joined
  <2> QED BY <2>3
<1>7. Tells(d, NationName, W, "s_nationkey", col)
  BY <1>4, TellsMore DEF Answers8Rows
<1> QED BY <1>5, <1>6, <1>7 DEF Answers8Rows, W, Y

\* The revenues are numbers.
LEMMA Revenues8 ==
  ASSUME NEW d, Sound(d, Reads[8]), NEW X, NEW W, NEW col, Answers8Rows(d, X, W, col)
  PROVE  IsFiniteSet(W) /\ \A w \in W : Revenue(w) \in Int
<1>1. IsFiniteSet(W)
  BY FiniteWanted8, ShowsFinite DEF Answers8Rows
<1>2. ASSUME NEW w \in W PROVE Revenue(w) \in Int
  <2> DEFINE z == Part(w, Tables8)
  <2>1. z \in Wanted8(d)
    BY DEF Answers8Rows, Shows
  <2>2. DOMAIN z = DOMAIN w \cap Cols(Tables8) /\ \A c \in DOMAIN w \cap Cols(Tables8) : z[c] = w[c]
    BY PartIs
  <2> HIDE DEF z
  <2>3. Revenue(z) \in Int /\ "l_extendedprice" \in DOMAIN z /\ "l_discount" \in DOMAIN z
    BY <2>1, Columns8Are
  <2>4. z["l_extendedprice"] = w["l_extendedprice"] /\ z["l_discount"] = w["l_discount"]
    BY <2>2, <2>3
  <2>5. Revenue(w) = Revenue(z)
    BY <2>4 DEF Revenue
  <2> QED BY <2>3, <2>5
<1> QED BY <1>1, <1>2

SqlShare8(g) == [mkt_share |-> <<Total(g, NationPart8), Total(g, Revenue)>>]

PolarsShare8(g) == [mkt_share |-> <<Total(g, NamePart8), Total(g, Revenue)>>]

PandasShare8(g) == [mkt_share |-> <<Total(Numerator8(g), Revenue), Total(g, Revenue)>>]

\* The three ways to write the share of the market.
LEMMA SharesAre ==
  ASSUME NEW g
  PROVE  SqlShare8(g) = Share8(g, "nation") /\ PolarsShare8(g) = Share8(g, "n_name")
<1>1. /\ \A r : NationPart8(r) = Part8(r, "nation")
      /\ \A r : NamePart8(r) = Part8(r, "n_name")
  BY SMT DEF NationPart8, NamePart8, Part8
<1> DEFINE PN(r) == Part8(r, "nation")
           PM(r) == Part8(r, "n_name")
<1>2. [r \in g |-> NationPart8(r)] = [r \in g |-> PN(r)] /\ [r \in g |-> NamePart8(r)]
        = [r \in g |-> PM(r)]
  BY <1>1
<1>3. Total(g, NationPart8) = Total(g, PN) /\ Total(g, NamePart8) = Total(g, PM)
  BY <1>2, Zenon DEF Total
<1> QED BY <1>3, Zenon DEF SqlShare8, PolarsShare8, Share8

\* The three ways to write the share of the market.
LEMMA PandasShareIs ==
  ASSUME NEW g, IsFiniteSet(g), \A r \in g : Revenue(r) \in Int
  PROVE  PandasShare8(g) = Share8(g, "n_name")
<1> DEFINE P == Numerator8(g)
           PM(r) == Part8(r, "n_name")
           f == [r \in g |-> PM(r)]
           h == [r \in P |-> Revenue(r)]
<1>1. P \in SUBSET g /\ \A r \in g : r \in P <=> r["n_name"] = "BRAZIL"
  BY DEF Numerator8
<1> HIDE DEF P
<1>2. \A r \in g : f[r] \in Int /\ (r \in P => f[r] = Revenue(r)) /\ (r \notin P => f[r] = 0)
  BY <1>1 DEF Part8
<1>3. DOMAIN f = g /\ DOMAIN h = P /\ \A r \in P : h[r] = Revenue(r)
  OBVIOUS
<1>4. Total(g, PM) = SumFunction(f) /\ Total(P, Revenue) = SumFunction(h)
  BY DEF Total
<1> HIDE DEF f, h, PM
<1>5. SumFunctionOnSet(f, g) = SumFunctionOnSet(f, P)
  BY <1>1, <1>2, SumWithoutZeros
<1>6. SumFunctionOnSet(f, P) = SumFunctionOnSet(h, P)
  <2>1. IsFiniteSet(P)
    BY <1>1, FS_Subset
  <2>2. \A r \in P : f[r] = h[r] /\ f[r] \in Int
    BY <1>1, <1>2, <1>3
  <2> DEFINE id == [r \in P |-> r]
  <2>3. OneToOne(id, P, P) /\ \A r \in P : id[r] = r
    BY DEF OneToOne
  <2> HIDE DEF id
  <2>4. \A r \in P : f[r] \in Int /\ h[id[r]] = f[r]
    BY <2>2, <2>3
  <2> QED BY <2>1, <2>3, <2>4, SameSums
<1>7. SumFunction(f) = SumFunctionOnSet(f, g) /\ SumFunction(h) = SumFunctionOnSet(h, P)
  BY <1>3, SumFunctionIs
<1>8. Total(P, Revenue) = Total(g, PM)
  BY <1>4, <1>5, <1>6, <1>7
<1> QED BY <1>8, Zenon DEF PandasShare8, Share8, P, PM

\* The three engines answer q8 alike.
LEMMA Answers8 ==
  ASSUME NEW d, Sound(d, Reads[8]), Fits(d, Reads[8]), NationsDiffer(d), RegionsDiffer(d)
  PROVE  Polars!Q8(d) = Sql!Q8(d) /\ Pandas!Q8(d) = Sql!Q8(d)
<1> DEFINE WS == Years8(Sql8(d))
           WF == Years8(Frames8(d))
           G == Groups8(d)
           S(g) == Share8(g, "nation")
           F(g) == Share8(g, "n_name")
<1>1. "o_year" \notin Columns8 /\ "o_year" \notin SqlColumns8
  BY DEF Columns8, SqlColumns8, Columns
<1>2. Answers8Rows(d, SqlColumns8, Sql8(d), "nation")
        /\ Answers8Rows(d, Columns8, Frames8(d), "n_name")
  BY Sql8Rows, Frames8Rows
<1>3. Answers8Rows(d, SqlColumns8 \cup {"o_year"}, WS, "nation")
  BY <1>1, <1>2, Years8Rows
<1>4. \A w \in WS : "o_year" \in DOMAIN w /\ w["o_year"] = Year(w["o_orderdate"])
  BY <1>1, <1>2, Years8Rows
<1>5. Answers8Rows(d, Columns8 \cup {"o_year"}, WF, "n_name")
  BY <1>1, <1>2, Years8Rows
<1>6. \A w \in WF : "o_year" \in DOMAIN w /\ w["o_year"] = Year(w["o_orderdate"])
  BY <1>1, <1>2, Years8Rows
<1>7. IsFiniteSet(WF) /\ \A w \in WF : Revenue(w) \in Int
  BY <1>5, Revenues8
<1> HIDE DEF WS, WF, G
<1>8. GroupBy(WS, Key8, S) = G
  <2>1. ShareGroups8(WS, "nation") = G
    BY <1>3, <1>4, Groups8Are DEF G
  <2> QED BY <2>1, Zenon DEF ShareGroups8
<1>9. GroupBy(WF, Key8, F) = G
  <2>1. ShareGroups8(WF, "n_name") = G
    BY <1>5, <1>6, Groups8Are DEF G
  <2> QED BY <2>1, Zenon DEF ShareGroups8
<1>10. GroupBy(WS, Key8, SqlShare8) = GroupBy(WS, Key8, S)
  BY SharesAre, Zenon DEF GroupBy
<1>11. GroupBy(WF, Key8, PolarsShare8) = GroupBy(WF, Key8, F)
  BY SharesAre, Zenon DEF GroupBy
<1>12. GroupBy(WF, Key8, PandasShare8) = GroupBy(WF, Key8, F)
  <2>1. ASSUME NEW k PROVE PandasShare8({r \in WF : On(r, Key8) = k})
                 = F({r \in WF : On(r, Key8) = k})
    <3> DEFINE g == {r \in WF : On(r, Key8) = k}
    <3>1. IsFiniteSet(g) /\ \A r \in g : Revenue(r) \in Int
      BY <1>7, FS_Subset
    <3> HIDE DEF g
    <3>2. PandasShare8(g) = F(g)
      BY <3>1, PandasShareIs
    <3> QED BY <3>2 DEF g
  <2> QED BY <2>1, Zenon DEF GroupBy
<1> HIDE DEF S, F
<1>13. SqlAnswer8(Sql8(d)) = OfGroups8(GroupBy(WS, Key8, SqlShare8))
  BY Years8Is, Zenon DEF SqlAnswer8, OfGroups8, Key8, SqlShare8, WS
<1>14. PolarsAnswer8(Frames8(d)) = OfGroups8(GroupBy(WF, Key8, PolarsShare8))
  BY Years8Is, Zenon DEF PolarsAnswer8, OfGroups8, Key8, PolarsShare8, WF
<1>15. PandasAnswer8(Frames8(d)) = OfGroups8(GroupBy(WF, Key8, PandasShare8))
  BY Years8Is, Zenon DEF PandasAnswer8, OfGroups8, Key8, PandasShare8, WF
<1>16. SqlAnswer8(Sql8(d)) = OfGroups8(G) /\ PolarsAnswer8(Frames8(d)) = OfGroups8(G)
         /\ PandasAnswer8(Frames8(d)) = OfGroups8(G)
  BY <1>8, <1>9, <1>10, <1>11, <1>12, <1>13, <1>14, <1>15, Zenon
<1> QED BY <1>16, Sql8Is, Polars8Is, Pandas8Is, Zenon

\* The columns that q21 reads.
LEMMA Reads21 ==
  /\ DOMAIN Reads[21] = {"supplier", "lineitem", "orders", "nation"}
  /\ "s_suppkey" \in Reads[21]["supplier"] /\ "s_nationkey" \in Reads[21]["supplier"]
       /\ "s_name" \in Reads[21]["supplier"]
  /\ "l_orderkey" \in Reads[21]["lineitem"] /\ "l_suppkey" \in Reads[21]["lineitem"]
       /\ "l_commitdate" \in Reads[21]["lineitem"] /\ "l_receiptdate" \in Reads[21]["lineitem"]
  /\ "o_orderkey" \in Reads[21]["orders"] /\ "o_orderstatus" \in Reads[21]["orders"]
  /\ "n_nationkey" \in Reads[21]["nation"] /\ "n_name" \in Reads[21]["nation"]
BY DEF Reads

\* The rows of the product that the SQL of q21 selects from.
LEMMA Product21 ==
  ASSUME NEW d, NEW N, N = Reads[21], Fits(d, N), NEW x
  PROVE  x \in d.supplier \otimes d.lineitem \otimes d.orders \otimes d.nation <=> Keeps(d, N, x)
<1>N. DOMAIN N = {"supplier", "lineitem", "orders", "nation"}
  BY Reads21
<1> DEFINE T1 == {"supplier"}
           T2 == T1 \cup {"lineitem"}
           T3 == T2 \cup {"orders"}
           T4 == T3 \cup {"nation"}
<1>1. Whole(d, N, T1, d.supplier)
  BY <1>N, WholeTable
<1>2. Whole(d, N, T2, d.supplier \otimes d.lineitem)
  BY <1>N, <1>1, WholeProduct
<1>3. Whole(d, N, T3, d.supplier \otimes d.lineitem \otimes d.orders)
  BY <1>N, <1>2, WholeProduct
<1>4. Whole(d, N, T4, d.supplier \otimes d.lineitem \otimes d.orders \otimes d.nation)
  BY <1>N, <1>3, WholeProduct
<1>5. Among(DOMAIN N, T4)
  BY <1>N DEF Among
<1> QED BY <1>4, <1>5, KeptInWhole

Frame21(d, R) ==
    LET suppliers == MergeOn(R, d.supplier, "l_suppkey", "s_suppkey")
        nations == MergeOn(suppliers, d.nation, "s_nationkey", "n_nationkey")
    IN  MergeOn(nations, d.orders, "l_orderkey", "o_orderkey")

\* The rows of the joins of q21, in terms of the tables.
LEMMA InFrame21 ==
  ASSUME NEW d, NEW N, N = Reads[21], Fits(d, N), NEW R, \A l \in R : l \in d.lineitem, NEW x
  PROVE  /\ x \in Frame21(d, R) =>
             /\ Keeps(d, N, x) /\ Part(x, {"lineitem"}) \in R
             /\ x.l_suppkey = x.s_suppkey
             /\ x.s_nationkey = x.n_nationkey
             /\ x.l_orderkey = x.o_orderkey
         /\ /\ Keeps(d, N, x) /\ Part(x, {"lineitem"}) \in R
            /\ x.l_suppkey = x.s_suppkey
            /\ x.s_nationkey = x.n_nationkey
            /\ x.l_orderkey = x.o_orderkey
            => x \in Frame21(d, R)
<1>N. DOMAIN N = {"supplier", "lineitem", "orders", "nation"}
  BY Reads21
<1>C. /\ "l_suppkey" \in N["lineitem"]
      /\ "s_suppkey" \in N["supplier"]
      /\ "s_nationkey" \in N["supplier"]
      /\ "n_nationkey" \in N["nation"]
      /\ "l_orderkey" \in N["lineitem"]
      /\ "o_orderkey" \in N["orders"]
  BY Reads21
<1> DEFINE V1 == {"lineitem"}
           V2 == V1 \cup {"supplier"}
           V3 == V2 \cup {"nation"}
           V4 == V3 \cup {"orders"}
           suppliers == MergeOn(R, d.supplier, "l_suppkey", "s_suppkey")
           nations == MergeOn(suppliers, d.nation, "s_nationkey", "n_nationkey")
           all == MergeOn(nations, d.orders, "l_orderkey", "o_orderkey")
<1>10. Joins(d, N, V1, R, {"supplier"}, d.supplier, "l_suppkey", "s_suppkey")
  <2>1. Frame(d, N, V1, R)
    <3>1. Frame(d, N, V1, d["lineitem"])
      BY <1>N, FrameTable
    <3> QED BY <3>1, FrameOfSome
  <2> QED BY <1>N, <1>C, <2>1, FrameTable DEF Joins, Apart, Names
<1>11. Joins(d, N, V2, suppliers, {"nation"}, d.nation, "s_nationkey", "n_nationkey")
  BY <1>N, <1>C, <1>10, FrameMerge, FrameTable DEF Joins, Apart, Names
<1>12. Joins(d, N, V3, nations, {"orders"}, d.orders, "l_orderkey", "o_orderkey")
  BY <1>N, <1>C, <1>11, FrameMerge, FrameTable DEF Joins, Apart, Names
<1>13. Frame(d, N, V4, all)
  BY <1>12, FrameMerge
<1>20. ASSUME Keeps(d, N, x)
      PROVE  Part(x, V4) \in all <=>
                /\ Part(x, {"lineitem"}) \in R
                /\ x.l_suppkey = x.s_suppkey
                /\ x.s_nationkey = x.n_nationkey
                /\ x.l_orderkey = x.o_orderkey
  <2>1. /\ Part(x, {"supplier"}) \in d.supplier
        /\ Part(x, {"nation"}) \in d.nation
        /\ Part(x, {"orders"}) \in d.orders
    BY <1>20, <1>N, KeptInTable
  <2>2. Part(x, V2) \in suppliers <=> Part(x, V1) \in R /\ Part(x, {"supplier"}) \in d.supplier
          /\ x.l_suppkey = x.s_suppkey
    BY <1>20, <1>10, KeptByMerge
  <2>3. Part(x, V3) \in nations <=> Part(x, V2) \in suppliers /\ Part(x, {"nation"}) \in d.nation
          /\ x.s_nationkey = x.n_nationkey
    BY <1>20, <1>11, KeptByMerge
  <2>4. Part(x, V4) \in all <=> Part(x, V3) \in nations /\ Part(x, {"orders"}) \in d.orders
          /\ x.l_orderkey = x.o_orderkey
    BY <1>20, <1>12, KeptByMerge
  <2> HIDE DEF V2, V3, V4, suppliers, nations, all
  <2> QED BY <2>1, <2>2, <2>3, <2>4
<1>21. (\A y \in all : Keeps(d, N, y)) /\ (Keeps(d, N, x) => Part(x, V4) = x)
  <2>1. Among(DOMAIN N, V4)
    BY <1>N DEF Among
  <2> HIDE DEF V2, V3, V4, suppliers, nations, all
  <2> QED BY <1>13, <2>1, KeptInAll
<1>22. Frame21(d, R) = all
  BY DEF Frame21
<1> HIDE DEF V1, V2, V3, V4, suppliers, nations, all
<1> QED BY <1>20, <1>21, <1>22

-----------------------------------------------------------------------------
(* q21: the suppliers that kept an order of several suppliers waiting.     *)

OrderKey21 == {"l_orderkey"}

CountColumns21 == {"l_orderkey", "n_supp_by_order"}

OfOrder21(R, k) == {l \in R : l["l_orderkey"] = k}

Size21(R, k) == Cardinality(OfOrder21(R, k))

(* A row of the table of counts.                                           *)
Count21(k, n) == [c \in CountColumns21 |-> IF c = "l_orderkey" THEN k ELSE n]

Counts21(R) == {Count21(l["l_orderkey"], Size21(R, l["l_orderkey"])) : l \in R}

PolarsCounts21(R) == GroupBy(R, {"l_orderkey"}, LAMBDA g : [n_supp_by_order |-> Cardinality(g)])

PandasCounts21(R) == GroupBy(R, {"l_orderkey"}, LAMBDA g :
  [n_supp_by_order |-> Count(g, "l_suppkey")])

\* The row that counts an order's lineitems.
LEMMA CountIs21 ==
  ASSUME NEW l, NEW n
  PROVE  Joined(On(l, OrderKey21), [n_supp_by_order |-> n]) = Count21(l["l_orderkey"], n)
<1> DEFINE x == On(l, OrderKey21)
           y == [n_supp_by_order |-> n]
           z == Count21(l["l_orderkey"], n)
<1>1. DOMAIN x = OrderKey21 /\ x["l_orderkey"] = l["l_orderkey"]
  BY DEF On, OrderKey21
<1>2. DOMAIN y = {"n_supp_by_order"} /\ y["n_supp_by_order"] = n
  OBVIOUS
<1>3. IsFcn(z) /\ DOMAIN z = CountColumns21 /\ z["l_orderkey"] = l["l_orderkey"]
        /\ z["n_supp_by_order"] = n
  BY DEF Count21, CountColumns21, IsFcn
<1> HIDE DEF x, y, z
<1>4. /\ IsFcn(Joined(x, y)) /\ DOMAIN Joined(x, y) = CountColumns21
      /\ Joined(x, y)["l_orderkey"] = l["l_orderkey"] /\ Joined(x, y)["n_supp_by_order"] = n
  <2>1. IsFcn(Joined(x, y)) /\ DOMAIN Joined(x, y) = DOMAIN x \cup DOMAIN y
    BY JoinedIs
  <2>2. Joined(x, y)["l_orderkey"] = x["l_orderkey"]
    BY <1>1, JoinedLeft DEF OrderKey21
  <2>3. Joined(x, y)["n_supp_by_order"] = y["n_supp_by_order"]
    BY <1>1, <1>2, JoinedRight DEF OrderKey21
  <2> QED BY <1>1, <1>2, <2>1, <2>2, <2>3 DEF OrderKey21, CountColumns21
<1>5. Joined(x, y) = z
  <2>1. \A c \in CountColumns21 : Joined(x, y)[c] = z[c]
    BY <1>3, <1>4 DEF CountColumns21
  <2> QED BY <1>3, <1>4, <2>1, SameFcn
<1> QED BY <1>5 DEF x, y, z

\* A group by order.
LEMMA SameOrder21 ==
  ASSUME NEW R, NEW l
  PROVE  {r \in R : On(r, OrderKey21) = On(l, OrderKey21)} = OfOrder21(R, l["l_orderkey"])
<1>1. ASSUME NEW r PROVE On(r, OrderKey21) = On(l, OrderKey21) <=> r["l_orderkey"] = l["l_orderkey"]
  <2>1. ASSUME On(r, OrderKey21) = On(l, OrderKey21) PROVE r["l_orderkey"] = l["l_orderkey"]
    <3>1. On(r, OrderKey21)["l_orderkey"] = r["l_orderkey"] /\ On(l, OrderKey21)["l_orderkey"]
            = l["l_orderkey"]
      BY DEF On, OrderKey21
    <3> QED BY <2>1, <3>1
  <2>2. ASSUME r["l_orderkey"] = l["l_orderkey"] PROVE On(r, OrderKey21) = On(l, OrderKey21)
    BY <2>2 DEF On, OrderKey21
  <2> QED BY <2>1, <2>2
<1> QED BY <1>1 DEF OfOrder21

\* The engine's counts are Counts21.
LEMMA PolarsCounts21Are ==
  ASSUME NEW R
  PROVE  PolarsCounts21(R) = Counts21(R)
<1> DEFINE G(k) == {r \in R : On(r, OrderKey21) = k}
           row(k) == Joined(k, [n_supp_by_order |-> Cardinality(G(k))])
           L == PolarsCounts21(R)
<1>1. L = {row(k) : k \in Project(R, OrderKey21)}
  BY Zenon DEF PolarsCounts21, GroupBy, OrderKey21
<1>2. ASSUME NEW l PROVE row(On(l, OrderKey21)) = Count21(l["l_orderkey"],
               Size21(R, l["l_orderkey"]))
  <2>1. G(On(l, OrderKey21)) = OfOrder21(R, l["l_orderkey"])
    BY SameOrder21
  <2> QED BY <2>1, CountIs21, Zenon DEF Size21
<1>3. \A k : k \in Project(R, OrderKey21) <=> \E l \in R : k = On(l, OrderKey21)
  BY Zenon DEF Project
<1> HIDE DEF row, L
<1>4. \A x : x \in L <=> \E l \in R : x = row(On(l, OrderKey21))
  BY <1>1, <1>3
<1>5. \A x : x \in L <=> x \in Counts21(R)
  BY <1>2, <1>4 DEF Counts21
<1>6. L = Counts21(R)
  BY <1>5
<1> QED BY <1>6 DEF L

\* The engine's counts are Counts21.
LEMMA PandasCounts21Are ==
  ASSUME NEW R, \A l \in R : l["l_suppkey"] # Null
  PROVE  PandasCounts21(R) = Counts21(R)
<1> DEFINE G(k) == {r \in R : On(r, OrderKey21) = k}
           row(k) == Joined(k, [n_supp_by_order |-> Count(G(k), "l_suppkey")])
           L == PandasCounts21(R)
<1>1. L = {row(k) : k \in Project(R, OrderKey21)}
  BY Zenon DEF PandasCounts21, GroupBy, OrderKey21
<1>2. ASSUME NEW l PROVE row(On(l, OrderKey21)) = Count21(l["l_orderkey"],
               Size21(R, l["l_orderkey"]))
  <2>1. G(On(l, OrderKey21)) = OfOrder21(R, l["l_orderkey"])
    BY SameOrder21
  <2>2. {r \in OfOrder21(R, l["l_orderkey"]) : r["l_suppkey"] # Null}
          = OfOrder21(R, l["l_orderkey"])
    BY DEF OfOrder21
  <2>3. Count(OfOrder21(R, l["l_orderkey"]), "l_suppkey") = Size21(R, l["l_orderkey"])
    BY <2>2, Zenon DEF Count, Size21
  <2> QED BY <2>1, <2>3, CountIs21, Zenon
<1>3. \A k : k \in Project(R, OrderKey21) <=> \E l \in R : k = On(l, OrderKey21)
  BY Zenon DEF Project
<1> HIDE DEF row, L
<1>4. \A x : x \in L <=> \E l \in R : x = row(On(l, OrderKey21))
  BY <1>1, <1>3
<1>5. \A x : x \in L <=> x \in Counts21(R)
  BY <1>2, <1>4 DEF Counts21
<1>6. L = Counts21(R)
  BY <1>5
<1> QED BY <1>6 DEF L

(* Joining a table of counts to the rows it counts.                        *)
Counting21(R, M) ==
    \A m \in M : \E k : m = Count21(k, Size21(R, k))

\* A row of the counts.
LEMMA CountRow21 ==
  ASSUME NEW R, NEW M, Counting21(R, M), NEW m \in M
  PROVE  /\ IsFcn(m) /\ DOMAIN m = CountColumns21
         /\ m["n_supp_by_order"] = Size21(R, m["l_orderkey"])
         /\ m = Count21(m["l_orderkey"], Size21(R, m["l_orderkey"]))
<1>1. PICK k : m = Count21(k, Size21(R, k))
  BY DEF Counting21
<1>2. m["l_orderkey"] = k /\ m["n_supp_by_order"] = Size21(R, k) /\ DOMAIN m = CountColumns21
        /\ IsFcn(m)
  BY <1>1 DEF Count21, CountColumns21, IsFcn
<1> QED BY <1>1, <1>2

T21 == {"lineitem"}

X21 == {"n_supp_by_order"}

\* The column of the count is no table's.
LEMMA NoCountColumn21 ==
  /\ "l_orderkey" \in Cols(T21) /\ "n_supp_by_order" \notin Cols(T21)
  /\ CountColumns21 = OrderKey21 \cup X21
BY ColsOfOne DEF T21, Columns, CountColumns21, OrderKey21, X21

\* A lineitem with the count of its order.
LEMMA JoinedCount21 ==
  ASSUME NEW R, NEW M, Counting21(R, M), NEW m \in M,
         NEW u, IsFcn(u), DOMAIN u \subseteq Cols(T21) \cup X21, "l_orderkey" \in DOMAIN u,
         m["l_orderkey"] = u["l_orderkey"]
  PROVE  /\ IsFcn(Joined(m, u)) /\ DOMAIN Joined(m, u) = DOMAIN u \cup X21
         /\ Part(Joined(m, u), T21) = Part(u, T21)
         /\ Joined(m, u)["l_orderkey"] = u["l_orderkey"]
         /\ Joined(m, u)["n_supp_by_order"] = Size21(R, u["l_orderkey"])
<1> DEFINE v == Joined(m, u)
<1>1. /\ DOMAIN m = CountColumns21
      /\ m["n_supp_by_order"] = Size21(R, m["l_orderkey"])
  BY CountRow21
<1>2. IsFcn(v) /\ DOMAIN v = DOMAIN m \cup DOMAIN u
  BY JoinedIs
<1>3. \A c \in DOMAIN m : v[c] = m[c]
  BY JoinedLeft
<1>4. \A c \in DOMAIN u : c \notin DOMAIN m => v[c] = u[c]
  BY JoinedRight
<1> HIDE DEF v
<1>5. DOMAIN v = DOMAIN u \cup X21
  BY <1>1, <1>2, NoCountColumn21 DEF OrderKey21
<1>6. v["l_orderkey"] = u["l_orderkey"] /\ v["n_supp_by_order"] = Size21(R, u["l_orderkey"])
  BY <1>1, <1>3, NoCountColumn21 DEF OrderKey21, X21
<1>7. Part(v, T21) = Part(u, T21)
  <2>1. DOMAIN v \cap Cols(T21) = DOMAIN u \cap Cols(T21)
    BY <1>5, NoCountColumn21 DEF X21
  <2>2. ASSUME NEW c \in DOMAIN u \cap Cols(T21) PROVE v[c] = u[c]
    <3>1. CASE c = "l_orderkey"
      BY <3>1, <1>6
    <3>2. CASE c # "l_orderkey"
      BY <3>2, <1>1, <1>4, NoCountColumn21 DEF OrderKey21, X21
    <3> QED BY <3>1, <3>2
  <2> QED BY <2>1, <2>2, PartOfMore
<1> QED BY <1>2, <1>5, <1>6, <1>7 DEF v

(* The rows V carry the sizes of the orders in R.                          *)
CarriesSizes21(R, V) ==
    \A v \in V : /\ {"l_orderkey", "n_supp_by_order"} \subseteq DOMAIN v
                 /\ v["n_supp_by_order"] = Size21(R, v["l_orderkey"])

\* The join with the counts keeps a showing.
LEMMA ShowsCounted21 ==
  ASSUME NEW d, NEW U, NEW B, Shows(d, T21, X21, U, B), Has(B, "l_orderkey"),
         NEW R, NEW M, Counting21(R, M),
         NEW C, \A z : z \in C <=> z \in B /\ \E m \in M : m["l_orderkey"] = z["l_orderkey"]
  PROVE  /\ Shows(d, T21, X21, MergeOn(M, U, "l_orderkey", "l_orderkey"), C)
         /\ CarriesSizes21(R, MergeOn(M, U, "l_orderkey", "l_orderkey"))
<1> DEFINE V == MergeOn(M, U, "l_orderkey", "l_orderkey")
<1>1. ASSUME NEW v PROVE v \in V <=> \E m \in M, u \in U : m["l_orderkey"] = u["l_orderkey"] /\ v
               = Joined(m, u)
  <2>1. \A l, r : Match(l, r, <<"l_orderkey">>, <<"l_orderkey">>) <=> l["l_orderkey"]
          = r["l_orderkey"]
    BY DEF Match
  <2> QED BY <2>1, InMerge DEF MergeOn
<1> HIDE DEF V
<1>2. ASSUME NEW u \in U
      PROVE  /\ IsFcn(u) /\ DOMAIN u \subseteq Cols(T21) \cup X21 /\ "l_orderkey" \in DOMAIN u
             /\ Part(u, T21) \in B /\ Part(u, T21)["l_orderkey"] = u["l_orderkey"]
  <2>1. IsFcn(u) /\ DOMAIN u \subseteq Cols(T21) \cup X21 /\ Part(u, T21) \in B
    BY DEF Shows
  <2>2. Has(U, "l_orderkey") /\ \A w \in U : Part(w, T21)["l_orderkey"] = w["l_orderkey"]
    BY ShowsHas
  <2> QED BY <2>1, <2>2 DEF Has
<1>3. ASSUME NEW u \in U, NEW m \in M, m["l_orderkey"] = u["l_orderkey"]
      PROVE  /\ IsFcn(Joined(m, u)) /\ DOMAIN Joined(m, u) = DOMAIN u \cup X21
             /\ Part(Joined(m, u), T21) = Part(u, T21)
             /\ Joined(m, u)["l_orderkey"] = u["l_orderkey"]
             /\ Joined(m, u)["n_supp_by_order"] = Size21(R, u["l_orderkey"])
  BY <1>2, <1>3, JoinedCount21
<1>4. \A z \in C : IsRow(d, T21, z)
  BY DEF Shows
<1>5. ASSUME NEW v \in V
      PROVE  /\ IsFcn(v) /\ DOMAIN v \subseteq Cols(T21) \cup X21 /\ Part(v, T21) \in C
             /\ {"l_orderkey", "n_supp_by_order"} \subseteq DOMAIN v
             /\ v["n_supp_by_order"] = Size21(R, v["l_orderkey"])
  <2>1. PICK m \in M, u \in U : m["l_orderkey"] = u["l_orderkey"] /\ v = Joined(m, u)
    BY <1>1
  <2>2. Part(u, T21) \in C
    BY <1>2, <2>1
  <2>3. /\ IsFcn(v) /\ DOMAIN v = DOMAIN u \cup X21 /\ Part(v, T21) = Part(u, T21)
        /\ v["l_orderkey"] = u["l_orderkey"] /\ v["n_supp_by_order"] = Size21(R, u["l_orderkey"])
    BY <1>3, <2>1
  <2>4. DOMAIN u \subseteq Cols(T21) \cup X21 /\ "l_orderkey" \in DOMAIN u
    BY <1>2
  <2>5. DOMAIN v \subseteq Cols(T21) \cup X21
          /\ {"l_orderkey", "n_supp_by_order"} \subseteq DOMAIN v
    BY <2>3, <2>4 DEF X21
  <2>6. v["n_supp_by_order"] = Size21(R, v["l_orderkey"])
    BY <2>3
  <2>7. Part(v, T21) \in C
    BY <2>2, <2>3
  <2> QED BY <2>3, <2>5, <2>6, <2>7
<1>6. ASSUME NEW z \in C PROVE \E v \in V : Part(v, T21) = z
  <2>1. z \in B
    OBVIOUS
  <2>2. PICK u \in U : Part(u, T21) = z
    BY <2>1 DEF Shows
  <2>3. PICK m \in M : m["l_orderkey"] = u["l_orderkey"]
    BY <1>2, <2>2
  <2>4. Joined(m, u) \in V
    BY <1>1, <2>3
  <2> QED BY <1>3, <2>2, <2>3, <2>4
<1>7. ASSUME NEW v \in V, NEW w \in V, Part(v, T21) = Part(w, T21) PROVE v = w
  <2>1. PICK m \in M, u \in U : m["l_orderkey"] = u["l_orderkey"] /\ v = Joined(m, u)
    BY <1>1
  <2>2. PICK n \in M, s \in U : n["l_orderkey"] = s["l_orderkey"] /\ w = Joined(n, s)
    BY <1>1
  <2>3. Part(u, T21) = Part(s, T21)
    BY <1>3, <1>7, <2>1, <2>2
  <2>4. u = s
    BY <2>3 DEF Shows
  <2>5. m = n
    <3>1. /\ m = Count21(m["l_orderkey"], Size21(R, m["l_orderkey"]))
          /\ n = Count21(n["l_orderkey"], Size21(R, n["l_orderkey"]))
      BY CountRow21
    <3> QED BY <2>1, <2>2, <2>4, <3>1
  <2> QED BY <2>1, <2>2, <2>4, <2>5
<1>8. Shows(d, T21, X21, V, C)
  BY <1>4, <1>5, <1>6, <1>7 DEF Shows
<1>9. CarriesSizes21(R, V)
  BY <1>5 DEF CarriesSizes21
<1> QED BY <1>8, <1>9 DEF V

Late21(l) == l.l_receiptdate > l.l_commitdate

LateLines21(d) == {l \in d.lineitem : Late21(l)}

(* The late lines of an order that has several.                            *)
LateOfSeveral21(d) == {l \in d.lineitem : Late21(l) /\ Size21(d.lineitem, l["l_orderkey"]) > 1}

(* Those that are the only late line of their order.                       *)
OnlyLate21(d) == {l \in LateOfSeveral21(d) : Size21(LateOfSeveral21(d), l["l_orderkey"]) = 1}

SeveralCounts21(d) == {o \in Counts21(d.lineitem) : o.n_supp_by_order > 1}

First21(d) == MergeOn(SeveralCounts21(d), LateLines21(d), "l_orderkey", "l_orderkey")

Second21(d) == MergeOn(Counts21(First21(d)), First21(d), "l_orderkey", "l_orderkey")

Single21(d) == {r \in Second21(d) : r.n_supp_by_order = 1}

\* The lineitems have the columns that q21 reads.
LEMMA Lines21 ==
  ASSUME NEW d, Fits(d, Reads[21])
  PROVE  /\ AreRows(d, T21, d.lineitem)
         /\ \A l \in d.lineitem : {"l_orderkey", "l_suppkey", "l_commitdate",
              "l_receiptdate"} \subseteq DOMAIN l
<1>1. /\ "lineitem" \in DOMAIN Reads[21]
      /\ {"l_orderkey", "l_suppkey", "l_commitdate",
           "l_receiptdate"} \subseteq Reads[21]["lineitem"]
  BY Reads21
<1>2. AreRows(d, {"lineitem"}, d["lineitem"])
  BY <1>1, TableRows
<1>3. \A l \in d["lineitem"] : Reads[21]["lineitem"] \subseteq DOMAIN l
  BY <1>1 DEF Fits
<1> QED BY <1>1, <1>2, <1>3 DEF T21

\* There is a count for each order of the rows.
LEMMA CountsCount21 ==
  ASSUME NEW R
  PROVE  /\ Counting21(R, Counts21(R))
         /\ \A k : (\E m \in Counts21(R) : m["l_orderkey"] = k) <=> \E l \in R : l["l_orderkey"] = k
<1>1. \A m : m \in Counts21(R) <=> \E l \in R : m
        = Count21(l["l_orderkey"], Size21(R, l["l_orderkey"]))
  BY DEF Counts21
<1>2. \A k, n : Count21(k, n)["l_orderkey"] = k
  BY DEF Count21, CountColumns21
<1>3. Counting21(R, Counts21(R))
  BY <1>1 DEF Counting21
<1>4. ASSUME NEW k PROVE (\E m \in Counts21(R) : m["l_orderkey"] = k) <=> \E l \in R :
               l["l_orderkey"] = k
  BY <1>1, <1>2
<1> QED BY <1>3, <1>4

\* The first frame shows the late lineitems of orders with several.
LEMMA First21Shows ==
  ASSUME NEW d, Fits(d, Reads[21])
  PROVE  Shows(d, T21, X21, First21(d), LateOfSeveral21(d))
<1> DEFINE R == d.lineitem
           M == SeveralCounts21(d)
           U == LateLines21(d)
           C == LateOfSeveral21(d)
<1>1. AreRows(d, T21, U) /\ Has(U, "l_orderkey") /\ \A l : l \in U <=> l \in R /\ Late21(l)
  BY Lines21 DEF LateLines21, AreRows, Has
<1>2. Shows(d, T21, X21, U, U)
  BY <1>1, ShowsTable
<1>3. \A m : m \in M <=> m \in Counts21(R) /\ m["n_supp_by_order"] > 1
  BY DEF SeveralCounts21
<1>4. Counting21(R, Counts21(R))
  BY CountsCount21
<1>5. Counting21(R, M)
  BY <1>3, <1>4 DEF Counting21
<1>6. \A l : l \in C <=> l \in R /\ Late21(l) /\ Size21(R, l["l_orderkey"]) > 1
  BY DEF LateOfSeveral21
<1> HIDE DEF R, M, U, C
<1>7. ASSUME NEW z PROVE z \in C <=> z \in U /\ \E m \in M : m["l_orderkey"] = z["l_orderkey"]
  <2>1. \A m \in Counts21(R) : m["n_supp_by_order"] = Size21(R, m["l_orderkey"])
    BY <1>4, CountRow21
  <2>2. ASSUME z \in U, Size21(R, z["l_orderkey"]) > 1
        PROVE  \E m \in M : m["l_orderkey"] = z["l_orderkey"]
    <3>1. PICK m \in Counts21(R) : m["l_orderkey"] = z["l_orderkey"]
      BY <1>1, <2>2, CountsCount21
    <3>2. m["n_supp_by_order"] > 1
      BY <2>1, <2>2, <3>1
    <3> QED BY <1>3, <3>1, <3>2
  <2>3. ASSUME NEW m \in M, m["l_orderkey"] = z["l_orderkey"] PROVE Size21(R, z["l_orderkey"]) > 1
    BY <1>3, <2>1, <2>3
  <2> QED BY <1>1, <1>6, <2>2, <2>3
<1>8. Shows(d, T21, X21, MergeOn(M, U, "l_orderkey", "l_orderkey"), C)
  BY <1>1, <1>2, <1>5, <1>7, ShowsCounted21
<1> QED BY <1>8 DEF First21, M, U, C

\* So does the second, with the counts of the late ones.
LEMMA Second21Shows ==
  ASSUME NEW d, Fits(d, Reads[21])
  PROVE  /\ Shows(d, T21, X21, Second21(d), LateOfSeveral21(d))
         /\ CarriesSizes21(First21(d), Second21(d))
<1> DEFINE U == First21(d)
           M == Counts21(U)
           B == LateOfSeveral21(d)
<1>1. Shows(d, T21, X21, U, B)
  BY First21Shows
<1>2. Has(B, "l_orderkey")
  BY Lines21 DEF LateOfSeveral21, Has
<1>3. Counting21(U, M)
  BY CountsCount21
<1>4. \A k : (\E m \in M : m["l_orderkey"] = k) <=> \E u \in U : u["l_orderkey"] = k
  BY CountsCount21
<1>9. Second21(d) = MergeOn(M, U, "l_orderkey", "l_orderkey")
  BY DEF Second21
<1> HIDE DEF U, M, B
<1>5. ASSUME NEW z \in B PROVE \E m \in M : m["l_orderkey"] = z["l_orderkey"]
  <2>1. PICK u \in U : Part(u, T21) = z
    BY <1>1 DEF Shows
  <2>2. \A w \in U : Part(w, T21)["l_orderkey"] = w["l_orderkey"]
    BY <1>1, <1>2, ShowsHas
  <2>3. u["l_orderkey"] = z["l_orderkey"]
    BY <2>1, <2>2
  <2> QED BY <1>4, <2>3
<1>6. \A z : z \in B <=> z \in B /\ \E m \in M : m["l_orderkey"] = z["l_orderkey"]
  BY <1>5
<1>7. Shows(d, T21, X21, MergeOn(M, U, "l_orderkey", "l_orderkey"), B)
  BY <1>1, <1>2, <1>3, <1>6, ShowsCounted21
<1>8. CarriesSizes21(U, MergeOn(M, U, "l_orderkey", "l_orderkey"))
  BY <1>1, <1>2, <1>3, <1>6, ShowsCounted21
<1> QED BY <1>7, <1>8, <1>9 DEF U, B

(* Rows that show others are as many of each order.                        *)
LEMMA SameSize21 ==
  ASSUME NEW d, NEW U, NEW B, Shows(d, T21, X21, U, B), Has(B, "l_orderkey"), IsFiniteSet(B), NEW k
  PROVE  Size21(U, k) = Size21(B, k)
<1> DEFINE b == [u \in U |-> Part(u, T21)]
           G == OfOrder21(U, k)
           H == OfOrder21(B, k)
<1>1. OneToOne(b, U, B)
  BY ShownOneToOne
<1>2. \A u \in U : b[u]["l_orderkey"] = u["l_orderkey"]
  BY ShowsHas
<1>3. IsFiniteSet(U)
  BY ShowsFinite
<1>4. /\ \A u : u \in G <=> u \in U /\ u["l_orderkey"] = k
      /\ \A z : z \in H <=> z \in B /\ z["l_orderkey"] = k
  BY DEF OfOrder21
<1> HIDE DEF b, G, H
<1>5. IsFiniteSet(G)
  BY <1>3, <1>4, FiniteKept
<1>6. \A u, v \in G : b[u] = b[v] => u = v
  BY <1>1, <1>4 DEF OneToOne
<1>7. Cardinality(ImageOf(b, G)) = Cardinality(G)
  BY <1>5, <1>6, SizeOfImage
<1>8. ASSUME NEW z PROVE z \in ImageOf(b, G) <=> z \in H
  BY <1>1, <1>2, <1>4 DEF OneToOne, ImageOf
<1>9. ImageOf(b, G) = H
  BY <1>8
<1> QED BY <1>7, <1>9 DEF Size21, G, H

\* The filter on one leaves the only late lineitem of its order.
LEMMA Single21Shows ==
  ASSUME NEW d, Sound(d, Reads[21])
  PROVE  Shows(d, T21, X21, Single21(d), OnlyLate21(d))
<1> DEFINE U == Second21(d)
           B == LateOfSeveral21(d)
           V == Single21(d)
           C == OnlyLate21(d)
<1>0. Fits(d, Reads[21])
  BY DEF Sound
<1>1. Shows(d, T21, X21, U, B) /\ Shows(d, T21, X21, First21(d), B)
  BY <1>0, First21Shows, Second21Shows
<1>2. \A v \in U : v["n_supp_by_order"] = Size21(First21(d), v["l_orderkey"])
  BY <1>0, Second21Shows DEF CarriesSizes21
<1>3. Has(B, "l_orderkey")
  BY <1>0, Lines21 DEF LateOfSeveral21, Has
<1>4. IsFiniteSet(B)
  <2>1. IsFiniteSet(d["lineitem"])
    BY Reads21 DEF Sound
  <2> QED BY <2>1, FiniteKept DEF LateOfSeveral21
<1>5. /\ \A v : v \in V <=> v \in U /\ v["n_supp_by_order"] = 1
      /\ \A z : z \in C <=> z \in B /\ Size21(B, z["l_orderkey"]) = 1
  BY DEF Single21, OnlyLate21
<1> HIDE DEF U, B, V, C
<1>6. \A k : Size21(First21(d), k) = Size21(B, k)
  BY <1>1, <1>3, <1>4, SameSize21
<1>7. \A u \in U : Part(u, T21) \in B /\ Part(u, T21)["l_orderkey"] = u["l_orderkey"]
  <2>1. \A u \in U : Part(u, T21)["l_orderkey"] = u["l_orderkey"]
    BY <1>1, <1>3, ShowsHas
  <2> QED BY <1>1, <2>1 DEF Shows
<1>8. \A u \in U : u \in V <=> Part(u, T21) \in C
  BY <1>2, <1>5, <1>6, <1>7
<1>9. (\A v \in V : v \in U) /\ (\A z \in C : z \in B)
  BY <1>5
<1> QED BY <1>1, <1>8, <1>9, ShowsSome DEF V, C

Asked21(r) == r.n_name = "SAUDI ARABIA" /\ r.o_orderstatus = "F"

(* The rows asked for, by the lines that are the only late one of their    *)
(* order.                                                                  *)
Wanted21(d) == {z \in Frame21(d, OnlyLate21(d)) : Asked21(z)}

Frames21(d) == {r \in Frame21(d, Single21(d)) : Asked21(r)}

Tables21 == ((T21 \cup {"supplier"}) \cup {"nation"}) \cup {"orders"}

\* And the joins with the other tables the wanted rows.
LEMMA FrameShows21 ==
  ASSUME NEW d, Sound(d, Reads[21])
  PROVE  Shows(d, Tables21, X21, Frame21(d, Single21(d)), Frame21(d, OnlyLate21(d)))
<1> DEFINE N == Reads[21]
           U0 == Single21(d)
           B0 == OnlyLate21(d)
           T1 == T21 \cup {"supplier"}
           T2 == T1 \cup {"nation"}
           T3 == T2 \cup {"orders"}
           U1 == MergeOn(U0, d.supplier, "l_suppkey", "s_suppkey")
           B1 == MergeOn(B0, d.supplier, "l_suppkey", "s_suppkey")
           U2 == MergeOn(U1, d.nation, "s_nationkey", "n_nationkey")
           B2 == MergeOn(B1, d.nation, "s_nationkey", "n_nationkey")
           U3 == MergeOn(U2, d.orders, "l_orderkey", "o_orderkey")
           B3 == MergeOn(B2, d.orders, "l_orderkey", "o_orderkey")
<1>1. Fits(d, N)
  BY DEF Sound
<1>2. "supplier" \in DOMAIN N /\ "nation" \in DOMAIN N /\ "orders" \in DOMAIN N
  BY Reads21
<1>3. /\ "s_suppkey" \in N["supplier"] /\ "s_nationkey" \in N["supplier"]
      /\ "n_nationkey" \in N["nation"] /\ "o_orderkey" \in N["orders"]
  BY Reads21
<1> HIDE DEF N
<1>4. AreRows(d, {"supplier"}, d.supplier) /\ Has(d.supplier, "s_suppkey")
        /\ Has(d.supplier, "s_nationkey")
  <2>1. AreRows(d, {"supplier"}, d["supplier"]) /\ \A c \in N["supplier"] : Has(d["supplier"], c)
    BY <1>1, <1>2, TableRows
  <2> QED BY <1>3, <2>1
<1>5. AreRows(d, {"nation"}, d.nation) /\ Has(d.nation, "n_nationkey")
  <2>1. AreRows(d, {"nation"}, d["nation"]) /\ \A c \in N["nation"] : Has(d["nation"], c)
    BY <1>1, <1>2, TableRows
  <2> QED BY <1>3, <2>1
<1>6. AreRows(d, {"orders"}, d.orders) /\ Has(d.orders, "o_orderkey")
  <2>1. AreRows(d, {"orders"}, d["orders"]) /\ \A c \in N["orders"] : Has(d["orders"], c)
    BY <1>1, <1>2, TableRows
  <2> QED BY <1>3, <2>1
<1>7. /\ "l_orderkey" \in Columns["lineitem"] /\ "l_suppkey" \in Columns["lineitem"]
      /\ "s_nationkey" \in Columns["supplier"]
      /\ \A t \in {"lineitem", "supplier", "nation", "orders"} : "n_supp_by_order" \notin Columns[t]
  BY DEF Columns
<1>8. /\ Cols(T21) = Columns["lineitem"] /\ Cols(T1) = Cols(T21) \cup Columns["supplier"]
      /\ Cols(T2) = Cols(T1) \cup Columns["nation"] /\ Cols(T3) = Cols(T2) \cup Columns["orders"]
  <2>1. Cols(T21) = Columns["lineitem"]
    BY ColsOfOne DEF T21
  <2>2. /\ Cols({"supplier"}) = Columns["supplier"] /\ Cols({"nation"}) = Columns["nation"]
        /\ Cols({"orders"}) = Columns["orders"]
    BY ColsOfOne
  <2>3. Cols(T1) = Cols(T21) \cup Cols({"supplier"})
    BY ColsUnion
  <2>4. Cols(T2) = Cols(T1) \cup Cols({"nation"})
    <3> HIDE DEF T1
    <3> QED BY ColsUnion
  <2>5. Cols(T3) = Cols(T2) \cup Cols({"orders"})
    <3> HIDE DEF T2
    <3> QED BY ColsUnion
  <2> QED BY <2>1, <2>2, <2>3, <2>4, <2>5
<1>9. /\ T21 \in SUBSET Tables /\ T1 \in SUBSET Tables /\ T2 \in SUBSET Tables
      /\ "supplier" \in Tables /\ "nation" \in Tables /\ "orders" \in Tables
      /\ "supplier" \notin T21 /\ "nation" \notin T1 /\ "orders" \notin T2
  BY DEF Tables, T21
<1>10. Has(B0, "l_orderkey") /\ Has(B0, "l_suppkey")
  BY <1>1, Lines21 DEF OnlyLate21, LateOfSeveral21, Has, N
<1>11. Shows(d, T21, X21, U0, B0)
  BY Single21Shows
<1>12. /\ Frame21(d, U0) = U3 /\ Frame21(d, B0) = B3 /\ T3 = Tables21
  BY DEF Frame21, Tables21
<1> HIDE DEF U0, B0, U1, U2, U3, B1, B2, B3
<1>13. /\ "l_suppkey" \in Cols(T21) /\ "s_nationkey" \in Cols(T1) /\ "l_orderkey" \in Cols(T2)
       /\ Disjoint(X21, Cols(T21 \cup {"supplier"})) /\ Disjoint(X21, Cols(T1 \cup {"nation"}))
       /\ Disjoint(X21, Cols(T2 \cup {"orders"}))
  <2>1. "n_supp_by_order" \notin Cols(T3) /\ "n_supp_by_order" \notin Cols(T2)
          /\ "n_supp_by_order" \notin Cols(T1)
    BY <1>7, <1>8
  <2> HIDE DEF T1, T2, T3
  <2>2. "l_suppkey" \in Cols(T21) /\ "s_nationkey" \in Cols(T1) /\ "l_orderkey" \in Cols(T2)
    BY <1>7, <1>8
  <2> QED BY <2>1, <2>2 DEF Disjoint, X21, T1, T2, T3
<1> HIDE DEF T1, T2, T3
<1>14. Shows(d, T1, X21, U1, B1)
  BY <1>4, <1>9, <1>10, <1>11, <1>13, ShowsMerge DEF T1, U1, B1
<1>15. ExtendAll(B1, B0) /\ ExtendAll(B2, B1)
  BY MergeExtends DEF B1, B2
<1>16. Has(B1, "l_orderkey") /\ Has(B2, "l_orderkey")
  BY <1>10, <1>15, ExtendsHas
<1>17. Has(B1, "s_nationkey")
  <2>1. ASSUME NEW x \in B1 PROVE "s_nationkey" \in DOMAIN x
    <3>1. PICK l \in B0, s \in d.supplier : x = Joined(l, s)
      BY InMerge DEF MergeOn, B1
    <3>2. "s_nationkey" \in DOMAIN s
      BY <1>4 DEF Has
    <3> QED BY <3>1, <3>2, JoinedIs
  <2> QED BY <2>1 DEF Has
<1>18. Shows(d, T2, X21, U2, B2)
  BY <1>5, <1>9, <1>13, <1>14, <1>17, ShowsMerge DEF T2, U2, B2
<1>19. Shows(d, T3, X21, U3, B3)
  BY <1>6, <1>9, <1>13, <1>16, <1>18, ShowsMerge DEF T3, U3, B3
<1> QED BY <1>12, <1>19 DEF U0, B0

(* The columns of a row asked for.                                         *)
LEMMA Columns21Are ==
  ASSUME NEW d, Fits(d, Reads[21]), NEW z \in Frame21(d, OnlyLate21(d))
  PROVE  /\ Keeps(d, Reads[21], z)
         /\ "n_name" \in DOMAIN z /\ "o_orderstatus" \in DOMAIN z /\ "s_name" \in DOMAIN z
<1>1. \A l \in OnlyLate21(d) : l \in d.lineitem
  BY DEF OnlyLate21, LateOfSeveral21
<1>2. Keeps(d, Reads[21], z)
  BY <1>1, InFrame21
<1>3. /\ "nation" \in DOMAIN Reads[21] /\ "n_name" \in Reads[21]["nation"]
      /\ "orders" \in DOMAIN Reads[21] /\ "o_orderstatus" \in Reads[21]["orders"]
      /\ "supplier" \in DOMAIN Reads[21] /\ "s_name" \in Reads[21]["supplier"]
  BY Reads21
<1>4. "n_name" \in DOMAIN z
  BY <1>2, <1>3, ColumnOfTable
<1>5. "o_orderstatus" \in DOMAIN z
  BY <1>2, <1>3, ColumnOfTable
<1>6. "s_name" \in DOMAIN z
  BY <1>2, <1>3, ColumnOfTable
<1> QED BY <1>2, <1>4, <1>5, <1>6

\* And the joins with the other tables the wanted rows.
LEMMA Frames21Show ==
  ASSUME NEW d, Sound(d, Reads[21])
  PROVE  Shows(d, Tables21, X21, Frames21(d), Wanted21(d))
<1> DEFINE U == Frame21(d, Single21(d))
           B == Frame21(d, OnlyLate21(d))
           V == Frames21(d)
           C == Wanted21(d)
<1>1. Shows(d, Tables21, X21, U, B)
  BY FrameShows21
<1>2. Has(B, "n_name") /\ Has(B, "o_orderstatus")
  BY Columns21Are DEF Has, Sound
<1>3. /\ \A v : v \in V <=> v \in U /\ v["n_name"] = "SAUDI ARABIA" /\ v["o_orderstatus"] = "F"
      /\ \A z : z \in C <=> z \in B /\ z["n_name"] = "SAUDI ARABIA" /\ z["o_orderstatus"] = "F"
  BY DEF Frames21, Wanted21, Asked21
<1> HIDE DEF U, B, V, C
<1>4. \A u \in U : Part(u, Tables21)["n_name"] = u["n_name"]
  BY <1>1, <1>2, ShowsHas
<1>5. \A u \in U : Part(u, Tables21)["o_orderstatus"] = u["o_orderstatus"]
  BY <1>1, <1>2, ShowsHas
<1>6. \A u \in U : Part(u, Tables21) \in B
  BY <1>1 DEF Shows
<1>7. \A u \in U : u \in V <=> Part(u, Tables21) \in C
  BY <1>3, <1>4, <1>5, <1>6, Zenon
<1>8. (\A v \in V : v \in U) /\ (\A z \in C : z \in B)
  BY <1>3, Zenon
<1> QED BY <1>1, <1>7, <1>8, ShowsSome DEF V, C

\* There are finitely many wanted rows.
LEMMA FiniteWanted21 ==
  ASSUME NEW d, Sound(d, Reads[21])
  PROVE  IsFiniteSet(Wanted21(d))
<1>1. IsFiniteSet(d["lineitem"]) /\ IsFiniteSet(d["supplier"]) /\ IsFiniteSet(d["nation"])
        /\ IsFiniteSet(d["orders"])
  BY Reads21 DEF Sound
<1>2. IsFiniteSet(OnlyLate21(d))
  BY <1>1, FiniteKept DEF OnlyLate21, LateOfSeveral21
<1>3. IsFiniteSet(Frame21(d, OnlyLate21(d)))
  BY <1>1, <1>2, FiniteMergeOn DEF Frame21
<1>4. \A z \in Wanted21(d) : z \in Frame21(d, OnlyLate21(d))
  BY DEF Wanted21
<1> QED BY <1>3, <1>4, FiniteKept

(* The groups of the rows of an engine are those of the rows asked for.    *)
Groups21(R) == GroupBy(R, {"s_name"}, LAMBDA g : [numwait |-> Cardinality(g)])

Waits21(R) == [g \in SUBSET R |-> [numwait |-> Cardinality(g)]]

\* The groups of q21.
LEMMA Groups21Are ==
  ASSUME NEW R
  PROVE  Groups21(R) = Grouped(R, KeyOn(R, {"s_name"}), Waits21(R))
<1> DEFINE C == {"s_name"}
<1>1. ASSUME NEW j PROVE Waits21(R)[{r \in R : On(r, C) = j}]
               = [numwait |-> Cardinality({r \in R : On(r, C) = j})]
  <2>1. {r \in R : On(r, C) = j} \in SUBSET R
    OBVIOUS
  <2> QED BY <2>1, Zenon DEF Waits21
<1>2. ASSUME NEW x PROVE x \in Groups21(R) <=> x \in GroupedOn(R, C, Waits21(R))
  BY <1>1, Zenon DEF Groups21, GroupBy, GroupedOn
<1>3. Groups21(R) = GroupedOn(R, C, Waits21(R))
  BY <1>2, Zenon
<1> QED BY <1>3, GroupedOnIs, Zenon

\* Showings of the same rows have the same groups.
LEMMA Same21 ==
  ASSUME NEW d, Sound(d, Reads[21])
  PROVE  Groups21(Frames21(d)) = Groups21(Wanted21(d))
<1> DEFINE U == Frames21(d)
           B == Wanted21(d)
           b == [u \in U |-> Part(u, Tables21)]
           C == {"s_name"}
<1>1. Shows(d, Tables21, X21, U, B)
  BY Frames21Show
<1>2. IsFiniteSet(B)
  BY FiniteWanted21
<1>3. Has(B, "s_name")
  BY Columns21Are DEF Has, Wanted21, Sound
<1> HIDE DEF U, B
<1>4. OneToOne(b, U, B)
  BY <1>1, ShownOneToOne
<1>5. IsFiniteSet(U)
  BY <1>1, <1>2, ShowsFinite
<1>6. \A u \in U : Part(u, Tables21)["s_name"] = u["s_name"]
  BY <1>1, <1>3, ShowsHas
<1>7. ASSUME NEW u \in U PROVE KeyOn(B, C)[b[u]] = KeyOn(U, C)[u]
  <2>1. b[u] \in B /\ b[u]["s_name"] = u["s_name"]
    BY <1>4, <1>6 DEF OneToOne
  <2> HIDE DEF b
  <2>2. On(b[u], C) = On(u, C)
    BY <2>1 DEF On
  <2> QED BY <2>1, <2>2 DEF KeyOn
<1>8. SameAggregates(U, b, Waits21(U), Waits21(B))
  <2>1. ASSUME NEW g \in SUBSET U PROVE Waits21(B)[ImageOf(b, g)] = Waits21(U)[g]
    <3>1. IsFiniteSet(g)
      BY <1>5, FS_Subset
    <3>2. \A x, y \in g : b[x] = b[y] => x = y
      BY <1>4 DEF OneToOne
    <3> HIDE DEF b
    <3>3. ImageOf(b, g) \in SUBSET B
      BY <1>4 DEF OneToOne, ImageOf
    <3>4. Cardinality(ImageOf(b, g)) = Cardinality(g)
      BY <3>1, <3>2, SizeOfImage
    <3> QED BY <3>3, <3>4, Zenon DEF Waits21
  <2> QED BY <2>1 DEF SameAggregates
<1> HIDE DEF b, C
<1>9. Grouped(B, KeyOn(B, C), Waits21(B)) = Grouped(U, KeyOn(U, C), Waits21(U))
  BY <1>4, <1>7, <1>8, GroupsOfImage
<1> QED BY <1>9, Groups21Are, Zenon DEF U, B, C

(* Sizes of finite sets with a member in hand.                             *)
LEMMA SizeWithMember ==
  ASSUME NEW S, IsFiniteSet(S), NEW x \in S
  PROVE  /\ Cardinality(S) > 1 <=> \E y \in S : y # x
         /\ Cardinality(S) = 1 <=> \A y \in S : y = x
<1> DEFINE R == S \ {x}
           n == Cardinality(R)
<1>1. IsFiniteSet(R) /\ Cardinality(S) = n + 1
  <2>1. IsFiniteSet(R)
    BY FS_RemoveElement
  <2>2. n = Cardinality(S) - 1
    BY FS_RemoveElement
  <2>3. Cardinality(S) \in Nat
    BY FS_CardinalityType
  <2> QED BY <2>1, <2>2, <2>3
<1>2. n \in Nat /\ (n = 0 <=> R = {})
  <2>1. n \in Nat
    BY <1>1, FS_CardinalityType
  <2>2. n = 0 <=> R = {}
    BY <1>1, FS_EmptySet
  <2> QED BY <2>1, <2>2
<1>3. R = {} <=> \A y \in S : y = x
  OBVIOUS
<1> HIDE DEF n, R
<1> QED BY <1>1, <1>2, <1>3

HasTwice21(d) ==
    \E k, l \in d.lineitem : k # l /\ k.l_orderkey = l.l_orderkey /\ k.l_suppkey = l.l_suppkey

Others21(d, r) == {l \in d.lineitem : /\ l.l_orderkey = r.l_orderkey
                                      /\ l.l_suppkey # r.l_suppkey}

\* The exists and not exists of the SQL, when no supplier has two lineitems in
\* the order.
LEMMA OnlyLate21Is ==
  ASSUME NEW d, Sound(d, Reads[21]), ~ HasTwice21(d), NEW l \in d.lineitem
  PROVE  l \in OnlyLate21(d) <=> /\ Late21(l)
                                 /\ Others21(d, l) # {}
                                 /\ ~ \E m \in Others21(d, l) : Late21(m)
<1> DEFINE R == d.lineitem
           B == LateOfSeveral21(d)
           k == l["l_orderkey"]
           S == OfOrder21(R, k)
           L == OfOrder21(B, k)
           O == Others21(d, l)
<1>1. IsFiniteSet(R)
  <2>1. IsFiniteSet(d["lineitem"])
    BY Reads21 DEF Sound
  <2> QED BY <2>1
<1>2. /\ \A m : m \in S <=> m \in R /\ m["l_orderkey"] = k
      /\ \A m : m \in L <=> m \in B /\ m["l_orderkey"] = k
  BY DEF OfOrder21
<1>3. \A m : m \in B <=> m \in R /\ Late21(m) /\ Cardinality(OfOrder21(R, m["l_orderkey"])) > 1
  BY DEF LateOfSeveral21, Size21
<1>4. \A m : m \in O <=> m \in S /\ m # l
  <2>1. \A m : m \in O <=> m \in R /\ m["l_orderkey"] = k /\ m["l_suppkey"] # l["l_suppkey"]
    BY DEF Others21
  <2>2. \A m \in R : m["l_orderkey"] = k /\ m["l_suppkey"] = l["l_suppkey"] => m = l
    BY DEF HasTwice21
  <2> HIDE DEF R, S, O
  <2> QED BY <1>2, <2>1, <2>2
<1>5. l \in OnlyLate21(d) <=> l \in B /\ Cardinality(L) = 1
  BY DEF OnlyLate21, Size21
<1>6. \A m : m["l_orderkey"] = k => OfOrder21(R, m["l_orderkey"]) = S
  OBVIOUS
<1>7. l \in S /\ l \in R
  BY <1>2
<1> HIDE DEF R, B, S, L, O, k
<1>8. IsFiniteSet(S)
  BY <1>1, <1>2, FiniteKept
<1>9. IsFiniteSet(L)
  BY <1>1, <1>2, <1>3, FiniteKept
<1>10. Cardinality(S) > 1 <=> \E y \in S : y # l
  BY <1>7, <1>8, SizeWithMember
<1>11. l \in B <=> Late21(l) /\ Cardinality(S) > 1
  BY <1>3, <1>6, <1>7 DEF k
<1>12. ASSUME l \in B PROVE Cardinality(L) = 1 <=> \A y \in L : y = l
  <2>1. l \in L
    BY <1>2, <1>12 DEF k
  <2> QED BY <1>9, <2>1, SizeWithMember
<1>13. ASSUME l \in B, NEW y PROVE y \in L <=> y \in S /\ Late21(y)
  BY <1>2, <1>3, <1>6, <1>11, <1>13
<1> QED BY <1>4, <1>5, <1>10, <1>11, <1>12, <1>13 DEF O

SqlRows21(d) ==
    {r \in d.supplier \otimes d.lineitem \otimes d.orders \otimes d.nation :
        /\ r.s_suppkey = r.l_suppkey
        /\ r.o_orderkey = r.l_orderkey
        /\ r.o_orderstatus = "F"
        /\ r.l_receiptdate > r.l_commitdate
        /\ Others21(d, r) # {}
        /\ ~ \E l3 \in Others21(d, r) : l3.l_receiptdate > l3.l_commitdate
        /\ r.s_nationkey = r.n_nationkey
        /\ r.n_name = "SAUDI ARABIA"}

\* So the SQL selects the wanted rows.
LEMMA SqlRows21Are ==
  ASSUME NEW d, Sound(d, Reads[21]), ~ HasTwice21(d)
  PROVE  SqlRows21(d) = Wanted21(d)
<1> DEFINE N == Reads[21]
           C == OnlyLate21(d)
           P == d.supplier \otimes d.lineitem \otimes d.orders \otimes d.nation
<1>1. Fits(d, N)
  BY DEF Sound
<1>2. \A l \in C : l \in d.lineitem
  BY DEF OnlyLate21, LateOfSeveral21
<1>3. \A x : x \in P <=> Keeps(d, N, x)
  BY <1>1, Product21
<1>4. /\ "lineitem" \in DOMAIN N
      /\ "l_orderkey" \in N["lineitem"] /\ "l_suppkey" \in N["lineitem"]
      /\ "l_commitdate" \in N["lineitem"] /\ "l_receiptdate" \in N["lineitem"]
  BY Reads21
<1>5. \A x : x \in SqlRows21(d) <=>
        /\ x \in P
        /\ x["s_suppkey"] = x["l_suppkey"] /\ x["o_orderkey"] = x["l_orderkey"]
        /\ x["s_nationkey"] = x["n_nationkey"] /\ Asked21(x)
        /\ Late21(x) /\ Others21(d, x) # {} /\ ~ \E m \in Others21(d, x) : Late21(m)
  BY Zenon DEF SqlRows21, Asked21, Late21
<1>6. \A x : x \in Wanted21(d) <=> x \in Frame21(d, C) /\ Asked21(x)
  BY DEF Wanted21
<1>7. ASSUME NEW x
      PROVE  x \in Frame21(d, C) <=> /\ Keeps(d, N, x) /\ Part(x, {"lineitem"}) \in C
                                     /\ x["l_suppkey"] = x["s_suppkey"]
                                     /\ x["s_nationkey"] = x["n_nationkey"]
                                     /\ x["l_orderkey"] = x["o_orderkey"]
  BY <1>1, <1>2, InFrame21
<1> HIDE DEF N, C, P
<1>8. ASSUME NEW x, Keeps(d, N, x)
      PROVE  Part(x, {"lineitem"}) \in C <=> /\ Late21(x) /\ Others21(d, x) # {}
                                              /\ ~ \E m \in Others21(d, x) : Late21(m)
  <2> DEFINE l == Part(x, {"lineitem"})
  <2>1. l \in d["lineitem"]
    BY <1>4, <1>8, KeptInTable
  <2>2. \A c \in N["lineitem"] : l[c] = x[c]
    <3> SUFFICES ASSUME NEW c \in N["lineitem"] PROVE l[c] = x[c]
      OBVIOUS
    <3> DEFINE t == "lineitem"
    <3>1. t \in DOMAIN N /\ c \in N[t]
      BY <1>4
    <3> HIDE DEF t
    <3>2. Part(x, {t})[c] = x[c]
      BY <1>8, <3>1, ColumnOfTable
    <3> QED BY <3>2 DEF t
  <2> HIDE DEF l
  <2>3. /\ l["l_orderkey"] = x["l_orderkey"] /\ l["l_suppkey"] = x["l_suppkey"]
        /\ l["l_commitdate"] = x["l_commitdate"] /\ l["l_receiptdate"] = x["l_receiptdate"]
    BY <1>4, <2>2
  <2>6. Late21(l) <=> Late21(x)
    BY <2>3 DEF Late21
  <2>7. Others21(d, l) = Others21(d, x)
    BY <2>3 DEF Others21
  <2>8. l \in C <=> Late21(l) /\ Others21(d, l) # {} /\ ~ \E m \in Others21(d, l) : Late21(m)
    <3>1. l \in d.lineitem
      BY <2>1
    <3> QED BY <3>1, OnlyLate21Is DEF C
  <2> QED BY <2>6, <2>7, <2>8 DEF l
<1>9. ASSUME NEW x PROVE x \in SqlRows21(d) <=> x \in Wanted21(d)
  BY <1>3, <1>5, <1>6, <1>7, <1>8
<1> QED BY <1>9

Answer21(G) == Top(G, LAMBDA r : <<-r.numwait, Alpha(r.s_name)>>, Cut[100])

(* Polars keeps the counts of every order to the end.                      *)
PolarsFrames21(d) ==
    {r \in Frame21(d, Second21(d)) : r.n_supp_by_order = 1 /\ r.n_name = "SAUDI ARABIA"
      /\ r.o_orderstatus = "F"}

\* The engine's answer, from its rows.
LEMMA Sql21Is ==
  ASSUME NEW d
  PROVE  Sql!Q21(d) = Answer21(Groups21(SqlRows21(d)))
<1> DEFINE P == Sql!Cross(Sql!Cross(Sql!Cross(d.supplier, d.lineitem), d.orders), d.nation)
           others(r) == {l \in d.lineitem : /\ l.l_orderkey = r.l_orderkey
                                            /\ l.l_suppkey # r.l_suppkey}
           rows == {r \in P :
                     /\ r.s_suppkey = r.l_suppkey
                     /\ r.o_orderkey = r.l_orderkey
                     /\ r.o_orderstatus = "F"
                     /\ r.l_receiptdate > r.l_commitdate
                     /\ others(r) # {}
                     /\ ~ \E l3 \in others(r) : l3.l_receiptdate > l3.l_commitdate
                     /\ r.s_nationkey = r.n_nationkey
                     /\ r.n_name = "SAUDI ARABIA"}
<1>1. Sql!Q21(d) = Answer21(Groups21(rows))
  BY Zenon DEF Sql!Q21, Sql!\otimes, Answer21, Groups21, Top, Sql!Top, Sorted, Sql!Sorted,
         Before, Sql!Before, Alpha, Sql!Alpha, Cardinality, Sql!Cardinality, GroupBy, Sql!GroupBy,
         Project, Sql!Project, On, Sql!On, Joined, Sql!Joined
<1>2. \A R, S : Sql!Cross(R, S) = R \otimes S
  BY SMT DEF \otimes, Cross, Joined, Sql!Cross, Sql!Joined
<1>3. P = d.supplier \otimes d.lineitem \otimes d.orders \otimes d.nation
  BY <1>2, SMT
<1> HIDE DEF P
<1>4. rows = SqlRows21(d)
  BY <1>3, SMT DEF SqlRows21, Others21
<1> HIDE DEF rows
<1> QED BY <1>1, <1>4, Zenon

PolarsAnswer21(R) ==
    Polars!Top(Polars!GroupBy(R, {"s_name"}, LAMBDA g : [numwait |-> Polars!Cardinality(g)]),
               LAMBDA r : <<-r.numwait, Polars!Alpha(r.s_name)>>, Cut[100])

\* The engine's answer, from its rows.
LEMMA PolarsAnswer21Is ==
  ASSUME NEW R
  PROVE  PolarsAnswer21(R) = Answer21(Groups21(R))
BY Zenon DEF PolarsAnswer21, Answer21, Groups21, Top, Polars!Top, Sorted, Polars!Sorted, Before,
       Polars!Before, Alpha, Polars!Alpha, Cardinality, Polars!Cardinality, GroupBy,
       Polars!GroupBy, Project, Polars!Project, On, Polars!On, Joined, Polars!Joined

PandasAnswer21(R) ==
    Pandas!Top(Pandas!GroupBy(R, {"s_name"}, LAMBDA g : [numwait |-> Pandas!Cardinality(g)]),
               LAMBDA r : <<-r.numwait, Pandas!Alpha(r.s_name)>>, Cut[100])

\* The engine's answer, from its rows.
LEMMA PandasAnswer21Is ==
  ASSUME NEW R
  PROVE  PandasAnswer21(R) = Answer21(Groups21(R))
BY Zenon DEF PandasAnswer21, Answer21, Groups21, Top, Pandas!Top, Sorted, Pandas!Sorted, Before,
       Pandas!Before, Alpha, Pandas!Alpha, Cardinality, Pandas!Cardinality, GroupBy,
       Pandas!GroupBy, Project, Pandas!Project, On, Pandas!On, Joined, Pandas!Joined

\* The engine's answer, from its rows.
LEMMA Polars21Is ==
  ASSUME NEW d
  PROVE  Polars!Q21(d) = Answer21(Groups21(PolarsFrames21(d)))
<1> DEFINE counts(R) == Polars!GroupBy(R, {"l_orderkey"}, LAMBDA g :
             [n_supp_by_order |-> Polars!Cardinality(g)])
           several == {o \in counts(d.lineitem) : o.n_supp_by_order > 1}
           late == {l \in d.lineitem : l.l_receiptdate > l.l_commitdate}
           q1 == Polars!Merge(several, late, <<"l_orderkey">>, <<"l_orderkey">>)
           second == Polars!Merge(counts(q1), q1, <<"l_orderkey">>, <<"l_orderkey">>)
           joined == Polars!Merge(Polars!Merge(Polars!Merge(second,
                           d.supplier, <<"l_suppkey">>, <<"s_suppkey">>),
                           d.nation, <<"s_nationkey">>, <<"n_nationkey">>),
                           d.orders, <<"l_orderkey">>, <<"o_orderkey">>)
           rows == {r \in joined :
                    r.n_supp_by_order = 1 /\ r.n_name = "SAUDI ARABIA" /\ r.o_orderstatus = "F"}
<1>1. Polars!Q21(d) = Answer21(Groups21(rows))
  <2>1. Polars!Q21(d) = PolarsAnswer21(rows)
    BY Zenon DEF Polars!Q21, PolarsAnswer21
  <2> HIDE DEF rows
  <2> QED BY <2>1, PolarsAnswer21Is
<1>2. \A R, O, lk, rk : Polars!Merge(R, O, lk, rk) = Merge(R, O, lk, rk)
  BY SMT DEF Merge, Polars!Merge, Match, Polars!Match, Joined, Polars!Joined
<1>3. ASSUME NEW R PROVE counts(R) = Counts21(R)
  <2>1. counts(R) = PolarsCounts21(R)
    BY SMT DEF PolarsCounts21, GroupBy, Polars!GroupBy, Project, Polars!Project, On, Polars!On,
           Joined, Polars!Joined, Cardinality, Polars!Cardinality
  <2> HIDE DEF counts
  <2> QED BY <2>1, PolarsCounts21Are
<1> HIDE DEF counts
<1>4. several = SeveralCounts21(d) /\ late = LateLines21(d)
  BY <1>3, SMT DEF SeveralCounts21, LateLines21, Late21
<1> HIDE DEF several, late
<1>5. q1 = First21(d)
  BY <1>2, <1>4, SMT DEF First21, MergeOn
<1> HIDE DEF q1
<1>6. second = Second21(d)
  BY <1>2, <1>3, <1>5, SMT DEF Second21, MergeOn
<1> HIDE DEF second
<1>7. joined = Frame21(d, Second21(d))
  BY <1>2, <1>6, SMT DEF Frame21, MergeOn
<1> HIDE DEF joined
<1>8. rows = PolarsFrames21(d)
  BY <1>7, SMT DEF PolarsFrames21
<1> HIDE DEF rows
<1> QED BY <1>1, <1>8, Zenon

\* The engine's answer, from its rows.
LEMMA Pandas21Is ==
  ASSUME NEW d, Sound(d, Reads[21])
  PROVE  Pandas!Q21(d) = Answer21(Groups21(Frames21(d)))
<1> DEFINE counts(R) == Pandas!GroupBy(R, {"l_orderkey"}, LAMBDA g :
             [n_supp_by_order |-> Pandas!Count(g, "l_suppkey")])
           several == {o \in counts(d.lineitem) : o.n_supp_by_order > 1}
           late == {l \in d.lineitem : l.l_receiptdate > l.l_commitdate}
           q1 == Pandas!Merge(several, late, <<"l_orderkey">>, <<"l_orderkey">>)
           second == Pandas!Merge(counts(q1), q1, <<"l_orderkey">>, <<"l_orderkey">>)
           single == {r \in second : r.n_supp_by_order = 1}
           joined == Pandas!Merge(Pandas!Merge(Pandas!Merge(single,
                           d.supplier, <<"l_suppkey">>, <<"s_suppkey">>),
                           d.nation, <<"s_nationkey">>, <<"n_nationkey">>),
                           d.orders, <<"l_orderkey">>, <<"o_orderkey">>)
           rows == {r \in joined : r.n_name = "SAUDI ARABIA" /\ r.o_orderstatus = "F"}
<1>1. Pandas!Q21(d) = Answer21(Groups21(rows))
  <2>1. Pandas!Q21(d) = PandasAnswer21(rows)
    BY Zenon DEF Pandas!Q21, PandasAnswer21, Pandas!multi_supp_orders, Pandas!n_supp_by_order
  <2> HIDE DEF rows
  <2> QED BY <2>1, PandasAnswer21Is
<1>2. \A R, O, lk, rk : Pandas!Merge(R, O, lk, rk) = Merge(R, O, lk, rk)
  BY SMT DEF Merge, Pandas!Merge, Match, Pandas!Match, Joined, Pandas!Joined
<1>3. ASSUME NEW R, \A l \in R : l["l_suppkey"] # Null PROVE counts(R) = Counts21(R)
  <2>1. counts(R) = PandasCounts21(R)
    <3>1. \A g : Pandas!Count(g, "l_suppkey") = Count(g, "l_suppkey")
      BY SMT DEF Count, Pandas!Count, Cardinality, Pandas!Cardinality
    <3>2. counts(R) = Pandas!GroupBy(R, {"l_orderkey"}, LAMBDA g :
            [n_supp_by_order |-> Count(g, "l_suppkey")])
      BY <3>1, Zenon DEF Pandas!GroupBy
    <3> HIDE DEF counts
    <3> QED BY <3>2, SMT DEF PandasCounts21, GroupBy, Pandas!GroupBy, Project, Pandas!Project, On,
           Pandas!On, Joined, Pandas!Joined
  <2> HIDE DEF counts
  <2> QED BY <1>3, <2>1, PandasCounts21Are
<1> HIDE DEF counts
<1>4. \A l \in d.lineitem : l["l_suppkey"] # Null
  BY Reads21 DEF Sound
<1>5. \A u \in First21(d) : u["l_suppkey"] # Null
  <2>1. Shows(d, T21, X21, First21(d), LateOfSeveral21(d))
    BY First21Shows DEF Sound
  <2>2. Has(LateOfSeveral21(d), "l_suppkey")
    BY Lines21 DEF LateOfSeveral21, Has, Sound
  <2>3. \A u \in First21(d) : Part(u, T21)["l_suppkey"] = u["l_suppkey"]
    BY <2>1, <2>2, ShowsHas
  <2>4. \A u \in First21(d) : Part(u, T21) \in d.lineitem
    BY <2>1 DEF Shows, LateOfSeveral21
  <2> QED BY <1>4, <2>3, <2>4
<1>6. counts(d.lineitem) = Counts21(d.lineitem) /\ counts(First21(d)) = Counts21(First21(d))
  BY <1>3, <1>4, <1>5
<1>7. several = SeveralCounts21(d) /\ late = LateLines21(d)
  BY <1>6, SMT DEF SeveralCounts21, LateLines21, Late21
<1> HIDE DEF several, late
<1>8. q1 = First21(d)
  BY <1>2, <1>7, SMT DEF First21, MergeOn
<1> HIDE DEF q1
<1>9. second = Second21(d)
  BY <1>2, <1>6, <1>8, SMT DEF Second21, MergeOn
<1> HIDE DEF second
<1>10. single = Single21(d)
  BY <1>9, SMT DEF Single21
<1> HIDE DEF single
<1>11. joined = Frame21(d, Single21(d))
  BY <1>2, <1>10, SMT DEF Frame21, MergeOn
<1> HIDE DEF joined
<1>12. rows = Frames21(d)
  BY <1>11, SMT DEF Frames21, Asked21
<1> HIDE DEF rows
<1> QED BY <1>1, <1>12, Zenon

(* The count of one may be asked for before the joins or after.            *)
LEMMA PolarsFrames21Are ==
  ASSUME NEW d, Fits(d, Reads[21])
  PROVE  PolarsFrames21(d) = Frames21(d)
<1> DEFINE c == "n_supp_by_order"
           U0 == Second21(d)
           S0 == Single21(d)
           U1 == MergeOn(U0, d.supplier, "l_suppkey", "s_suppkey")
           S1 == MergeOn(S0, d.supplier, "l_suppkey", "s_suppkey")
           U2 == MergeOn(U1, d.nation, "s_nationkey", "n_nationkey")
           S2 == MergeOn(S1, d.nation, "s_nationkey", "n_nationkey")
           U3 == MergeOn(U2, d.orders, "l_orderkey", "o_orderkey")
           S3 == MergeOn(S2, d.orders, "l_orderkey", "o_orderkey")
<1>1. Has(U0, c)
  BY Second21Shows DEF CarriesSizes21, Has
<1>2. \A u : u \in S0 <=> u \in U0 /\ u[c] = 1
  BY DEF Single21
<1>3. Frame21(d, U0) = U3 /\ Frame21(d, S0) = S3
  BY DEF Frame21
<1> HIDE DEF c, U0, S0, U1, S1, U2, S2, U3, S3
<1>4. Has(U1, c) /\ Has(U2, c)
  BY <1>1, MergeExtends, ExtendsHas DEF U1, U2
<1>5. \A u : u \in S1 <=> u \in U1 /\ u[c] = 1
  BY <1>1, <1>2, MergeOfSome DEF U1, S1
<1>6. \A u : u \in S2 <=> u \in U2 /\ u[c] = 1
  BY <1>4, <1>5, MergeOfSome DEF U2, S2
<1>7. \A u : u \in S3 <=> u \in U3 /\ u[c] = 1
  BY <1>4, <1>6, MergeOfSome DEF U3, S3
<1>8. \A u : u \in PolarsFrames21(d) <=> u \in U3 /\ u[c] = 1 /\ Asked21(u)
  BY <1>3 DEF PolarsFrames21, Asked21, c, U0
<1>9. \A u : u \in Frames21(d) <=> u \in S3 /\ Asked21(u)
  BY <1>3 DEF Frames21, S0
<1>10. \A u : u \in PolarsFrames21(d) <=> u \in Frames21(d)
  BY <1>7, <1>8, <1>9
<1> QED
  <2> DEFINE A == PolarsFrames21(d)
             B == Frames21(d)
  <2>1. (A \subseteq B) /\ (B \subseteq A)
    <3>1. \A u : u \in A <=> u \in B
      BY <1>10
    <3> HIDE DEF A, B
    <3> QED BY <3>1
  <2> HIDE DEF A, B
  <2>2. A = B
    BY <2>1
  <2> QED BY <2>2 DEF A, B

\* The three engines answer q21 alike.
LEMMA Answers21 ==
  ASSUME NEW d, Sound(d, Reads[21]), ~ HasTwice21(d)
  PROVE  Polars!Q21(d) = Sql!Q21(d) /\ Pandas!Q21(d) = Sql!Q21(d)
<1>1. SqlRows21(d) = Wanted21(d)
  BY SqlRows21Are
<1>2. PolarsFrames21(d) = Frames21(d)
  BY PolarsFrames21Are DEF Sound
<1>3. Groups21(Frames21(d)) = Groups21(Wanted21(d))
  BY Same21
<1> QED BY <1>1, <1>2, <1>3, Sql21Is, Polars21Is, Pandas21Is, Zenon

-----------------------------------------------------------------------------
(* The answers of the engines in every state.                              *)

\* The three engines answer q10 alike.
LEMMA Answers10 ==
  ASSUME NEW d, Sound(d, Reads[10])
  PROVE  Polars!Q10(d) = Sql!Q10(d) /\ Pandas!Q10(d) = Sql!Q10(d)
<1>1. SqlRows10(d) = Rows10(d)
  BY Same10 DEF Sound
<1> QED BY <1>1, Sql10, Polars10, Pandas10

(* What the keys of the schema say of a database.                          *)
LEMMA OneKey ==
  ASSUME KeysUnique(db), NEW t \in DOMAIN db, NEW k, PrimaryKey[t] = {k}
  PROVE  \A r, s \in db[t] : r[k] = s[k] => r = s
<1> SUFFICES ASSUME NEW r \in db[t], NEW s \in db[t], r[k] = s[k] PROVE r = s
  OBVIOUS
<1>1. On(r, PrimaryKey[t]) = On(s, PrimaryKey[t])
  BY DEF On
<1> QED BY <1>1 DEF KeysUnique

\* The keys of the state's database tell its rows apart.
LEMMA OrdersDifferHere ==
  ASSUME DatabaseInv, "orders" \in DOMAIN db
  PROVE  OrdersDiffer(db)
<1> DEFINE t == "orders"
<1>1. PrimaryKey[t] = {"o_orderkey"}
  BY DEF PrimaryKey
<1>2. t \in DOMAIN db /\ KeysUnique(db)
  BY DEF DatabaseInv
<1> HIDE DEF t
<1>3. \A r, s \in db[t] : r["o_orderkey"] = s["o_orderkey"] => r = s
  BY <1>1, <1>2, OneKey
<1> QED BY <1>3 DEF OrdersDiffer, t

\* The keys of the state's database tell its rows apart.
LEMMA PartsDifferHere ==
  ASSUME DatabaseInv, "part" \in DOMAIN db
  PROVE  PartsDiffer(db)
<1> DEFINE t == "part"
<1>1. PrimaryKey[t] = {"p_partkey"}
  BY DEF PrimaryKey
<1>2. t \in DOMAIN db /\ KeysUnique(db)
  BY DEF DatabaseInv
<1> HIDE DEF t
<1>3. \A r, s \in db[t] : r["p_partkey"] = s["p_partkey"] => r = s
  BY <1>1, <1>2, OneKey
<1> QED BY <1>3 DEF PartsDiffer, t

\* The keys of the state's database tell its rows apart.
LEMMA NationsDifferHere ==
  ASSUME DatabaseInv, "nation" \in DOMAIN db
  PROVE  NationsDiffer(db)
<1> DEFINE t == "nation"
<1>1. PrimaryKey[t] = {"n_nationkey"}
  BY DEF PrimaryKey
<1>2. t \in DOMAIN db /\ KeysUnique(db)
  BY DEF DatabaseInv
<1> HIDE DEF t
<1>3. \A r, s \in db[t] : r["n_nationkey"] = s["n_nationkey"] => r = s
  BY <1>1, <1>2, OneKey
<1> QED BY <1>3 DEF NationsDiffer, t

\* The keys of the state's database tell its rows apart.
LEMMA RegionsDifferHere ==
  ASSUME DatabaseInv, "region" \in DOMAIN db
  PROVE  RegionsDiffer(db)
<1> DEFINE t == "region"
<1>1. PrimaryKey[t] = {"r_regionkey"}
  BY DEF PrimaryKey
<1>2. t \in DOMAIN db /\ KeysUnique(db)
  BY DEF DatabaseInv
<1> HIDE DEF t
<1>3. \A r, s \in db[t] : r["r_regionkey"] = s["r_regionkey"] => r = s
  BY <1>1, <1>2, OneKey
<1> QED BY <1>3 DEF RegionsDiffer, t

\* Every lineitem of the state's database has its supplier.
LEMMA HasSupplierHere ==
  ASSUME DatabaseInv, "lineitem" \in DOMAIN db, "supplier" \in DOMAIN db
  PROVE  HasSupplier(db)
<1> SUFFICES ASSUME NEW l \in db.lineitem
             PROVE  \E s \in db.supplier : s["s_suppkey"] = l["l_suppkey"]
  BY DEF HasSupplier
<1> DEFINE k == <<"lineitem", <<"l_suppkey">>, "supplier", <<"s_suppkey">>>>
<1>1. k \in ForeignKeys \cup ImpliedKeys
  BY DEF ImpliedKeys
<1>2. k[1] = "lineitem" /\ k[2] = <<"l_suppkey">> /\ k[3] = "supplier" /\ k[4] = <<"s_suppkey">>
  OBVIOUS
<1> HIDE DEF k
<1>3. \E s \in db[k[3]] : Match(l, s, k[2], k[4])
  BY <1>1, <1>2 DEF DatabaseInv, ParentsExist
<1>4. \A s : Match(l, s, <<"l_suppkey">>, <<"s_suppkey">>) => l["l_suppkey"] = s["s_suppkey"]
  BY DEF Match
<1> QED BY <1>2, <1>3, <1>4

\* The types of the state's parts are those of dists.dss.
LEMMA TypesAreSoundHere ==
  ASSUME DatabaseInv, query = 16
  PROVE  TypesAreSound(db)
<1> DEFINE N == Reads[query]
<1>1. query \in DOMAIN Universe /\ DOMAIN Universe[query] = DOMAIN N
  BY SchemaAssumption DEF DatabaseInv, FromUniverse
<1>2. "part" \in DOMAIN N /\ "p_type" \in N["part"]
  BY DEF Reads
<1> HIDE DEF N
<1>3. ASSUME NEW p \in db["part"]
      PROVE  p.p_type = <<p.p_type[1], p.p_type[2], p.p_type[3]>> /\ p.p_type[2] # "MEDIUM"
  <2>1. p \in Universe[query]["part"]
    BY <1>1, <1>2 DEF DatabaseInv, FromUniverse
  <2>2. IsRowOf("part", p) /\ N["part"] \subseteq DOMAIN p
    BY <1>1, <1>2, <2>1, SchemaAssumption DEF N
  <2>3. "p_type" \in DOMAIN p
    BY <1>2, <2>2
  <2> QED BY <2>2, <2>3, Zenon DEF IsRowOf
<1> QED BY <1>3 DEF TypesAreSound

(* One lemma per query.                                                    *)
Agree == /\ PolarsAnswer = InDataFrame(SqlAnswer, NaN)
         /\ PandasAnswer = InDataFrame(SqlAnswer, Pandas!ZeroDivisionError)

\* The state's database is sound.
LEMMA SoundHere ==
  ASSUME DatabaseInv
  PROVE  query \in 1..22 /\ Sound(db, Reads[query]) /\ Fits(db, Reads[query]) /\ DOMAIN db
           = DOMAIN Reads[query]
BY DatabaseIsSound DEF DatabaseInv, Sound

\* A state whose query is q1.
LEMMA Agree1 ==
  ASSUME DatabaseInv, query = 1
  PROVE  Agree
<1>1. Sound(db, Reads[1]) /\ Fits(db, Reads[1]) /\ DOMAIN db = DOMAIN Reads[1]
  BY SoundHere
<1>4. Polars!Q1(db) = Sql!Q1(db) /\ Pandas!Q1(db) = Sql!Q1(db)
  BY <1>1, Answers1
<1>5. SqlAnswer = Sql!Q1(db) /\ PolarsAnswer = Polars!Q1(db) /\ PandasAnswer = Pandas!Q1(db)
  BY DEF SqlAnswer, PolarsAnswer, PandasAnswer
<1>6. \A quotient : InDataFrame(SqlAnswer, quotient) = SqlAnswer
  BY DEF InDataFrame
<1> QED BY <1>4, <1>5, <1>6 DEF Agree

\* A state whose query is q2.
LEMMA Agree2 ==
  ASSUME DatabaseInv, query = 2
  PROVE  Agree
<1>1. Sound(db, Reads[2]) /\ Fits(db, Reads[2]) /\ DOMAIN db = DOMAIN Reads[2]
  BY SoundHere
<1>4. Polars!Q2(db) = Sql!Q2(db) /\ Pandas!Q2(db) = Sql!Q2(db)
  BY <1>1, Answers2
<1>5. SqlAnswer = Sql!Q2(db) /\ PolarsAnswer = Polars!Q2(db) /\ PandasAnswer = Pandas!Q2(db)
  BY DEF SqlAnswer, PolarsAnswer, PandasAnswer
<1>6. \A quotient : InDataFrame(SqlAnswer, quotient) = SqlAnswer
  BY DEF InDataFrame
<1> QED BY <1>4, <1>5, <1>6 DEF Agree

\* A state whose query is q3.
LEMMA Agree3 ==
  ASSUME DatabaseInv, query = 3
  PROVE  Agree
<1>1. Sound(db, Reads[3]) /\ Fits(db, Reads[3]) /\ DOMAIN db = DOMAIN Reads[3]
  BY SoundHere
<1>4. Polars!Q3(db) = Sql!Q3(db) /\ Pandas!Q3(db) = Sql!Q3(db)
  BY <1>1, Answers3
<1>5. SqlAnswer = Sql!Q3(db) /\ PolarsAnswer = Polars!Q3(db) /\ PandasAnswer = Pandas!Q3(db)
  BY DEF SqlAnswer, PolarsAnswer, PandasAnswer
<1>6. \A quotient : InDataFrame(SqlAnswer, quotient) = SqlAnswer
  BY DEF InDataFrame
<1> QED BY <1>4, <1>5, <1>6 DEF Agree

\* A state whose query is q4.
LEMMA Agree4 ==
  ASSUME DatabaseInv, query = 4
  PROVE  Agree
<1>1. Sound(db, Reads[4]) /\ Fits(db, Reads[4]) /\ DOMAIN db = DOMAIN Reads[4]
  BY SoundHere
<1>2. "orders" \in DOMAIN db
  BY <1>1 DEF Reads
<1>3. OrdersDiffer(db)
  BY <1>2, OrdersDifferHere
<1>4. Polars!Q4(db) = Sql!Q4(db) /\ Pandas!Q4(db) = Sql!Q4(db)
  BY <1>1, <1>3, Answers4
<1>5. SqlAnswer = Sql!Q4(db) /\ PolarsAnswer = Polars!Q4(db) /\ PandasAnswer = Pandas!Q4(db)
  BY DEF SqlAnswer, PolarsAnswer, PandasAnswer
<1>6. \A quotient : InDataFrame(SqlAnswer, quotient) = SqlAnswer
  BY DEF InDataFrame
<1> QED BY <1>4, <1>5, <1>6 DEF Agree

\* A state whose query is q5.
LEMMA Agree5 ==
  ASSUME DatabaseInv, query = 5
  PROVE  Agree
<1>1. Sound(db, Reads[5]) /\ Fits(db, Reads[5]) /\ DOMAIN db = DOMAIN Reads[5]
  BY SoundHere
<1>4. Polars!Q5(db) = Sql!Q5(db) /\ Pandas!Q5(db) = Sql!Q5(db)
  BY <1>1, Answers5
<1>5. SqlAnswer = Sql!Q5(db) /\ PolarsAnswer = Polars!Q5(db) /\ PandasAnswer = Pandas!Q5(db)
  BY DEF SqlAnswer, PolarsAnswer, PandasAnswer
<1>6. \A quotient : InDataFrame(SqlAnswer, quotient) = SqlAnswer
  BY DEF InDataFrame
<1> QED BY <1>4, <1>5, <1>6 DEF Agree

\* A state whose query is q6.
LEMMA Agree6 ==
  ASSUME DatabaseInv, query = 6
  PROVE  Agree
<1>1. Sound(db, Reads[6]) /\ Fits(db, Reads[6]) /\ DOMAIN db = DOMAIN Reads[6]
  BY SoundHere
<1>4. /\ Polars!Q6(db) = Filled(Sql!Q6(db), NaN)
      /\ Pandas!Q6(db) = Filled(Sql!Q6(db), Pandas!ZeroDivisionError)
  BY <1>1, Answers6
<1>5. SqlAnswer = Sql!Q6(db) /\ PolarsAnswer = Polars!Q6(db) /\ PandasAnswer = Pandas!Q6(db)
  BY DEF SqlAnswer, PolarsAnswer, PandasAnswer
<1>6. \A quotient : InDataFrame(SqlAnswer, quotient) = Filled(SqlAnswer, quotient)
  BY DEF InDataFrame, Filled
<1> QED BY <1>4, <1>5, <1>6 DEF Agree

\* A state whose query is q7.
LEMMA Agree7 ==
  ASSUME DatabaseInv, query = 7
  PROVE  Agree
<1>1. Sound(db, Reads[7]) /\ Fits(db, Reads[7]) /\ DOMAIN db = DOMAIN Reads[7]
  BY SoundHere
<1>2. "nation" \in DOMAIN db
  BY <1>1 DEF Reads
<1>3. NationsDiffer(db)
  BY <1>2, NationsDifferHere
<1>4. Polars!Q7(db) = Sql!Q7(db) /\ Pandas!Q7(db) = Sql!Q7(db)
  BY <1>1, <1>3, Answers7
<1>5. SqlAnswer = Sql!Q7(db) /\ PolarsAnswer = Polars!Q7(db) /\ PandasAnswer = Pandas!Q7(db)
  BY DEF SqlAnswer, PolarsAnswer, PandasAnswer
<1>6. \A quotient : InDataFrame(SqlAnswer, quotient) = SqlAnswer
  BY DEF InDataFrame
<1> QED BY <1>4, <1>5, <1>6 DEF Agree

\* A state whose query is q8.
LEMMA Agree8 ==
  ASSUME DatabaseInv, query = 8
  PROVE  Agree
<1>1. Sound(db, Reads[8]) /\ Fits(db, Reads[8]) /\ DOMAIN db = DOMAIN Reads[8]
  BY SoundHere
<1>2. "nation" \in DOMAIN db
  BY <1>1 DEF Reads
<1>3. NationsDiffer(db)
  BY <1>2, NationsDifferHere
<1>20. "region" \in DOMAIN db
  BY <1>1 DEF Reads
<1>30. RegionsDiffer(db)
  BY <1>20, RegionsDifferHere
<1>4. Polars!Q8(db) = Sql!Q8(db) /\ Pandas!Q8(db) = Sql!Q8(db)
  BY <1>1, <1>3, <1>30, Answers8
<1>5. SqlAnswer = Sql!Q8(db) /\ PolarsAnswer = Polars!Q8(db) /\ PandasAnswer = Pandas!Q8(db)
  BY DEF SqlAnswer, PolarsAnswer, PandasAnswer
<1>6. \A quotient : InDataFrame(SqlAnswer, quotient) = SqlAnswer
  BY DEF InDataFrame
<1> QED BY <1>4, <1>5, <1>6 DEF Agree

\* A state whose query is q9.
LEMMA Agree9 ==
  ASSUME DatabaseInv, query = 9
  PROVE  Agree
<1>1. Sound(db, Reads[9]) /\ Fits(db, Reads[9]) /\ DOMAIN db = DOMAIN Reads[9]
  BY SoundHere
<1>4. Polars!Q9(db) = Sql!Q9(db) /\ Pandas!Q9(db) = Sql!Q9(db)
  BY <1>1, Answers9
<1>5. SqlAnswer = Sql!Q9(db) /\ PolarsAnswer = Polars!Q9(db) /\ PandasAnswer = Pandas!Q9(db)
  BY DEF SqlAnswer, PolarsAnswer, PandasAnswer
<1>6. \A quotient : InDataFrame(SqlAnswer, quotient) = SqlAnswer
  BY DEF InDataFrame
<1> QED BY <1>4, <1>5, <1>6 DEF Agree

\* A state whose query is q10.
LEMMA Agree10 ==
  ASSUME DatabaseInv, query = 10
  PROVE  Agree
<1>1. Sound(db, Reads[10]) /\ Fits(db, Reads[10]) /\ DOMAIN db = DOMAIN Reads[10]
  BY SoundHere
<1>4. Polars!Q10(db) = Sql!Q10(db) /\ Pandas!Q10(db) = Sql!Q10(db)
  BY <1>1, Answers10
<1>5. SqlAnswer = Sql!Q10(db) /\ PolarsAnswer = Polars!Q10(db) /\ PandasAnswer = Pandas!Q10(db)
  BY DEF SqlAnswer, PolarsAnswer, PandasAnswer
<1>6. \A quotient : InDataFrame(SqlAnswer, quotient) = SqlAnswer
  BY DEF InDataFrame
<1> QED BY <1>4, <1>5, <1>6 DEF Agree

\* A state whose query is q11.
LEMMA Agree11 ==
  ASSUME DatabaseInv, query = 11
  PROVE  Agree
<1>1. Sound(db, Reads[11]) /\ Fits(db, Reads[11]) /\ DOMAIN db = DOMAIN Reads[11]
  BY SoundHere
<1>4. Polars!Q11(db) = Sql!Q11(db) /\ Pandas!Q11(db) = Sql!Q11(db)
  BY <1>1, Answers11
<1>5. SqlAnswer = Sql!Q11(db) /\ PolarsAnswer = Polars!Q11(db) /\ PandasAnswer = Pandas!Q11(db)
  BY DEF SqlAnswer, PolarsAnswer, PandasAnswer
<1>6. \A quotient : InDataFrame(SqlAnswer, quotient) = SqlAnswer
  BY DEF InDataFrame
<1> QED BY <1>4, <1>5, <1>6 DEF Agree

\* A state whose query is q12.
LEMMA Agree12 ==
  ASSUME DatabaseInv, query = 12
  PROVE  Agree
<1>1. Sound(db, Reads[12]) /\ Fits(db, Reads[12]) /\ DOMAIN db = DOMAIN Reads[12]
  BY SoundHere
<1>4. Polars!Q12(db) = Sql!Q12(db) /\ Pandas!Q12(db) = Sql!Q12(db)
  BY <1>1, Answers12
<1>5. SqlAnswer = Sql!Q12(db) /\ PolarsAnswer = Polars!Q12(db) /\ PandasAnswer = Pandas!Q12(db)
  BY DEF SqlAnswer, PolarsAnswer, PandasAnswer
<1>6. \A quotient : InDataFrame(SqlAnswer, quotient) = SqlAnswer
  BY DEF InDataFrame
<1> QED BY <1>4, <1>5, <1>6 DEF Agree

\* A state whose query is q13.
LEMMA Agree13 ==
  ASSUME DatabaseInv, query = 13
  PROVE  Agree
<1>1. Sound(db, Reads[13]) /\ Fits(db, Reads[13]) /\ DOMAIN db = DOMAIN Reads[13]
  BY SoundHere
<1>4. Polars!Q13(db) = Sql!Q13(db) /\ Pandas!Q13(db) = Sql!Q13(db)
  BY <1>1, Answers13
<1>5. SqlAnswer = Sql!Q13(db) /\ PolarsAnswer = Polars!Q13(db) /\ PandasAnswer = Pandas!Q13(db)
  BY DEF SqlAnswer, PolarsAnswer, PandasAnswer
<1>6. \A quotient : InDataFrame(SqlAnswer, quotient) = SqlAnswer
  BY DEF InDataFrame
<1> QED BY <1>4, <1>5, <1>6 DEF Agree

\* A state whose query is q14.
LEMMA Agree14 ==
  ASSUME DatabaseInv, query = 14
  PROVE  Agree
<1>1. Sound(db, Reads[14]) /\ Fits(db, Reads[14]) /\ DOMAIN db = DOMAIN Reads[14]
  BY SoundHere
<1>4. /\ Polars!Q14(db) = Filled(Sql!Q14(db), NaN)
      /\ Pandas!Q14(db) = Filled(Sql!Q14(db), Pandas!ZeroDivisionError)
  BY <1>1, Answers14
<1>5. SqlAnswer = Sql!Q14(db) /\ PolarsAnswer = Polars!Q14(db) /\ PandasAnswer = Pandas!Q14(db)
  BY DEF SqlAnswer, PolarsAnswer, PandasAnswer
<1>6. \A quotient : InDataFrame(SqlAnswer, quotient) = Filled(SqlAnswer, quotient)
  BY DEF InDataFrame, Filled
<1> QED BY <1>4, <1>5, <1>6 DEF Agree

\* A state whose query is q15.
LEMMA Agree15 ==
  ASSUME DatabaseInv, query = 15
  PROVE  Agree
<1>1. Sound(db, Reads[15]) /\ Fits(db, Reads[15]) /\ DOMAIN db = DOMAIN Reads[15]
  BY SoundHere
<1>2. "lineitem" \in DOMAIN db /\ "supplier" \in DOMAIN db
  BY <1>1 DEF Reads
<1>3. HasSupplier(db)
  BY <1>2, HasSupplierHere
<1>4. Polars!Q15(db) = Sql!Q15(db) /\ Pandas!Q15(db) = Sql!Q15(db)
  BY <1>1, <1>3, Answers15
<1>5. SqlAnswer = Sql!Q15(db) /\ PolarsAnswer = Polars!Q15(db) /\ PandasAnswer = Pandas!Q15(db)
  BY DEF SqlAnswer, PolarsAnswer, PandasAnswer
<1>6. \A quotient : InDataFrame(SqlAnswer, quotient) = SqlAnswer
  BY DEF InDataFrame
<1> QED BY <1>4, <1>5, <1>6 DEF Agree

\* A state whose query is q16.
LEMMA Agree16 ==
  ASSUME DatabaseInv, query = 16
  PROVE  Agree
<1>1. Sound(db, Reads[16]) /\ Fits(db, Reads[16]) /\ DOMAIN db = DOMAIN Reads[16]
  BY SoundHere
<1>3. TypesAreSound(db)
  BY TypesAreSoundHere
<1>4. Polars!Q16(db) = Sql!Q16(db) /\ Pandas!Q16(db) = Sql!Q16(db)
  BY <1>1, <1>3, Answers16
<1>5. SqlAnswer = Sql!Q16(db) /\ PolarsAnswer = Polars!Q16(db) /\ PandasAnswer = Pandas!Q16(db)
  BY DEF SqlAnswer, PolarsAnswer, PandasAnswer
<1>6. \A quotient : InDataFrame(SqlAnswer, quotient) = SqlAnswer
  BY DEF InDataFrame
<1> QED BY <1>4, <1>5, <1>6 DEF Agree

\* A state whose query is q17.
LEMMA Agree17 ==
  ASSUME DatabaseInv, query = 17
  PROVE  Agree
<1>1. Sound(db, Reads[17]) /\ Fits(db, Reads[17]) /\ DOMAIN db = DOMAIN Reads[17]
  BY SoundHere
<1>2. "part" \in DOMAIN db
  BY <1>1 DEF Reads
<1>3. PartsDiffer(db)
  BY <1>2, PartsDifferHere
<1>4. /\ Polars!Q17(db) = Filled(Sql!Q17(db), NaN)
      /\ Pandas!Q17(db) = Filled(Sql!Q17(db), Pandas!ZeroDivisionError)
  BY <1>1, <1>3, Answers17
<1>5. SqlAnswer = Sql!Q17(db) /\ PolarsAnswer = Polars!Q17(db) /\ PandasAnswer = Pandas!Q17(db)
  BY DEF SqlAnswer, PolarsAnswer, PandasAnswer
<1>6. \A quotient : InDataFrame(SqlAnswer, quotient) = Filled(SqlAnswer, quotient)
  BY DEF InDataFrame, Filled
<1> QED BY <1>4, <1>5, <1>6 DEF Agree

\* A state whose query is q18.
LEMMA Agree18 ==
  ASSUME DatabaseInv, query = 18
  PROVE  Agree
<1>1. Sound(db, Reads[18]) /\ Fits(db, Reads[18]) /\ DOMAIN db = DOMAIN Reads[18]
  BY SoundHere
<1>4. Polars!Q18(db) = Sql!Q18(db) /\ Pandas!Q18(db) = Sql!Q18(db)
  BY <1>1, Answers18
<1>5. SqlAnswer = Sql!Q18(db) /\ PolarsAnswer = Polars!Q18(db) /\ PandasAnswer = Pandas!Q18(db)
  BY DEF SqlAnswer, PolarsAnswer, PandasAnswer
<1>6. \A quotient : InDataFrame(SqlAnswer, quotient) = SqlAnswer
  BY DEF InDataFrame
<1> QED BY <1>4, <1>5, <1>6 DEF Agree

\* A state whose query is q19.
LEMMA Agree19 ==
  ASSUME DatabaseInv, query = 19
  PROVE  Agree
<1>1. Sound(db, Reads[19]) /\ Fits(db, Reads[19]) /\ DOMAIN db = DOMAIN Reads[19]
  BY SoundHere
<1>4. /\ Polars!Q19(db) = Filled(Sql!Q19(db), NaN)
      /\ Pandas!Q19(db) = Filled(Sql!Q19(db), Pandas!ZeroDivisionError)
  BY <1>1, Answers19
<1>5. SqlAnswer = Sql!Q19(db) /\ PolarsAnswer = Polars!Q19(db) /\ PandasAnswer = Pandas!Q19(db)
  BY DEF SqlAnswer, PolarsAnswer, PandasAnswer
<1>6. \A quotient : InDataFrame(SqlAnswer, quotient) = Filled(SqlAnswer, quotient)
  BY DEF InDataFrame, Filled
<1> QED BY <1>4, <1>5, <1>6 DEF Agree

\* A state whose query is q20.
LEMMA Agree20 ==
  ASSUME DatabaseInv, query = 20
  PROVE  Agree
<1>1. Sound(db, Reads[20]) /\ Fits(db, Reads[20]) /\ DOMAIN db = DOMAIN Reads[20]
  BY SoundHere
<1>4. Polars!Q20(db) = Sql!Q20(db) /\ Pandas!Q20(db) = Sql!Q20(db)
  BY <1>1, Answers20
<1>5. SqlAnswer = Sql!Q20(db) /\ PolarsAnswer = Polars!Q20(db) /\ PandasAnswer = Pandas!Q20(db)
  BY DEF SqlAnswer, PolarsAnswer, PandasAnswer
<1>6. \A quotient : InDataFrame(SqlAnswer, quotient) = SqlAnswer
  BY DEF InDataFrame
<1> QED BY <1>4, <1>5, <1>6 DEF Agree

\* A state whose query is q21.
LEMMA Agree21 ==
  ASSUME DatabaseInv, query = 21
  PROVE  SupplierTwice \/ Agree
<1>1. Sound(db, Reads[21]) /\ Fits(db, Reads[21]) /\ DOMAIN db = DOMAIN Reads[21]
  BY SoundHere
<1>2. ~ SupplierTwice => ~ HasTwice21(db)
  BY DEF SupplierTwice, HasTwice21
<1>4. ~ SupplierTwice => Polars!Q21(db) = Sql!Q21(db) /\ Pandas!Q21(db) = Sql!Q21(db)
  BY <1>1, <1>2, Answers21
<1>5. SqlAnswer = Sql!Q21(db) /\ PolarsAnswer = Polars!Q21(db) /\ PandasAnswer = Pandas!Q21(db)
  BY DEF SqlAnswer, PolarsAnswer, PandasAnswer
<1>6. \A quotient : InDataFrame(SqlAnswer, quotient) = SqlAnswer
  BY DEF InDataFrame
<1> QED BY <1>4, <1>5, <1>6 DEF Agree

\* A state whose query is q22.
LEMMA Agree22 ==
  ASSUME DatabaseInv, query = 22
  PROVE  Agree
<1>1. Sound(db, Reads[22]) /\ Fits(db, Reads[22]) /\ DOMAIN db = DOMAIN Reads[22]
  BY SoundHere
<1>4. Polars!Q22(db) = Sql!Q22(db) /\ Pandas!Q22(db) = Sql!Q22(db)
  BY <1>1, Answers22
<1>5. SqlAnswer = Sql!Q22(db) /\ PolarsAnswer = Polars!Q22(db) /\ PandasAnswer = Pandas!Q22(db)
  BY DEF SqlAnswer, PolarsAnswer, PandasAnswer
<1>6. \A quotient : InDataFrame(SqlAnswer, quotient) = SqlAnswer
  BY DEF InDataFrame
<1> QED BY <1>4, <1>5, <1>6 DEF Agree

\* In every state of a database the engines agree, q21 where no supplier has
\* two lineitems in an order.
LEMMA EnginesAgree ==
  ASSUME DatabaseInv
  PROVE  SupplierTwice \/ Agree
<1>0. query \in 1..22
  BY SoundHere
<1>1. CASE query = 1
  BY <1>1, Agree1
<1>2. CASE query = 2
  BY <1>2, Agree2
<1>3. CASE query = 3
  BY <1>3, Agree3
<1>4. CASE query = 4
  BY <1>4, Agree4
<1>5. CASE query = 5
  BY <1>5, Agree5
<1>6. CASE query = 6
  BY <1>6, Agree6
<1>7. CASE query = 7
  BY <1>7, Agree7
<1>8. CASE query = 8
  BY <1>8, Agree8
<1>9. CASE query = 9
  BY <1>9, Agree9
<1>10. CASE query = 10
  BY <1>10, Agree10
<1>11. CASE query = 11
  BY <1>11, Agree11
<1>12. CASE query = 12
  BY <1>12, Agree12
<1>13. CASE query = 13
  BY <1>13, Agree13
<1>14. CASE query = 14
  BY <1>14, Agree14
<1>15. CASE query = 15
  BY <1>15, Agree15
<1>16. CASE query = 16
  BY <1>16, Agree16
<1>17. CASE query = 17
  BY <1>17, Agree17
<1>18. CASE query = 18
  BY <1>18, Agree18
<1>19. CASE query = 19
  BY <1>19, Agree19
<1>20. CASE query = 20
  BY <1>20, Agree20
<1>21. CASE query = 21
  BY <1>21, Agree21
<1>22. CASE query = 22
  BY <1>22, Agree22
<1> QED BY <1>0, <1>1, <1>2, <1>3, <1>4, <1>5, <1>6, <1>7, <1>8, <1>9, <1>10, <1>11, <1>12, <1>13,
           <1>14, <1>15, <1>16, <1>17, <1>18, <1>19, <1>20, <1>21, <1>22

(* Whatever rows the tables may hold, the polars version of every query    *)
(* answers each database of the schema as the SQL of duckdb does, up to    *)
(* what a sum of nothing is, q21 where no order has two lineitems of one   *)
(* supplier (src/queries/polars/q1.py to q22.py).                          *)
THEOREM PolarsAnswers == Spec => []PolarsAgrees
<1>1. DatabaseInv => PolarsAgrees
  BY EnginesAgree DEF PolarsAgrees, Agree
<1> QED BY <1>1, Databases, PTL

(* The same for the pandas version (src/queries/pandas/q1.py to q22.py).   *)
THEOREM PandasAnswers == Spec => []PandasAgrees
<1>1. DatabaseInv => PandasAgrees
  BY EnginesAgree DEF PandasAgrees, Agree
<1> QED BY <1>1, Databases, PTL
=============================================================================
